------------------------------ MODULE MCCampaign ------------------------------
(* TLC instances of Campaign: contacts, workers and requests are model values. *)
EXTENDS Campaign, TLC

\* Contacts are interchangeable, and so are worker and request slots.
Symmetry == Permutations(Contacts) \cup Permutations(Workers)
              \cup Permutations(Requests)

\* What EachMessageOnce says without its exception: nothing keeps two workers from
\* taking up one message at once (MCCampaignShared).
NoMessageMailedTwice == \A id \in Ids : mailed[id] <= 1 + faults
=============================================================================
