----------------------------- MODULE MCMiningJob -----------------------------
(* TLC instances of MiningJob: workers and requests are model values.       *)
EXTENDS MiningJob, TLC

\* Worker slots are interchangeable, and so are request slots.
Symmetry == Permutations(Workers) \cup Permutations(Requests)
=============================================================================
