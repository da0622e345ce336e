---------------------------- MODULE ValidationRules ----------------------------
(***************************************************************************)
(* A tenant's validation rules between the settings screen that edits them *)
(* and the decisions taken with them: one JSON row, which the screen reads *)
(* and writes under its own names and the pipeline under others.  A save   *)
(* rewrites the row as it was when the request read it.                    *)
(***************************************************************************)
EXTENDS EmailDecision

CONSTANTS
  Admins,     \* admins with a save in progress at the same time
  Patches,    \* what they may change: <<field, value>>
  Emails,     \* addresses to decide on:
              \*   [local, tokens, domain, syntax_ok, disposable_ok, dead, takes_mail]
  Answers,    \* what the LLM and the verifier would say: [llm, mv]
  Selections  \* validation stages a job has selected

\* A threshold is a percentage (ValidationRulesPatch has ge=0, le=1); a save changes one
\* field of the screen.
RulesAssumption ==
  \A change \in Patches :
    \/ change[1] = "llm_threshold" /\ change[2] \in 0 .. 100
    \/ change[1] \in {"role_based_keywords", "catch_all_handling", "risk_handling",
                      "disposable_domains", "unknown_retry_policy"}

VARIABLES
  stored,     \* ValidationRuleSet.rules
  edit,       \* edit[a]: the row a's request is about to write, or NoEdit
  verdict     \* the last decision, with what it was taken on, or NoVerdict

vars == <<stored, edit, verdict>>

NoEdit    == [on |-> FALSE]
NoVerdict == [status |-> "none"]

\* A row of an earlier seed: "adjudicate" is no mode the pipeline knows.
LegacyRules == [DefaultRules EXCEPT !.llm_mode = "adjudicate"]

Init ==
  /\ stored \in {DefaultRules, LegacyRules}
  /\ edit = [a \in Admins |-> NoEdit] /\ verdict = NoVerdict

\* PATCH /validation-rules reads the row ...
Open(a, change) ==
  /\ ~ edit[a].on
  /\ edit' = [edit EXCEPT ![a] = [on |-> TRUE, row |-> PatchRules(stored, change[1], change[2])]]
  /\ verdict' = NoVerdict /\ UNCHANGED stored

\* ... and writes all of it.
Save(a) ==
  /\ edit[a].on
  /\ stored' = edit[a].row
  /\ edit' = [edit EXCEPT ![a] = NoEdit]
  /\ verdict' = NoVerdict

\* run_validation_for_candidate.  check_disposable is asked about the address alone,
\* without the tenant's own list of domains.  A verifier that calls a mailbox valid has
\* found its domain.  One decision is looked at between two steps of the admins.
Validate(email, answer, selected, suppressed) ==
  LET rules == RulesFrom(stored)
      local == [syntax_ok |-> email.syntax_ok, disposable_ok |-> email.disposable_ok,
                role_based |-> IsRoleBased(email, rules.role_keywords), mx |-> MxFor(email)]
      sig   == Signals(local, answer, selected, suppressed, rules)
  IN  /\ verdict = NoVerdict
      /\ answer.mv = "valid" => email.takes_mail
      /\ verdict' = [status |-> Decide(sig, rules), sig |-> sig, email |-> email]
      /\ UNCHANGED <<stored, edit>>

Next ==
  \/ \E a \in Admins : Save(a) \/ \E change \in Patches : Open(a, change)
  \/ \E email \in Emails, answer \in Answers, selected \in Selections,
        suppressed \in BOOLEAN : Validate(email, answer, selected, suppressed)

Spec == Init /\ [][Next]_vars

-----------------------------------------------------------------------------
(* Properties                                                               *)

\* Under any row that was seeded or saved, by however many overlapping saves, an address
\* is VERIFIED only if it parses, is on no blocklist of the package, is neither suppressed
\* nor a role inbox, and the verifier, if asked, found nothing against it; a catch-all
\* needs the tenant's explicit "allow".
VerifiedPassedGates ==
  verdict.status = "VERIFIED" =>
    LET sig == verdict.sig
    IN  /\ verdict.email.syntax_ok /\ verdict.email.disposable_ok /\ ~ sig.suppressed
        /\ (verdict.email.local \in stored.role_keywords \/
             (stored.role_keywords = {} /\ verdict.email.local \in {"info", "sales"}))
              => stored.allow_role_based
        /\ sig.mv \in {"none", "valid", "catch_all"}
        /\ sig.mv = "catch_all" => stored.catch_all_policy = "allow"

\* Of what the screen shows, the keyword list is what the pipeline decides with, so is a
\* handling the pipeline knows the word for, and the threshold is that of the LLM gate
\* where the mode is "hard".  The other fields decide nothing: ScreenDecides.
ShownIsDecided ==
  LET shown == RulesShown(stored)  rules == RulesFrom(stored)
  IN  /\ shown.role_based_keywords = rules.role_keywords
      /\ shown.llm_threshold = rules.llm_threshold
      /\ shown.catch_all_handling \in {"review", "allow"}
           => shown.catch_all_handling = rules.catch_all_policy
      /\ shown.risk_handling \in {"review", "reject"} => shown.risk_handling = rules.risk_policy

\* decide rejects an address whose "Domain has no MX/A record accepting mail", and
\* pipeline/validation.py tells how "the worker that calls check_mx" handles DNS that
\* fails.  An address is VERIFIED only if its domain takes mail.
VerifiedTakesMail == verdict.status = "VERIFIED" => verdict.email.takes_mail

\* pipeline/validation.py: the accepted literals are "mirrored from the Validation Rules
\* Settings screen", which says of its list of disposable domains "Emails on these domains
\* are rejected as invalid" and of its threshold "Minimum LLM score for an email to pass".
\* An address is dealt with as the screen says.
ScreenDecides ==
  LET shown == RulesShown(stored)  IN
  verdict.status = "VERIFIED" =>
    /\ verdict.email.domain \notin shown.disposable_domains
    /\ verdict.sig.llm = -1 \/ verdict.sig.llm >= shown.llm_threshold
    /\ verdict.sig.mv = "catch_all" => shown.catch_all_handling \in {"accept", "allow"}
=============================================================================
