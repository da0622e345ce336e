---------------------------- MODULE EmailDecision ----------------------------
(***************************************************************************)
(* The pure part of email validation: the tenant's rules as decoded from   *)
(* the settings row, the local gates (role inbox, MX as the stage has it), *)
(* the decision that folds all signals into one FinalEmailStatus, and the  *)
(* gate of the sales-ready list.  No state: ValidationRules and Leads use  *)
(* these operators in their steps.                                         *)
(*                                                                         *)
(* Scores are in hundredths.  An address is its local part's tokens, what  *)
(* the syntax and blocklist libraries say of it, whether its domain is on  *)
(* the list of dead ones, and what DNS would say.                          *)
(***************************************************************************)
EXTENDS Integers, Sequences, FiniteSetsExt

FinalStatuses ==
  {"VERIFIED", "INVALID_SYNTAX", "DISPOSABLE_REJECTED", "ROLE_BASED_REJECTED",
   "MX_FAILED", "LLM_LOW_CONFIDENCE", "PROVIDER_INVALID", "CATCH_ALL_REVIEW",
   "RISK_REVIEW", "UNKNOWN_RETRY", "SUPPRESSED"}

-----------------------------------------------------------------------------
(* RuleSet.from_dict                                                        *)

\* A stored value that is not one of the accepted literals counts as default.
OneOf(value, accepted, default) == IF value \in accepted THEN value ELSE default

Threshold(raw) == Max({0, Min({raw, 100})})

\* Mutant of RulesFrom: any stored mode but "advisory" is a hard gate, and a
\* policy is taken as it is stored.
RulesTrusted(raw) ==
  [llm_threshold    |-> Threshold(raw.llm_threshold),
   llm_mode         |-> IF raw.llm_mode = "advisory" THEN "advisory" ELSE "hard",
   role_keywords    |-> raw.role_keywords,
   allow_role_based |-> raw.allow_role_based,
   catch_all_policy |-> raw.catch_all_policy,
   risk_policy      |-> raw.risk_policy]

\* The tolerant decoding: the threshold is clamped, an unknown mode or policy
\* is the soft one, an empty keyword list is the built-in list.
RulesFrom(raw) ==
  [llm_threshold    |-> Threshold(raw.llm_threshold),
   llm_mode         |-> OneOf(raw.llm_mode, {"advisory", "hard"}, "advisory"),
   role_keywords    |-> IF raw.role_keywords = {} THEN {"info", "sales"}
                                                  ELSE raw.role_keywords,
   allow_role_based |-> raw.allow_role_based,
   catch_all_policy |-> OneOf(raw.catch_all_policy, {"review", "allow"}, "review"),
   risk_policy      |-> OneOf(raw.risk_policy, {"review", "reject"}, "review")]

-----------------------------------------------------------------------------
(* The local gates                                                          *)

\* is_role_based: the whole local part, or one of its tokens, is a keyword;
\* a keyword inside a longer word is not.
IsRoleBased(email, keywords) ==
  email.local \in keywords \/ email.tokens \cap keywords # {}

\* _mx_for: a short list of dead domains; DNS is not asked (check_mx has no caller).
MxFor(email) == IF email.dead THEN "fail" ELSE "pass"

-----------------------------------------------------------------------------
(* The decision                                                             *)

\* The verifier's part of decide, reached with every hard gate passed.  "none":
\* the verifier did not run.
VerifierVerdict(mv, rules) ==
  CASE mv \in {"none", "valid"} -> "VERIFIED"
    [] mv = "invalid"           -> "PROVIDER_INVALID"
    [] mv = "catch_all"         -> IF rules.catch_all_policy = "allow"
                                   THEN "VERIFIED" ELSE "CATCH_ALL_REVIEW"
    [] mv = "risk"              -> IF rules.risk_policy = "reject"
                                   THEN "PROVIDER_INVALID" ELSE "RISK_REVIEW"
    [] OTHER                    -> "UNKNOWN_RETRY"

\* The hard gates in order of precedence, each with the status it gives.  llm is
\* a score, -1 if the LLM did not run.
Gates(sig, rules) ==
  << [fails |-> sig.suppressed,        status |-> "SUPPRESSED"],
     [fails |-> ~ sig.syntax_ok,       status |-> "INVALID_SYNTAX"],
     [fails |-> ~ sig.disposable_ok,   status |-> "DISPOSABLE_REJECTED"],
     [fails |-> sig.role_based /\ ~ rules.allow_role_based,
                                       status |-> "ROLE_BASED_REJECTED"],
     [fails |-> sig.mx = "fail",       status |-> "MX_FAILED"],
     [fails |-> rules.llm_mode = "hard" /\ sig.llm \in 0..(rules.llm_threshold - 1),
                                       status |-> "LLM_LOW_CONFIDENCE"] >>

FirstFailure(gates) == CHOOSE i \in DOMAIN gates :
                         gates[i].fails /\ \A j \in 1..(i - 1) : ~ gates[j].fails

\* Mutant of Decide: the verifier's answer comes before the gates.
VerifierFirst(sig, rules) ==
  IF sig.mv \in {"invalid", "valid"} \/ \A i \in 1..6 : ~ Gates(sig, rules)[i].fails
  THEN VerifierVerdict(sig.mv, rules)
  ELSE LET g == Gates(sig, rules) IN g[FirstFailure(g)].status

\* decide: the first gate that fails, or what the verifier says.
Decide(sig, rules) ==
  LET g == Gates(sig, rules)
  IN  IF \E i \in DOMAIN g : g[i].fails THEN g[FirstFailure(g)].status
                                        ELSE VerifierVerdict(sig.mv, rules)

\* run_validation_for_candidate: the LLM and the verifier are only asked about
\* an address that passed the cheap gates, and only if the job selected them
\* (no selection means all).  `answer` is what they would say.
HardFailed(local, rules) ==
  \/ ~ local.syntax_ok
  \/ ~ local.disposable_ok
  \/ local.role_based /\ ~ rules.allow_role_based
  \/ local.mx = "fail"

Signals(local, answer, selected, suppressed, rules) ==
  LET asked(stage) == ~ HardFailed(local, rules) /\ (selected = {} \/ stage \in selected)
  IN  [syntax_ok     |-> local.syntax_ok,
       disposable_ok |-> local.disposable_ok,
       role_based    |-> local.role_based,
       mx            |-> IF local.syntax_ok THEN local.mx ELSE "skipped",
       llm           |-> IF asked("llm") THEN answer.llm ELSE -1,
       mv            |-> IF asked("millionverifier") THEN answer.mv ELSE "none",
       suppressed    |-> suppressed]

-----------------------------------------------------------------------------
(* The sales-ready gate                                                     *)

\* is_sales_ready: exactly VERIFIED, and none of the disqualifying flags.
IsSalesReady(status, flags, allow_role_based) ==
  /\ status = "VERIFIED"
  /\ flags \cap {"suppressed", "bounced", "unsubscribed"} = {}
  /\ flags \cap {"disposable", "provider_invalid", "mx_failed"} = {}
  /\ "role_based" \in flags => allow_role_based

-----------------------------------------------------------------------------
(* The settings screen                                                      *)

\* default_validation_rules, with the keys only the screen knows still unset.  The
\* attempts of unknown_retry are left out: nothing reads them but the screen.
DefaultRules ==
  [llm_threshold |-> 55, llm_mode |-> "advisory", role_keywords |-> {"info", "sales"},
   allow_role_based |-> FALSE, catch_all_policy |-> "review", risk_policy |-> "review",
   role_based_keywords |-> {}, catch_all_handling |-> "unset", risk_handling |-> "unset",
   disposable_domains |-> {}, unknown_retry_policy |-> "unset"]

\* Mutant of PatchRules: the keys of the screen are stored, not the pipeline's.
PatchView(rules, field, value) ==
  CASE field = "llm_threshold"       -> [rules EXCEPT !.llm_threshold = value]
    [] field = "role_based_keywords" -> [rules EXCEPT !.role_based_keywords = value]
    [] field = "catch_all_handling"  -> [rules EXCEPT !.catch_all_handling = value]
    [] field = "risk_handling"       -> [rules EXCEPT !.risk_handling = value]
    [] OTHER                         -> rules

\* patch_validation_rules: a field of the screen is stored under its own name and, where
\* the pipeline has another one for it, under that as well.
PatchRules(rules, field, value) ==
  CASE field = "llm_threshold" -> [rules EXCEPT !.llm_threshold = value]
    [] field = "role_based_keywords" ->
         [rules EXCEPT !.role_based_keywords = value, !.role_keywords = value]
    [] field = "catch_all_handling" ->
         [rules EXCEPT !.catch_all_handling = value, !.catch_all_policy = value]
    [] field = "risk_handling" ->
         [rules EXCEPT !.risk_handling = value, !.risk_policy = value]
    [] field = "disposable_domains"   -> [rules EXCEPT !.disposable_domains = value]
    [] field = "unknown_retry_policy" -> [rules EXCEPT !.unknown_retry_policy = value]

\* _rules_to_out: what the screen shows.
RulesShown(rules) ==
  [role_based_keywords |-> IF rules.role_based_keywords # {}
                           THEN rules.role_based_keywords
                           ELSE IF rules.role_keywords # {} THEN rules.role_keywords
                           ELSE {"info", "sales"},
   llm_threshold      |-> rules.llm_threshold,
   catch_all_handling |-> IF rules.catch_all_handling # "unset"
                          THEN rules.catch_all_handling ELSE rules.catch_all_policy,
   risk_handling      |-> IF rules.risk_handling # "unset"
                          THEN rules.risk_handling ELSE rules.risk_policy,
   disposable_domains |-> rules.disposable_domains,
   unknown_retry_policy |-> IF rules.unknown_retry_policy # "unset"
                            THEN rules.unknown_retry_policy ELSE "retry"]
=============================================================================
