-------------------------------- MODULE MCStages --------------------------------
(* TLC instance of Stages: settings of the tenant worth telling apart. *)
EXTENDS Stages, TLC

NoOverride == [s \in Src!SourceNames |-> "none"]
Rows(enabled, signed) ==
  [s \in Src!SourceNames |-> [enabled |-> s \in enabled, signed |-> s \in signed]]

Env(mode) == [demo |-> FALSE, mode |-> mode, override |-> NoOverride,
              flags |-> {"enable_compliance_gated_sources", "enable_facebook_signals"},
              keys |-> {"google_maps_api_key"}]

Both == {"yellow_pages", "facebook_signals"}

\* Mock mode; real mode where a gated source has a licensed provider, another is not
\* signed off and the green one has no key; real mode without a provider.
SomeConfigs ==
  {[cfg |-> Rows(Both, Both), env |-> Env("mock"), licensed |-> {}],
   [cfg |-> Rows(Both, {"yellow_pages"}), env |-> [Env("real") EXCEPT !.keys = {}],
    licensed |-> {"yellow_pages"}],
   [cfg |-> Rows(Both, Both), env |-> Env("real"), licensed |-> {}]}
\* Addresses are interchangeable.
Symmetry == Permutations(Inboxes)

SomeSightings == [j1 |-> 1, j2 |-> 2]

SomeSelected == {"google_maps", "yellow_pages", "facebook_signals"}
=============================================================================
