-------------------------------- MODULE Sources --------------------------------
(***************************************************************************)
(* Which adapter serves a data source: the cards, the compliance gates, the *)
(* real or mock driver, and what a real gated driver does without a        *)
(* licensed provider.  Pure; Stages resolves the sources of a job with it. *)
(*                                                                         *)
(* env:  demo (DEMO_MODE), mode (ADAPTER_MODE), override (SOURCE_*_MODE, or *)
(*       "none"), flags and keys (the settings that are set).              *)
(* cfg:  the DataSourceConfig row of each source: enabled, signed.         *)
(***************************************************************************)
EXTENDS Integers, Sequences, FiniteSets

GreenSources == {"google_maps", "company_websites", "directories"}
AmberSources == {"yellow_pages", "clutch", "facebook_signals", "serp_jobs"}
RedSources   == {"indeed", "linkedin"}
SourceNames  == GreenSources \cup AmberSources \cup RedSources

\* Sources that yield companies; the others only deep-dive into known ones.
DiscoverySources ==
  {"google_maps", "directories", "yellow_pages", "clutch", "indeed", "linkedin"}

Posture(name) ==
  CASE name \in GreenSources -> 0
    [] name \in AmberSources -> 1
    [] name \in RedSources   -> 2

\* The card of a source (its mock's class attributes): non-green ones need a
\* sign-off, and each has the flag that gates it.
RequiresSignoff(name) == Posture(name) > 0

GateFlag(name) ==
  CASE name = "facebook_signals" -> "enable_facebook_signals"
    [] name = "linkedin"         -> "enable_linkedin_connector"
    [] OTHER                     -> "enable_compliance_gated_sources"

\* The sources run_discovery asks for a job: the selected ones that discover, or
\* Google Maps.
Asked(selected) ==
  LET chosen == selected \cap DiscoverySources
  IN  IF chosen = {} THEN {"google_maps"} ELSE chosen

\* mode_for: an override wins over the demo mode, which wins over ADAPTER_MODE.
Mode(name, env) ==
  IF env.override[name] # "none" THEN env.override[name]
  ELSE IF env.demo THEN "mock" ELSE env.mode

\* The factories of the real drivers: directories have none, two need a key.
HasReal(name, env) ==
  /\ name # "directories"
  /\ name = "google_maps" => "google_maps_api_key" \in env.keys
  /\ name = "serp_jobs"   => "serp_api_key" \in env.keys

\* Mutant of Driver: without a real driver the mock serves.
DriverOrMock(name, env) ==
  IF Mode(name, env) # "mock" /\ HasReal(name, env) THEN "real" ELSE "mock"

\* _resolve_adapter: outside mock mode the real driver, or none.
Driver(name, env) ==
  IF Mode(name, env) = "mock" THEN "mock"
  ELSE IF HasReal(name, env) THEN "real" ELSE "skip"

\* Mutant of Permitted: a source that is enabled is taken as signed off.
Enabled(name, cfg, env) == Posture(name) = 0 \/ cfg[name].enabled

\* resolve_source: green sources always, the others if enabled for the tenant,
\* signed off and not gated by the flag.
Permitted(name, cfg, env) ==
  \/ Posture(name) = 0
  \/ /\ cfg[name].enabled
     /\ RequiresSignoff(name) => cfg[name].signed
     /\ GateFlag(name) \in env.flags

Resolve(name, cfg, env) ==
  IF Permitted(name, cfg, env) THEN Driver(name, env) ELSE "skip"

\* discover of a real gated driver raises SourceUnavailableError when the tenant has
\* no licensed provider; LinkedIn's always does.
Unavailable(name, driver, licensed) ==
  /\ driver = "real"
  /\ \/ name = "linkedin"
     \/ name \in {"yellow_pages", "clutch", "indeed"} /\ name \notin licensed

\* _resolve_provider: enrichment, verifier and scorer are real outside mock mode
\* when their key is set, else the mock.
Provider(key, env) ==
  IF ~ env.demo /\ env.mode # "mock" /\ key \in env.keys THEN "real" ELSE "mock"
=============================================================================
