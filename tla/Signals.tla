------------------------------- MODULE Signals -------------------------------
(***************************************************************************)
(* The two sources that add hiring signals to a known firm: SERP jobs and  *)
(* the compliance-gated Facebook source, which also discovers firms by     *)
(* their public page.  A run makes its calls one after the other, each     *)
(* with the key or credential read before it; while a call is prepared,    *)
(* and between two, an admin may change the SERP key or the page           *)
(* credential.  A call that fails finds nothing and the run goes on.       *)
(***************************************************************************)
EXTENDS Integers, Sequences, FiniteSets, Functions

CONSTANTS
  SerpKeys,    \* keys an admin may set
  NoKey,
  MaxChanges   \* bound: changes of the access

Creds == {"none", "active", "unreadable"}

SignalAssumption ==
  NoKey \notin SerpKeys /\ (SerpKeys \cup {NoKey}) \cap Creds = {} /\ MaxChanges \in Nat

VARIABLES
  serp,      \* the SERP key in the settings of the run's process
  inline,    \* is that process the API's, which reads its settings again after a change
  cred,      \* the tenant's page credential
  run,       \* [source, at, keyThen, domain]: the run in progress
  held,      \* [to, with]: the call being prepared
  signals,   \* signals of the run: [source, firm]
  pages,     \* firms discovered by their page, in order
  calls,     \* calls made: [to, with]
  skipped,   \* was the run audited as skipped for want of access
  fresh,     \* history: the access in force at some time since the run's last call
  changes

vars == <<serp, inline, cred, run, held, signals, pages, calls, skipped, fresh, changes>>

NoCall == [to |-> "nobody", with |-> NoKey]

InForce == ({serp} \ {NoKey}) \cup ({cred} \cap {"active"})

Init ==
  /\ serp \in SerpKeys \cup {NoKey} /\ inline \in BOOLEAN /\ cred \in Creds
  /\ run \in [source : {"serp_jobs", "facebook", "discovery"}, at : {"start"},
              keyThen : {NoKey}, domain : BOOLEAN]
  /\ held = NoCall /\ signals = {} /\ pages = <<>> /\ calls = {} /\ skipped = FALSE
  /\ fresh = InForce /\ changes = 0

-----------------------------------------------------------------------------
(* Pure parts                                                               *)

\* Links of a web search, by what they lead to.  "person" is a profile at an address of
\* its own (facebook.com/jane.doe), "profile" one under profile.php or people/, "group" a
\* group, an event or a permalink; "studio" is a page whose name begins with photo.
Links == {"page", "page?ref", "post of page", "other page", "studio", "person", "profile",
          "group", "bare host", "elsewhere"}

\* Mutant of PageOf: any path on the host counts.
AnyOnHost(link) == CASE link \in {"bare host", "elsewhere"} -> "none"
                     [] link \in {"page?ref", "post of page"} -> "page" [] OTHER -> link

\* facebook_page_from_url: the first segment of the path, without what follows it, unless
\* the path begins as those of profiles, groups, events and photos do.  An address that
\* is a name alone reads the same for a firm and for a person.
PageOf(link) ==
  CASE link \in {"page", "page?ref", "post of page"} -> "page"
    [] link \in {"other page", "person"}             -> link
    [] OTHER                                         -> "none"

\* _company_matches: one firm's name is part of the other's.
Matches(posting) == posting \in {"the firm", "the firm ltd"}

Postings == {"the firm", "the firm ltd", "another firm", "nameless"}

-----------------------------------------------------------------------------
(* The steps of a run                                                       *)

\* Mutant of Key: the key that access was checked with is used for the whole run.
KeyAtStart == IF run.at = "start" THEN serp ELSE run.keyThen

\* The settings are read again before every call.
Key == serp

Goto(step) == run' = [run EXCEPT !.at = step, !.keyThen = IF @ = NoKey THEN serp ELSE @]

Skip ==
  /\ skipped' = TRUE /\ Goto("done")
  /\ UNCHANGED <<held, signals, pages, calls, fresh>>

\* What is read to make a call with is held until the call goes out; a step that finds
\* no access makes none.
Prepare(to, with, next) ==
  /\ held = NoCall
  /\ IF with \in {NoKey, "none", "unreadable"}
     THEN Goto(next) /\ UNCHANGED held
     ELSE held' = [to |-> to, with |-> with] /\ UNCHANGED run
  /\ UNCHANGED <<signals, pages, calls, skipped, fresh>>

Call(next) ==
  /\ held # NoCall /\ held' = NoCall
  /\ calls' = calls \cup {held} /\ fresh' = InForce
  /\ Goto(next) /\ UNCHANGED skipped

\* SerpJobsAdapter.extract: one search, its postings matched back to the firm.
SerpJobs ==
  /\ run.source = "serp_jobs" /\ run.at = "start"
  /\ \/ Prepare("jobs", Key, "done")
     \/ /\ Call("done") /\ UNCHANGED pages
        /\ \E rows \in SUBSET Postings :
             signals' = {[source |-> "serp_jobs", firm |-> f] : f \in {p \in rows : Matches(p)}}

\* FacebookSignalsAdapter.check_access.
CheckAccess ==
  /\ run.source = "facebook" /\ run.at = "start"
  /\ IF Key = NoKey /\ cred = "none" THEN Skip
     ELSE Goto("page") /\ UNCHANGED <<held, signals, pages, calls, skipped, fresh>>

\* Mode 1: the authorised page's public fields, if the credential still is there
\* and its secret can be read.
ReadPage ==
  /\ run.at = "page"
  /\ \/ Prepare("graph", cred, "jobs")
     \/ /\ Call("jobs") /\ UNCHANGED pages
        /\ \E hiring \in SUBSET {"the firm"} :
             signals' = signals \cup {[source |-> "facebook_page", firm |-> f] : f \in hiring}

\* Mode 3: postings found for the firm's name, all of them; then a careers page on
\* the firm's own domain.
FacebookJobs ==
  /\ run.at = "jobs"
  /\ \/ Prepare("jobs", Key, "careers")
     \/ /\ Call("careers") /\ UNCHANGED pages
        /\ \E rows \in SUBSET Postings :
             signals' = signals \cup {[source |-> "serp_jobs", firm |-> f] : f \in rows}

Careers ==
  /\ run.at = "careers"
  /\ \/ Prepare("search", IF run.domain THEN Key ELSE NoKey, "done")
     \/ /\ Call("done") /\ UNCHANGED pages
        /\ \E found \in SUBSET {"the firm"} :
             signals' = signals \cup {[source |-> "careers_page", firm |-> f] : f \in found}

\* Mode 2: the pages of a search, each once.
Discover ==
  /\ run.source = "discovery"
  /\ \/ /\ run.at = "start"
        /\ IF Key = NoKey THEN Skip
           ELSE Goto("search") /\ UNCHANGED <<held, signals, pages, calls, skipped, fresh>>
     \/ run.at = "search" /\ Prepare("search", Key, "done")
     \/ /\ run.at = "search" /\ Call("done") /\ UNCHANGED signals
        /\ \E links \in UNION {[1 .. n -> Links] : n \in 0 .. 3} :
             LET found == [i \in DOMAIN links |-> PageOf(links[i])]
                 new   == {i \in DOMAIN links : found[i] # "none" /\ \A j \in 1..(i - 1) : found[j] # found[i]}
             IN  pages' = [n \in 1..Cardinality(new) |->
                             found[CHOOSE i \in new : Cardinality({j \in new : j <= i}) = n]]

Step == SerpJobs \/ CheckAccess \/ ReadPage \/ FacebookJobs \/ Careers \/ Discover

\* The credential is stored, lost or deleted, or the API process gets another key.
ChangeAccess ==
  /\ changes < MaxChanges /\ changes' = changes + 1
  /\ \/ inline /\ serp' \in (SerpKeys \cup {NoKey}) \ {serp} /\ UNCHANGED cred
     \/ cred' \in Creds \ {cred} /\ UNCHANGED serp
  /\ fresh' = fresh \cup InForce'
  /\ UNCHANGED <<inline, run, held, signals, pages, calls, skipped>>

\* A worker gets another key when it starts again, and then starts the run over.
WorkerRestarts ==
  /\ ~ inline /\ changes < MaxChanges /\ changes' = changes + 1
  /\ serp' \in SerpKeys \cup {NoKey} /\ UNCHANGED <<inline, cred>>
  /\ run' = [run EXCEPT !.at = "start", !.keyThen = NoKey] /\ held' = NoCall
  /\ signals' = {} /\ pages' = <<>> /\ calls' = {} /\ skipped' = FALSE /\ fresh' = InForce'

Next == (Step /\ UNCHANGED <<serp, inline, cred, changes>>) \/ ChangeAccess \/ WorkerRestarts

Spec == Init /\ [][Next]_vars

-----------------------------------------------------------------------------
(* Properties                                                               *)

\* What was taken away or replaced in the middle of a run serves at most the call that
\* was being prepared: every call goes out with a key or credential that has been in
\* force since the run's last call (_serp_key and _page_credential are asked before each).
\* For a key that is in the settings of the run's process, which in a worker stay as
\* they were when it started.
CallHasAccess ==
  \A c \in calls' \ calls : c.with \in fresh

\* Discovery brings each page in once, however its links are written, and nothing whose
\* path begins as those of profiles, groups, events and photos do.  A person's profile at an
\* address of its own is brought in: the path does not tell it from a page, and "rejects
\* personal profiles ... so we never capture personal-profile data"
\* (facebook_signals.py:140-142) is more than the code does.
PublicPagesOnce ==
  Range(pages) \subseteq {"page", "other page", "person"} /\ IsInjective(pages)
=============================================================================
