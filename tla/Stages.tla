-------------------------------- MODULE Stages ---------------------------------
(***************************************************************************)
(* What the discovery, extraction and enrichment stages of mining jobs do  *)
(* to a tenant's companies and contacts.  A stage is one transaction: its  *)
(* rows are its own until it commits, and it reads what others committed   *)
(* before each query.  The order of stages and what may interrupt them is  *)
(* MiningJob's; here each job runs them once, or fails in discovery.       *)
(*                                                                         *)
(* A company is known by its dedupe key (domain, else name, phone,         *)
(* address), NoKey if it has none; people have names and addresses.        *)
(***************************************************************************)
EXTENDS Integers, Sequences, FiniteSets

CONSTANTS
  Jobs,
  Followed,     \* bound: jobs whose stages after discovery are followed
  Firms,        \* dedupe keys of companies
  NoKey,
  People,       \* names found on websites
  Inboxes,      \* email addresses
  Nothing,      \* a missing name or address
  Selected,     \* selected_sources of the jobs
  Configs,      \* records [cfg, env, licensed] the tenant may have
  MaxContacts,  \* MAX_CONTACTS_PER_COMPANY
  MaxSightings, \* bound: companies the sources yield to each job
  MaxFound      \* bound: contacts on a website

ASSUME StagesAssumption ==
  /\ Followed \subseteq Jobs /\ NoKey \notin Firms /\ Nothing \notin People \cup Inboxes
  /\ MaxContacts \in Nat \ {0} /\ MaxFound \in Nat /\ MaxSightings \in [Jobs -> Nat]

Src == INSTANCE Sources

VARIABLES
  config,     \* the tenant's settings, read at each use and constant here
  companies,  \* committed Company rows, in order of insertion
  contacts,   \* Contact rows
  stage,      \* what each job is doing
  todo,       \* sources, companies or contacts still to do in that stage
  drafts,     \* companies a running discovery has inserted
  mends,      \* committed companies a running discovery has merged into, by row
  runs,       \* SourceRuns logged as SKIPPED
  overlap     \* history: two discoveries of one key overlapped

vars == <<config, companies, contacts, stage, todo, drafts, mends, runs, overlap>>

StageNames == {"idle", "discovery", "crawl", "recrawl", "enrich", "retry", "done", "failed"}
Sites      == {"unseen", "ok", "blocked", "unreachable"}

TypeOK ==
  /\ config \in Configs
  /\ \A i \in DOMAIN companies :
       /\ companies[i].key \in Firms \cup {NoKey} /\ companies[i].job \in Jobs
       /\ companies[i].site \in Sites /\ companies[i].crawls \in 0..2
  /\ \A k \in DOMAIN contacts :
       /\ contacts[k].firm \in DOMAIN companies
       /\ contacts[k].name \in People \cup {Nothing}
       /\ contacts[k].email \in Inboxes \cup {Nothing}
       /\ contacts[k].candidates \subseteq Inboxes
       /\ contacts[k].status \in {"not_needed", "pending", "enriched", "no_result"}
  /\ stage \in [Jobs -> StageNames]
  /\ runs \subseteq Jobs \X Src!SourceNames
  /\ overlap \in BOOLEAN

Init ==
  /\ config \in Configs
  /\ companies = <<>> /\ contacts = <<>>
  /\ stage = [j \in Jobs |-> "idle"] /\ todo = [j \in Jobs |-> {}]
  /\ drafts = [j \in Jobs |-> <<>>] /\ mends = [j \in Jobs |-> <<>>]
  /\ runs = {} /\ overlap = FALSE

Worst(a, b) == IF a >= b THEN a ELSE b

-----------------------------------------------------------------------------
(* Discovery                                                                *)

BeginDiscovery(j) ==
  /\ stage[j] = "idle"
  /\ stage' = [stage EXCEPT ![j] = "discovery"]
  /\ todo' = [todo EXCEPT ![j] = Src!Asked(Selected)]
  /\ UNCHANGED <<config, companies, contacts, drafts, mends, runs, overlap>>

Resolved(s) == Src!Resolve(s, config.cfg, config.env)

\* A source that may not run is logged and skipped.
SkipSource(j, s) ==
  /\ stage[j] = "discovery" /\ s \in todo[j]
  /\ Resolved(s) = "skip"
  /\ runs' = runs \cup {<<j, s>>}
  /\ todo' = [todo EXCEPT ![j] = @ \ {s}]
  /\ UNCHANGED <<config, companies, contacts, stage, drafts, mends, overlap>>

Evidence(s) == [source |-> s, driver |-> Resolved(s)]

\* Mutant of Known: only the job's own companies are looked up.
KnownOfJob(j, key) ==
  {i \in DOMAIN companies : key # NoKey /\ companies[i].key = key /\ companies[i].job = j}

\* Rows a lookup of the key finds: the run's own first (its index), then any
\* committed one.  A company without a key is never found.
Own(j, key)   == {i \in DOMAIN drafts[j] : key # NoKey /\ drafts[j][i].key = key}
Known(j, key) == {i \in DOMAIN companies : key # NoKey /\ companies[i].key = key}

\* Mutant of Mended: a merge takes the posture of the latest sighting.
MendedLast(row, e) ==
  [row EXCEPT !.evidence = @ \cup {e}, !.posture = Src!Posture(e.source)]

\* _upsert_company on an existing row: evidence is added, the posture is the worst.
Mended(row, e) ==
  [row EXCEPT !.evidence = @ \cup {e}, !.posture = Worst(@, Src!Posture(e.source))]

\* The merges of a run are kept by row, with the posture that was first read.
Mend(j, i, e) ==
  LET old == IF i \in DOMAIN mends[j] THEN mends[j][i]
             ELSE [read |-> companies[i].posture, now |-> companies[i]]
  IN  [k \in DOMAIN mends[j] \cup {i} |->
         IF k = i THEN [read |-> old.read, now |-> Mended(old.now, e)] ELSE mends[j][k]]

\* _upsert_company of one sighting.
Sight(j, s, key) ==
  LET e == Evidence(s)
  IN  \/ /\ Own(j, key) # {}
         /\ drafts' = [drafts EXCEPT ![j] = [i \in DOMAIN @ |->
                         IF i \in Own(j, key) THEN Mended(@[i], e) ELSE @[i]]]
         /\ UNCHANGED mends
      \/ /\ Own(j, key) = {} /\ Known(j, key) # {}
         /\ \E i \in Known(j, key) : mends' = [mends EXCEPT ![j] = Mend(j, i, e)]
         /\ UNCHANGED drafts
      \/ /\ Own(j, key) = {} /\ Known(j, key) = {}
         /\ drafts' = [drafts EXCEPT ![j] =
              Append(@, [key |-> key, job |-> j, posture |-> Src!Posture(s), evidence |-> {e},
                         site |-> "unseen", crawls |-> 0])]
         /\ UNCHANGED mends

Touched(j) == {drafts[j][i].key : i \in DOMAIN drafts[j]}
              \cup {companies[i].key : i \in DOMAIN mends[j]}

\* The companies the sources have yielded bound what they yield.
Yielded(j) == Len(drafts[j]) + Cardinality(DOMAIN mends[j])

RunSource(j, s, key) ==
  /\ stage[j] = "discovery" /\ s \in todo[j]
  /\ Resolved(s) # "skip" /\ ~ Src!Unavailable(s, Resolved(s), config.licensed)
  /\ Yielded(j) < MaxSightings[j]
  /\ Sight(j, s, key)
  /\ overlap' = (overlap \/ \E k \in Jobs \ {j} : key # NoKey /\ key \in Touched(k))
  /\ UNCHANGED <<config, companies, contacts, stage, todo, runs>>

FinishSource(j, s) ==
  /\ stage[j] = "discovery" /\ s \in todo[j]
  /\ Resolved(s) # "skip" /\ ~ Src!Unavailable(s, Resolved(s), config.licensed)
  /\ todo' = [todo EXCEPT ![j] = @ \ {s}]
  /\ UNCHANGED <<config, companies, contacts, stage, drafts, mends, runs, overlap>>

\* A real gated driver without a provider raises; nothing in run_discovery catches
\* it, so the stage rolls back and the job fails.
SourceRaises(j, s) ==
  /\ stage[j] = "discovery" /\ s \in todo[j]
  /\ Resolved(s) # "skip" /\ Src!Unavailable(s, Resolved(s), config.licensed)
  /\ stage' = [stage EXCEPT ![j] = "failed"]
  /\ todo' = [todo EXCEPT ![j] = {}]
  /\ drafts' = [drafts EXCEPT ![j] = <<>>] /\ mends' = [mends EXCEPT ![j] = <<>>]
  /\ runs' = {r \in runs : r[1] # j}
  /\ UNCHANGED <<config, companies, contacts, overlap>>

\* The commit: evidence rows are inserted, a posture is written if it differs from
\* the one read, and the new companies appear.
Merged(j, i) ==
  LET m == mends[j][i]
  IN  IF i \notin DOMAIN mends[j] THEN companies[i]
      ELSE [companies[i] EXCEPT !.evidence = @ \cup m.now.evidence,
                                !.posture = IF m.now.posture = m.read THEN @ ELSE m.now.posture]

CommitDiscovery(j) ==
  /\ stage[j] = "discovery" /\ todo[j] = {}
  /\ companies' = [i \in DOMAIN companies |-> Merged(j, i)] \o drafts[j]
  /\ drafts' = [drafts EXCEPT ![j] = <<>>] /\ mends' = [mends EXCEPT ![j] = <<>>]
  /\ stage' = [stage EXCEPT ![j] = IF j \in Followed THEN "crawl" ELSE "done"]
  /\ todo' = [todo EXCEPT ![j] = {i \in DOMAIN companies' :
                                    j \in Followed /\ companies'[i].job = j}]
  /\ UNCHANGED <<config, contacts, runs, overlap>>

-----------------------------------------------------------------------------
(* Extraction                                                               *)

\* Mutant of ContactKey: the name comes first.
NameFirst(c) ==
  CASE c.name # Nothing -> <<"name", c.name>>
    [] c.name = Nothing /\ c.email # Nothing -> <<"email", c.email>>
    [] OTHER -> NoKey

\* contact_dedupe_key, within a company: the address, else the name.
ContactKey(c) ==
  CASE c.email # Nothing -> <<"email", c.email>>
    [] c.email = Nothing /\ c.name # Nothing -> <<"name", c.name>>
    [] OTHER -> NoKey

OfFirm(rows, i) == {k \in DOMAIN rows : rows[k].firm = i}
Keys(rows, i)   == {ContactKey(rows[k]) : k \in OfFirm(rows, i)} \ {NoKey}

\* A merge fills only what is missing, and makes the address a candidate.
Filled(c, found) ==
  [c EXCEPT !.candidates = @ \cup ({found.email} \ {Nothing}),
            !.email = IF @ = Nothing THEN found.email ELSE @]

NewContact(i, found) ==
  [firm |-> i, name |-> found.name, email |-> found.email,
   candidates |-> {found.email} \ {Nothing},
   status |-> IF found.email = Nothing THEN "pending" ELSE "not_needed",
   lookups |-> 0, throttled |-> 0]

\* One incoming contact: merged into the row with its key, inserted if the company
\* has room, else dropped.
Place(acc, found, i) ==
  LET key  == ContactKey(found)
      same == {k \in OfFirm(acc.rows, i) : key # NoKey /\ ContactKey(acc.rows[k]) = key}
  IN  IF same # {}
      THEN LET k == CHOOSE k \in same : \A o \in same : o <= k
           IN  [room |-> acc.room, rows |-> [acc.rows EXCEPT ![k] = Filled(@, found)]]
      ELSE IF acc.room = 0 THEN acc
      ELSE [room |-> acc.room - 1, rows |-> Append(acc.rows, NewContact(i, found))]

Room(rows, i) == LET n == Cardinality(Keys(rows, i))
                 IN  IF n < MaxContacts THEN MaxContacts - n ELSE 0

\* _apply_contacts: the incoming ones in the order of their rank.
ApplyContacts(rows, i, found) ==
  LET steps[n \in 0..Len(found)] ==
        IF n = 0 THEN [rows |-> rows, room |-> Room(rows, i)]
        ELSE Place(steps[n - 1], found[n], i)
  IN  steps[Len(found)].rows

Found == UNION {[1..n -> [name : People \cup {Nothing}, email : Inboxes \cup {Nothing}]] :
                  n \in 0..MaxFound}

\* The website always, and the signal sources the job selected and may use.
CrawlSources ==
  {s \in {"company_websites"} \cup (Selected \cap {"facebook_signals", "serp_jobs"}) :
     Resolved(s) # "skip"}

\* _ensure_crawl_source: a source that gave something is evidence; the company's
\* posture is left as it is.
Crawled(row, gave) ==
  [row EXCEPT !.site = "ok", !.crawls = @ + 1, !.evidence = @ \cup {Evidence(s) : s \in gave}]

\* A site is crawled: its contacts are applied, or it cannot be reached (an
\* exception caught by the batch), or it refuses.
Crawl(j, i, pass) ==
  /\ stage[j] = pass /\ i \in todo[j]
  /\ \/ \E found \in Found, gave \in {{}, CrawlSources} :
          /\ found # <<>> => gave = CrawlSources
          /\ contacts' = ApplyContacts(contacts, i, found)
          /\ companies' = [companies EXCEPT ![i] = Crawled(@, gave)]
     \/ \E site \in {"blocked", "unreachable"} :
          /\ companies' = [companies EXCEPT ![i].site = site, ![i].crawls = @ + 1]
          /\ UNCHANGED contacts
  /\ todo' = [todo EXCEPT ![j] = @ \ {i}]
  /\ UNCHANGED <<config, stage, drafts, mends, runs, overlap>>

\* Mutant of Unreached: whatever did not work out is tried again, and again.
NotOk(j) == {i \in DOMAIN companies : companies[i].job = j /\ companies[i].site # "ok"}

\* _second_pass_extraction: the sites that were unreachable, once more.
Unreached(j) ==
  {i \in DOMAIN companies : companies[i].job = j /\ companies[i].site = "unreachable"}

SecondPass(j) ==
  /\ stage[j] = "crawl" /\ todo[j] = {}
  /\ stage' = [stage EXCEPT ![j] = "recrawl"]
  /\ todo' = [todo EXCEPT ![j] = Unreached(j)]
  /\ UNCHANGED <<config, companies, contacts, drafts, mends, runs, overlap>>

-----------------------------------------------------------------------------
(* Enrichment                                                               *)

OfJob(j) == {k \in DOMAIN contacts : companies[contacts[k].firm].job = j}

BeginEnrichment(j) ==
  /\ stage[j] = "recrawl" /\ todo[j] = {}
  /\ stage' = [stage EXCEPT ![j] = "enrich"]
  /\ todo' = [todo EXCEPT ![j] = {k \in OfJob(j) : contacts[k].email = Nothing}]
  /\ UNCHANGED <<config, companies, contacts, drafts, mends, runs, overlap>>

\* Mutant of Throttled: the contact is written off as one with no data.
WrittenOff(c) == [c EXCEPT !.status = "no_result", !.throttled = @ + 1, !.lookups = @ + 1]

\* Mutant of Throttled: deferral is given a status of its own.
MarkedDeferred(c) == [c EXCEPT !.status = "deferred", !.throttled = @ + 1, !.lookups = @ + 1]

\* A lookup that was throttled leaves the contact for the retry pass.
Throttled(c) == [c EXCEPT !.status = "pending", !.throttled = @ + 1, !.lookups = @ + 1]

Answered(c, email) ==
  IF email = Nothing THEN [c EXCEPT !.status = "no_result", !.lookups = @ + 1]
  ELSE [c EXCEPT !.email = email, !.candidates = @ \cup {email}, !.status = "enriched",
                 !.lookups = @ + 1]

\* run_enrichment: no lookup for a contact without a plausible name.
Enrich(j, k, pass) ==
  /\ stage[j] = pass /\ k \in todo[j]
  /\ \/ contacts[k].name = Nothing
        /\ contacts' = [contacts EXCEPT ![k].status = "not_needed"]
     \/ contacts[k].name # Nothing
        /\ \/ \E email \in Inboxes \cup {Nothing} :
                contacts' = [contacts EXCEPT ![k] = Answered(@, email)]
           \/ contacts' = [contacts EXCEPT ![k] = Throttled(@)]
  /\ todo' = [todo EXCEPT ![j] = @ \ {k}]
  /\ UNCHANGED <<config, companies, stage, drafts, mends, runs, overlap>>

\* Mutant of Deferred: every contact that still has no address.
Addressless(j) == {k \in OfJob(j) : contacts[k].email = Nothing}

Deferred(j) == {k \in OfJob(j) : contacts[k].email = Nothing /\ contacts[k].status = "pending"}

\* The retry pass of _run_enrichment_stage.
RetryDeferred(j) ==
  /\ stage[j] = "enrich" /\ todo[j] = {}
  /\ stage' = [stage EXCEPT ![j] = "retry"]
  /\ todo' = [todo EXCEPT ![j] = Deferred(j)]
  /\ UNCHANGED <<config, companies, contacts, drafts, mends, runs, overlap>>

Finish(j) ==
  /\ stage[j] = "retry" /\ todo[j] = {}
  /\ stage' = [stage EXCEPT ![j] = "done"]
  /\ UNCHANGED <<config, companies, contacts, todo, drafts, mends, runs, overlap>>

-----------------------------------------------------------------------------
Discovery(j) ==
  \/ BeginDiscovery(j) \/ CommitDiscovery(j)
  \/ \E s \in Src!SourceNames :
       \/ SkipSource(j, s) \/ FinishSource(j, s) \/ SourceRaises(j, s)
       \/ \E key \in Firms \cup {NoKey} : RunSource(j, s, key)

Extraction(j) ==
  \/ \E i \in DOMAIN companies, pass \in {"crawl", "recrawl"} : Crawl(j, i, pass)
  \/ SecondPass(j)

Enrichment(j) ==
  \/ BeginEnrichment(j) \/ RetryDeferred(j) \/ Finish(j)
  \/ \E k \in DOMAIN contacts, pass \in {"enrich", "retry"} : Enrich(j, k, pass)

Next == \E j \in Jobs : Discovery(j) \/ Extraction(j) \/ Enrichment(j)

Spec == Init /\ [][Next]_vars

-----------------------------------------------------------------------------
(* Properties                                                               *)

\* Overlapping sightings of one company, from several sources of a job or from one
\* job after another, end in one row (no unique index stands behind the lookup).
OneRowPerKey ==
  overlap \/ \A a, b \in DOMAIN companies :
    companies[a].key = companies[b].key /\ companies[a].key # NoKey => a = b

\* A company is never shown as cleaner than a source it was discovered in, however
\* its sightings are ordered (evidence of extraction is not counted in it).
PostureCoversDiscovery ==
  overlap \/ \A i \in DOMAIN companies : \A e \in companies[i].evidence :
    e.source \in Src!DiscoverySources => companies[i].posture >= Src!Posture(e.source)

\* Only addresses seen for this very contact are candidates for it: two colleagues
\* with one address each are never folded into one contact.
OneCandidate == \A k \in DOMAIN contacts : Cardinality(contacts[k].candidates) <= 1

\* A source that is gated leaves no trace: evidence comes from sources the tenant
\* enabled and signed off.
GatedLeavesNoTrace ==
  \A i \in DOMAIN companies : \A e \in companies[i].evidence :
    Src!Posture(e.source) > 0 => config.cfg[e.source].enabled /\ config.cfg[e.source].signed

\* No invented companies outside mock mode: a source without a real driver is
\* skipped, never served by its mock.  That is what sources/registry.py:318-328 does
\* and tests/unit/test_registry_resolution.py asks for; the repository's README:168
\* and 440-452 still tells of a fallback to the mocks when a key is missing.
NoInventedCompanies ==
  \A i \in DOMAIN companies : \A e \in companies[i].evidence :
    e.driver = "mock" => Src!Mode(e.source, config.env) = "mock"

\* Evidence is lawful and real: the three properties above.
EvidenceIsLicit == PostureCoversDiscovery /\ GatedLeavesNoTrace /\ NoInventedCompanies

\* Rows have their types, one company one row, one contact only its own addresses.
NoMixUps == TypeOK /\ OneRowPerKey /\ OneCandidate

\* A site that refused the crawler is not asked again by the second pass.
RefusalRespected ==
  [][\A i \in DOMAIN companies :
       companies[i].site = "blocked" => companies'[i].crawls = companies[i].crawls]_vars

\* A contact whose every lookup was throttled is still pending when its job is done:
\* throttling is never recorded as "no data".
ThrottledStaysPending ==
  \A k \in DOMAIN contacts :
    contacts[k].lookups > 0 /\ contacts[k].throttled = contacts[k].lookups
    => contacts[k].status = "pending"

\* Lookups are paid for: one per contact, and one more only after a throttled one.
OneAnswerPaid ==
  \A k \in DOMAIN contacts :
    /\ contacts[k].lookups - contacts[k].throttled <= 1
    /\ contacts[k].lookups <= 2

\* What _provider_base.py says of an unavailable source: the stage goes on.
UnavailableSkipped == \A j \in Jobs : stage[j] # "failed"
=============================================================================
