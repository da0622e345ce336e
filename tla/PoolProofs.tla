------------------------------- MODULE PoolProofs ------------------------------
(***************************************************************************)
(* Inductive invariants of the parts that are kept in the pool, for every  *)
(* value of the constants.  A part's section names its variables as the    *)
(* part does, as far as another part has not taken the name.               *)
(***************************************************************************)
EXTENDS Pool, FiniteSetTheorems, SequenceTheorems, WellFoundedInduction, TLAPS

-----------------------------------------------------------------------------
(* Numbers                                                                   *)

LEMMA Smallest ==
  ASSUME NEW T \in SUBSET Nat, T # {}
  PROVE  \E x \in T : \A y \in T : x <= y
<1> DEFINE R == {p \in Nat \X Nat : p[1] < p[2]}
<1>1. IsWellFoundedOn(R, Nat)
  BY NatLessThanWellFounded DEF OpToRel
<1>2. PICK x \in T : \A y \in T : <<y, x>> \notin R
  <2> HIDE DEF R
  <2>1. QED
    BY <1>1, WFMin
<1>3. \A y \in T : ~ (y < x)
  BY <1>2
<1>4. QED
  BY <1>3

\* What holds of 0 and is handed on holds up to n.
LEMMA Climb ==
  ASSUME NEW n \in Nat, NEW S, 0 \in S, \A m \in 0 .. n - 1 : m \in S => m + 1 \in S
  PROVE  n \in S
<1>1. SUFFICES ASSUME n \notin S PROVE FALSE
  OBVIOUS
<1> DEFINE T == (0 .. n) \ S
<1>2. T \in SUBSET Nat /\ n \in T
  BY <1>1
<1>3. PICK x \in T : \A y \in T : x <= y
  <2> HIDE DEF T
  <2>1. QED
    BY <1>2, Smallest
<1>4. x # 0 /\ x - 1 \in 0 .. n - 1
  BY <1>3
<1>5. x - 1 \in S
  BY <1>3, <1>4
<1>6. QED
  BY <1>3, <1>4, <1>5

\* The members of a finite set of numbers have the ranks 1, 2, ... up to its size.
LEMMA Ranks ==
  ASSUME NEW n \in Nat, NEW S \in SUBSET (1 .. n)
  PROVE  /\ Cardinality(S) \in Nat
         /\ \A s \in S : Cardinality({t \in S : t <= s}) \in 1 .. Cardinality(S)
         /\ \A r, s \in S : r < s =>
              Cardinality({t \in S : t <= r}) < Cardinality({t \in S : t <= s})
         /\ \A i \in 1 .. Cardinality(S) :
              \E s \in S : Cardinality({t \in S : t <= s}) = i
<1> DEFINE UpTo(s) == {t \in S : t <= s}
           rank == [s \in S |-> Cardinality(UpTo(s))]
<1>1. IsFiniteSet(S) /\ Cardinality(S) \in Nat
  <2>1. IsFiniteSet(1 .. n)
    BY FS_Interval
  <2>2. QED
    BY <2>1, FS_Subset, FS_CardinalityType
<1>2. \A s \in S : IsFiniteSet(UpTo(s)) /\ Cardinality(UpTo(s)) \in 1 .. Cardinality(S)
  <2>1. TAKE s \in S
  <2>2. UpTo(s) \in SUBSET S /\ s \in UpTo(s)
    OBVIOUS
  <2>3. IsFiniteSet(UpTo(s)) /\ Cardinality(UpTo(s)) <= Cardinality(S)
    BY <1>1, <2>2, FS_Subset
  <2>4. Cardinality(UpTo(s)) \in Nat /\ Cardinality(UpTo(s)) # 0
    BY <2>2, <2>3, FS_CardinalityType, FS_EmptySet
  <2>5. QED
    BY <1>1, <2>3, <2>4
<1>3. ASSUME NEW r \in S, NEW s \in S, r < s
      PROVE  Cardinality(UpTo(r)) < Cardinality(UpTo(s))
  <2>0. \A t \in S : t \in Int
    OBVIOUS
  <2>1. UpTo(r) \in SUBSET UpTo(s) /\ s \in UpTo(s) /\ s \notin UpTo(r)
    <3>1. r \in Int /\ s \in Int
      BY <2>0
    <3>2. \A t \in S : t <= r => t <= s
      BY <1>3, <2>0, <3>1
    <3>3. s <= s /\ ~ (s <= r)
      BY <1>3, <3>1
    <3>4. QED
      BY <3>2, <3>3
  <2>2. Cardinality(UpTo(r)) <= Cardinality(UpTo(s)) /\ Cardinality(UpTo(r)) # Cardinality(UpTo(s))
    BY <1>2, <2>1, FS_Subset
  <2>3. QED
    BY <1>2, <2>2
<1>4. rank \in Injection(S, 1 .. Cardinality(S))
  <2>1. rank \in [S -> 1 .. Cardinality(S)]
    BY <1>2
  <2>2. \A r, s \in S : rank[r] = rank[s] => r = s
    BY <1>2, <1>3
  <2>3. QED
    BY <2>1, <2>2 DEF Injection, IsInjective
<1>5. rank \in Surjection(S, 1 .. Cardinality(S))
  <2>1. IsFiniteSet(1 .. Cardinality(S)) /\ Cardinality(1 .. Cardinality(S)) = Cardinality(S)
    BY <1>1, FS_Interval
  <2>2. QED
    BY <1>4, <2>1, FS_Injection
<1>6. \A i \in 1 .. Cardinality(S) : \E s \in S : rank[s] = i
  BY <1>5 DEF Surjection
<1>7. QED
  BY <1>1, <1>2, <1>3, <1>6

-----------------------------------------------------------------------------
(* Exports                                                                   *)

\* The export's variables in the pool.
db == s1
export == s2
built == s3
messages == s4
api == s5
worker == s6
deaths == s7
served == s8

USE DEF db, export, built, messages, api, worker, deaths, served

ExportsPlaces == {"idle", "read", "open", "write", "commit", "ack"}

ExportsTypeInv ==
  /\ db \in Nat /\ messages \in {0, 1} /\ deaths \in Nat /\ served \in BOOLEAN
  /\ export \in [status : {"none", "QUEUED", "COMPLETED", "FAILED"},
              target : {"file", "google_sheets"}, scope : {"raw", "sales_ready"},
              asked : Nat]
  /\ export.asked <= db
  /\ built \in [state : {"none", "part", "whole"}, tabs : Seq(Nat)]
  /\ api \in {"idle", "committed", "done", "dead"}
  /\ worker \in [at : ExportsPlaces, tabs : Seq(Nat), ok : BOOLEAN]

\* The tabs of a build were read after the export was asked for.
ExportsNewEnough(tabs) == \A i \in DOMAIN tabs : tabs[i] >= export.asked

ExportsWhole ==
  /\ built.state = "whole" /\ Len(built.tabs) = Exports!TabsFor(export.scope)
  /\ ExportsNewEnough(built.tabs)

\* The one message of the export is in the broker from Enqueue to Ack, and the row
\* is decided before Ack.
ExportsOneMessage ==
  /\ api \in {"idle", "committed", "dead"} => messages = 0
  /\ worker # Exports!Idle <=> worker.at # "idle"
  /\ worker # Exports!Idle => messages = 1
  /\ api = "idle" <=> export.status = "none"
  /\ api = "committed" => export.status = "QUEUED"
  /\ export.status = "QUEUED" /\ api = "done" => messages = 1
  /\ worker.at = "ack" => export.status # "QUEUED"

\* How far the build in hand is.
ExportsProgress ==
  /\ ExportsNewEnough(worker.tabs)
  /\ worker.at = "read" => Len(worker.tabs) < Exports!TabsFor(export.scope)
  /\ worker.at \in {"open", "write"} =>
       export.target = "file" /\ Len(worker.tabs) = Exports!TabsFor(export.scope)
  /\ worker.at = "commit" /\ worker.ok /\ export.target = "file" => ExportsWhole

\* Before the first death a decided row is one whose build is over; at the end of
\* any build the row says what became of the file.
ExportsDecided ==
  /\ deaths = 0 /\ worker.at # "ack" /\ messages = 1 => export.status = "QUEUED"
  /\ worker.at = "ack" \/ messages = 0 =>
       (export.status = "COMPLETED" /\ export.target = "file" => ExportsWhole)
  /\ served => deaths > 0

ExportsIInv == ExportsTypeInv /\ ExportsOneMessage /\ ExportsProgress /\ ExportsDecided

LEMMA ExportsInitIInv ==
  ASSUME Exports!ExportsAssumption, Exports!Init
  PROVE  ExportsIInv
<1>1. ExportsTypeInv
  <2>1. Exports!Idle \in [at : ExportsPlaces, tabs : Seq(Nat), ok : BOOLEAN]
    BY DEF Exports!Idle, ExportsPlaces
  <2>2. Exports!NoRow \in [status : {"none", "QUEUED", "COMPLETED", "FAILED"},
              target : {"file", "google_sheets"}, scope : {"raw", "sales_ready"},
              asked : Nat]
    BY DEF Exports!NoRow
  <2>3. [state |-> "none", tabs |-> <<>>] \in [state : {"none", "part", "whole"}, tabs : Seq(Nat)]
    OBVIOUS
  <2>4. Exports!NoRow.asked = 0
    BY DEF Exports!NoRow
  <2>4a. served \in BOOLEAN
    BY DEF Exports!Init
  <2>5. QED
    BY <2>1, <2>2, <2>3, <2>4, <2>4a DEF Exports!Init, ExportsTypeInv
<1>2. ExportsOneMessage /\ ExportsDecided
  BY DEF Exports!Init, ExportsOneMessage, ExportsDecided, Exports!NoRow, Exports!Idle
<1>3. ExportsProgress
  BY DEF Exports!Init, ExportsProgress, Exports!NoRow, Exports!Idle, ExportsNewEnough
<1>4. QED
  BY <1>1, <1>2, <1>3 DEF ExportsIInv

\* A scope has at least one tab, and the sheet of sales-ready leads is one.
LEMMA ExportsSomeTabs ==
  ASSUME Exports!ExportsAssumption, NEW scope
  PROVE  Exports!TabsFor(scope) \in Nat /\ Exports!TabsFor(scope) > 0
  BY DEF Exports!ExportsAssumption, Exports!TabsFor

\* The request and the pipeline.
LEMMA ExportsRequestStep ==
  ASSUME Exports!ExportsAssumption, ExportsIInv,
         Exports!Create \/ Exports!Enqueue \/ Exports!Commit
  PROVE  ExportsIInv'
<1> USE DEF ExportsIInv, ExportsTypeInv
<1>1. CASE Exports!Create
  <2>1. PICK target \in {"file", "google_sheets"}, scope \in {"raw", "sales_ready"} :
          export' = [status |-> "QUEUED", target |-> target, scope |-> scope, asked |-> db]
    BY <1>1 DEF Exports!Create
  <2>2. worker = Exports!Idle /\ worker.at = "idle" /\ messages = 0
    BY <1>1 DEF ExportsOneMessage, Exports!Create
  <2>3. ExportsTypeInv'
    BY <1>1, <2>1 DEF Exports!Create
  <2>4. ExportsOneMessage' /\ ExportsDecided'
    BY <1>1, <2>1, <2>2 DEF Exports!Create, ExportsOneMessage, ExportsDecided
  <2>5. ExportsProgress'
    BY <1>1, <2>1, <2>2 DEF Exports!Create, ExportsProgress, ExportsNewEnough, Exports!Idle
  <2>6. QED
    BY <2>3, <2>4, <2>5
<1>2. CASE Exports!Enqueue
  BY <1>2 DEF Exports!Enqueue, ExportsOneMessage, ExportsProgress, ExportsDecided,
    ExportsNewEnough, ExportsWhole
<1>3. CASE Exports!Commit
  BY <1>3 DEF Exports!Commit, ExportsOneMessage, ExportsProgress, ExportsDecided,
    ExportsNewEnough, ExportsWhole
<1>4. QED
  BY <1>1, <1>2, <1>3

\* The build, from the message to the file.
LEMMA ExportsBuildStep ==
  ASSUME Exports!ExportsAssumption, ExportsIInv,
         Exports!Take \/ Exports!Read \/ Exports!Open \/ Exports!Write \/ Exports!Raise
  PROVE  ExportsIInv'
<1> USE DEF ExportsIInv, ExportsTypeInv, ExportsPlaces
<1>0. worker.at = "idle" <=> worker = Exports!Idle
  BY DEF ExportsOneMessage
<1>1. CASE Exports!Take
  <2>1. /\ worker' \in [at : ExportsPlaces, tabs : Seq(Nat), ok : BOOLEAN]
        /\ worker'.at = "read" /\ worker'.tabs = <<>>
        /\ UNCHANGED <<db, export, built, api, deaths, served, messages>> /\ messages = 1
    <3>1. /\ Exports!Idle \in [at : ExportsPlaces, tabs : Seq(Nat), ok : BOOLEAN]
          /\ Exports!Idle.tabs = <<>>
      BY DEF Exports!Idle
    <3>2. /\ worker' = [Exports!Idle EXCEPT !.at = "read"] /\ messages' = messages /\ messages > 0
          /\ UNCHANGED <<db, export, built, api, deaths, served>>
      BY <1>1 DEF Exports!Take, Exports!Taken
    <3>3. messages = 1
      BY <3>2
    <3>4. "read" \in ExportsPlaces
      OBVIOUS
    <3>5. QED
      BY <3>1, <3>2, <3>3, <3>4
  <2>2. ExportsTypeInv'
    BY <2>1
  <2>3. ExportsOneMessage' /\ ExportsDecided'
    BY <1>0, <1>1, <2>1 DEF ExportsOneMessage, ExportsDecided, Exports!Idle, ExportsWhole,
      ExportsNewEnough, Exports!Take
  <2>4. ExportsProgress'
    BY <2>1, ExportsSomeTabs DEF ExportsProgress, ExportsNewEnough
  <2>5. QED
    BY <2>2, <2>3, <2>4
<1>2. CASE Exports!Read
  <2> DEFINE tabs == Append(worker.tabs, db)
             n == Exports!TabsFor(export.scope)
  <2>0. /\ UNCHANGED <<db, export, built, messages, api, deaths, served>>
        /\ worker.at = "read" /\ messages = 1
    BY <1>0, <1>2 DEF Exports!Read, ExportsOneMessage
  <2>1. CASE export.target = "google_sheets"
    <3>1. worker' = [worker EXCEPT !.at = "commit"] /\ export.target # "file"
      BY <1>2, <2>1 DEF Exports!Read
    <3>2. /\ worker' \in [at : ExportsPlaces, tabs : Seq(Nat), ok : BOOLEAN]
          /\ worker'.at = "commit" /\ worker'.tabs = worker.tabs
      BY <3>1
    <3>3. worker' # Exports!Idle
      BY <3>2 DEF Exports!Idle
    <3>4. QED
      BY <2>0, <3>1, <3>2, <3>3 DEF ExportsOneMessage, ExportsDecided, ExportsProgress,
        ExportsWhole, ExportsNewEnough
  <2>2. CASE export.target # "google_sheets"
    <3>1. worker' = [worker EXCEPT !.tabs = tabs, !.at = IF Len(tabs) = n THEN "open" ELSE "read"]
      BY <1>2, <2>2 DEF Exports!Read
    <3>2. tabs \in Seq(Nat) /\ Len(tabs) = Len(worker.tabs) + 1
      OBVIOUS
    <3>3. ExportsNewEnough(tabs)
      BY DEF ExportsNewEnough, ExportsProgress
    <3>4. /\ worker' \in [at : ExportsPlaces, tabs : Seq(Nat), ok : BOOLEAN]
          /\ worker'.at = IF Len(tabs) = n THEN "open" ELSE "read"
          /\ worker'.tabs = tabs
      <4> HIDE DEF tabs, n
      <4>1. QED
        BY <3>1, <3>2
    <3>5. worker' # Exports!Idle
      BY <3>4 DEF Exports!Idle
    <3>6. n \in Nat /\ Len(worker.tabs) < n
      BY <2>0, ExportsSomeTabs DEF ExportsProgress
    <3>7. ExportsProgress'
      <4> HIDE DEF tabs
      <4>1. QED
        BY <2>0, <2>2, <3>2, <3>3, <3>4, <3>6 DEF ExportsProgress, ExportsNewEnough
    <3>8. QED
      BY <2>0, <3>4, <3>5, <3>7 DEF ExportsOneMessage, ExportsDecided, ExportsWhole,
        ExportsNewEnough
  <2>3. QED
    BY <2>1, <2>2
<1>3. CASE Exports!Open
  <2>1. /\ UNCHANGED <<db, export, messages, api, deaths, served>> /\ worker.at = "open"
        /\ messages = 1
        /\ worker' \in [at : ExportsPlaces, tabs : Seq(Nat), ok : BOOLEAN]
        /\ worker'.at = "write" /\ worker'.tabs = worker.tabs
        /\ built' \in [state : {"none", "part", "whole"}, tabs : Seq(Nat)]
    BY <1>0, <1>3 DEF Exports!Open, ExportsOneMessage
  <2>2. worker' # Exports!Idle
    BY <2>1 DEF Exports!Idle
  <2>3. QED
    BY <2>1, <2>2 DEF ExportsOneMessage, ExportsDecided, ExportsProgress, ExportsNewEnough
<1>4. CASE Exports!Write
  <2>1. /\ UNCHANGED <<db, export, messages, api, deaths, served>> /\ worker.at = "write"
        /\ messages = 1
        /\ worker' \in [at : ExportsPlaces, tabs : Seq(Nat), ok : BOOLEAN]
        /\ worker'.at = "commit" /\ worker'.tabs = worker.tabs
        /\ built' \in [state : {"none", "part", "whole"}, tabs : Seq(Nat)]
        /\ built'.state = "whole" /\ built'.tabs = worker.tabs
    BY <1>0, <1>4 DEF Exports!Write, ExportsOneMessage
  <2>2. worker' # Exports!Idle
    BY <2>1 DEF Exports!Idle
  <2>3. ExportsWhole' /\ ExportsNewEnough(worker.tabs)'
    BY <2>1 DEF ExportsProgress, ExportsWhole, ExportsNewEnough, Exports!TabsFor
  <2>4. QED
    BY <2>1, <2>2, <2>3 DEF ExportsOneMessage, ExportsDecided, ExportsProgress
<1>5. CASE Exports!Raise
  <2>1. /\ UNCHANGED <<db, export, built, messages, api, deaths, served>>
        /\ worker.at # "idle" /\ messages = 1
        /\ worker' \in [at : ExportsPlaces, tabs : Seq(Nat), ok : BOOLEAN]
        /\ worker'.at = "commit" /\ worker'.tabs = worker.tabs
        /\ worker.at # "ack"
    BY <1>0, <1>5 DEF Exports!Raise, ExportsOneMessage
  <2>1a. ~worker'.ok
    BY <1>5 DEF Exports!Raise
  <2>2. worker' # Exports!Idle
    BY <2>1 DEF Exports!Idle
  <2>3. QED
    BY <2>1, <2>1a, <2>2 DEF ExportsOneMessage, ExportsDecided, ExportsProgress,
      ExportsNewEnough, ExportsWhole
<1>6. QED
  BY <1>1, <1>2, <1>3, <1>4, <1>5

\* The row's verdict, the acknowledgement, a death, a download.
LEMMA ExportsEndStep ==
  ASSUME Exports!ExportsAssumption, ExportsIInv,
         Exports!Finish \/ Exports!Ack \/ Exports!Die \/ Exports!Download
  PROVE  ExportsIInv'
<1> USE DEF ExportsIInv, ExportsTypeInv, ExportsPlaces
<1>0. worker.at = "idle" <=> worker = Exports!Idle
  BY DEF ExportsOneMessage
<1>1. CASE Exports!Finish
  <2>1. /\ UNCHANGED <<db, built, messages, api, deaths, served>> /\ worker.at = "commit"
        /\ messages = 1
        /\ worker' \in [at : ExportsPlaces, tabs : Seq(Nat), ok : BOOLEAN]
        /\ worker'.at = "ack" /\ worker'.tabs = worker.tabs
    BY <1>0, <1>1 DEF Exports!Finish, ExportsOneMessage
  <2>2. /\ export' \in [status : {"none", "QUEUED", "COMPLETED", "FAILED"},
              target : {"file", "google_sheets"}, scope : {"raw", "sales_ready"},
              asked : Nat]
        /\ export'.target = export.target /\ export'.scope = export.scope
        /\ export'.asked = export.asked
        /\ export'.status \in {"COMPLETED", "FAILED"}
        /\ export'.status = "COMPLETED" => worker.ok
    BY <1>1 DEF Exports!Finish, Exports!Outcome
  <2>3. worker' # Exports!Idle
    BY <2>1 DEF Exports!Idle
  <2>4. ExportsWhole => ExportsWhole'
    BY <2>1, <2>2 DEF ExportsWhole, ExportsNewEnough, Exports!TabsFor
  <2>5. ExportsTypeInv' /\ ExportsOneMessage'
    BY <2>1, <2>2, <2>3 DEF ExportsOneMessage
  <2>6. ExportsProgress' /\ ExportsDecided'
    BY <2>1, <2>2, <2>4 DEF ExportsProgress, ExportsDecided, ExportsNewEnough
  <2>7. QED
    BY <2>5, <2>6
<1>2. CASE Exports!Ack
  <2>1. /\ UNCHANGED <<db, export, built, api, deaths, served>> /\ worker.at = "ack" /\ messages = 1
        /\ worker' = Exports!Idle /\ messages' = 0
    BY <1>0, <1>2 DEF Exports!Ack, ExportsOneMessage
  <2>2. /\ Exports!Idle \in [at : ExportsPlaces, tabs : Seq(Nat), ok : BOOLEAN]
        /\ Exports!Idle.at = "idle" /\ Exports!Idle.tabs = <<>>
    BY DEF Exports!Idle
  <2>3. ExportsOneMessage' /\ ExportsDecided'
    BY <2>1, <2>2 DEF ExportsOneMessage, ExportsDecided, ExportsWhole, ExportsNewEnough
  <2>4. ExportsProgress'
    BY <2>1, <2>2 DEF ExportsProgress, ExportsNewEnough
  <2>5. QED
    BY <2>1, <2>2, <2>3, <2>4
<1>3. CASE Exports!Die
  <2>1. /\ UNCHANGED <<db, export, built, api, messages, served>> /\ messages = 1
        /\ worker' = Exports!Idle /\ deaths' = deaths + 1
    BY <1>0, <1>3 DEF Exports!Die, ExportsOneMessage
  <2>2. /\ Exports!Idle \in [at : ExportsPlaces, tabs : Seq(Nat), ok : BOOLEAN]
        /\ Exports!Idle.at = "idle" /\ Exports!Idle.tabs = <<>>
    BY DEF Exports!Idle
  <2>3. ExportsOneMessage' /\ ExportsDecided'
    BY <2>1, <2>2 DEF ExportsOneMessage, ExportsDecided, ExportsWhole, ExportsNewEnough
  <2>4. ExportsProgress'
    BY <2>1, <2>2 DEF ExportsProgress, ExportsNewEnough
  <2>5. QED
    BY <2>1, <2>2, <2>3, <2>4
<1>4. CASE Exports!Download
  <2>1. /\ UNCHANGED <<db, export, built, messages, api, worker, deaths>>
        /\ export.status = "COMPLETED" /\ export.target = "file"
    BY <1>4 DEF Exports!Download
  <2>2. deaths = 0 => built.state # "part"
    BY <2>1 DEF ExportsDecided, ExportsOneMessage, ExportsWhole
  <2>3. served' \in BOOLEAN /\ (served' => deaths > 0)
    BY <1>4, <2>2 DEF Exports!Download, ExportsDecided
  <2>4. QED
    BY <2>1, <2>3 DEF ExportsOneMessage, ExportsProgress, ExportsDecided, ExportsWhole,
      ExportsNewEnough
<1>5. QED
  BY <1>1, <1>2, <1>3, <1>4

LEMMA ExportsNextIInv ==
  ASSUME Exports!ExportsAssumption, ExportsIInv, Exports!Next \/ UNCHANGED Exports!vars
  PROVE  ExportsIInv'
<1>1. CASE UNCHANGED Exports!vars
  BY <1>1 DEF Exports!vars, ExportsIInv, ExportsTypeInv, ExportsOneMessage, ExportsProgress,
    ExportsDecided, ExportsWhole, ExportsNewEnough
<1>2. QED
  BY <1>1, ExportsRequestStep, ExportsBuildStep, ExportsEndStep DEF Exports!Next

LEMMA ExportsIInvCompletes ==
  ASSUME ExportsIInv
  PROVE  Exports!CompletedIsWhole
  BY DEF ExportsIInv, ExportsTypeInv, ExportsOneMessage, ExportsDecided,
    Exports!CompletedIsWhole, Exports!Redelivered, ExportsWhole, ExportsNewEnough

LEMMA ExportsIInvQueues ==
  ASSUME ExportsIInv
  PROVE  Exports!QueuedIsQueued
  BY DEF ExportsIInv, ExportsTypeInv, ExportsOneMessage, Exports!QueuedIsQueued

-----------------------------------------------------------------------------
(* Paid lookups                                                              *)

\* The lookups' variables in the pool.
day == s1
cache == s2
redis == s3
call == s4
paid == s5
answer == s6
retries == s7
asks == s8
outages == s9

USE DEF day, cache, redis, call, paid, answer, retries, asks, outages

LookupsSayings == {"nothing", "not_found", "empty_profile", "profile", "valid", "disposable", "unknown",
            "scored", "row_missing"}

LookupsCallType ==
  [kind : Lookups!Kinds, key : LookupKeys, since : Nat, after : Nat, blind : BOOLEAN, tries : Nat]

\* A charge whose answer was kept: the cache holds it until it expires.
LookupsPaidOK(p) ==
  /\ p.no \in Nat /\ p.no < Cardinality(paid) /\ p.at \in Nat /\ p.at <= day
  /\ p.after \in Nat /\ p.after <= Cardinality(paid)
  /\ p.kept /\ p.of[1] \in Lookups!Cached =>
       p.of \in Lookups!Cached \X LookupKeys /\ cache[p.of].until >= p.at + LookupTtl

\* A call under way has missed the cache: of the charges made before it was asked, those
\* that were kept had expired.
LookupsCallOK(c) ==
  /\ c.since <= day /\ c.after <= Cardinality(paid)
  /\ ~ c.blind /\ c.kind \in Lookups!Cached =>
       \A p \in paid : p.of = <<c.kind, c.key>> /\ p.kept /\ p.no < c.after => c.since >= p.at + LookupTtl

LookupsCallsOK(w) == call[w] # Lookups!Idle => call[w] \in LookupsCallType /\ LookupsCallOK(call[w])

LookupsIInv ==
  /\ day \in Nat /\ redis \in BOOLEAN /\ IsFiniteSet(paid)
  /\ cache \in [Lookups!Cached \X LookupKeys -> [said : LookupsSayings, until : Nat]]
  /\ \A w \in LookupWorkers : LookupsCallsOK(w)
  /\ \A p \in paid : LookupsPaidOK(p)
  /\ Lookups!OneCreditPerWindow

\* Both are the standard module's.
LEMMA LookupsCardinality ==
  ASSUME NEW S
  PROVE  Lookups!Cardinality(S) = Cardinality(S)
BY DEF Lookups!Cardinality, Cardinality

LEMMA LookupsInitIInv ==
  ASSUME Lookups!LookupAssumption, Lookups!Init
  PROVE  LookupsIInv
<1>1. Lookups!Absent \in [said : LookupsSayings, until : Nat]
  BY DEF Lookups!Absent, LookupsSayings
<1>2. IsFiniteSet(paid) /\ paid = {}
  BY FS_EmptySet DEF Lookups!Init
<1>3. redis \in BOOLEAN /\ \A w \in LookupWorkers : LookupsCallsOK(w)
  BY DEF Lookups!Init, LookupsCallsOK
<1>4. QED
  BY <1>1, <1>2, <1>3 DEF Lookups!Init, LookupsIInv, Lookups!OneCreditPerWindow

LEMMA LookupsCalls ==
  ASSUME LookupsIInv, NEW w \in LookupWorkers, call[w] # Lookups!Idle
  PROVE  /\ call[w] \in LookupsCallType /\ LookupsCallOK(call[w])
         /\ call[w].since \in Nat /\ call[w].after \in Nat
         /\ call[w].kind \in Lookups!Kinds /\ call[w].key \in LookupKeys
         /\ call[w].blind \in BOOLEAN
  BY DEF LookupsIInv, LookupsCallsOK, LookupsCallType

\* A step that charges nothing and leaves the cache alone.
LEMMA LookupsUncharged ==
  ASSUME LookupsIInv, UNCHANGED <<cache, paid>>, day' \in Nat, day' >= day, redis' \in BOOLEAN,
         \A w \in LookupWorkers : call'[w] = call[w] \/ LookupsCallsOK(w)'
  PROVE  LookupsIInv'
<1>1. \A w \in LookupWorkers : LookupsCallsOK(w)'
  <2>1. ASSUME NEW w \in LookupWorkers, call'[w] # Lookups!Idle, call'[w] = call[w]
        PROVE  LookupsCallsOK(w)'
    <3>1. PICK c : c = call[w]
      OBVIOUS
    <3>2. c \in LookupsCallType /\ LookupsCallOK(c) /\ c.since \in Nat /\ c.after \in Nat
      BY <2>1, <3>1, LookupsCalls
    <3>3. LookupsCallOK(c)'
      BY <3>2 DEF LookupsCallOK, LookupsIInv
    <3>4. QED
      BY <2>1, <3>1, <3>2, <3>3 DEF LookupsCallsOK, LookupsCallOK
  <2>2. QED
    BY <2>1 DEF LookupsCallsOK
<1>2. \A p \in paid' : LookupsPaidOK(p)'
  BY DEF LookupsIInv, LookupsPaidOK
<1>3. Lookups!OneCreditPerWindow'
  BY DEF LookupsIInv, Lookups!OneCreditPerWindow
<1>4. QED
  BY <1>1, <1>2, <1>3 DEF LookupsIInv

\* A question the cache does not answer: what was kept for it has expired.
LEMMA LookupsAsked ==
  ASSUME Lookups!LookupAssumption, LookupsIInv, NEW w \in LookupWorkers,
         NEW q \in Lookups!Kinds \X LookupKeys, Lookups!Ask(w, q)
  PROVE  LookupsIInv'
<1>1. UNCHANGED <<day, cache, redis, paid>>
  BY DEF Lookups!Ask
<1>2. CASE Lookups!Hit(q)
  BY <1>1, <1>2, LookupsUncharged DEF Lookups!Ask, LookupsIInv
<1>3. CASE ~ Lookups!Hit(q)
  <2>1. PICK c : c = [kind |-> q[1], key |-> q[2], since |-> day, after |-> Cardinality(paid),
                      blind |-> ~ redis, tries |-> IF q[1] = "rocketreach" THEN LookupAttempts ELSE 1]
    OBVIOUS
  <2>2. call' = [call EXCEPT ![w] = c]
    BY <1>3, <2>1, LookupsCardinality DEF Lookups!Ask
  <2>3. Cardinality(paid) \in Nat /\ day \in Nat /\ LookupAttempts \in Nat
    BY FS_CardinalityType DEF LookupsIInv, Lookups!LookupAssumption
  <2>4. c \in LookupsCallType
    <3>1. (~ redis) \in BOOLEAN
      OBVIOUS
    <3>2. q[1] \in Lookups!Kinds /\ q[2] \in LookupKeys
      OBVIOUS
    <3>3. QED
      BY <2>1, <2>3, <3>1, <3>2 DEF LookupsCallType
  <2>5. LookupsCallOK(c)'
    <3>1. ASSUME ~ c.blind, c.kind \in Lookups!Cached, NEW p \in paid, p.of = <<c.kind, c.key>>, p.kept
          PROVE  c.since >= p.at + LookupTtl
      <4>1. redis /\ c.since = day /\ q = <<c.kind, c.key>>
        <5>1. c.blind = ~ redis /\ c.since = day /\ c.kind = q[1] /\ c.key = q[2]
          BY <2>1
        <5>2. redis
          BY <3>1, <5>1, Zenon
        <5>3. QED
          BY <5>1, <5>2
      <4>2. cache[q].until <= day
        <5>1. q \in Lookups!Cached \X LookupKeys /\ cache[q].until \in Nat
          BY <3>1, <4>1 DEF LookupsIInv
        <5>2. q[1] \in Lookups!Cached
          BY <3>1, <4>1
        <5>3. ~ (cache[q].until > day)
          BY <1>3, <4>1, <5>2 DEF Lookups!Hit
        <5>4. QED
          BY <2>3, <5>1, <5>3
      <4>3. p.at \in Nat /\ p.of[1] = c.kind /\ LookupsPaidOK(p)
        BY <3>1 DEF LookupsIInv, LookupsPaidOK
      <4>4. /\ q \in Lookups!Cached \X LookupKeys /\ cache[q].until >= p.at + LookupTtl
            /\ cache[q].until \in Nat
        BY <3>1, <4>1, <4>3 DEF LookupsPaidOK, LookupsIInv
      <4>5. QED
        BY <2>3, <4>1, <4>2, <4>3, <4>4 DEF Lookups!LookupAssumption
    <3>2. c.since <= day /\ c.after <= Cardinality(paid)
      BY <2>1, <2>3
    <3>3. QED
      BY <1>1, <3>1, <3>2 DEF LookupsCallOK
  <2>6. \A v \in LookupWorkers : call'[v] = call[v] \/ LookupsCallsOK(v)'
    <3>1. \A v \in LookupWorkers : call'[v] = call[v] \/ call'[v] = c
      BY <2>2
    <3>2. QED
      BY <2>4, <2>5, <3>1 DEF LookupsCallsOK, LookupsCallOK
  <2>7. redis' \in BOOLEAN /\ day' \in Nat /\ day' >= day
    BY <1>1, <2>3 DEF LookupsIInv
  <2>8. QED
    BY <1>1, <2>6, <2>7, LookupsUncharged
<1>4. QED
  BY <1>2, <1>3

\* A charge: its answer is kept unless Redis is away, and what it answers was asked
\* after the kept answers of the same question had expired.
LEMMA LookupsCharged ==
  ASSUME Lookups!LookupAssumption, LookupsIInv, NEW w \in LookupWorkers,
         call[w] # Lookups!Idle, NEW body \in LookupsSayings,
         Lookups!Charge(w, body), call' = [call EXCEPT ![w] = Lookups!Idle], UNCHANGED <<day, redis>>
  PROVE  LookupsIInv'
<1> DEFINE c == call[w]
           q == <<c.kind, c.key>>
<1>1. PICK new : new = [no |-> Cardinality(paid), of |-> q, at |-> day, kept |-> redis,
                        since |-> c.since, after |-> c.after, blind |-> c.blind]
  OBVIOUS
<1>2. paid' = paid \cup {new} /\ Lookups!Keep(q, body)
  BY <1>1, LookupsCardinality DEF Lookups!Charge
<1>3. /\ c \in LookupsCallType /\ LookupsCallOK(c) /\ c.since \in Nat /\ c.after \in Nat
      /\ c.kind \in Lookups!Kinds /\ c.key \in LookupKeys
  BY LookupsCalls
<1>4. PICK n \in Nat : n = Cardinality(paid)
  BY FS_CardinalityType DEF LookupsIInv
<1>5. /\ new.no = n /\ new.of = q /\ new.at = day /\ new.kept = redis
      /\ new.since = c.since /\ new.after = c.after /\ new.blind = c.blind
  BY <1>1, <1>4
<1>6. new \notin paid
  BY <1>4, <1>5 DEF LookupsIInv, LookupsPaidOK
<1>7. IsFiniteSet(paid') /\ Cardinality(paid') = n + 1
  BY <1>2, <1>4, <1>6, FS_AddElement DEF LookupsIInv
<1>8. /\ cache' \in [Lookups!Cached \X LookupKeys -> [said : LookupsSayings, until : Nat]]
      /\ \A k \in Lookups!Cached \X LookupKeys :
           cache'[k].until = cache[k].until \/ cache'[k].until = day + LookupTtl
      /\ redis /\ c.kind \in Lookups!Cached =>
           q \in Lookups!Cached \X LookupKeys /\ cache'[q].until = day + LookupTtl
  <2>1. CASE redis /\ c.kind \in Lookups!Cached
    <3>1. PICK e \in [said : LookupsSayings, until : Nat] : e = [said |-> body, until |-> day + LookupTtl]
      <4>1. day + LookupTtl \in Nat
        BY DEF LookupsIInv, Lookups!LookupAssumption
      <4>2. QED
        BY <4>1
    <3>2. /\ cache' = [cache EXCEPT ![q] = e] /\ q \in Lookups!Cached \X LookupKeys
          /\ e.until = day + LookupTtl
      BY <1>2, <1>3, <2>1, <3>1 DEF Lookups!Keep
    <3>3. QED
      BY <3>2 DEF LookupsIInv
  <2>2. CASE ~ (redis /\ c.kind \in Lookups!Cached)
    BY <1>2, <2>2 DEF Lookups!Keep, LookupsIInv
  <2>3. QED
    BY <2>1, <2>2
<1>9. \A p \in paid' : LookupsPaidOK(p)'
  <2>1. ASSUME NEW p \in paid PROVE LookupsPaidOK(p)'
    <3>1. LookupsPaidOK(p) /\ p.at \in Nat /\ p.at <= day /\ p.no \in Nat /\ p.after \in Nat
      BY DEF LookupsIInv, LookupsPaidOK
    <3>2. ASSUME p.kept, p.of[1] \in Lookups!Cached
          PROVE  p.of \in Lookups!Cached \X LookupKeys /\ cache'[p.of].until >= p.at + LookupTtl
      <4>1. PICK k \in Lookups!Cached \X LookupKeys : k = p.of
        BY <3>1, <3>2 DEF LookupsPaidOK
      <4>2. cache[k].until >= p.at + LookupTtl /\ cache[k].until \in Nat
        BY <3>1, <3>2, <4>1 DEF LookupsPaidOK, LookupsIInv
      <4>3. QED
        BY <1>8, <3>1, <4>1, <4>2 DEF LookupsIInv, Lookups!LookupAssumption
    <3>3. p.no < Cardinality(paid)' /\ p.after <= Cardinality(paid)'
      BY <1>4, <1>7, <3>1 DEF LookupsPaidOK
    <3>4. QED
      BY <3>1, <3>2, <3>3 DEF LookupsPaidOK
  <2>2. LookupsPaidOK(new)'
    <3>1. new.kept /\ new.of[1] \in Lookups!Cached =>
            new.of \in Lookups!Cached \X LookupKeys /\ cache'[new.of].until >= new.at + LookupTtl
      BY <1>5, <1>8 DEF LookupsIInv, Lookups!LookupAssumption
    <3>2. new.after <= n + 1
      BY <1>3, <1>4, <1>5 DEF LookupsCallOK
    <3>3. QED
      BY <1>3, <1>4, <1>5, <1>7, <3>1, <3>2 DEF LookupsPaidOK, LookupsIInv
  <2>3. QED
    BY <1>2, <2>1, <2>2
<1>10. \A v \in LookupWorkers : LookupsCallsOK(v)'
  <2>1. ASSUME NEW v \in LookupWorkers, call'[v] # Lookups!Idle PROVE LookupsCallsOK(v)'
    <3>1. PICK d : d = call'[v] /\ d = call[v]
      BY <2>1
    <3>2. d \in LookupsCallType /\ LookupsCallOK(d) /\ d.since \in Nat /\ d.after \in Nat
      BY <2>1, <3>1, LookupsCalls
    <3>3. d.after <= n
      BY <1>4, <3>2 DEF LookupsCallOK
    <3>4. LookupsCallOK(d)'
      BY <1>2, <1>4, <1>5, <1>7, <3>2, <3>3 DEF LookupsCallOK
    <3>5. QED
      BY <3>1, <3>2, <3>4 DEF LookupsCallsOK, LookupsCallOK
  <2>2. QED
    BY <2>1 DEF LookupsCallsOK
<1>11. Lookups!OneCreditPerWindow'
  <2>1. ASSUME NEW p \in paid', NEW r \in paid', p.of = r.of, p.of[1] \in Lookups!Cached, p.kept,
               r.after > p.no, ~ r.blind
        PROVE  r.since >= p.at + LookupTtl
    <3>1. CASE p \in paid /\ r \in paid
      BY <2>1, <3>1 DEF LookupsIInv, Lookups!OneCreditPerWindow
    <3>2. CASE p = new
      <4>1. r.after <= n /\ r.after \in Nat
        <5>1. CASE r \in paid
          BY <1>4, <5>1 DEF LookupsIInv, LookupsPaidOK
        <5>2. CASE r = new
          BY <1>3, <1>4, <1>5, <5>2 DEF LookupsCallOK
        <5>3. QED
          BY <1>2, <5>1, <5>2
      <4>2. QED
        BY <1>5, <2>1, <3>2, <4>1
    <3>3. CASE p \in paid /\ r = new
      <4>1. ~ c.blind /\ c.kind \in Lookups!Cached /\ p.of = <<c.kind, c.key>> /\ p.no < c.after
        <5>1. p.no \in Nat
          BY <3>3 DEF LookupsIInv, LookupsPaidOK
        <5>2. p.of = q /\ q[1] = c.kind
          BY <1>5, <2>1, <3>3
        <5>3. QED
          BY <1>3, <1>5, <2>1, <3>3, <5>1, <5>2
      <4>2. QED
        BY <1>3, <1>5, <2>1, <3>3, <4>1 DEF LookupsCallOK
    <3>4. QED
      BY <1>2, <3>1, <3>2, <3>3
  <2>2. QED
    BY <2>1 DEF Lookups!OneCreditPerWindow
<1>12. QED
  <2>1. redis' \in BOOLEAN /\ day' \in Nat
    BY DEF LookupsIInv
  <2>2. QED
    BY <1>7, <1>8, <1>9, <1>10, <1>11, <2>1 DEF LookupsIInv

\* A try that failed, with or without another one.
LEMMA LookupsFailed ==
  ASSUME Lookups!LookupAssumption, LookupsIInv, NEW w \in LookupWorkers, call[w] # Lookups!Idle,
         UNCHANGED <<day, cache, redis, paid>>,
         \/ call' = [call EXCEPT ![w] = Lookups!Idle]
         \/ call[w].tries > 1 /\ call' = [call EXCEPT ![w].tries = @ - 1]
  PROVE  LookupsIInv'
<1>1. CASE call' = [call EXCEPT ![w] = Lookups!Idle]
  <2>1. \A v \in LookupWorkers : call'[v] = call[v] \/ call'[v] = Lookups!Idle
    BY <1>1
  <2>2. \A v \in LookupWorkers : call'[v] = call[v] \/ LookupsCallsOK(v)'
    BY <2>1 DEF LookupsCallsOK
  <2>3. redis' \in BOOLEAN /\ day' \in Nat /\ day' >= day
    BY DEF LookupsIInv
  <2>4. QED
    BY <2>2, <2>3, LookupsUncharged
<1>2. CASE call[w].tries > 1 /\ call' = [call EXCEPT ![w].tries = @ - 1]
  <2>1. PICK c \in LookupsCallType : c = call[w] /\ LookupsCallOK(c)
    BY LookupsCalls
  <2>2. PICK d : d = [c EXCEPT !.tries = @ - 1]
    OBVIOUS
  <2>3. /\ d \in LookupsCallType /\ d.since = c.since /\ d.after = c.after /\ d.blind = c.blind
        /\ d.kind = c.kind /\ d.key = c.key
    BY <1>2, <2>1, <2>2 DEF LookupsCallType
  <2>4. LookupsCallOK(d)'
    BY <2>1, <2>3 DEF LookupsCallOK
  <2>5. \A v \in LookupWorkers : call'[v] = call[v] \/ call'[v] = d
    BY <1>2, <2>1, <2>2
  <2>6. \A v \in LookupWorkers : call'[v] = call[v] \/ LookupsCallsOK(v)'
    BY <2>3, <2>4, <2>5 DEF LookupsCallsOK, LookupsCallOK
  <2>7. redis' \in BOOLEAN /\ day' \in Nat /\ day' >= day
    BY DEF LookupsIInv
  <2>8. QED
    BY <2>6, <2>7, LookupsUncharged
<1>3. QED
  BY <1>1, <1>2

LEMMA LookupsNextIInv ==
  ASSUME Lookups!LookupAssumption, LookupsIInv, Lookups!Next \/ UNCHANGED Lookups!vars
  PROVE  LookupsIInv'
<1>1. ASSUME NEW w \in LookupWorkers, NEW k \in LookupKeys,
             Lookups!Enrich(w, k) \/ Lookups!Verify(w, k) \/ Lookups!Score(w, k) \/ Lookups!Retry(w, k)
      PROVE  LookupsIInv'
  <2>1. \A kind \in {"rocketreach", "millionverifier", "groq"} : <<kind, k>> \in Lookups!Kinds \X LookupKeys
    BY DEF Lookups!Kinds, Lookups!Cached
  <2>2. QED
    BY <1>1, <2>1, LookupsAsked DEF Lookups!Enrich, Lookups!Verify, Lookups!Score, Lookups!Retry
<1>2. ASSUME NEW w \in LookupWorkers, Lookups!Answered(w) PROVE LookupsIInv'
  <2>1. PICK body : /\ body \in Lookups!Bodies(call[w].kind)
                    /\ Lookups!Charge(w, body) /\ Lookups!Give(w, Lookups!Said(call[w].kind, body))
    BY <1>2 DEF Lookups!Answered
  <2>2. call[w] # Lookups!Idle /\ call[w].kind \in Lookups!Kinds
    BY <1>2, LookupsCalls DEF Lookups!Answered, Lookups!Busy
  <2>3. body \in LookupsSayings
    BY <2>1, <2>2 DEF Lookups!Bodies, Lookups!Kinds, Lookups!Cached, LookupsSayings
  <2>4. QED
    BY <1>2, <2>1, <2>2, <2>3, LookupsCharged DEF Lookups!Answered, Lookups!Give
<1>3. ASSUME NEW w \in LookupWorkers, Lookups!Refused(w) PROVE LookupsIInv'
  <2>1. /\ call[w] # Lookups!Idle /\ UNCHANGED <<day, redis>>
        /\ call' = [call EXCEPT ![w] = Lookups!Idle]
    BY <1>3 DEF Lookups!Refused, Lookups!Busy, Lookups!Give
  <2>2. Lookups!Charge(w, "not_found") \/ UNCHANGED <<cache, paid>>
    BY <1>3 DEF Lookups!Refused
  <2>3. "not_found" \in LookupsSayings
    BY DEF LookupsSayings
  <2>4. QED
    BY <2>1, <2>2, <2>3, LookupsCharged, LookupsFailed
<1>4. ASSUME NEW w \in LookupWorkers, Lookups!Throttled(w) \/ Lookups!Garbled(w) PROVE LookupsIInv'
  BY <1>4, LookupsFailed DEF Lookups!Throttled, Lookups!Garbled, Lookups!Busy, Lookups!Give
<1>5. CASE Lookups!Tick \/ Lookups!Outage \/ UNCHANGED Lookups!vars
  <2>1. UNCHANGED <<cache, paid, call>> /\ (day' = day \/ day' = day + 1)
    BY <1>5 DEF Lookups!Tick, Lookups!Outage, Lookups!vars
  <2>2. redis' \in BOOLEAN
    BY <1>5, Zenon DEF Lookups!Tick, Lookups!Outage, Lookups!vars, LookupsIInv
  <2>3. day' \in Nat /\ day' >= day
    BY <2>1 DEF LookupsIInv
  <2>4. QED
    BY <2>1, <2>2, <2>3, LookupsUncharged
<1>6. QED
  BY <1>1, <1>2, <1>3, <1>4, <1>5 DEF Lookups!Next

-----------------------------------------------------------------------------
(* Website crawler                                                           *)

\* The crawl's variables in the pool.
rules == s1
robots == s2
at == s3
variant == s4
fetch == s5
fetched == s6
late == s7
frontier == s8
visited == s9
queue == s10
browser == s11
asked == s12
again == s13
status == s14
moved == s15

USE DEF rules, robots, at, variant, fetch, fetched, late, frontier, visited, queue, browser,
  asked, again, status, moved

\* The home page has been seen.
CrawlHome == 0 \in visited

\* What the crawl itself has asked for was allowed, and is behind it.
CrawlLoopOK(r) ==
  /\ r.page = 0 => /\ r.host \in DOMAIN rules /\ robots[r.host] # "unknown"
                   /\ robots[r.host] = "rules" => 0 \notin rules[r.host]
  /\ r.page # 0 => CrawlHome /\ (r.host = Variants[variant] => Crawl!Allowed(r.page))
  /\ at = "pick" => r.page \in visited
  /\ at = "fetch" => r.page \in visited \cup {fetch.page}

CrawlAskedOK(r) == r.by = "loop" => CrawlLoopOK(r)

CrawlIInv ==
  /\ rules \in RobotRules /\ robots \in [DOMAIN rules -> {"unknown", "open", "rules"}]
  /\ variant \in 1 .. Len(Variants) /\ fetched \in Nat
  /\ at \in {"robots", "fetch", "pick", "done"}
  /\ fetch = [page |-> fetch.page, how |-> fetch.how, left |-> fetch.left, kind |-> fetch.kind]
  /\ \A r \in asked : CrawlAskedOK(r)
  /\ ~ again
  /\ fetched <= CrawlPages \/ fetched <= Len(Variants)
  /\ at = "robots" => ~ CrawlHome /\ fetched = variant - 1
  /\ at \in {"fetch", "pick"} => robots[Variants[variant]] # "unknown"
  /\ at = "fetch" => /\ Crawl!Allowed(fetch.page)
                     /\ fetch.page = 0 => ~ CrawlHome /\ fetched = variant - 1
                     /\ fetch.page # 0 => CrawlHome /\ fetched < CrawlPages
  /\ at = "pick" => CrawlHome
  /\ at = "done" /\ status = "ok" => CrawlHome

LEMMA CrawlMax ==
  ASSUME NEW a \in Nat, NEW b \in Nat
  PROVE  Crawl!Max({a, b}) \in {a, b} /\ Crawl!Max({a, b}) >= a /\ Crawl!Max({a, b}) >= b
<1>1. \E x \in {a, b} : \A y \in {a, b} : x >= y
  OBVIOUS
<1>2. QED
  BY <1>1 DEF Crawl!Max

LEMMA CrawlSite ==
  ASSUME Crawl!CrawlAssumption, CrawlIInv
  PROVE  /\ Len(Variants) \in Nat /\ CrawlPages \in Nat \ {0} /\ variant \in Nat
         /\ Variants[variant] \in DOMAIN rules
<1>1. Variants \in Seq(DOMAIN rules)
  BY DEF Crawl!CrawlAssumption, CrawlIInv
<1>2. QED
  BY <1>1 DEF Crawl!CrawlAssumption, CrawlIInv

LEMMA CrawlInitIInv ==
  ASSUME Crawl!CrawlAssumption, Crawl!Init
  PROVE  CrawlIInv
<1>1. Variants \in Seq(DOMAIN rules) /\ Variants # <<>>
  BY DEF Crawl!CrawlAssumption, Crawl!Init
<1>2. 1 \in 1 .. Len(Variants)
  BY <1>1
<1>3. QED
  BY <1>2 DEF Crawl!Init, CrawlIInv, Crawl!NoFetch, CrawlHome

\* A request of the page in progress is one that was allowed.
LEMMA CrawlRequestOK ==
  ASSUME Crawl!CrawlAssumption, CrawlIInv, at = "fetch", NEW n, Crawl!Request(n), UNCHANGED <<rules,
         robots>>,
         visited \subseteq visited', variant' = variant \/ ~ CrawlHome,
         \/ at' = "fetch" /\ fetch'.page = fetch.page
         \/ at' = "pick" /\ fetch.page \in visited'
         \/ at' \in {"robots", "done"}
  PROVE  \A r \in asked' : CrawlAskedOK(r)'
<1>1. PICK new, hops : new = [page |-> fetch.page, host |-> Crawl!Host(fetch.page), by |-> "loop"]
                        /\ hops = moved[fetch.page]
  OBVIOUS
<1>2. /\ new.page = fetch.page /\ new.host = Crawl!Host(fetch.page)
      /\ asked' = asked \cup {new} \cup
           {[page |-> hops[i].page, host |-> hops[i].host, by |-> "redirect"] : i \in 1 .. n}
  BY <1>1 DEF Crawl!Request
<1>0. \A r \in asked' : r = new \/ r \in asked \/ r.by = "redirect"
  BY <1>2
<1>3. Variants[variant] \in DOMAIN rules
  BY CrawlSite
<1>4. CrawlAskedOK(new)'
  <2>1. CASE fetch.page = 0
    <3>1. new.host = Variants[variant]
      BY <1>2, <2>1 DEF Crawl!Host
    <3>2. QED
      BY <1>2, <1>3, <2>1, <3>1 DEF CrawlAskedOK, CrawlLoopOK, CrawlIInv, Crawl!Allowed
  <2>2. CASE fetch.page # 0
    BY <1>2, <2>2 DEF CrawlAskedOK, CrawlLoopOK, CrawlIInv, Crawl!Allowed, CrawlHome
  <2>3. QED
    BY <2>1, <2>2
<1>5. ASSUME NEW r \in asked PROVE CrawlAskedOK(r)'
  <2>1. CrawlAskedOK(r)
    BY DEF CrawlIInv
  <2>2. QED
    BY <2>1 DEF CrawlAskedOK, CrawlLoopOK, Crawl!Allowed, CrawlHome
<1>6. \A r : r.by = "redirect" => CrawlAskedOK(r)'
  BY DEF CrawlAskedOK, CrawlLoopOK
<1>7. QED
  BY <1>0, <1>4, <1>5, <1>6

\* A request that is tried again or handed to the browser.
LEMMA CrawlTriedAgain ==
  ASSUME Crawl!CrawlAssumption, CrawlIInv, at = "fetch", NEW n, Crawl!Request(n),
         UNCHANGED <<rules, robots, again, at, variant, fetched, frontier, visited, queue, status>>,
         \/ fetch' = [fetch EXCEPT !.how = "insecure"]
         \/ \E kind \in Crawl!Kinds : fetch' = [fetch EXCEPT !.how = "browser", !.kind = kind]
         \/ fetch' = [fetch EXCEPT !.how = "http", !.left = @ - 1]
  PROVE  CrawlIInv'
<1>1. /\ fetch' = [page |-> fetch'.page, how |-> fetch'.how, left |-> fetch'.left, kind |-> fetch'.kind]
      /\ fetch'.page = fetch.page
  <2>1. PICK p, h, l, k : fetch = [page |-> p, how |-> h, left |-> l, kind |-> k]
    BY DEF CrawlIInv
  <2>2. QED
    BY <2>1
<1>2. \A r \in asked' : CrawlAskedOK(r)'
  BY <1>1, CrawlRequestOK
<1>3. QED
  BY <1>1, <1>2 DEF CrawlIInv, CrawlHome, Crawl!Allowed

\* A fetch that is over: it counts, and the next variant, the loop or the end follows.
LEMMA CrawlFinished ==
  ASSUME Crawl!CrawlAssumption, CrawlIInv, at = "fetch", NEW n, Crawl!Request(n),
         NEW ok, NEW kind, Crawl!Finish(ok, kind),
         UNCHANGED <<rules, robots, again>>
  PROVE  CrawlIInv'
<1>1. fetched' = fetched + 1 /\ fetch' = Crawl!NoFetch
  BY DEF Crawl!Finish
<1>2. fetched' \in Nat /\ (fetched' <= CrawlPages \/ fetched' <= Len(Variants))
  BY <1>1, CrawlSite DEF CrawlIInv
<1>3. ASSUME NEW links, Crawl!PageIn(fetch.page, links) PROVE CrawlIInv'
  <2>1. /\ visited' = visited \cup {fetch.page} /\ at' = "pick" /\ UNCHANGED <<variant, status>>
    BY <1>3 DEF Crawl!PageIn
  <2>2. \A r \in asked' : CrawlAskedOK(r)'
    BY <2>1, CrawlRequestOK
  <2>3. CrawlHome'
    BY <2>1 DEF CrawlIInv, CrawlHome
  <2>4. QED
    BY <1>1, <1>2, <2>1, <2>2, <2>3 DEF CrawlIInv, Crawl!NoFetch
<1>4. CASE Crawl!PageLost(fetch.page, kind)
  <2>1. CASE fetch.page # 0
    <3>1. /\ visited' = visited \cup {fetch.page} /\ at' = "pick"
          /\ UNCHANGED <<queue, variant, status>>
      BY <1>4, <2>1 DEF Crawl!PageLost
    <3>2. \A r \in asked' : CrawlAskedOK(r)'
      BY <3>1, CrawlRequestOK
    <3>3. CrawlHome'
      BY <2>1, <3>1 DEF CrawlIInv, CrawlHome
    <3>4. QED
      BY <1>1, <1>2, <3>1, <3>2, <3>3 DEF CrawlIInv, Crawl!NoFetch
  <2>2. CASE fetch.page = 0
    <3>1. /\ visited' = visited
          /\ \/ at' = "robots" /\ variant < Len(Variants) /\ variant' = variant + 1 /\ UNCHANGED status
             \/ at' = "done" /\ UNCHANGED variant /\ status' \in {"blocked", "unreachable"}
      BY <1>4, <2>2 DEF Crawl!PageLost, Crawl!site
    <3>2. ~ CrawlHome /\ fetched = variant - 1
      BY <2>2, <3>1 DEF CrawlIInv
    <3>3. \A r \in asked' : CrawlAskedOK(r)'
      BY <2>2, <3>1, <3>2, CrawlRequestOK
    <3>4. ~ CrawlHome'
      BY <3>1, <3>2 DEF CrawlHome
    <3>5. QED
      BY <1>1, <1>2, <3>1, <3>2, <3>3, <3>4, CrawlSite DEF CrawlIInv, Crawl!NoFetch
  <2>3. QED
    BY <2>1, <2>2
<1>5. QED
  BY <1>3, <1>4 DEF Crawl!Finish

LEMMA CrawlSettled ==
  ASSUME Crawl!CrawlAssumption, CrawlIInv, at = "fetch", NEW n, Crawl!Request(n),
         NEW ok, NEW kind \in Crawl!Kinds, Crawl!Settle(ok, kind),
         UNCHANGED <<rules, robots, again>>
  PROVE  CrawlIInv'
<1>1. CASE Crawl!Browse(kind)
  BY <1>1, CrawlTriedAgain DEF Crawl!Browse, Crawl!site
<1>2. CASE Crawl!Finish(ok, kind)
  BY <1>2, CrawlFinished
<1>3. QED
  BY <1>1, <1>2 DEF Crawl!Settle

LEMMA CrawlFetches ==
  ASSUME Crawl!CrawlAssumption, CrawlIInv, Crawl!Http \/ Crawl!Insecure \/ Crawl!Browser
  PROVE  CrawlIInv'
<1>1. at = "fetch" /\ (\E n : Crawl!Request(n)) /\ UNCHANGED <<rules, robots, again>>
  BY DEF Crawl!Http, Crawl!Insecure, Crawl!Browser, Crawl!world
<1>2. CASE Crawl!Http
  <2>1. \/ \E kind \in Crawl!Kinds, ok \in BOOLEAN : Crawl!Settle(ok, kind)
        \/ /\ fetch' = [fetch EXCEPT !.how = "insecure"]
           /\ UNCHANGED <<at, variant, fetched, Crawl!site, browser, status>>
        \/ Crawl!Retry
    BY <1>2 DEF Crawl!Http
  <2>2. QED
    BY <1>1, <2>1, CrawlSettled, CrawlTriedAgain DEF Crawl!Retry, Crawl!site
<1>3. CASE Crawl!Insecure
  <2>1. /\ "ok" \in Crawl!Kinds /\ "thin" \in Crawl!Kinds /\ "gone" \in Crawl!Kinds
        /\ "ssl" \in Crawl!Kinds
    BY DEF Crawl!Kinds, Crawl!Transient
  <2>2. \/ \E kind \in Crawl!Kinds, ok \in BOOLEAN : Crawl!Settle(ok, kind)
        \/ Crawl!Retry
    BY <1>3, <2>1 DEF Crawl!Insecure
  <2>3. QED
    BY <1>1, <2>2, CrawlSettled, CrawlTriedAgain DEF Crawl!Retry, Crawl!site
<1>4. CASE Crawl!Browser
  BY <1>1, <1>4, CrawlFinished DEF Crawl!Browser
<1>5. QED
  BY <1>2, <1>3, <1>4

\* robots.txt of the variant's host, once fetched, is what it was.
LEMMA CrawlRobotsRead ==
  ASSUME Crawl!CrawlAssumption, CrawlIInv, Crawl!FetchRobots
  PROVE  CrawlIInv'
<1>1. PICK h : h = Variants[variant]
  OBVIOUS
<1>2. h \in DOMAIN rules
  BY <1>1, CrawlSite
<1>3. PICK got \in {"open", "rules"} :
        /\ robots' = IF robots[h] = "unknown" THEN [robots EXCEPT ![h] = got] ELSE robots
        /\ \/ at' = "done" /\ status' = "unreachable" /\ UNCHANGED fetch
           \/ /\ ~ (robots'[h] = "rules" /\ 0 \in rules[h])
              /\ at' = "fetch" /\ UNCHANGED status
              /\ \E left : fetch' = [page |-> 0, how |-> "http", left |-> left, kind |-> "none"]
  BY <1>1 DEF Crawl!FetchRobots, Crawl!StartFetch
<1>4. /\ at = "robots" /\ UNCHANGED <<rules, variant, fetched, visited, asked, again>>
      /\ ~ CrawlHome /\ fetched = variant - 1
  BY DEF Crawl!FetchRobots, Crawl!world, Crawl!site, CrawlIInv
<1>5. /\ robots' \in [DOMAIN rules -> {"unknown", "open", "rules"}] /\ robots'[h] # "unknown"
      /\ \A g \in DOMAIN rules : robots[g] # "unknown" => robots'[g] = robots[g]
  BY <1>2, <1>3 DEF CrawlIInv
<1>6. \A r \in asked' : CrawlAskedOK(r)'
  <2>1. ASSUME NEW r \in asked PROVE CrawlAskedOK(r)'
    <3>1. CrawlAskedOK(r) /\ (r.by = "loop" => r.page = 0)
      BY <1>4 DEF CrawlIInv, CrawlAskedOK, CrawlLoopOK
    <3>2. QED
      BY <1>3, <1>4, <1>5, <3>1 DEF CrawlAskedOK, CrawlLoopOK
  <2>2. QED
    BY <1>4, <2>1
<1>7. ~ CrawlHome'
  BY <1>4 DEF CrawlHome
<1>8. CASE at' = "done"
  BY <1>3, <1>4, <1>5, <1>6, <1>7, <1>8 DEF CrawlIInv
<1>9. CASE at' = "fetch"
  <2>1. /\ fetch'.page = 0
        /\ fetch' = [page |-> fetch'.page, how |-> fetch'.how, left |-> fetch'.left, kind |-> fetch'.kind]
    BY <1>3, <1>9
  <2>2. Crawl!Allowed(0)'
    BY <1>1, <1>3, <1>4, <1>9 DEF Crawl!Allowed
  <2>3. QED
    BY <1>1, <1>4, <1>5, <1>6, <1>7, <1>9, <2>1, <2>2 DEF CrawlIInv
<1>10. QED
  BY <1>3, <1>8, <1>9

\* The loop takes pages it has not asked for, and only such that are allowed.
LEMMA CrawlPicked ==
  ASSUME Crawl!CrawlAssumption, CrawlIInv, Crawl!Pick
  PROVE  CrawlIInv'
<1>1. PICK p : p = Head(queue)
  OBVIOUS
<1>2. /\ at = "pick" /\ fetched < CrawlPages
      /\ UNCHANGED <<rules, robots, variant, fetched, asked, status>>
      /\ CrawlHome /\ \A r \in asked : CrawlAskedOK(r) /\ (r.by = "loop" => r.page \in visited)
  BY DEF Crawl!Pick, Crawl!world, CrawlIInv, CrawlAskedOK, CrawlLoopOK
<1>3. CASE p \in visited \/ ~ Crawl!Allowed(p)
  <2>1. at' = at /\ UNCHANGED <<fetch, again>> /\ visited \subseteq visited'
    BY <1>1, <1>3 DEF Crawl!Pick
  <2>2. CrawlHome'
    BY <1>2, <2>1 DEF CrawlHome
  <2>3. \A r \in asked' : CrawlAskedOK(r)'
    BY <1>2, <2>1, <2>2 DEF CrawlAskedOK, CrawlLoopOK, Crawl!Allowed
  <2>4. QED
    BY <1>2, <2>1, <2>2, <2>3 DEF CrawlIInv
<1>4. CASE p \notin visited /\ Crawl!Allowed(p)
  <2>1. /\ at' = "fetch" /\ UNCHANGED visited
        /\ fetch' = [page |-> p, how |-> "http", left |-> 1, kind |-> "none"]
        /\ again' = (again \/ \E r \in asked : r.page = p /\ r.by = "loop")
    BY <1>1, <1>4 DEF Crawl!Pick, Crawl!StartFetch
  <2>2. ~ again'
    BY <1>2, <1>4, <2>1 DEF CrawlIInv
  <2>3. CrawlHome' /\ p # 0 /\ fetch'.page = p
    BY <1>2, <1>4, <2>1 DEF CrawlHome
  <2>4. \A r \in asked' : CrawlAskedOK(r)'
    BY <1>2, <2>1, <2>3 DEF CrawlAskedOK, CrawlLoopOK, Crawl!Allowed
  <2>5. robots[Variants[variant]] # "unknown"
    BY <1>2 DEF CrawlIInv
  <2>6. QED
    BY <1>2, <1>4, <2>1, <2>2, <2>3, <2>4, <2>5 DEF CrawlIInv, Crawl!Allowed
<1>5. QED
  BY <1>3, <1>4

\* The crawl ends, or its time does.
LEMMA CrawlEnded ==
  ASSUME Crawl!CrawlAssumption, CrawlIInv, Crawl!Stop \/ Crawl!Fails \/ Crawl!TimeUp
  PROVE  CrawlIInv'
<1>1. UNCHANGED <<rules, robots, variant, fetch, fetched, visited, asked, again>>
  BY DEF Crawl!Stop, Crawl!Fails, Crawl!TimeUp, Crawl!world, Crawl!site
<1>2. \/ at' = at /\ status' = status
      \/ at' = "done" /\ (at = "pick" \/ 0 \in visited) /\ status' = status
      \/ at' = "done" /\ status' = "unreachable"
  BY DEF Crawl!Stop, Crawl!Fails, Crawl!TimeUp
<1>3. \A r \in asked' : CrawlAskedOK(r)'
  BY <1>1, <1>2 DEF CrawlIInv, CrawlAskedOK, CrawlLoopOK, Crawl!Allowed, CrawlHome
<1>4. QED
  BY <1>1, <1>2, <1>3 DEF CrawlIInv, Crawl!Allowed, CrawlHome

LEMMA CrawlNextIInv ==
  ASSUME Crawl!CrawlAssumption, CrawlIInv, Crawl!Next \/ UNCHANGED Crawl!vars
  PROVE  CrawlIInv'
<1>1. CASE UNCHANGED Crawl!vars
  <2>1. \A r \in asked' : CrawlAskedOK(r)'
    BY <1>1 DEF Crawl!vars, CrawlIInv, CrawlAskedOK, CrawlLoopOK, Crawl!Allowed, CrawlHome
  <2>2. QED
    BY <1>1, <2>1 DEF Crawl!vars, CrawlIInv, Crawl!Allowed, CrawlHome
<1>2. QED
  BY <1>1, CrawlFetches, CrawlRobotsRead, CrawlPicked, CrawlEnded DEF Crawl!Next

LEMMA CrawlIInvPolite ==
  ASSUME Crawl!CrawlAssumption, CrawlIInv
  PROVE  Crawl!PoliteCrawl
<1>1. ASSUME NEW r \in asked, r.by = "loop", r.host = Crawl!Host(0), robots[r.host] = "rules"
      PROVE  r.page \notin rules[r.host]
  <2>1. CrawlAskedOK(r) /\ r.host = Variants[variant]
    BY <1>1 DEF CrawlIInv, Crawl!Host
  <2>2. QED
    BY <1>1, <2>1 DEF CrawlAskedOK, CrawlLoopOK, Crawl!Allowed
<1>2. fetched <= Crawl!Max({CrawlPages, Len(Variants)})
  <2>1. PICK m : m = Crawl!Max({CrawlPages, Len(Variants)})
    OBVIOUS
  <2>2. m \in {CrawlPages, Len(Variants)} /\ m >= CrawlPages /\ m >= Len(Variants)
    BY <2>1, CrawlSite, CrawlMax
  <2>3. QED
    BY <2>1, <2>2, CrawlSite DEF CrawlIInv
<1>3. QED
  BY <1>1, <1>2 DEF Crawl!PoliteCrawl, CrawlIInv, CrawlHome

-----------------------------------------------------------------------------
(* Validation rules                                                          *)

\* The rules' variables in the pool.
stored == s1
edit == s2
verdict == s3

USE DEF stored, edit, verdict

\* A row the screen can read: what it stores under two names is the same.
GatesRowOK(row) ==
  /\ row = [llm_threshold |-> row.llm_threshold, llm_mode |-> row.llm_mode,
            role_keywords |-> row.role_keywords, allow_role_based |-> row.allow_role_based,
            catch_all_policy |-> row.catch_all_policy, risk_policy |-> row.risk_policy,
            role_based_keywords |-> row.role_based_keywords,
            catch_all_handling |-> row.catch_all_handling, risk_handling |-> row.risk_handling,
            disposable_domains |-> row.disposable_domains,
            unknown_retry_policy |-> row.unknown_retry_policy]
  /\ row.llm_threshold \in 0 .. 100
  /\ row.role_based_keywords \in {{}, row.role_keywords}
  /\ row.catch_all_handling \in {"unset", row.catch_all_policy}
  /\ row.risk_handling \in {"unset", row.risk_policy}

GatesIInv ==
  /\ GatesRowOK(stored)
  /\ \A a \in Admins : edit[a].on => GatesRowOK(edit[a].row)
  /\ Gates!VerifiedPassedGates

LEMMA GatesInitIInv ==
  ASSUME Gates!Init
  PROVE  GatesIInv
<1>1. GatesRowOK(stored)
  BY DEF Gates!Init, GatesRowOK, Gates!DefaultRules, Gates!LegacyRules
<1>2. QED
  BY <1>1 DEF Gates!Init, GatesIInv, Gates!NoEdit, Gates!NoVerdict, Gates!VerifiedPassedGates

\* What a save of the screen makes of a row.
LEMMA GatesPatched ==
  ASSUME Gates!RulesAssumption, NEW change \in Patches, NEW row, GatesRowOK(row)
  PROVE  GatesRowOK(Gates!PatchRules(row, change[1], change[2]))
<1>1. PICK l, m, k, a, c, r, b, h, s, d, u :
        row = [llm_threshold |-> l, llm_mode |-> m, role_keywords |-> k, allow_role_based |-> a,
               catch_all_policy |-> c, risk_policy |-> r, role_based_keywords |-> b,
               catch_all_handling |-> h, risk_handling |-> s, disposable_domains |-> d,
               unknown_retry_policy |-> u]
  BY DEF GatesRowOK
<1>2. l \in 0 .. 100 /\ b \in {{}, k} /\ h \in {"unset", c} /\ s \in {"unset", r}
  BY <1>1 DEF GatesRowOK
<1>3. PICK f, v : f = change[1] /\ v = change[2]
  OBVIOUS
<1>4. \/ f = "llm_threshold" /\ v \in 0 .. 100
      \/ f \in {"role_based_keywords", "catch_all_handling", "risk_handling",
                "disposable_domains", "unknown_retry_policy"}
  BY <1>3 DEF Gates!RulesAssumption
<1>5. CASE f = "llm_threshold"
  <2>1. Gates!PatchRules(row, f, v) = [row EXCEPT !.llm_threshold = v] /\ v \in 0 .. 100
    BY <1>4, <1>5 DEF Gates!PatchRules
  <2>2. QED
    BY <1>1, <1>2, <1>3, <2>1 DEF GatesRowOK
<1>6. CASE f = "role_based_keywords"
  <2>1. Gates!PatchRules(row, f, v) = [row EXCEPT !.role_based_keywords = v, !.role_keywords = v]
    BY <1>6 DEF Gates!PatchRules
  <2>2. PICK new :
          new = [llm_threshold |-> l, llm_mode |-> m, role_keywords |-> v, allow_role_based |-> a,
                 catch_all_policy |-> c, risk_policy |-> r, role_based_keywords |-> v,
                 catch_all_handling |-> h, risk_handling |-> s, disposable_domains |-> d,
                 unknown_retry_policy |-> u]
    OBVIOUS
  <2>3. Gates!PatchRules(row, f, v) = new
    BY <1>1, <2>1, <2>2
  <2>4. GatesRowOK(new)
    BY <1>2, <2>2 DEF GatesRowOK
  <2>5. QED
    BY <1>3, <2>3, <2>4
<1>7. CASE f = "catch_all_handling"
  <2>1. Gates!PatchRules(row, f, v) = [row EXCEPT !.catch_all_handling = v, !.catch_all_policy = v]
    BY <1>7 DEF Gates!PatchRules
  <2>2. PICK new :
          new = [llm_threshold |-> l, llm_mode |-> m, role_keywords |-> k, allow_role_based |-> a,
                 catch_all_policy |-> v, risk_policy |-> r, role_based_keywords |-> b,
                 catch_all_handling |-> v, risk_handling |-> s, disposable_domains |-> d,
                 unknown_retry_policy |-> u]
    OBVIOUS
  <2>3. Gates!PatchRules(row, f, v) = new
    BY <1>1, <2>1, <2>2
  <2>4. GatesRowOK(new)
    BY <1>2, <2>2 DEF GatesRowOK
  <2>5. QED
    BY <1>3, <2>3, <2>4
<1>8. CASE f = "risk_handling"
  <2>1. Gates!PatchRules(row, f, v) = [row EXCEPT !.risk_handling = v, !.risk_policy = v]
    BY <1>8 DEF Gates!PatchRules
  <2>2. PICK new :
          new = [llm_threshold |-> l, llm_mode |-> m, role_keywords |-> k, allow_role_based |-> a,
                 catch_all_policy |-> c, risk_policy |-> v, role_based_keywords |-> b,
                 catch_all_handling |-> h, risk_handling |-> v, disposable_domains |-> d,
                 unknown_retry_policy |-> u]
    OBVIOUS
  <2>3. Gates!PatchRules(row, f, v) = new
    BY <1>1, <2>1, <2>2
  <2>4. GatesRowOK(new)
    BY <1>2, <2>2 DEF GatesRowOK
  <2>5. QED
    BY <1>3, <2>3, <2>4
<1>9. CASE f = "disposable_domains"
  <2>1. Gates!PatchRules(row, f, v) = [row EXCEPT !.disposable_domains = v]
    BY <1>9 DEF Gates!PatchRules
  <2>2. PICK new :
          new = [llm_threshold |-> l, llm_mode |-> m, role_keywords |-> k, allow_role_based |-> a,
                 catch_all_policy |-> c, risk_policy |-> r, role_based_keywords |-> b,
                 catch_all_handling |-> h, risk_handling |-> s, disposable_domains |-> v,
                 unknown_retry_policy |-> u]
    OBVIOUS
  <2>3. Gates!PatchRules(row, f, v) = new
    BY <1>1, <2>1, <2>2
  <2>4. GatesRowOK(new)
    BY <1>2, <2>2 DEF GatesRowOK
  <2>5. QED
    BY <1>3, <2>3, <2>4
<1>10. CASE f = "unknown_retry_policy"
  <2>1. Gates!PatchRules(row, f, v) = [row EXCEPT !.unknown_retry_policy = v]
    BY <1>10 DEF Gates!PatchRules
  <2>2. PICK new :
          new = [llm_threshold |-> l, llm_mode |-> m, role_keywords |-> k, allow_role_based |-> a,
                 catch_all_policy |-> c, risk_policy |-> r, role_based_keywords |-> b,
                 catch_all_handling |-> h, risk_handling |-> s, disposable_domains |-> d,
                 unknown_retry_policy |-> v]
    OBVIOUS
  <2>3. Gates!PatchRules(row, f, v) = new
    BY <1>1, <2>1, <2>2
  <2>4. GatesRowOK(new)
    BY <1>2, <2>2 DEF GatesRowOK
  <2>5. QED
    BY <1>3, <2>3, <2>4
<1>11. QED
  BY <1>4, <1>5, <1>6, <1>7, <1>8, <1>9, <1>10

\* decide: VERIFIED means that no gate failed and the verifier let it through.
LEMMA GatesDecided ==
  ASSUME NEW sig, NEW inForce, Gates!Decide(sig, inForce) = "VERIFIED"
  PROVE  /\ ~ sig.suppressed /\ sig.syntax_ok /\ sig.disposable_ok
         /\ ~ (sig.role_based /\ ~ inForce.allow_role_based) /\ sig.mx # "fail"
         /\ Gates!VerifierVerdict(sig.mv, inForce) = "VERIFIED"
<1>1. PICK g : g = Gates!Gates(sig, inForce)
  OBVIOUS
<1>2. DOMAIN g = 1 .. 6
  BY <1>1 DEF Gates!Gates
<1>3. \A i \in 1 .. 6 : g[i].status # "VERIFIED"
  BY <1>1 DEF Gates!Gates
<1>4. ~ \E i \in 1 .. 6 : g[i].fails
  <2>1. SUFFICES ASSUME \E i \in 1 .. 6 : g[i].fails PROVE FALSE
    OBVIOUS
  <2>2. \E i \in 1 .. 6 : g[i].fails /\ \A j \in 1 .. (i - 1) : ~ g[j].fails
    <3>1. CASE g[1].fails
      BY <3>1
    <3>2. CASE ~ g[1].fails /\ g[2].fails
      BY <3>2
    <3>3. CASE ~ g[1].fails /\ ~ g[2].fails /\ g[3].fails
      BY <3>3
    <3>4. CASE ~ g[1].fails /\ ~ g[2].fails /\ ~ g[3].fails /\ g[4].fails
      BY <3>4
    <3>5. CASE ~ g[1].fails /\ ~ g[2].fails /\ ~ g[3].fails /\ ~ g[4].fails /\ g[5].fails
      BY <3>5
    <3>6. CASE ~ g[1].fails /\ ~ g[2].fails /\ ~ g[3].fails /\ ~ g[4].fails /\ ~ g[5].fails /\ g[6].fails
      BY <3>6
    <3>7. QED
      BY <2>1, <3>1, <3>2, <3>3, <3>4, <3>5, <3>6
  <2>3. Gates!FirstFailure(g) \in 1 .. 6
    BY <1>2, <2>2 DEF Gates!FirstFailure
  <2>4. Gates!Decide(sig, inForce) = g[Gates!FirstFailure(g)].status
    BY <1>1, <1>2, <2>1 DEF Gates!Decide
  <2>5. QED
    BY <1>3, <2>3, <2>4
<1>5. Gates!VerifierVerdict(sig.mv, inForce) = "VERIFIED"
  BY <1>1, <1>2, <1>4 DEF Gates!Decide
<1>6. ~ g[1].fails /\ ~ g[2].fails /\ ~ g[3].fails /\ ~ g[4].fails /\ ~ g[5].fails
  BY <1>4
<1>7. QED
  BY <1>1, <1>5, <1>6 DEF Gates!Gates

LEMMA GatesValidated ==
  ASSUME GatesIInv, NEW email, NEW said, NEW selected, NEW suppressed,
         Gates!Validate(email, said, selected, suppressed)
  PROVE  Gates!VerifiedPassedGates'
<1>1. SUFFICES ASSUME verdict'.status = "VERIFIED"
      PROVE  LET sig == verdict'.sig
             IN  /\ verdict'.email.syntax_ok /\ verdict'.email.disposable_ok /\ ~ sig.suppressed
                 /\ (verdict'.email.local \in stored'.role_keywords \/
                      (stored'.role_keywords = {} /\ verdict'.email.local \in {"info", "sales"}))
                       => stored'.allow_role_based
                 /\ sig.mv \in {"none", "valid", "catch_all"}
                 /\ sig.mv = "catch_all" => stored'.catch_all_policy = "allow"
  BY DEF Gates!VerifiedPassedGates
<1>2. PICK inForce, local, sig :
        /\ inForce = Gates!RulesFrom(stored)
        /\ local = [syntax_ok |-> email.syntax_ok, disposable_ok |-> email.disposable_ok,
                    role_based |-> Gates!IsRoleBased(email, inForce.role_keywords),
                    mx |-> Gates!MxFor(email)]
        /\ sig = Gates!Signals(local, said, selected, suppressed, inForce)
  OBVIOUS
<1>3. /\ verdict' = [status |-> Gates!Decide(sig, inForce), sig |-> sig, email |-> email]
      /\ stored' = stored
  BY <1>2 DEF Gates!Validate
<1>4. verdict'.sig = sig /\ verdict'.email = email /\ Gates!Decide(sig, inForce) = "VERIFIED"
  BY <1>1, <1>3
<1>5. /\ ~ sig.suppressed /\ sig.syntax_ok /\ sig.disposable_ok
      /\ ~ (sig.role_based /\ ~ inForce.allow_role_based)
      /\ Gates!VerifierVerdict(sig.mv, inForce) = "VERIFIED"
  BY <1>4, GatesDecided
<1>6. email.syntax_ok /\ email.disposable_ok
  BY <1>2, <1>5, Zenon DEF Gates!Signals
<1>7. /\ inForce.allow_role_based = stored.allow_role_based
      /\ inForce.role_keywords =
           IF stored.role_keywords = {} THEN {"info", "sales"} ELSE stored.role_keywords
      /\ inForce.catch_all_policy = "allow" => stored.catch_all_policy = "allow"
  BY <1>2 DEF Gates!RulesFrom, Gates!OneOf
<1>8. /\ sig.mv \in {"none", "valid", "catch_all"}
      /\ (sig.mv = "catch_all" => inForce.catch_all_policy = "allow")
  BY <1>5 DEF Gates!VerifierVerdict
<1>9. sig.role_based = Gates!IsRoleBased(email, inForce.role_keywords)
  BY <1>2, Zenon DEF Gates!Signals
<1>10. email.local \in inForce.role_keywords => inForce.allow_role_based
  BY <1>5, <1>9, Zenon DEF Gates!IsRoleBased
<1>11. (email.local \in stored.role_keywords \/
          (stored.role_keywords = {} /\ email.local \in {"info", "sales"})) => stored.allow_role_based
  BY <1>7, <1>10
<1>12. QED
  BY <1>3, <1>4, <1>5, <1>6, <1>7, <1>8, <1>11

LEMMA GatesNextIInv ==
  ASSUME Gates!RulesAssumption, GatesIInv, Gates!Next \/ UNCHANGED Gates!vars
  PROVE  GatesIInv'
<1>1. ASSUME NEW a \in Admins, Gates!Save(a) PROVE GatesIInv'
  <2>1. /\ stored' = edit[a].row /\ edit' = [edit EXCEPT ![a] = Gates!NoEdit]
        /\ verdict' = Gates!NoVerdict /\ edit[a].on
    BY <1>1 DEF Gates!Save
  <2>2. \A b \in Admins : edit'[b] = edit[b] \/ edit'[b] = Gates!NoEdit
    BY <2>1
  <2>3. GatesRowOK(stored')
    BY <2>1 DEF GatesIInv
  <2>4. QED
    BY <2>1, <2>2, <2>3 DEF GatesIInv, Gates!NoEdit, Gates!NoVerdict, Gates!VerifiedPassedGates
<1>2. ASSUME NEW a \in Admins, NEW change \in Patches, Gates!Open(a, change) PROVE GatesIInv'
  <2>1. PICK row : row = Gates!PatchRules(stored, change[1], change[2])
    OBVIOUS
  <2>2. GatesRowOK(row)
    BY <2>1, GatesPatched DEF GatesIInv
  <2>3. /\ edit' = [edit EXCEPT ![a] = [on |-> TRUE, row |-> row]]
        /\ verdict' = Gates!NoVerdict /\ stored' = stored
    BY <1>2, <2>1 DEF Gates!Open
  <2>4. \A b \in Admins : edit'[b] = edit[b] \/ edit'[b].row = row
    BY <2>3
  <2>5. QED
    BY <2>2, <2>3, <2>4 DEF GatesIInv, Gates!NoVerdict, Gates!VerifiedPassedGates
<1>3. ASSUME NEW email, NEW said, NEW selected, NEW suppressed,
             Gates!Validate(email, said, selected, suppressed)
      PROVE  GatesIInv'
  BY <1>3, GatesValidated DEF Gates!Validate, GatesIInv
<1>4. CASE UNCHANGED Gates!vars
  BY <1>4 DEF Gates!vars, GatesIInv, Gates!VerifiedPassedGates
<1>5. QED
  BY <1>1, <1>2, <1>3, <1>4 DEF Gates!Next

LEMMA GatesIInvShown ==
  ASSUME GatesIInv
  PROVE  Gates!ShownIsDecided
<1>1. /\ stored.llm_threshold \in 0 .. 100
      /\ stored.role_based_keywords \in {{}, stored.role_keywords}
      /\ stored.catch_all_handling \in {"unset", stored.catch_all_policy}
      /\ stored.risk_handling \in {"unset", stored.risk_policy}
  BY DEF GatesIInv, GatesRowOK
<1>2. Gates!Threshold(stored.llm_threshold) = stored.llm_threshold
  <2>1. PICK n : n = stored.llm_threshold
    OBVIOUS
  <2>2. n \in 0 .. 100
    BY <1>1, <2>1
  <2>3. Gates!Min({n, 100}) = n
    <3>1. n \in {n, 100} /\ \A y \in {n, 100} : n <= y
      BY <2>2
    <3>2. \A x \in {n, 100} : (\A y \in {n, 100} : x <= y) => x = n
      BY <2>2
    <3>3. QED
      BY <3>1, <3>2 DEF Gates!Min
  <2>4. Gates!Max({0, n}) = n
    <3>1. n \in {0, n} /\ \A y \in {0, n} : n >= y
      BY <2>2
    <3>2. \A x \in {0, n} : (\A y \in {0, n} : x >= y) => x = n
      BY <2>2
    <3>3. QED
      BY <3>1, <3>2 DEF Gates!Max
  <2>5. QED
    BY <2>1, <2>3, <2>4 DEF Gates!Threshold
<1>3. QED
  BY <1>1, <1>2 DEF Gates!ShownIsDecided, Gates!RulesShown, Gates!RulesFrom, Gates!OneOf

-----------------------------------------------------------------------------
(* Credentials                                                               *)

\* The credentials' variables in the pool.
row == s1
cipher == s2
file == s3
job == s4
adapters == s5
probe == s6
tested == s7
raced == s8
latest == s9
writes == s10
starts == s11
environ == s12
live == s13
untested == s14
lost == s15

USE DEF row, cipher, file, job, adapters, probe, tested, raced, latest, writes, starts, environ,
  live, untested, lost

\* A key is shown as verified after its provider found it good; a test in progress is of the row's key,
\* unless that was replaced meanwhile or could not be read.
SecretsRowOK(t) ==
  /\ row[t] = Secrets!NoRow \/ row[t] \in [val : Values, verified : BOOLEAN, seal : Nat]
  /\ row[t] # Secrets!NoRow /\ row[t].seal = 0 /\ cipher = 0 /\ t \notin raced =>
       /\ probe[t] # Unset => row[t].val = probe[t]
       /\ row[t].verified /\ t \notin untested => row[t].val \in tested[t]

SecretsRowsOK ==
  /\ cipher \in Nat
  /\ row = [t \in Tenants |-> row[t]] /\ probe = [t \in Tenants |-> probe[t]]
  /\ tested = [t \in Tenants |-> tested[t]]
  /\ \A t \in Tenants : SecretsRowOK(t)

\* Every key is assigned once in .env.
SecretsFileOK(f) ==
  /\ f \in Seq([key : EnvKeys, val : Values \cup {Unset}])
  /\ \A i, o \in DOMAIN f : f[i].key = f[o].key => i = o

\* A rewrite sets a key of .env as it was read.
SecretsJobOK(w) ==
  job[w] # Secrets!Idle =>
    /\ \E k \in EnvKeys, v \in Values \cup {Unset} :
         job[w] = [sets |-> <<k, v>>, read |-> job[w].read]
    /\ SecretsFileOK(job[w].read)

\* The one rewrite in progress is of .env as it is, and the key set last is what it sets
\* or what .env says.
SecretsAtWork(w) ==
  /\ job[w].read = file
  /\ latest = IF job[w].sets[1] = KeyName THEN job[w].sets[2] ELSE Secrets!ReadEnv(file, KeyName)
  /\ \A u \in KeyWriters \ {w} : job[u] = Secrets!Idle

SecretsEnvOK ==
  /\ SecretsFileOK(file) /\ lost \in BOOLEAN
  /\ job = [w \in KeyWriters |-> job[w]] /\ adapters = [p \in Secrets!Processes |-> adapters[p]]
  /\ \A w \in KeyWriters : SecretsJobOK(w)
  /\ environ = {} => adapters["api"] = Secrets!ReadEnv(file, KeyName)
  /\ ~ lost /\ Secrets!Quiet => latest = Secrets!ReadEnv(file, KeyName)
  /\ ~ lost => \A w \in KeyWriters : job[w] # Secrets!Idle => SecretsAtWork(w)

LEMMA SecretsInitRows ==
  ASSUME Secrets!SecretsAssumption, Secrets!Init
  PROVE  SecretsRowsOK
BY DEF Secrets!SecretsAssumption, Secrets!Init, SecretsRowsOK, SecretsRowOK

LEMMA SecretsInitEnv ==
  ASSUME Secrets!SecretsAssumption, Secrets!Init
  PROVE  SecretsEnvOK
<1>1. SecretsFileOK(file) /\ latest = Secrets!ReadEnv(file, KeyName)
  <2>1. CASE file = <<>>
    BY <2>1 DEF SecretsFileOK, Secrets!ReadEnv, Secrets!Init
  <2>2. ASSUME NEW k \in EnvKeys, NEW v \in Values, file = <<[key |-> k, val |-> v]>>
        PROVE  SecretsFileOK(file) /\ latest = Secrets!ReadEnv(file, KeyName)
    <3>1. /\ SecretsFileOK(file) /\ DOMAIN file = {1} /\ file[1].key = k /\ file[1].val = v
          /\ file # <<>>
      BY <2>2 DEF SecretsFileOK
    <3>2. Secrets!ReadEnv(file, KeyName) = IF k = KeyName THEN v ELSE Unset
      <4>1. CASE k = KeyName
        <5>1. {i \in DOMAIN file : file[i].key = KeyName} = {1}
          BY <3>1, <4>1
        <5>2. (CHOOSE i \in {1} : \A o \in {1} : o <= i) = 1
          OBVIOUS
        <5>3. QED
          BY <3>1, <4>1, <5>1, <5>2 DEF Secrets!ReadEnv
      <4>2. CASE k # KeyName
        <5>1. {i \in DOMAIN file : file[i].key = KeyName} = {}
          BY <3>1, <4>2
        <5>2. QED
          BY <4>2, <5>1 DEF Secrets!ReadEnv
      <4>3. QED
        BY <4>1, <4>2
    <3>3. latest = IF k = KeyName THEN v ELSE Unset
      BY <3>1 DEF Secrets!Init
    <3>4. QED
      BY <3>1, <3>2, <3>3
  <2>3. QED
    BY <2>1, <2>2 DEF Secrets!Init
<1>2. /\ job = [w \in KeyWriters |-> Secrets!Idle] /\ lost = FALSE
      /\ adapters = [p \in Secrets!Processes |->
                       IF environ = {} THEN latest ELSE CHOOSE v \in environ : TRUE]
  BY DEF Secrets!Init
<1>3. environ = {} => adapters["api"] = latest
  BY <1>2 DEF Secrets!Processes
<1>4. /\ job = [w \in KeyWriters |-> job[w]] /\ adapters = [p \in Secrets!Processes |-> adapters[p]]
      /\ \A w \in KeyWriters : job[w] = Secrets!Idle
  BY <1>2
<1>5. QED
  BY <1>1, <1>2, <1>3, <1>4 DEF SecretsEnvOK, SecretsJobOK

\* The one assignment of a key is what read_env finds.
LEMMA SecretsOneAssignment ==
  ASSUME NEW f, SecretsFileOK(f), NEW k
  PROVE  /\ \A i \in DOMAIN f : f[i].key = k => Secrets!ReadEnv(f, k) = f[i].val
         /\ (\A i \in DOMAIN f : f[i].key # k) => Secrets!ReadEnv(f, k) = Unset
<1>1. ASSUME NEW i \in DOMAIN f, f[i].key = k PROVE Secrets!ReadEnv(f, k) = f[i].val
  <2>1. {o \in DOMAIN f : f[o].key = k} = {i}
    BY <1>1 DEF SecretsFileOK
  <2>2. i \in Nat
    BY DEF SecretsFileOK
  <2>3. (CHOOSE x \in {i} : \A o \in {i} : o <= x) = i
    BY <2>2
  <2>4. QED
    BY <2>1, <2>3 DEF Secrets!ReadEnv
<1>2. ASSUME \A i \in DOMAIN f : f[i].key # k PROVE Secrets!ReadEnv(f, k) = Unset
  BY <1>2 DEF Secrets!ReadEnv
<1>3. QED
  BY <1>1, <1>2

\* write_env_values and read_env agree.
LEMMA SecretsWrittenIsRead ==
  ASSUME NEW f, SecretsFileOK(f), NEW k \in EnvKeys, NEW v \in Values \cup {Unset},
         NEW n \in EnvKeys
  PROVE  /\ SecretsFileOK(Secrets!WriteEnv(f, k, v))
         /\ Secrets!ReadEnv(Secrets!WriteEnv(f, k, v), n) = IF n = k THEN v ELSE Secrets!ReadEnv(f, n)
<1>1. f \in Seq([key : EnvKeys, val : Values \cup {Unset}])
  BY DEF SecretsFileOK
<1>2. PICK g : g = Secrets!WriteEnv(f, k, v)
  OBVIOUS
<1>3. CASE \A i \in DOMAIN f : f[i].key # k
  <2>1. PICK e \in [key : EnvKeys, val : Values \cup {Unset}] : e = [key |-> k, val |-> v]
    OBVIOUS
  <2>2. g = Append(f, e)
    BY <1>2, <1>3, <2>1 DEF Secrets!WriteEnv
  <2>3. /\ g \in Seq([key : EnvKeys, val : Values \cup {Unset}])
        /\ DOMAIN g = DOMAIN f \cup {Len(f) + 1} /\ Len(f) + 1 \notin DOMAIN f
        /\ \A i \in DOMAIN f : g[i] = f[i]
        /\ g[Len(f) + 1].key = k /\ g[Len(f) + 1].val = v
    BY <1>1, <2>1, <2>2
  <2>4. SecretsFileOK(g)
    BY <1>3, <2>3 DEF SecretsFileOK
  <2>5. CASE n = k
    BY <1>2, <2>3, <2>4, <2>5, SecretsOneAssignment
  <2>6. ASSUME n # k, NEW i \in DOMAIN f, f[i].key = n
        PROVE  Secrets!ReadEnv(g, n) = Secrets!ReadEnv(f, n)
    <3>1. i \in DOMAIN g /\ g[i] = f[i]
      BY <2>3
    <3>2. Secrets!ReadEnv(f, n) = f[i].val
      BY <2>6, SecretsOneAssignment
    <3>3. Secrets!ReadEnv(g, n) = g[i].val
      BY <2>4, <2>6, <3>1, SecretsOneAssignment
    <3>4. QED
      BY <3>1, <3>2, <3>3
  <2>7. ASSUME n # k, \A i \in DOMAIN f : f[i].key # n
        PROVE  Secrets!ReadEnv(g, n) = Secrets!ReadEnv(f, n)
    <3>1. \A i \in DOMAIN g : g[i].key # n
      BY <2>3, <2>7
    <3>2. QED
      BY <2>4, <2>7, <3>1, SecretsOneAssignment
  <2>8. QED
    BY <1>2, <2>4, <2>5, <2>6, <2>7
<1>4. ASSUME NEW i \in DOMAIN f, f[i].key = k
      PROVE  SecretsFileOK(g) /\ Secrets!ReadEnv(g, n) = IF n = k THEN v ELSE Secrets!ReadEnv(f, n)
  <2>1. {o \in DOMAIN f : f[o].key = k} = {i} /\ i \in Nat
    BY <1>4 DEF SecretsFileOK
  <2>2. (CHOOSE x \in {i} : \A o \in {i} : x <= o) = i
    BY <2>1
  <2>3. g = [f EXCEPT ![i].val = v]
    BY <1>2, <2>1, <2>2 DEF Secrets!WriteEnv
  <2>4. f[i] \in [key : EnvKeys, val : Values \cup {Unset}]
    <3>1. PICK S : S = [key : EnvKeys, val : Values \cup {Unset}]
      OBVIOUS
    <3>2. f \in Seq(S)
      BY <1>1, <3>1
    <3>3. f[i] \in S
      BY <3>2
    <3>4. QED
      BY <3>1, <3>3
  <2>5. PICK e \in [key : EnvKeys, val : Values \cup {Unset}] : e = [f[i] EXCEPT !.val = v]
    BY <2>4
  <2>6. e.key = k /\ e.val = v
    BY <1>4, <2>4, <2>5
  <2>7. g = [f EXCEPT ![i] = e]
    BY <2>3, <2>5
  <2>8. /\ g \in Seq([key : EnvKeys, val : Values \cup {Unset}]) /\ DOMAIN g = DOMAIN f
        /\ g[i] = e /\ \A o \in DOMAIN f \ {i} : g[o] = f[o]
    BY <1>1, <2>7
  <2>9. SecretsFileOK(g)
    BY <1>4, <2>6, <2>8 DEF SecretsFileOK
  <2>10. CASE n = k
    BY <2>6, <2>8, <2>9, <2>10, SecretsOneAssignment
  <2>11. ASSUME n # k, NEW o \in DOMAIN f, f[o].key = n
         PROVE  Secrets!ReadEnv(g, n) = Secrets!ReadEnv(f, n)
    <3>1. o \in DOMAIN g /\ g[o] = f[o]
      BY <1>4, <2>8, <2>11
    <3>2. Secrets!ReadEnv(f, n) = f[o].val
      BY <2>11, SecretsOneAssignment
    <3>3. Secrets!ReadEnv(g, n) = g[o].val
      BY <2>9, <2>11, <3>1, SecretsOneAssignment
    <3>4. QED
      BY <3>1, <3>2, <3>3
  <2>12. ASSUME n # k, \A o \in DOMAIN f : f[o].key # n
         PROVE  Secrets!ReadEnv(g, n) = Secrets!ReadEnv(f, n)
    <3>1. \A o \in DOMAIN g : g[o].key # n
      BY <2>6, <2>8, <2>12
    <3>2. QED
      BY <2>9, <2>12, <3>1, SecretsOneAssignment
  <2>13. QED
    BY <2>9, <2>10, <2>11, <2>12
<1>5. QED
  BY <1>2, <1>3, <1>4

-----------------------------------------------------------------------------

LEMMA SecretsNextRows ==
  ASSUME Secrets!SecretsAssumption, SecretsRowsOK, Secrets!Next \/ UNCHANGED Secrets!vars
  PROVE  SecretsRowsOK'
<1>1. ASSUME NEW t \in Tenants, NEW r,
             r = Secrets!NoRow \/ (r \in [val : Values, verified : BOOLEAN, seal : Nat] /\ ~ r.verified),
             row' = [row EXCEPT ![t] = r],
             raced' = IF probe[t] # Unset THEN raced \cup {t} ELSE raced,
             UNCHANGED <<cipher, probe, tested, untested>>
      PROVE  SecretsRowsOK'
  <2>1. row'[t] = r /\ \A u \in Tenants \ {t} : row'[u] = row[u]
    BY <1>1 DEF SecretsRowsOK
  <2>2. row' = [u \in Tenants |-> row'[u]]
    BY <1>1 DEF SecretsRowsOK
  <2>3. SecretsRowOK(t)'
    BY <1>1, <2>1 DEF SecretsRowOK
  <2>4. \A u \in Tenants \ {t} : SecretsRowOK(u)'
    BY <1>1, <2>1 DEF SecretsRowsOK, SecretsRowOK
  <2>5. QED
    BY <1>1, <2>2, <2>3, <2>4 DEF SecretsRowsOK
<1>2. ASSUME NEW w \in KeyWriters, NEW t \in Tenants, NEW v \in Values, Secrets!StoreCredential(w, t, v)
      PROVE  SecretsRowsOK'
  <2>1. /\ Secrets!Stored(t, v) \in [val : Values, verified : BOOLEAN, seal : Nat]
        /\ ~ Secrets!Stored(t, v).verified
    BY DEF Secrets!Stored, SecretsRowsOK
  <2>2. QED
    BY <1>1, <1>2, <2>1 DEF Secrets!StoreCredential
<1>3. ASSUME NEW w \in KeyWriters, NEW t \in Tenants, Secrets!DeleteCredential(w, t)
      PROVE  SecretsRowsOK'
  BY <1>1, <1>3 DEF Secrets!DeleteCredential
<1>4. ASSUME NEW t \in Tenants, Secrets!Probe(t) PROVE SecretsRowsOK'
  <2>1. /\ UNCHANGED <<row, cipher, tested, raced, untested>> /\ row[t] # Secrets!NoRow
        /\ probe' = [probe EXCEPT ![t] = Secrets!ResolveSecret(t)]
    BY <1>4 DEF Secrets!Probe
  <2>2. row[t].seal = cipher => Secrets!ResolveSecret(t) = row[t].val
    BY <2>1 DEF Secrets!ResolveSecret, Secrets!StoredSecret, SecretsRowsOK, SecretsRowOK,
      Secrets!SecretsAssumption
  <2>3. probe'[t] = Secrets!ResolveSecret(t) /\ \A u \in Tenants \ {t} : probe'[u] = probe[u]
    BY <2>1 DEF SecretsRowsOK
  <2>4. probe' = [u \in Tenants |-> probe'[u]]
    BY <2>1 DEF SecretsRowsOK
  <2>5. \A u \in Tenants : SecretsRowOK(u)'
    BY <2>1, <2>2, <2>3 DEF SecretsRowsOK, SecretsRowOK
  <2>6. QED
    BY <2>1, <2>4, <2>5 DEF SecretsRowsOK
<1>5. ASSUME NEW t \in Tenants, Secrets!RecordProbe(t) PROVE SecretsRowsOK'
  <2>1. /\ UNCHANGED <<cipher, raced>> /\ probe[t] # Unset
        /\ tested' = IF live THEN [tested EXCEPT ![t] = @ \cup {probe[t]}] ELSE tested
        /\ untested' = IF live THEN untested \ {t} ELSE untested \cup {t}
        /\ probe' = [probe EXCEPT ![t] = Unset]
        /\ row' = IF row[t] = Secrets!NoRow THEN row ELSE [row EXCEPT ![t].verified = TRUE]
    BY <1>5 DEF Secrets!RecordProbe
  <2>2. /\ tested' = [u \in Tenants |-> tested'[u]] /\ probe' = [u \in Tenants |-> probe'[u]]
        /\ t \in untested' \/ tested'[t] = tested[t] \cup {probe[t]}
        /\ probe'[t] = Unset
        /\ \A u \in Tenants \ {t} : probe'[u] = probe[u] /\ tested'[u] = tested[u]
        /\ \A u \in Tenants \ {t} : u \in untested' <=> u \in untested
    <3>1. CASE live
      BY <2>1, <3>1 DEF SecretsRowsOK
    <3>2. CASE ~ live
      BY <2>1, <3>2 DEF SecretsRowsOK
    <3>3. QED
      BY <3>1, <3>2
  <2>3. /\ row' = [u \in Tenants |-> row'[u]]
        /\ \A u \in Tenants \ {t} : row'[u] = row[u]
    BY <2>1 DEF SecretsRowsOK
  <2>4. SecretsRowOK(t)'
    <3>1. CASE row[t] = Secrets!NoRow
      BY <2>1, <3>1 DEF SecretsRowOK
    <3>2. CASE row[t] # Secrets!NoRow
      <4>1. PICK r \in [val : Values, verified : BOOLEAN, seal : Nat] : r = row[t]
        BY <3>2 DEF SecretsRowsOK, SecretsRowOK
      <4>2. row'[t] = [r EXCEPT !.verified = TRUE]
        BY <2>1, <3>2, <4>1 DEF SecretsRowsOK
      <4>3. /\ row'[t] \in [val : Values, verified : BOOLEAN, seal : Nat]
            /\ row'[t].val = r.val /\ row'[t].seal = r.seal
        BY <4>1, <4>2
      <4>4. r.seal = 0 /\ cipher = 0 /\ t \notin raced => r.val = probe[t]
        BY <2>1, <3>2, <4>1 DEF SecretsRowsOK, SecretsRowOK
      <4>5. QED
        BY <2>1, <2>2, <4>3, <4>4 DEF SecretsRowOK
    <3>3. QED
      BY <3>1, <3>2
  <2>5. \A u \in Tenants \ {t} : SecretsRowOK(u)'
    BY <2>1, <2>2, <2>3 DEF SecretsRowsOK, SecretsRowOK
  <2>6. QED
    BY <2>1, <2>2, <2>3, <2>4, <2>5 DEF SecretsRowsOK
<1>6. ASSUME NEW keyed, Secrets!RestartApi(keyed) PROVE SecretsRowsOK'
  <2>1. /\ UNCHANGED <<row, tested, raced, untested>> /\ probe' = [t \in Tenants |-> Unset]
        /\ cipher' = IF keyed THEN cipher ELSE cipher + 1
    BY <1>6 DEF Secrets!RestartApi
  <2>2. cipher' \in Nat /\ (cipher' = 0 => cipher = 0)
    BY <2>1 DEF SecretsRowsOK
  <2>3. \A t \in Tenants : SecretsRowOK(t)'
    BY <2>1, <2>2 DEF SecretsRowsOK, SecretsRowOK
  <2>4. QED
    BY <2>1, <2>2, <2>3 DEF SecretsRowsOK
<1>7. ASSUME UNCHANGED <<row, cipher, probe, tested, raced, untested>> PROVE SecretsRowsOK'
  BY <1>7 DEF SecretsRowsOK, SecretsRowOK
<1>8. QED
  BY <1>2, <1>3, <1>4, <1>5, <1>6, <1>7 DEF Secrets!Next, Secrets!Replace,
    Secrets!NotWritten, Secrets!PutEnvKey, Secrets!RestartWorker, Secrets!vars

\* A request sets a key: it has read .env and will write it.
LEMMA SecretsRewritten ==
  ASSUME SecretsEnvOK, NEW w \in KeyWriters, NEW k \in EnvKeys, NEW v \in Values \cup {Unset},
         Secrets!Rewrite(w, k, v), latest' = IF k = KeyName THEN v ELSE latest,
         UNCHANGED <<file, adapters, environ>>
  PROVE  SecretsEnvOK'
<1>1. PICK j : j = [sets |-> <<k, v>>, read |-> file]
  OBVIOUS
<1>2. /\ job[w] = Secrets!Idle /\ job' = [job EXCEPT ![w] = j] /\ j # Secrets!Idle
      /\ lost' = (~ Secrets!Quiet \/ (lost /\ k # KeyName))
  BY <1>1 DEF Secrets!Rewrite, Secrets!Idle
<1>3. /\ job' = [u \in KeyWriters |-> job'[u]] /\ job'[w] = j
      /\ \A u \in KeyWriters \ {w} : job'[u] = job[u]
  BY <1>2 DEF SecretsEnvOK
<1>4. \A u \in KeyWriters : SecretsJobOK(u)'
  BY <1>1, <1>3 DEF SecretsEnvOK, SecretsJobOK
<1>5. ~ Secrets!Quiet'
  BY <1>2, <1>3 DEF Secrets!Quiet
<1>6. lost' \in BOOLEAN /\ (~ lost' => Secrets!Quiet /\ (lost => k = KeyName))
  BY <1>2, Zenon DEF SecretsEnvOK
<1>7. ASSUME ~ lost', NEW u \in KeyWriters, job'[u] # Secrets!Idle PROVE SecretsAtWork(u)'
  <2>1. \A x \in KeyWriters : job[x] = Secrets!Idle
    BY <1>6, <1>7 DEF Secrets!Quiet
  <2>2. u = w /\ \A x \in KeyWriters \ {w} : job'[x] = Secrets!Idle
    BY <1>3, <1>7, <2>1
  <2>3. latest' = IF k = KeyName THEN v ELSE Secrets!ReadEnv(file, KeyName)
    BY <1>6, <1>7 DEF SecretsEnvOK
  <2>4. j.read = file /\ j.sets[1] = k /\ j.sets[2] = v
    BY <1>1
  <2>5. QED
    BY <1>3, <2>2, <2>3, <2>4 DEF SecretsAtWork
<1>8. SecretsFileOK(file') /\ adapters' = [p \in Secrets!Processes |-> adapters'[p]]
      /\ (environ' = {} => adapters'["api"] = Secrets!ReadEnv(file', KeyName))
  BY DEF SecretsEnvOK
<1>9. QED
  BY <1>3, <1>4, <1>5, <1>6, <1>7, <1>8 DEF SecretsEnvOK

\* A rewrite is over: nobody is at work if it was alone.
LEMMA SecretsDone ==
  ASSUME SecretsEnvOK, NEW w \in KeyWriters, job[w] # Secrets!Idle,
         job' = [job EXCEPT ![w] = Secrets!Idle]
  PROVE  /\ job' = [u \in KeyWriters |-> job'[u]]
         /\ \A u \in KeyWriters : SecretsJobOK(u)'
         /\ ~ lost => \A u \in KeyWriters : job'[u] = Secrets!Idle
<1>1. /\ job' = [u \in KeyWriters |-> job'[u]] /\ job'[w] = Secrets!Idle
      /\ \A u \in KeyWriters \ {w} : job'[u] = job[u]
  BY DEF SecretsEnvOK
<1>2. \A u \in KeyWriters : SecretsJobOK(u)'
  BY <1>1 DEF SecretsEnvOK, SecretsJobOK
<1>3. QED
  BY <1>1, <1>2 DEF SecretsEnvOK, SecretsAtWork

LEMMA SecretsNextEnv ==
  ASSUME Secrets!SecretsAssumption, SecretsEnvOK, Secrets!Next \/ UNCHANGED Secrets!vars
  PROVE  SecretsEnvOK'
<1> USE DEF Secrets!SecretsAssumption
<1>1. ASSUME NEW w \in KeyWriters, NEW k \in EnvKeys, NEW v \in Values \cup {Unset},
             Secrets!PutEnvKey(w, k, v)
      PROVE  SecretsEnvOK'
  BY <1>1, SecretsRewritten DEF Secrets!PutEnvKey
<1>2. ASSUME NEW w \in KeyWriters, NEW t \in Tenants, NEW v \in Values, Secrets!StoreCredential(w, t, v)
      PROVE  SecretsEnvOK'
  BY <1>2, SecretsRewritten DEF Secrets!StoreCredential, Secrets!Mirrored
<1>3. ASSUME NEW w \in KeyWriters, NEW t \in Tenants, Secrets!DeleteCredential(w, t)
      PROVE  SecretsEnvOK'
  BY <1>3, SecretsRewritten DEF Secrets!DeleteCredential, Secrets!Mirrored
<1>4. ASSUME NEW w \in KeyWriters, Secrets!Replace(w) PROVE SecretsEnvOK'
  <2>1. job[w] # Secrets!Idle
    BY <1>4 DEF Secrets!Replace
  <2>0. PICK f : f = job[w].read
    OBVIOUS
  <2>2. PICK k \in EnvKeys, v \in Values \cup {Unset} :
          job[w] = [sets |-> <<k, v>>, read |-> f] /\ SecretsFileOK(f)
    BY <2>0, <2>1 DEF SecretsEnvOK, SecretsJobOK
  <2>3. PICK new : new = Secrets!WriteEnv(f, k, v)
    OBVIOUS
  <2>4. /\ file' = new /\ adapters' = [adapters EXCEPT !["api"] = Secrets!Loads(new)]
        /\ job' = [job EXCEPT ![w] = Secrets!Idle] /\ UNCHANGED <<latest, lost, environ>>
    BY <1>4, <2>2, <2>3 DEF Secrets!Replace
  <2>5. /\ SecretsFileOK(new)
        /\ Secrets!ReadEnv(new, KeyName) = IF KeyName = k THEN v ELSE Secrets!ReadEnv(f, KeyName)
    BY <2>2, <2>3, SecretsWrittenIsRead
  <2>6. /\ adapters' = [p \in Secrets!Processes |-> adapters'[p]]
        /\ adapters'["api"] = Secrets!Loads(new)
    BY <2>4 DEF SecretsEnvOK, Secrets!Processes
  <2>7. environ' = {} => adapters'["api"] = Secrets!ReadEnv(file', KeyName)
    BY <2>4, <2>6 DEF Secrets!Loads
  <2>8. /\ job' = [u \in KeyWriters |-> job'[u]] /\ \A u \in KeyWriters : SecretsJobOK(u)'
        /\ ~ lost => \A u \in KeyWriters : job'[u] = Secrets!Idle
    BY <2>1, <2>4, SecretsDone
  <2>9. ~ lost => latest = Secrets!ReadEnv(new, KeyName)
    BY <2>1, <2>2, <2>5 DEF SecretsEnvOK, SecretsAtWork
  <2>10. QED
    BY <2>4, <2>5, <2>6, <2>7, <2>8, <2>9 DEF SecretsEnvOK
<1>5. ASSUME NEW w \in KeyWriters, Secrets!NotWritten(w) PROVE SecretsEnvOK'
  <2>1. /\ job[w] # Secrets!Idle /\ job' = [job EXCEPT ![w] = Secrets!Idle]
        /\ lost' = (lost \/ job[w].sets[1] = KeyName)
        /\ UNCHANGED <<file, adapters, environ, latest>>
    BY <1>5 DEF Secrets!NotWritten
  <2>2. lost' \in BOOLEAN /\ (~ lost' => ~ lost /\ job[w].sets[1] # KeyName)
    BY <2>1, Zenon DEF SecretsEnvOK
  <2>3. /\ job' = [u \in KeyWriters |-> job'[u]] /\ \A u \in KeyWriters : SecretsJobOK(u)'
        /\ ~ lost => \A u \in KeyWriters : job'[u] = Secrets!Idle
    BY <2>1, SecretsDone
  <2>4. ~ lost' => latest = Secrets!ReadEnv(file, KeyName)
    BY <2>1, <2>2 DEF SecretsEnvOK, SecretsAtWork
  <2>5. QED
    BY <2>1, <2>2, <2>3, <2>4 DEF SecretsEnvOK
<1>6. CASE Secrets!RestartWorker
  <2>1. /\ UNCHANGED <<file, job, latest, lost, environ>>
        /\ adapters' = [adapters EXCEPT !["worker"] = Secrets!Loads(file)]
    BY <1>6 DEF Secrets!RestartWorker
  <2>2. adapters' = [p \in Secrets!Processes |-> adapters'[p]] /\ adapters'["api"] = adapters["api"]
    BY <2>1 DEF SecretsEnvOK, Secrets!Processes
  <2>3. QED
    BY <2>1, <2>2 DEF SecretsEnvOK, SecretsJobOK, SecretsAtWork, Secrets!Quiet
<1>7. ASSUME NEW keyed, Secrets!RestartApi(keyed) PROVE SecretsEnvOK'
  <2>1. /\ UNCHANGED <<file, environ>> /\ adapters' = [adapters EXCEPT !["api"] = Secrets!Loads(file)]
        /\ job' = [w \in KeyWriters |-> Secrets!Idle] /\ latest' = Secrets!ReadEnv(file, KeyName)
        /\ lost' = FALSE
    BY <1>7 DEF Secrets!RestartApi
  <2>2. /\ adapters' = [p \in Secrets!Processes |-> adapters'[p]]
        /\ adapters'["api"] = Secrets!Loads(file)
    BY <2>1 DEF SecretsEnvOK, Secrets!Processes
  <2>3. environ' = {} => adapters'["api"] = Secrets!ReadEnv(file', KeyName)
    BY <2>1, <2>2 DEF Secrets!Loads
  <2>4. QED
    BY <2>1, <2>2, <2>3 DEF SecretsEnvOK, SecretsJobOK
<1>8. ASSUME UNCHANGED <<file, job, adapters, latest, lost, environ>> PROVE SecretsEnvOK'
  BY <1>8 DEF SecretsEnvOK, SecretsJobOK, SecretsAtWork, Secrets!Quiet
<1>9. QED
  BY <1>1, <1>2, <1>3, <1>4, <1>5, <1>6, <1>7, <1>8 DEF Secrets!Next, Secrets!Probe,
    Secrets!RecordProbe, Secrets!vars

LEMMA SecretsRowsTested ==
  ASSUME SecretsRowsOK
  PROVE  Secrets!VerifiedWasTested
BY DEF SecretsRowsOK, SecretsRowOK, Secrets!VerifiedWasTested

LEMMA SecretsEnvFollows ==
  ASSUME SecretsEnvOK
  PROVE  Secrets!ApiFollows
BY DEF SecretsEnvOK, Secrets!ApiFollows

-----------------------------------------------------------------------------
(* Sign-in                                                                   *)

\* The sign-in's variables in the pool.
tenants == s1
users == s2
tokens == s3
plan == s4
flow == s5
first == s6
acted == s7
patches == s8
mixed == s9

USE DEF tenants, users, tokens, plan, flow, first, acted, patches, mixed

SignInUserOK(u) ==
  /\ u = [id |-> u.id, tenant |-> u.tenant, email |-> u.email, role |-> u.role, subject |-> u.subject]
  /\ u.id \in Nat
  /\ u.id = SignIn!Demo => u.tenant = SignIn!Demo /\ u.subject = "none"

SignInUsersOK ==
  /\ \A u \in users : SignInUserOK(u)
  /\ \A u, o \in users : u.id = o.id => u = o
  /\ \A u, o \in users : u.subject = o.subject /\ u.subject # "none" => u = o

\* Ids are drawn above those in use.
SignInIdsOK ==
  /\ IsFiniteSet(users) /\ IsFiniteSet(tenants)
  /\ \A u \in users : u.id <= Cardinality(users) + Cardinality(tenants)
  /\ \A t \in tenants : t.domain # NoDomain => t.id # SignIn!Demo

SignInFirstOK ==
  \A s \in DOMAIN first :
    s # "none" /\ (s \in mixed \/ \E u \in users : u.subject = s /\ u.id = first[s])

\* What a sign-in is about to write still fits the rows.
SignInWriteOK(w, i) ==
  /\ w.kind \in {"renamed", "linked", "seen", "found", "join", "error"}
  /\ w.kind = "renamed" =>
       /\ i.provider = SignIn!Google
       /\ \E u \in users : u.id = w.was /\ u.id # SignIn!Demo /\ u.subject # "none"
  /\ w.kind = "linked" =>
       /\ i.provider = SignIn!Google
       /\ \E u \in users : u.id = w.was /\ u.id # SignIn!Demo
  /\ w.kind = "seen" =>
       \E u \in users : /\ u.id = w.was /\ u.id # SignIn!Demo
                        /\ i.provider = SignIn!Google => u.subject # "none"

SignInPlanOK(r) ==
  plan[r] # SignIn!Idle =>
    plan[r].identity \in Identities /\ SignInWriteOK(plan[r].write, plan[r].identity)

SignInIInv ==
  /\ SignInUsersOK /\ SignInIdsOK /\ SignInFirstOK
  /\ plan = [r \in TokenRequests |-> plan[r]] /\ \A r \in TokenRequests : SignInPlanOK(r)
  /\ SignIn!OnlyAdminsAdminister

LEMMA SignInInitIInv ==
  ASSUME SignIn!Init
  PROVE  SignInIInv
<1>1. IsFiniteSet({})
  BY FS_EmptySet
<1>2. QED
  BY <1>1 DEF SignIn!Init, SignInIInv, SignInUsersOK, SignInIdsOK, SignInFirstOK, SignInPlanOK,
    SignIn!OnlyAdminsAdminister, SignIn!Nobody

\* Both are the standard module's.
LEMMA SignInCardinality ==
  ASSUME NEW S
  PROVE  SignIn!Cardinality(S) = Cardinality(S)
BY DEF SignIn!Cardinality, Cardinality

LEMMA SignInFreshIs ==
  ASSUME SignInIInv
  PROVE  /\ SignIn!Fresh = 1 + Cardinality(users) + Cardinality(tenants)
         /\ Cardinality(users) \in Nat /\ Cardinality(tenants) \in Nat
         /\ SignIn!Fresh \in Nat \ {SignIn!Demo} /\ \A u \in users : u.id # SignIn!Fresh
<1>1. SignIn!Fresh = 1 + Cardinality(users) + Cardinality(tenants)
  BY SignInCardinality DEF SignIn!Fresh
<1>2. Cardinality(users) \in Nat /\ Cardinality(tenants) \in Nat
  BY FS_CardinalityType DEF SignInIInv, SignInIdsOK
<1>3. \A u \in users : u.id \in Nat /\ u.id <= Cardinality(users) + Cardinality(tenants)
  BY DEF SignInIInv, SignInUsersOK, SignInUserOK, SignInIdsOK
<1>4. QED
  BY <1>1, <1>2, <1>3 DEF SignIn!Demo

\* A row replaces the one with its id, or is added.
LEMMA SignInReplaced ==
  ASSUME SignInIInv, NEW u, users' = SignIn!Others(u) \cup {u}
  PROVE  /\ IsFiniteSet(users') /\ Cardinality(users') \in Nat
         /\ Cardinality(users') >= Cardinality(users)
         /\ (\A o \in users : o.id # u.id) => Cardinality(users') = Cardinality(users) + 1
<1>1. IsFiniteSet(users) /\ Cardinality(users) \in Nat
  BY SignInFreshIs DEF SignInIInv, SignInIdsOK
<1>2. CASE \A o \in users : o.id # u.id
  <2>1. users' = users \cup {u} /\ u \notin users
    BY <1>2 DEF SignIn!Others
  <2>2. QED
    BY <1>1, <2>1, FS_AddElement
<1>3. ASSUME NEW o \in users, o.id = u.id
      PROVE  IsFiniteSet(users') /\ Cardinality(users') = Cardinality(users)
  <2>1. SignIn!Others(u) = users \ {o}
    BY <1>3 DEF SignIn!Others, SignInIInv, SignInUsersOK
  <2>2. IsFiniteSet(users \ {o}) /\ Cardinality(users \ {o}) = Cardinality(users) - 1
    BY <1>1, FS_RemoveElement
  <2>3. u \notin users \ {o}
    BY <1>3 DEF SignInIInv, SignInUsersOK
  <2>4. Cardinality(users') = Cardinality(users \ {o}) + 1 /\ IsFiniteSet(users')
    BY <2>1, <2>2, <2>3, FS_AddElement
  <2>5. QED
    BY <1>1, <2>2, <2>4
<1>4. CASE \E o \in users : o.id = u.id
  <2>1. IsFiniteSet(users') /\ Cardinality(users') = Cardinality(users)
    BY <1>3, <1>4
  <2>2. QED
    BY <1>1, <1>4, <2>1
<1>5. QED
  BY <1>2, <1>4

\* A row stays that of its Google account, or is one of those that met another's.
SignInKeeps(o, u) ==
  o.subject # "none" => u.subject # "none" /\ (u.subject = o.subject \/ o.subject \in mixed')

LEMMA SignInKeptRows ==
  ASSUME SignIn!SignInAssumption, SignInIInv, mixed \subseteq mixed',
         \A o \in users : o.id # SignIn!Demo => \E u \in users' : u.id = o.id /\ SignInKeeps(o, u)
  PROVE  /\ \A r \in TokenRequests : plan'[r] = plan[r] => SignInPlanOK(r)'
         /\ first' = first => SignInFirstOK'
<1>1. ASSUME NEW r \in TokenRequests, plan'[r] = plan[r], plan[r] # SignIn!Idle
      PROVE  SignInPlanOK(r)'
  <2>1. PICK w, i : w = plan[r].write /\ i = plan[r].identity
    OBVIOUS
  <2>2. i \in Identities /\ SignInWriteOK(w, i)
    BY <1>1, <2>1 DEF SignInIInv, SignInPlanOK
  <2>3. \A o \in users : o.id # SignIn!Demo =>
          \E u \in users' : u.id = o.id /\ (o.subject # "none" => u.subject # "none")
    BY DEF SignInKeeps
  <2>4. SignInWriteOK(w, i)'
    BY <2>2, <2>3 DEF SignInWriteOK
  <2>5. plan'[r].write = w /\ plan'[r].identity = i
    BY <1>1, <2>1
  <2>6. QED
    BY <2>2, <2>4, <2>5 DEF SignInPlanOK
<1>2. ASSUME first' = first PROVE SignInFirstOK'
  <2>1. ASSUME NEW s \in DOMAIN first
        PROVE  s # "none" /\ (s \in mixed' \/ \E u \in users' : u.subject = s /\ u.id = first[s])
    <3>1. s # "none" /\ (s \in mixed \/ \E o \in users : o.subject = s /\ o.id = first[s])
      BY DEF SignInIInv, SignInFirstOK
    <3>2. ASSUME NEW o \in users, o.subject = s, o.id = first[s]
          PROVE  s \in mixed' \/ \E u \in users' : u.subject = s /\ u.id = first[s]
      <4>1. o.id # SignIn!Demo
        BY <3>1, <3>2 DEF SignInIInv, SignInUsersOK, SignInUserOK
      <4>2. QED
        BY <3>1, <3>2, <4>1 DEF SignInKeeps
    <3>3. QED
      BY <3>1, <3>2
  <2>2. QED
    BY <1>2, <2>1 DEF SignInFirstOK
<1>3. QED
  BY <1>1, <1>2 DEF SignInPlanOK

\* A row is written: what is asked of it so that the rows stay in order.
SignInFits(u) ==
  /\ SignInUserOK(u)
  /\ \A o \in users : o.id # u.id /\ o.subject = u.subject => u.subject = "none"
  /\ \A o \in users : o.id = u.id /\ o.id # SignIn!Demo => SignInKeeps(o, u)
  /\ u.id \in {SignIn!Demo, SignIn!Fresh} \/ \E o \in users : o.id = u.id

LEMMA SignInWritten ==
  ASSUME SignIn!SignInAssumption, SignInIInv, NEW u, SignInFits(u), mixed \subseteq mixed',
         users' = SignIn!Others(u) \cup {u},
         \/ tenants' = tenants
         \/ \E t : tenants' = tenants \cup {t} /\ (t.domain # NoDomain => t.id # SignIn!Demo)
  PROVE  /\ SignInUsersOK' /\ SignInIdsOK'
         /\ \A r \in TokenRequests : plan'[r] = plan[r] => SignInPlanOK(r)'
         /\ first' = first => SignInFirstOK'
<1>1. SignInUsersOK'
  <2>1. \A o \in users' : o = u \/ (o \in users /\ o.id # u.id)
    BY DEF SignIn!Others
  <2>2. QED
    BY <2>1 DEF SignInUsersOK, SignInIInv, SignInFits
<1>2. /\ IsFiniteSet(tenants') /\ Cardinality(tenants') \in Nat
      /\ Cardinality(tenants') >= Cardinality(tenants)
      /\ \A t \in tenants' : t.domain # NoDomain => t.id # SignIn!Demo
  <2>1. IsFiniteSet(tenants) /\ Cardinality(tenants) \in Nat
    BY SignInFreshIs DEF SignInIInv, SignInIdsOK
  <2>2. CASE tenants' = tenants
    BY <2>1, <2>2 DEF SignInIInv, SignInIdsOK
  <2>3. ASSUME NEW t, tenants' = tenants \cup {t}, t.domain # NoDomain => t.id # SignIn!Demo
        PROVE  /\ IsFiniteSet(tenants') /\ Cardinality(tenants') \in Nat
               /\ Cardinality(tenants') >= Cardinality(tenants)
               /\ \A x \in tenants' : x.domain # NoDomain => x.id # SignIn!Demo
    <3>1. IsFiniteSet(tenants') /\ Cardinality(tenants') =
            IF t \in tenants THEN Cardinality(tenants) ELSE Cardinality(tenants) + 1
      BY <2>1, <2>3, FS_AddElement
    <3>2. QED
      BY <2>1, <2>3, <3>1 DEF SignInIInv, SignInIdsOK
  <2>4. QED
    BY <2>2, <2>3
<1>3. \A o \in users' : o.id <= Cardinality(users') + Cardinality(tenants')
  <2>1. /\ Cardinality(users) \in Nat /\ Cardinality(tenants) \in Nat
        /\ Cardinality(users') \in Nat /\ Cardinality(users') >= Cardinality(users)
    BY SignInFreshIs, SignInReplaced
  <2>2. ASSUME NEW o \in users PROVE o.id <= Cardinality(users') + Cardinality(tenants')
    <3>1. o.id \in Nat /\ o.id <= Cardinality(users) + Cardinality(tenants)
      BY DEF SignInIInv, SignInUsersOK, SignInUserOK, SignInIdsOK
    <3>2. QED
      BY <1>2, <2>1, <3>1
  <2>3. u.id <= Cardinality(users') + Cardinality(tenants')
    <3>1. CASE u.id = SignIn!Fresh
      <4>1. SignIn!Fresh = 1 + Cardinality(users) + Cardinality(tenants) /\ \A o \in users : o.id # u.id
        BY <3>1, SignInFreshIs
      <4>2. Cardinality(users') = Cardinality(users) + 1
        BY <4>1, SignInReplaced
      <4>3. QED
        BY <1>2, <2>1, <3>1, <4>1, <4>2
    <3>2. CASE u.id = SignIn!Demo
      BY <1>2, <2>1, <3>2 DEF SignIn!Demo
    <3>3. QED
      BY <2>2, <3>1, <3>2 DEF SignInFits
  <2>4. QED
    BY <2>2, <2>3 DEF SignIn!Others
<1>4. \A o \in users : o.id # SignIn!Demo => \E v \in users' : v.id = o.id /\ SignInKeeps(o, v)
  <2>1. ASSUME NEW o \in users, o.id # SignIn!Demo
        PROVE  \E v \in users' : v.id = o.id /\ SignInKeeps(o, v)
    <3>1. CASE o.id = u.id
      BY <2>1, <3>1 DEF SignInFits
    <3>2. CASE o.id # u.id
      <4>1. o \in users' /\ SignInKeeps(o, o)
        BY <3>2 DEF SignIn!Others, SignInKeeps
      <4>2. QED
        BY <4>1
    <3>3. QED
      BY <3>1, <3>2
  <2>2. QED
    BY <2>1
<1>5. QED
  BY <1>1, <1>2, <1>3, <1>4, SignInKeptRows, SignInReplaced DEF SignInIdsOK

\* The sign-in reads the tables.
LEMMA SignInDecided ==
  ASSUME SignIn!SignInAssumption, SignInIInv, NEW i \in Identities
  PROVE  SignInWriteOK(SignIn!Decide(i), i)
<1>1. PICK known, home, tid, kin :
        /\ known = SignIn!BySubject(i) /\ home = SignIn!OfDomain(SignIn!Domain(i))
        /\ tid = (CHOOSE t \in home : TRUE).id
        /\ kin = IF home = {} THEN {} ELSE SignIn!ByEmail(tid, i.email)
  OBVIOUS
<1>2. PICK w : w = SignIn!Decide(i)
  OBVIOUS
<1>0. Cardinality(home) \in Nat
  <2>1. home \subseteq tenants
    BY <1>1 DEF SignIn!OfDomain
  <2>2. QED
    BY <2>1, FS_Subset, FS_CardinalityType DEF SignInIInv, SignInIdsOK
<1>3. CASE known # {}
  <2>1. PICK u : u = CHOOSE x \in known : TRUE
    OBVIOUS
  <2>2. u \in known
    BY <1>3, <2>1
  <2>3. w.kind = "renamed" /\ w.was = u.id
    BY <1>1, <1>2, <1>3, <2>1, SignInCardinality DEF SignIn!Decide
  <2>4. u \in users /\ i.provider = SignIn!Google /\ u.subject = i.subject
    BY <1>1, <2>2 DEF SignIn!BySubject
  <2>5. u.subject # "none" /\ u.id # SignIn!Demo
    BY <2>4 DEF SignIn!SignInAssumption, SignInIInv, SignInUsersOK, SignInUserOK
  <2>6. QED
    BY <1>2, <2>3, <2>4, <2>5 DEF SignInWriteOK
<1>4. CASE known = {} /\ Cardinality(home) > 1
  <2>1. w.kind = "error"
    <3>1. Cardinality(home) > 1 /\ ~ (Cardinality(home) <= 1) /\ home # {}
      BY <1>0, <1>4, FS_EmptySet
    <3>2. SignIn!Decide(i) = [kind |-> "error"]
      BY <1>1, <1>4, <3>1, SignInCardinality DEF SignIn!Decide
    <3>3. QED
      BY <1>2, <3>2
  <2>2. QED
    BY <1>2, <2>1 DEF SignInWriteOK
<1>5. CASE known = {} /\ ~ (Cardinality(home) > 1) /\ kin # {}
  <2>1. PICK u : u = CHOOSE x \in kin : TRUE
    OBVIOUS
  <2>2. u \in kin /\ home # {}
    BY <1>1, <1>5, <2>1
  <2>3. /\ w.kind = IF i.provider = SignIn!Google /\ u.subject = "none" THEN "linked" ELSE "seen"
        /\ w.was = u.id
    <3>1. Cardinality(home) <= 1 /\ ~ (Cardinality(home) > 1)
      BY <1>0, <1>5
    <3>2. SignIn!Decide(i) = [kind |-> IF i.provider = SignIn!Google /\ u.subject = "none" THEN "linked" ELSE "seen",
                       was |-> u.id]
      BY <1>1, <1>5, <2>1, <2>2, <3>1, SignInCardinality DEF SignIn!Decide
    <3>3. QED
      BY <1>2, <3>2
  <2>4. u \in users /\ u.tenant = tid /\ u.email = i.email
    BY <1>1, <2>2 DEF SignIn!ByEmail
  <2>5. tid # SignIn!Demo
    <3>1. PICK t : t = CHOOSE x \in home : TRUE
      OBVIOUS
    <3>2. t \in home /\ tid = t.id
      BY <1>1, <2>2, <3>1
    <3>3. t \in tenants /\ t.domain = SignIn!Domain(i)
      BY <1>1, <3>2 DEF SignIn!OfDomain
    <3>4. SignIn!Domain(i) # NoDomain
      BY DEF SignIn!Domain, SignIn!SignInAssumption
    <3>5. QED
      BY <3>2, <3>3, <3>4 DEF SignInIInv, SignInIdsOK
  <2>6. u.id # SignIn!Demo
    BY <2>4, <2>5 DEF SignInIInv, SignInUsersOK, SignInUserOK
  <2>7. QED
    BY <1>2, <2>3, <2>4, <2>6 DEF SignInWriteOK
<1>6. CASE known = {} /\ ~ (Cardinality(home) > 1) /\ kin = {}
  <2>1. CASE home = {}
    BY <1>1, <1>2, <1>6, <2>1, SignInCardinality DEF SignIn!Decide, SignInWriteOK
  <2>2. CASE home # {}
    BY <1>1, <1>2, <1>6, <2>2, SignInCardinality DEF SignIn!Decide, SignInWriteOK
  <2>3. QED
    BY <2>1, <2>2
<1>7. QED
  BY <1>3, <1>4, <1>5, <1>6

\* The accounts that a sign-in brings together are noted.
SignInMixes(w, i) ==
  /\ mixed \subseteq mixed'
  /\ i.provider = SignIn!Google /\ w.kind \notin {"found", "join"}
       /\ SignIn!Found(w).subject \notin {"none", i.subject} =>
       {i.subject, SignIn!Found(w).subject} \subseteq mixed'

\* The row a sign-in commits.
LEMMA SignInCommitted ==
  ASSUME SignIn!SignInAssumption, SignInIInv, NEW w, NEW i \in Identities,
         SignInWriteOK(w, i), SignInMixes(w, i),
         w.kind # "error", SignIn!Unique(SignIn!RowFor(w, i))
  PROVE  /\ SignInFits(SignIn!RowFor(w, i))
         /\ w.kind = "found" => SignIn!RowFor(w, i).tenant # SignIn!Demo
         /\ i.provider = SignIn!Google =>
              SignIn!RowFor(w, i).subject = i.subject \/ i.subject \in mixed'
<1>1. PICK u : u = SignIn!RowFor(w, i)
  OBVIOUS
<1>2. i.subject # "none"
  BY DEF SignIn!SignInAssumption
<1>3. \A o \in users : o.id # u.id /\ o.subject = u.subject => u.subject = "none"
  BY <1>1 DEF SignIn!Unique
<1>4. ASSUME NEW o \in users, o.id = w.was, w.kind \in {"renamed", "linked", "seen"}
      PROVE  /\ SignIn!Found(w) = o
             /\ \A x \in users : x.id = w.was => x = o
  <2>1. \A x \in users : x.id = w.was <=> x = o
    BY <1>4 DEF SignInIInv, SignInUsersOK
  <2>2. QED
    BY <2>1 DEF SignIn!Found
<1>5. CASE w.kind = "renamed"
  <2>1. PICK o \in users : o.id = w.was /\ o.id # SignIn!Demo /\ o.subject # "none"
    BY <1>5 DEF SignInWriteOK
  <2>2. u = [o EXCEPT !.email = i.email]
    BY <1>1, <1>4, <1>5, <2>1 DEF SignIn!RowFor
  <2>3. SignInUserOK(o)
    BY DEF SignInIInv, SignInUsersOK
  <2>4. PICK n, t, e, r, s : o = [id |-> n, tenant |-> t, email |-> e, role |-> r, subject |-> s]
    BY <2>3 DEF SignInUserOK
  <2>5. u = [id |-> n, tenant |-> t, email |-> i.email, role |-> r, subject |-> s]
    BY <2>2, <2>4
  <2>6. SignInUserOK(u) /\ u.id = o.id /\ u.subject = o.subject
    BY <2>1, <2>3, <2>4, <2>5 DEF SignInUserOK
  <2>7. \A x \in users : x.id = u.id => SignInKeeps(x, u)
    BY <1>4, <1>5, <2>1, <2>6 DEF SignInKeeps
  <2>8. u.subject = i.subject \/ (i.provider = SignIn!Google => i.subject \in mixed')
    BY <1>4, <1>5, <2>1, <2>6 DEF SignInMixes
  <2>9. QED
    BY <1>1, <1>3, <1>5, <2>1, <2>6, <2>7, <2>8 DEF SignInFits
<1>6. CASE w.kind = "linked"
  <2>1. PICK o \in users : o.id = w.was /\ o.id # SignIn!Demo /\ i.provider = SignIn!Google
    BY <1>6 DEF SignInWriteOK
  <2>2. u = [o EXCEPT !.subject = i.subject]
    BY <1>1, <1>4, <1>6, <2>1 DEF SignIn!RowFor, SignIn!Linked
  <2>3. SignInUserOK(o)
    BY DEF SignInIInv, SignInUsersOK
  <2>4. PICK n, t, e, r, s : o = [id |-> n, tenant |-> t, email |-> e, role |-> r, subject |-> s]
    BY <2>3 DEF SignInUserOK
  <2>5. u = [id |-> n, tenant |-> t, email |-> e, role |-> r, subject |-> i.subject]
    BY <2>2, <2>4
  <2>6. SignInUserOK(u) /\ u.id = o.id /\ u.subject = i.subject
    BY <2>1, <2>3, <2>4, <2>5 DEF SignInUserOK
  <2>7. o.subject \in {"none", i.subject} \/ o.subject \in mixed'
    BY <1>4, <1>6, <2>1 DEF SignInMixes
  <2>8. \A x \in users : x.id = u.id => SignInKeeps(x, u)
    BY <1>2, <1>4, <1>6, <2>1, <2>6, <2>7 DEF SignInKeeps
  <2>9. QED
    BY <1>1, <1>3, <1>6, <2>1, <2>6, <2>8 DEF SignInFits
<1>7. CASE w.kind = "seen"
  <2>1. PICK o \in users : /\ o.id = w.was /\ o.id # SignIn!Demo
                           /\ i.provider = SignIn!Google => o.subject # "none"
    BY <1>7 DEF SignInWriteOK
  <2>2. u = o
    BY <1>1, <1>4, <1>7, <2>1 DEF SignIn!RowFor
  <2>3. SignInUserOK(u) /\ \A x \in users : x.id = u.id => SignInKeeps(x, u)
    BY <2>2 DEF SignInIInv, SignInUsersOK, SignInKeeps
  <2>4. i.provider = SignIn!Google => u.subject = i.subject \/ i.subject \in mixed'
    BY <1>4, <1>7, <2>1, <2>2 DEF SignInMixes
  <2>5. QED
    BY <1>1, <1>3, <1>7, <2>1, <2>2, <2>3, <2>4 DEF SignInFits
<1>8. CASE w.kind \in {"found", "join"}
  <2>1. PICK t, role : u = [id |-> SignIn!Fresh, tenant |-> t, email |-> i.email, role |-> role,
                            subject |-> SignIn!Linked(i)]
                       /\ (w.kind = "found" => t = SignIn!Fresh)
    BY <1>1, <1>8 DEF SignIn!RowFor
  <2>2. SignIn!Fresh \in Nat \ {SignIn!Demo} /\ \A o \in users : o.id # SignIn!Fresh
    BY SignInFreshIs
  <2>3. i.provider = SignIn!Google => SignIn!Linked(i) = i.subject
    BY DEF SignIn!Linked
  <2>4. SignInUserOK(u) /\ u.id = SignIn!Fresh
    BY <2>1, <2>2 DEF SignInUserOK
  <2>5. QED
    BY <1>1, <1>3, <2>1, <2>2, <2>3, <2>4 DEF SignInFits
<1>9. QED
  BY <1>5, <1>6, <1>7, <1>8 DEF SignInWriteOK

LEMMA SignInCommitIInv ==
  ASSUME SignIn!SignInAssumption, SignInIInv, NEW r \in TokenRequests,
         SignIn!Commit(r)
  PROVE  SignInIInv'
<1>1. PICK w, i, u : w = plan[r].write /\ i = plan[r].identity /\ u = SignIn!RowFor(w, i)
  OBVIOUS
<1>2. i \in Identities /\ SignInWriteOK(w, i) /\ plan[r] # SignIn!Idle
  BY <1>1 DEF SignIn!Commit, SignInIInv, SignInPlanOK
<1>3. /\ plan' = [plan EXCEPT ![r] = SignIn!Idle] /\ acted' = acted
      /\ plan' = [q \in TokenRequests |-> plan'[q]]
      /\ \A q \in TokenRequests : plan'[q] = plan[q] \/ plan'[q] = SignIn!Idle
  BY DEF SignIn!Commit, SignInIInv
<1>4. SignIn!OnlyAdminsAdminister'
  BY <1>3 DEF SignInIInv, SignIn!OnlyAdminsAdminister
<1>5. CASE w.kind = "error" \/ ~ SignIn!Unique(u)
  <2>1. UNCHANGED <<tenants, users, first, mixed>>
    BY <1>1, <1>5 DEF SignIn!Commit
  <2>2. ASSUME NEW q \in TokenRequests PROVE SignInPlanOK(q)'
    <3>1. CASE plan'[q] = plan[q]
      BY <2>1, <3>1 DEF SignInIInv, SignInPlanOK, SignInWriteOK
    <3>2. CASE plan'[q] = SignIn!Idle
      BY <3>2 DEF SignInPlanOK
    <3>3. QED
      BY <1>3, <3>1, <3>2
  <2>3. SignInUsersOK' /\ SignInFirstOK'
    BY <2>1 DEF SignInIInv, SignInUsersOK, SignInUserOK, SignInFirstOK
  <2>4. SignInIdsOK'
    BY <2>1 DEF SignInIInv, SignInIdsOK
  <2>5. QED
    BY <1>3, <1>4, <2>2, <2>3, <2>4 DEF SignInIInv
<1>6. CASE w.kind # "error" /\ SignIn!Unique(u)
  <2>1. /\ users' = SignIn!Others(u) \cup {u}
        /\ tenants' = IF w.kind = "found" THEN tenants \cup {[id |-> u.tenant, domain |-> SignIn!Domain(i)]}
                      ELSE tenants
        /\ first' = IF i.provider = SignIn!Google /\ i.subject \notin DOMAIN first
                    THEN [s \in DOMAIN first \cup {i.subject} |-> IF s = i.subject THEN u.id ELSE first[s]]
                    ELSE first
    BY <1>1, <1>6 DEF SignIn!Commit
  <2>0. SignInMixes(w, i) /\ mixed \subseteq mixed'
    <3>1. mixed' = IF i.provider = SignIn!Google /\ w.kind \notin {"found", "join"}
                     /\ SignIn!Found(w).subject \notin {"none", i.subject}
                   THEN mixed \cup {i.subject, SignIn!Found(w).subject} ELSE mixed
      BY <1>1, <1>6 DEF SignIn!Commit
    <3>2. QED
      BY <3>1 DEF SignInMixes
  <2>2. /\ SignInFits(u) /\ (w.kind = "found" => u.tenant # SignIn!Demo)
        /\ i.provider = SignIn!Google => u.subject = i.subject \/ i.subject \in mixed'
    BY <1>1, <1>2, <1>6, <2>0, SignInCommitted
  <2>3. \/ tenants' = tenants
        \/ \E t : tenants' = tenants \cup {t} /\ (t.domain # NoDomain => t.id # SignIn!Demo)
    <3>1. CASE w.kind = "found"
      <4>1. PICK t : t = [id |-> u.tenant, domain |-> SignIn!Domain(i)]
        OBVIOUS
      <4>2. t.id # SignIn!Demo /\ tenants' = tenants \cup {t}
        BY <2>1, <2>2, <3>1, <4>1
      <4>3. QED
        BY <4>2
    <3>2. CASE w.kind # "found"
      BY <2>1, <3>2
    <3>3. QED
      BY <3>1, <3>2
  <2>4. /\ SignInUsersOK' /\ SignInIdsOK' /\ (first' = first => SignInFirstOK')
        /\ \A q \in TokenRequests : plan'[q] = plan[q] => SignInPlanOK(q)'
    BY <2>0, <2>1, <2>2, <2>3, SignInWritten
  <2>5. \A q \in TokenRequests : SignInPlanOK(q)'
    BY <1>3, <2>4 DEF SignInPlanOK
  <2>6. SignInFirstOK'
    <3>1. CASE i.provider = SignIn!Google /\ i.subject \notin DOMAIN first
      <4>1. /\ DOMAIN first' = DOMAIN first \cup {i.subject} /\ first'[i.subject] = u.id
            /\ \A s \in DOMAIN first : first'[s] = first[s]
        BY <2>1, <3>1
      <4>2. i.subject # "none" /\ u \in users' /\ (u.subject = i.subject \/ i.subject \in mixed')
        BY <1>2, <2>1, <2>2, <3>1 DEF SignIn!SignInAssumption
      <4>3. ASSUME NEW s \in DOMAIN first
            PROVE  s # "none" /\ (s \in mixed' \/ \E v \in users' : v.subject = s /\ v.id = first[s])
        <5>1. s # "none" /\ (s \in mixed \/ \E o \in users : o.subject = s /\ o.id = first[s])
          BY DEF SignInIInv, SignInFirstOK
        <5>2. ASSUME NEW o \in users, o.subject = s, o.id = first[s]
              PROVE  s \in mixed' \/ \E v \in users' : v.subject = s /\ v.id = first[s]
          <6>1. CASE o.id # u.id
            BY <2>1, <5>2, <6>1 DEF SignIn!Others
          <6>2. CASE o.id = u.id
            <7>1. o.id # SignIn!Demo
              BY <5>1, <5>2 DEF SignInIInv, SignInUsersOK, SignInUserOK
            <7>2. SignInKeeps(o, u)
              BY <2>2, <6>2, <7>1 DEF SignInFits
            <7>3. QED
              BY <2>1, <5>1, <5>2, <6>2, <7>2 DEF SignInKeeps
          <6>3. QED
            BY <6>1, <6>2
        <5>3. QED
          BY <2>0, <5>1, <5>2
      <4>4. QED
        BY <4>1, <4>2, <4>3 DEF SignInFirstOK
    <3>2. CASE ~ (i.provider = SignIn!Google /\ i.subject \notin DOMAIN first)
      BY <2>1, <2>4, <3>2
    <3>3. QED
      BY <3>1, <3>2
  <2>7. QED
    BY <1>3, <1>4, <2>4, <2>5, <2>6 DEF SignInIInv
<1>7. QED
  BY <1>5, <1>6

LEMMA SignInDevLoginIInv ==
  ASSUME SignIn!SignInAssumption, SignInIInv, SignIn!DevLogin
  PROVE  SignInIInv'
<1>1. PICK u, t : /\ u = [id |-> SignIn!Demo, tenant |-> SignIn!Demo, email |-> "demo",
                         role |-> "admin", subject |-> "none"]
                  /\ t = [id |-> SignIn!Demo, domain |-> NoDomain]
  OBVIOUS
<1>2. /\ users' = SignIn!Others(u) \cup {u} /\ tenants' = tenants \cup {t}
      /\ UNCHANGED <<plan, first, acted, mixed>>
  BY <1>1 DEF SignIn!DevLogin
<1>3. SignInFits(u)
  BY <1>1 DEF SignInFits, SignInUserOK, SignIn!Demo
<1>4. t.domain = NoDomain
  BY <1>1
<1>5. /\ SignInUsersOK' /\ SignInIdsOK' /\ SignInFirstOK' /\ \A q \in TokenRequests : SignInPlanOK(q)'
  BY <1>2, <1>3, <1>4, SignInWritten
<1>6. QED
  BY <1>2, <1>5 DEF SignInIInv, SignIn!OnlyAdminsAdminister

LEMMA SignInAdminIInv ==
  ASSUME SignIn!SignInAssumption, SignInIInv, NEW t,
         SignIn!MayAdminister(t), SignIn!Note(t),
         UNCHANGED <<tenants, plan, first, mixed>>,
         \/ \E e : SignIn!Invite(t, e, "viewer")
         \/ \E u \in users, role \in SignIn!Roles : SignIn!PatchUser(t, u, role)
  PROVE  SignInIInv'
<1>1. SignIn!OnlyAdminsAdminister'
  <2>1. SignIn!Actor(t).role = "admin"
    BY DEF SignIn!MayAdminister, SignIn!RoleOf
  <2>2. acted'.role = SignIn!Actor(t).role
    BY DEF SignIn!Note
  <2>3. QED
    BY <2>1, <2>2 DEF SignIn!OnlyAdminsAdminister
<1>2. ASSUME NEW u, SignInFits(u), users' = SignIn!Others(u) \cup {u} PROVE SignInIInv'
  <2>1. SignInUsersOK' /\ SignInIdsOK' /\ SignInFirstOK' /\ \A q \in TokenRequests : SignInPlanOK(q)'
    BY <1>2, SignInWritten
  <2>2. QED
    BY <1>1, <2>1 DEF SignInIInv
<1>3. ASSUME NEW e, SignIn!Invite(t, e, "viewer") PROVE SignInIInv'
  <2>1. PICK x : x = SignIn!Actor(t).tenant
    OBVIOUS
  <2>2. PICK u : u = [id |-> SignIn!Fresh, tenant |-> x, email |-> e, role |-> "viewer", subject |-> "none"]
    OBVIOUS
  <2>3. users' = users \cup {u}
    BY <1>3, <2>1, <2>2 DEF SignIn!Invite
  <2>4. SignIn!Fresh \in Nat \ {SignIn!Demo} /\ \A o \in users : o.id # SignIn!Fresh
    BY SignInFreshIs
  <2>5. u.id = SignIn!Fresh /\ u.subject = "none" /\ SignInUserOK(u)
    BY <2>2, <2>4 DEF SignInUserOK
  <2>6. SignInFits(u) /\ SignIn!Others(u) = users
    BY <2>4, <2>5 DEF SignInFits, SignIn!Others
  <2>7. QED
    BY <1>2, <2>3, <2>6
<1>4. ASSUME NEW u \in users, NEW role \in SignIn!Roles, SignIn!PatchUser(t, u, role) PROVE SignInIInv'
  <2>1. SignInUserOK(u)
    BY DEF SignInIInv, SignInUsersOK
  <2>2. PICK v : v = [u EXCEPT !.role = role]
    OBVIOUS
  <2>3. PICK n, x, e, r, s : u = [id |-> n, tenant |-> x, email |-> e, role |-> r, subject |-> s]
    BY <2>1 DEF SignInUserOK
  <2>4. v = [id |-> n, tenant |-> x, email |-> e, role |-> role, subject |-> s]
    BY <2>2, <2>3
  <2>5. v.id = u.id /\ v.subject = u.subject /\ v.email = u.email /\ SignInUserOK(v)
    BY <2>1, <2>3, <2>4 DEF SignInUserOK
  <2>6. \A o \in users : o.id = v.id => o = u
    BY <2>5 DEF SignInIInv, SignInUsersOK
  <2>7. \A o \in users : o.id # v.id /\ o.subject = v.subject => v.subject = "none"
    BY <2>5 DEF SignInIInv, SignInUsersOK
  <2>8. SignInFits(v)
    BY <2>5, <2>6, <2>7 DEF SignInFits, SignInKeeps
  <2>9. users' = SignIn!Others(v) \cup {v}
    BY <1>4, <2>2, <2>5 DEF SignIn!PatchUser, SignIn!Others
  <2>10. QED
    BY <1>2, <2>8, <2>9
<1>5. QED
  BY <1>3, <1>4

LEMMA SignInNextIInv ==
  ASSUME SignIn!SignInAssumption, SignInIInv,
         SignIn!Next \/ UNCHANGED SignIn!vars
  PROVE  SignInIInv'
<1>1. ASSUME NEW r \in TokenRequests, NEW i \in Identities, NEW s \in BOOLEAN, SignIn!Callback(r, i, s)
      PROVE  SignInIInv'
  <2>1. PICK p : p = [write |-> SignIn!Decide(i), identity |-> i]
    OBVIOUS
  <2>2. plan' = [plan EXCEPT ![r] = p] /\ UNCHANGED <<tenants, users, first, acted, mixed>>
    BY <1>1, <2>1 DEF SignIn!Callback
  <2>3. SignInWriteOK(SignIn!Decide(i), i)
    BY SignInDecided
  <2>4. p.identity = i /\ p.write = SignIn!Decide(i)
    BY <2>1
  <2>5. PICK w : w = SignIn!Decide(i)
    OBVIOUS
  <2>6. SignInWriteOK(w, i)'
    BY <2>2, <2>3, <2>5 DEF SignInWriteOK
  <2>7. plan' = [q \in TokenRequests |-> plan'[q]] /\ plan'[r] = p
    BY <2>2 DEF SignInIInv
  <2>8. SignInPlanOK(r)'
    BY <2>4, <2>5, <2>6, <2>7 DEF SignInPlanOK
  <2>9. ASSUME NEW q \in TokenRequests, q # r PROVE SignInPlanOK(q)'
    <3>1. plan'[q] = plan[q]
      BY <2>2, <2>9 DEF SignInIInv
    <3>2. PICK v, j : v = plan[q].write /\ j = plan[q].identity
      OBVIOUS
    <3>3. plan[q] # SignIn!Idle => j \in Identities /\ SignInWriteOK(v, j)
      BY <3>2 DEF SignInIInv, SignInPlanOK
    <3>4. SignInWriteOK(v, j) => SignInWriteOK(v, j)'
      BY <2>2 DEF SignInWriteOK
    <3>5. QED
      BY <3>1, <3>2, <3>3, <3>4 DEF SignInPlanOK
  <2>10. SignInUsersOK' /\ SignInIdsOK' /\ SignInFirstOK'
    BY <2>2 DEF SignInIInv, SignInUsersOK, SignInUserOK, SignInIdsOK, SignInFirstOK
  <2>11. SignIn!OnlyAdminsAdminister'
    BY <2>2 DEF SignInIInv, SignIn!OnlyAdminsAdminister
  <2>12. QED
    BY <2>7, <2>8, <2>9, <2>10, <2>11 DEF SignInIInv
<1>2. ASSUME NEW t \in tokens, NEW e \in Invitees, SignIn!Invite(t, e, "viewer") PROVE SignInIInv'
  BY <1>2, SignInAdminIInv DEF SignIn!Invite
<1>3. ASSUME NEW t \in tokens, NEW u \in users, NEW role \in {"admin", "viewer"},
             SignIn!PatchUser(t, u, role)
      PROVE  SignInIInv'
  BY <1>3, SignInAdminIInv DEF SignIn!PatchUser, SignIn!Roles
<1>4. ASSUME UNCHANGED <<tenants, users, plan, first, acted, mixed>> PROVE SignInIInv'
  BY <1>4 DEF SignInIInv, SignInUsersOK, SignInUserOK, SignInIdsOK, SignInFirstOK,
    SignInPlanOK, SignInWriteOK, SignIn!OnlyAdminsAdminister
<1>5. QED
  BY <1>1, <1>2, <1>3, <1>4, SignInCommitIInv, SignInDevLoginIInv DEF SignIn!Next,
    SignIn!Start, SignIn!StateExpires, SignIn!vars

LEMMA SignInIInvAccounts ==
  ASSUME SignInIInv
  PROVE  SignIn!SameUserAgain /\ SignIn!OnlyAdminsAdminister
BY DEF SignInIInv, SignInUsersOK, SignInFirstOK, SignIn!SameUserAgain

-----------------------------------------------------------------------------
(* Google Maps                                                               *)

\* The sweep's variables in the pool.
wanted == s1
stage == s2
center == s3
refused == s4
tile == s5
phrase == s6
page == s7
left == s8
seen == s9
searched == s10
yielded == s11
twice == s12
bill == s13

USE DEF wanted, stage, center, refused, tile, phrase, page, left, seen, searched,
  yielded, twice, bill

\* The searches of the sweep in their order.
MapsSearches == (1 .. Maps!TileCount) \X (1 .. Maps!Phrasings)
MapsBefore(a, b) == a[1] < b[1] \/ (a[1] = b[1] /\ a[2] < b[2])
MapsDone(next) == {s \in MapsSearches : MapsBefore(s, next)}

\* MaxPages pages for every search begun, less those the present one has left.
MapsBilled(k, n) == bill <= ResultPages * k + 1 - n

MapsPositions == Nat \X Nat

MapsTyped ==
  /\ wanted.firm \in FirmTypes /\ center \in BOOLEAN
  /\ stage \in {"start", "sweep", "done", "failed"}
  /\ left \in 0 .. MaxSearches /\ page \in 1 .. ResultPages /\ bill \in Nat
  /\ searched \in Seq(MapsPositions)

MapsCounted ==
  /\ Maps!IsInjective(searched) /\ Len(searched) <= MaxSearches
  /\ stage # "failed" => Len(searched) = MaxSearches - left

MapsAtStart ==
  stage = "start" => searched = <<>> /\ page = 1 /\ tile = 1 /\ phrase = 1 /\ bill = 0 /\ yielded = {}

MapsSweeping ==
  stage = "sweep" =>
    /\ tile \in 1 .. Maps!TileCount /\ phrase \in 1 .. Maps!Phrasings
    /\ page = 1 => Maps!Range(searched) = MapsDone(<<tile, phrase>>) /\ MapsBilled(Len(searched), 0)
    /\ page # 1 => /\ Maps!Range(searched) = MapsDone(<<tile, phrase>>) \cup {<<tile, phrase>>}
                   /\ MapsBilled(Len(searched), ResultPages - (page - 1))

MapsAtEnd ==
  /\ stage = "done" =>
       /\ Len(searched) = MaxSearches \/ Maps!Range(searched) = MapsSearches
       /\ MapsBilled(Len(searched), 0)
  /\ stage = "failed" => MapsBilled(MaxSearches, 0)

MapsHanded == yielded \ {Maps!NoId} \subseteq seen /\ ~ twice /\ Maps!NothingFar

MapsIInv == MapsTyped /\ MapsCounted /\ MapsAtStart /\ MapsSweeping /\ MapsAtEnd /\ MapsHanded

LEMMA MapsSmallerOf ==
  ASSUME NEW a \in Nat, NEW b \in Nat
  PROVE  Maps!Min({a, b}) \in {a, b}
<1>1. \E x \in {a, b} : \A y \in {a, b} : x <= y
  OBVIOUS
<1>2. QED
  BY <1>1 DEF Maps!Min

\* All are the standard modules'.
LEMMA MapsFinite ==
  ASSUME NEW S
  PROVE  (Maps!IsFiniteSet(S) <=> IsFiniteSet(S)) /\ Maps!Cardinality(S) = Cardinality(S)
BY DEF Maps!IsFiniteSet, IsFiniteSet, Maps!Cardinality, Cardinality

LEMMA MapsCounts ==
  ASSUME Maps!MapsAssumption, MapsIInv
  PROVE  /\ Maps!Phrasings \in Nat \ {0} /\ Maps!TileCount \in Nat \ {0}
         /\ ResultPages \in Nat \ {0} /\ MaxSearches \in Nat \ {0} /\ Len(searched) \in Nat
<1>1. IsFiniteSet(wanted.firm)
  BY MapsFinite DEF Maps!MapsAssumption, MapsIInv, MapsTyped
<1>2. Cardinality(wanted.firm) \in Nat /\ (wanted.firm # {} => Cardinality(wanted.firm) # 0)
  BY <1>1, FS_CardinalityType, FS_EmptySet
<1>3. Maps!Phrasings \in Nat \ {0}
  BY <1>2, MapsSmallerOf, MapsFinite DEF Maps!Phrasings, Maps!MapsAssumption
<1>4. QED
  BY <1>3 DEF Maps!TileCount, Maps!MapsAssumption, MapsIInv, MapsTyped

LEMMA MapsProducts ==
  ASSUME NEW n \in Nat, NEW k \in Nat, NEW m \in Nat, k <= m
  PROVE  n * k \in Nat /\ n * (k + 1) = n * k + n /\ n * k <= n * m
<1>1. n * k \in Nat /\ n * (k + 1) = n * k + n
  OBVIOUS
<1>2. PICK d \in Nat : m = k + d
  <2>1. m - k \in Nat /\ m = k + (m - k)
    OBVIOUS
  <2>2. QED
    BY <2>1
<1>3. n * (k + d) = n * k + n * d /\ n * d \in Nat
  OBVIOUS
<1>4. QED
  BY <1>1, <1>2, <1>3

LEMMA MapsInitIInv ==
  ASSUME Maps!MapsAssumption, Maps!Init
  PROVE  MapsIInv
<1>1. wanted.firm \in FirmTypes
  BY DEF Maps!Init
<1>2. MaxSearches \in Nat /\ ResultPages \in Nat \ {0} /\ MaxSearches - MaxSearches = 0
  BY DEF Maps!MapsAssumption
<1>3. Maps!IsInjective(<<>>)
  BY DEF Maps!IsInjective
<1>4. /\ center = FALSE /\ stage = "start" /\ page = 1 /\ tile = 1 /\ phrase = 1
      /\ left = MaxSearches /\ bill = 0
      /\ searched = <<>> /\ yielded = {} /\ ~ twice /\ seen = {}
  BY DEF Maps!Init
<1>5. searched \in Seq(MapsPositions) /\ Len(searched) = 0 /\ Maps!IsInjective(searched)
  BY <1>3, <1>4
<1>6. Maps!NothingFar
  BY <1>4 DEF Maps!NothingFar
<1>7. MapsTyped
  <2>1. 1 \in 1 .. ResultPages /\ MaxSearches \in 0 .. MaxSearches
    BY <1>2
  <2>2. QED
    BY <1>1, <1>4, <1>5, <2>1 DEF MapsTyped
<1>8. MapsCounted /\ MapsAtStart
  BY <1>2, <1>4, <1>5 DEF MapsCounted, MapsAtStart
<1>9. MapsSweeping /\ MapsAtEnd /\ MapsHanded
  BY <1>4, <1>6 DEF MapsSweeping, MapsAtEnd, MapsHanded
<1>10. QED
  BY <1>7, <1>8, <1>9 DEF MapsIInv

LEMMA MapsLocated ==
  ASSUME Maps!MapsAssumption, MapsIInv, Maps!Locate
  PROVE  MapsIInv'
<1>1. /\ stage = "start"
      /\ UNCHANGED <<wanted, tile, phrase, page, left, seen, searched, yielded, twice>>
      /\ stage' \in {"sweep", "failed"} /\ center' \in BOOLEAN /\ bill' \in {0, 1}
  <2>1. CASE wanted.where # "address"
    BY <2>1 DEF Maps!Locate, Maps!Sweep, MapsIInv, MapsTyped, MapsAtStart
  <2>2. CASE wanted.where = "address"
    <3>1. PICK r : /\ bill' = IF r.http = 0 THEN bill ELSE bill + 1
                   /\ IF Maps!Geocoded(r) = "raise" THEN stage' = "failed" /\ UNCHANGED center
                      ELSE Maps!Sweep(Maps!Geocoded(r) = "found")
      BY <2>2 DEF Maps!Locate
    <3>2. bill' \in {0, 1}
      BY <3>1 DEF Maps!Locate, MapsIInv, MapsTyped, MapsAtStart
    <3>3. stage' \in {"sweep", "failed"} /\ center' \in BOOLEAN
      BY <3>1 DEF Maps!Sweep, MapsIInv, MapsTyped
    <3>4. QED
      BY <3>2, <3>3 DEF Maps!Locate
  <2>3. QED
    BY <2>1, <2>2
<1>2. /\ searched = <<>> /\ page = 1 /\ tile = 1 /\ phrase = 1 /\ yielded = {} /\ Len(searched) = 0
      /\ wanted.firm \in FirmTypes /\ left \in 0 .. MaxSearches
      /\ Len(searched) = MaxSearches - left
      /\ ~ twice /\ Maps!IsInjective(searched) /\ searched \in Seq(MapsPositions)
  BY <1>1 DEF MapsIInv, MapsTyped, MapsCounted, MapsAtStart, MapsHanded
<1>3. Maps!Range(searched) = {}
  BY <1>2 DEF Maps!Range
<1>4. Maps!Phrasings' \in Nat \ {0} /\ Maps!TileCount' \in Nat \ {0} /\ ResultPages \in Nat \ {0}
  <2>1. Maps!Phrasings' = Maps!Phrasings
    BY <1>1 DEF Maps!Phrasings
  <2>2. QED
    BY <2>1, MapsCounts DEF Maps!TileCount, Maps!MapsAssumption
<1>5. MapsDone(<<1, 1>>)' = {}
  BY <1>4 DEF MapsDone, MapsSearches, MapsBefore
<1>6. bill' <= ResultPages * 0 + 1 - 0
  BY <1>1, <1>4
<1>7. MapsBilled(Len(searched), 0)'
  BY <1>1, <1>2, <1>6 DEF MapsBilled
<1>8. Maps!NothingFar'
  BY <1>1, <1>2 DEF Maps!NothingFar
<1>9. MapsBilled(MaxSearches, 0)'
  <2>1. PICK top \in Nat : top = ResultPages * MaxSearches
    BY MapsCounts
  <2>2. QED
    BY <1>1, <2>1 DEF MapsBilled
<1>10. bill' \in Nat /\ center' \in BOOLEAN /\ stage' \in {"sweep", "failed"}
  BY <1>1
<1>11. /\ Maps!Range(searched') = {} /\ Maps!IsInjective(searched')
       /\ Len(searched') = MaxSearches - left'
  BY <1>1, <1>2, <1>3
<1>12. MapsTyped' /\ MapsCounted'
  BY <1>1, <1>2, <1>4, <1>10, <1>11 DEF MapsIInv, MapsTyped, MapsCounted
<1>13. MapsSweeping'
  <2>1. tile' = 1 /\ phrase' = 1 /\ page' = 1 /\ Maps!Range(searched') = MapsDone(<<tile, phrase>>)'
    BY <1>1, <1>2, <1>5, <1>11
  <2>2. tile' \in 1 .. Maps!TileCount' /\ phrase' \in 1 .. Maps!Phrasings'
    BY <1>4, <2>1
  <2>3. QED
    BY <1>7, <2>1, <2>2 DEF MapsSweeping
<1>14. MapsAtStart' /\ MapsAtEnd' /\ MapsHanded'
  BY <1>1, <1>2, <1>8, <1>9, <1>10 DEF MapsAtStart, MapsAtEnd, MapsIInv, MapsHanded
<1>15. QED
  BY <1>12, <1>13, <1>14 DEF MapsIInv

\* The search at the position is begun, unless it is under way; with it all searches up
\* to the position are made, and one page more is billed at most.
LEMMA MapsSearched ==
  ASSUME Maps!MapsAssumption, MapsIInv, stage = "sweep", page = 1 => left > 0,
         left' = IF page = 1 THEN left - 1 ELSE left,
         searched' = IF page = 1 THEN Append(searched, <<tile, phrase>>) ELSE searched,
         bill' \in {bill, bill + 1}
  PROVE  /\ left' \in 0 .. MaxSearches /\ searched' \in Seq(MapsPositions)
         /\ Len(searched') = MaxSearches - left' /\ Maps!IsInjective(searched')
         /\ Maps!Range(searched') = MapsDone(<<tile, phrase>>) \cup {<<tile, phrase>>}
         /\ bill' \in Nat /\ bill' <= ResultPages * Len(searched') + 1 - (ResultPages - page)
<1>1. PICK n \in Nat : n = Len(searched)
  BY MapsCounts
<1>2. /\ ResultPages \in Nat \ {0} /\ MaxSearches \in Nat \ {0} /\ left \in 0 .. MaxSearches
      /\ page \in 1 .. ResultPages /\ n = MaxSearches - left /\ bill \in Nat
      /\ searched \in Seq(MapsPositions) /\ Maps!IsInjective(searched)
  BY <1>1, MapsCounts DEF MapsIInv, MapsTyped, MapsCounted
<1>3. PICK m \in Nat : m = ResultPages * n /\ ResultPages * (n + 1) = m + ResultPages
  BY <1>2, MapsProducts
<1>4. PICK pos \in Nat \X Nat : pos = <<tile, phrase>>
  <2>1. PICK t \in Nat, p \in Nat : t = Maps!TileCount /\ p = Maps!Phrasings
    BY MapsCounts
  <2>2. tile \in 1 .. t /\ phrase \in 1 .. p
    BY <2>1 DEF MapsIInv, MapsSweeping
  <2>3. tile \in Nat /\ phrase \in Nat
    BY <2>1, <2>2
  <2>4. QED
    BY <2>3
<1>5. CASE page # 1
  <2>1. /\ Maps!Range(searched) = MapsDone(pos) \cup {pos}
        /\ bill <= m + 1 - (ResultPages - (page - 1))
    BY <1>1, <1>3, <1>4, <1>5 DEF MapsIInv, MapsSweeping, MapsBilled
  <2>2. bill' <= m + 1 - (ResultPages - page) /\ bill' \in Nat
    BY <1>2, <2>1
  <2>3. QED
    BY <1>1, <1>2, <1>3, <1>4, <1>5, <2>1, <2>2
<1>6. CASE page = 1
  <2>1. Maps!Range(searched) = MapsDone(pos) /\ bill <= m + 1
    BY <1>1, <1>2, <1>3, <1>4, <1>6 DEF MapsIInv, MapsSweeping, MapsBilled
  <2>2. searched' = Append(searched, pos) /\ left' = left - 1 /\ left > 0
    BY <1>4, <1>6
  <2>3. /\ searched' \in Seq(MapsPositions) /\ Len(searched') = n + 1 /\ searched'[n + 1] = pos
        /\ DOMAIN searched = 1 .. n /\ DOMAIN searched' = 1 .. n + 1
        /\ \A i \in 1 .. n : searched'[i] = searched[i]
    <3>1. searched \in Seq(MapsPositions) /\ pos \in MapsPositions /\ Len(searched) = n
      BY <1>1, <1>2 DEF MapsPositions
    <3>2. PICK more : more = Append(searched, pos)
      OBVIOUS
    <3>3. /\ more \in Seq(MapsPositions) /\ Len(more) = n + 1 /\ more[n + 1] = pos
          /\ DOMAIN searched = 1 .. n /\ DOMAIN more = 1 .. n + 1
          /\ \A i \in 1 .. n : more[i] = searched[i]
      BY <3>1, <3>2
    <3>4. QED
      BY <2>2, <3>2, <3>3
  <2>4. Maps!Range(searched') = Maps!Range(searched) \cup {pos}
    <3>1. \A x : x \in Maps!Range(searched') <=> \E i \in 1 .. n + 1 : searched'[i] = x
      BY <2>3 DEF Maps!Range
    <3>2. \A x : x \in Maps!Range(searched) <=> \E i \in 1 .. n : searched[i] = x
      BY <2>3 DEF Maps!Range
    <3>3. \A i \in 1 .. n + 1 : i \in 1 .. n \/ i = n + 1
      OBVIOUS
    <3>4. n + 1 \in 1 .. n + 1 /\ 1 .. n \subseteq 1 .. n + 1
      OBVIOUS
    <3>5. ASSUME NEW x \in Maps!Range(searched') PROVE x \in Maps!Range(searched) \cup {pos}
      <4>1. PICK i \in 1 .. n + 1 : searched'[i] = x
        BY <3>1, <3>5
      <4>2. QED
        BY <2>3, <3>2, <3>3, <4>1
    <3>6. ASSUME NEW x \in Maps!Range(searched) \cup {pos} PROVE x \in Maps!Range(searched')
      <4>1. CASE x = pos
        BY <2>3, <3>1, <3>4, <4>1
      <4>2. CASE x \in Maps!Range(searched)
        <5>1. PICK i \in 1 .. n : searched[i] = x
          BY <3>2, <4>2
        <5>2. QED
          BY <2>3, <3>1, <3>4, <5>1
      <4>3. QED
        BY <3>6, <4>1, <4>2
    <3>7. QED
      BY <3>5, <3>6
  <2>5. pos \notin Maps!Range(searched)
    BY <1>4, <2>1 DEF MapsDone, MapsBefore
  <2>6. Maps!IsInjective(searched')
    <3>1. \A i \in 1 .. n : searched[i] # pos
      BY <2>3, <2>5 DEF Maps!Range
    <3>2. \A a, b \in 1 .. n : searched[a] = searched[b] => a = b
      BY <1>2, <2>3 DEF Maps!IsInjective
    <3>3. \A a, b \in 1 .. n + 1 : searched'[a] = searched'[b] => a = b
      <4>1. \A i \in 1 .. n + 1 : i \in 1 .. n \/ i = n + 1
        OBVIOUS
      <4>2. TAKE a, b \in 1 .. n + 1
      <4>3. HAVE searched'[a] = searched'[b]
      <4>4. CASE a \in 1 .. n /\ b \in 1 .. n
        BY <2>3, <3>2, <4>3, <4>4
      <4>5. CASE a \in 1 .. n /\ b = n + 1
        BY <2>3, <3>1, <4>3, <4>5
      <4>6. CASE a = n + 1 /\ b \in 1 .. n
        BY <2>3, <3>1, <4>3, <4>6
      <4>7. QED
        BY <4>1, <4>4, <4>5, <4>6
    <3>4. QED
      BY <2>3, <3>3 DEF Maps!IsInjective
  <2>7. bill' \in Nat /\ bill' <= ResultPages * (n + 1) + 1 - (ResultPages - page)
    BY <1>2, <1>3, <1>6, <2>1
  <2>8. left' \in 0 .. MaxSearches /\ n + 1 = MaxSearches - left'
    BY <1>2, <2>2
  <2>9. QED
    BY <1>4, <2>1, <2>3, <2>4, <2>6, <2>7, <2>8
<1>7. QED
  BY <1>5, <1>6

\* The step to the next search.
LEMMA MapsNextPosition ==
  ASSUME Maps!MapsAssumption, MapsIInv, stage = "sweep", Maps!NextSearch, UNCHANGED <<wanted,
         center>>
  PROVE  \/ /\ stage' = "sweep" /\ tile' \in 1 .. Maps!TileCount /\ phrase' \in 1 .. Maps!Phrasings
            /\ MapsDone(<<tile', phrase'>>) = MapsDone(<<tile, phrase>>) \cup {<<tile, phrase>>}
         \/ /\ stage' = "done" /\ MapsSearches = MapsDone(<<tile, phrase>>) \cup {<<tile, phrase>>}
<1>1. PICK t \in Nat \ {0}, p \in Nat \ {0} : t = Maps!TileCount /\ p = Maps!Phrasings
  BY MapsCounts
<1>2. tile \in 1 .. t /\ phrase \in 1 .. p
  BY <1>1 DEF MapsIInv, MapsSweeping
<1>3. PICK S : S = (1 .. t) \X (1 .. p)
  OBVIOUS
<1>4. MapsSearches = S
  BY <1>1, <1>3 DEF MapsSearches
<1>5. CASE phrase < p
  <2>1. stage' = "sweep" /\ tile' = tile /\ phrase' = phrase + 1
    BY <1>1, <1>5 DEF Maps!NextSearch
  <2>2. \A s \in S : MapsBefore(s, <<tile, phrase + 1>>) <=>
                      (MapsBefore(s, <<tile, phrase>>) \/ s = <<tile, phrase>>)
    BY <1>2, <1>3 DEF MapsBefore
  <2>3. <<tile, phrase>> \in S
    BY <1>2, <1>3
  <2>4. QED
    BY <1>1, <1>2, <1>4, <1>5, <2>1, <2>2, <2>3 DEF MapsDone
<1>6. CASE phrase = p /\ tile < t
  <2>1. stage' = "sweep" /\ tile' = tile + 1 /\ phrase' = 1
    BY <1>1, <1>6 DEF Maps!NextSearch
  <2>2. \A s \in S : MapsBefore(s, <<tile + 1, 1>>) <=>
                      (MapsBefore(s, <<tile, phrase>>) \/ s = <<tile, phrase>>)
    BY <1>2, <1>3, <1>6 DEF MapsBefore
  <2>3. <<tile, phrase>> \in S
    BY <1>2, <1>3
  <2>4. QED
    BY <1>1, <1>2, <1>4, <1>6, <2>1, <2>2, <2>3 DEF MapsDone
<1>7. CASE phrase = p /\ tile = t
  <2>1. stage' = "done"
    BY <1>1, <1>7 DEF Maps!NextSearch
  <2>2. \A s \in S : MapsBefore(s, <<tile, phrase>>) \/ s = <<tile, phrase>>
    BY <1>2, <1>3, <1>7 DEF MapsBefore
  <2>3. <<tile, phrase>> \in S
    BY <1>2, <1>3
  <2>4. QED
    BY <1>4, <2>1, <2>2, <2>3 DEF MapsDone
<1>8. QED
  BY <1>1, <1>2, <1>5, <1>6, <1>7

LEMMA MapsPosted ==
  ASSUME Maps!MapsAssumption, MapsIInv, Maps!Post
  PROVE  MapsIInv'
<1>1. /\ stage = "sweep" /\ (page = 1 => left > 0) /\ UNCHANGED <<wanted, center>>
      /\ left' = IF page = 1 THEN left - 1 ELSE left
      /\ searched' = IF page = 1 THEN Append(searched, <<tile, phrase>>) ELSE searched
      /\ bill' = bill + 1
  BY DEF Maps!Post
<1>2. /\ left' \in 0 .. MaxSearches /\ searched' \in Seq(MapsPositions)
      /\ Len(searched') = MaxSearches - left' /\ Maps!IsInjective(searched')
      /\ Maps!Range(searched') = MapsDone(<<tile, phrase>>) \cup {<<tile, phrase>>}
      /\ bill' \in Nat /\ bill' <= ResultPages * Len(searched') + 1 - (ResultPages - page)
  BY <1>1, MapsSearched
<1>3. PICK places, token, new, given :
        /\ new = Maps!Fresh(places)
        /\ given = {places[i] : i \in {n \in new : Maps!Near(places[n])}}
        /\ seen' = seen \cup ({places[i] : i \in new} \ {Maps!NoId})
        /\ yielded' = yielded \cup given
        /\ twice' = (twice \/ (given \ {Maps!NoId}) \cap yielded # {})
        /\ \/ page < ResultPages /\ page' = page + 1 /\ UNCHANGED <<tile, phrase, stage>>
           \/ page' = 1 /\ Maps!NextSearch
  BY DEF Maps!Post
<1>4. \A x \in given : (x = Maps!NoId \/ x \notin seen) /\ Maps!Near(x) /\ x \in {places[i] : i \in new}
  BY <1>3 DEF Maps!Fresh
<1>5. ~ twice' /\ yielded' \ {Maps!NoId} \subseteq seen'
  <2>1. (given \ {Maps!NoId}) \cap yielded = {}
    BY <1>4 DEF MapsIInv, MapsHanded
  <2>2. ~ twice /\ yielded \ {Maps!NoId} \subseteq seen
    BY DEF MapsIInv, MapsHanded
  <2>3. ~ twice'
    BY <1>3, <2>1, <2>2
  <2>4. QED
    BY <1>3, <1>4, <2>2, <2>3
<1>6. Maps!NothingFar'
  BY <1>1, <1>3, <1>4 DEF Maps!NothingFar, Maps!Near, MapsIInv, MapsTyped, MapsHanded
<1>7. /\ ResultPages \in Nat \ {0} /\ page \in 1 .. ResultPages /\ wanted.firm \in FirmTypes
      /\ center \in BOOLEAN
      /\ tile \in 1 .. Maps!TileCount /\ phrase \in 1 .. Maps!Phrasings
  BY <1>1, MapsCounts DEF MapsIInv, MapsTyped, MapsSweeping
<1>8. /\ Maps!TileCount' = Maps!TileCount /\ Maps!Phrasings' = Maps!Phrasings
      /\ MapsSearches' = MapsSearches
      /\ \A s : MapsDone(s)' = MapsDone(s)
  BY <1>1 DEF Maps!TileCount, Maps!Phrasings, MapsSearches, MapsDone
<1>9. PICK m \in Nat : m = ResultPages * Len(searched')
  BY <1>2, <1>7, MapsProducts
<1>10. MapsCounted' /\ MapsHanded'
  <2>1. Len(searched') <= MaxSearches
    BY <1>2, MapsCounts
  <2>2. QED
    BY <1>2, <1>5, <1>6, <2>1 DEF MapsCounted, MapsHanded
<1>11. CASE page < ResultPages /\ page' = page + 1 /\ UNCHANGED <<tile, phrase, stage>>
  <2>1. page' \in 1 .. ResultPages /\ page' # 1 /\ bill' <= m + 1 - (ResultPages - (page' - 1))
    BY <1>2, <1>7, <1>9, <1>11
  <2>2. MapsBilled(Len(searched), ResultPages - (page - 1))'
    BY <1>9, <2>1 DEF MapsBilled
  <2>3. MapsTyped'
    BY <1>1, <1>2, <1>7, <1>11, <2>1 DEF MapsTyped
  <2>4. MapsSweeping'
    <3>1. tile' \in 1 .. Maps!TileCount' /\ phrase' \in 1 .. Maps!Phrasings'
      BY <1>7, <1>8, <1>11
    <3>2. Maps!Range(searched') = (MapsDone(<<tile, phrase>>) \cup {<<tile, phrase>>})'
      BY <1>2, <1>8, <1>11
    <3>3. QED
      BY <2>1, <2>2, <3>1, <3>2 DEF MapsSweeping
  <2>5. MapsAtStart' /\ MapsAtEnd'
    BY <1>1, <1>11 DEF MapsAtStart, MapsAtEnd
  <2>6. QED
    BY <1>10, <2>3, <2>4, <2>5 DEF MapsIInv
<1>12. CASE page' = 1 /\ Maps!NextSearch
  <2>1. page' \in 1 .. ResultPages /\ bill' <= m + 1 - 0
    <3>1. bill' \in Nat /\ bill' <= m + 1 - (ResultPages - page)
      BY <1>2, <1>9
    <3>2. page' = 1
      BY <1>12
    <3>3. QED
      BY <1>7, <3>1, <3>2
  <2>2. MapsBilled(Len(searched), 0)'
    BY <1>9, <2>1 DEF MapsBilled
  <2>3. \/ /\ stage' = "sweep" /\ tile' \in 1 .. Maps!TileCount /\ phrase' \in 1 .. Maps!Phrasings
           /\ MapsDone(<<tile', phrase'>>) = MapsDone(<<tile, phrase>>) \cup {<<tile, phrase>>}
        \/ /\ stage' = "done" /\ MapsSearches = MapsDone(<<tile, phrase>>) \cup {<<tile, phrase>>}
    BY <1>1, <1>12, MapsNextPosition
  <2>4. MapsTyped'
    BY <1>1, <1>2, <1>7, <2>1, <2>3 DEF MapsTyped
  <2>5. MapsSweeping'
    <3>1. SUFFICES ASSUME stage' = "sweep" PROVE MapsSweeping'
      BY DEF MapsSweeping
    <3>2. tile' \in 1 .. Maps!TileCount' /\ phrase' \in 1 .. Maps!Phrasings'
      BY <1>8, <2>3, <3>1
    <3>3. Maps!Range(searched') = MapsDone(<<tile, phrase>>)'
      BY <1>2, <1>8, <2>3, <3>1
    <3>4. QED
      BY <1>12, <2>2, <3>2, <3>3 DEF MapsSweeping
  <2>6. MapsAtStart' /\ MapsAtEnd'
    <3>1. stage' = "done" => Maps!Range(searched') = MapsSearches'
      BY <1>2, <1>8, <2>3
    <3>2. QED
      BY <2>2, <2>3, <3>1 DEF MapsAtStart, MapsAtEnd
  <2>7. QED
    BY <1>10, <2>4, <2>5, <2>6 DEF MapsIInv
<1>13. QED
  BY <1>3, <1>11, <1>12

LEMMA MapsFailed ==
  ASSUME Maps!MapsAssumption, MapsIInv, Maps!PostFails
  PROVE  MapsIInv'
<1>1. /\ stage = "sweep" /\ stage' = "failed" /\ (page = 1 => left > 0)
      /\ bill' \in {bill, bill + 1}
      /\ left' = IF page = 1 THEN left - 1 ELSE left
      /\ UNCHANGED <<wanted, center, refused, tile, phrase, page, seen, searched, yielded, twice>>
  BY DEF Maps!PostFails
<1>2. PICK n \in Nat : n = Len(searched)
  BY MapsCounts
<1>3. /\ ResultPages \in Nat \ {0} /\ MaxSearches \in Nat \ {0} /\ left \in 0 .. MaxSearches
      /\ page \in 1 .. ResultPages /\ n = MaxSearches - left /\ bill \in Nat
  BY <1>1, <1>2, MapsCounts DEF MapsIInv, MapsTyped, MapsCounted
<1>4. PICK m \in Nat, top \in Nat :
        /\ m = ResultPages * n /\ ResultPages * (n + 1) = m + ResultPages
        /\ top = ResultPages * MaxSearches
        /\ m <= top /\ (n + 1 <= MaxSearches => m + ResultPages <= top)
  <2>1. /\ ResultPages * n \in Nat /\ ResultPages * (n + 1) = ResultPages * n + ResultPages
        /\ ResultPages * n <= ResultPages * MaxSearches /\ ResultPages * MaxSearches \in Nat
    BY <1>3, MapsProducts
  <2>2. n + 1 <= MaxSearches => ResultPages * (n + 1) <= ResultPages * MaxSearches
    BY <1>3, MapsProducts
  <2>3. QED
    BY <2>1, <2>2
<1>5. bill' \in Nat /\ bill' <= top + 1
  <2>1. CASE page = 1
    <3>1. bill <= m + 1 /\ n + 1 <= MaxSearches
      BY <1>1, <1>2, <1>3, <1>4, <2>1 DEF MapsIInv, MapsSweeping, MapsBilled
    <3>2. QED
      BY <1>1, <1>3, <1>4, <3>1
  <2>2. CASE page # 1
    <3>1. bill <= m + 1 - (ResultPages - (page - 1))
      BY <1>1, <1>2, <1>4, <2>2 DEF MapsIInv, MapsSweeping, MapsBilled
    <3>2. QED
      BY <1>1, <1>3, <1>4, <2>2, <3>1
  <2>3. QED
    BY <2>1, <2>2
<1>6. MapsBilled(MaxSearches, 0)'
  BY <1>4, <1>5 DEF MapsBilled
<1>7. left' \in 0 .. MaxSearches
  BY <1>1, <1>3
<1>8. Maps!NothingFar'
  BY <1>1 DEF Maps!NothingFar, MapsIInv, MapsHanded
<1>9. MapsTyped' /\ MapsCounted' /\ MapsHanded'
  BY <1>1, <1>5, <1>7, <1>8 DEF MapsIInv, MapsTyped, MapsCounted, MapsHanded
<1>10. MapsAtStart' /\ MapsSweeping' /\ MapsAtEnd'
  BY <1>1, <1>6 DEF MapsAtStart, MapsSweeping, MapsAtEnd
<1>11. QED
  BY <1>9, <1>10 DEF MapsIInv

LEMMA MapsNextIInv ==
  ASSUME Maps!MapsAssumption, MapsIInv, Maps!Next \/ UNCHANGED Maps!vars
  PROVE  MapsIInv'
<1>1. CASE Maps!BudgetSpent
  <2>1. /\ stage = "sweep" /\ page = 1 /\ left = 0 /\ stage' = "done"
        /\ UNCHANGED <<wanted, center, refused, tile, phrase, page, left, seen, searched, yielded,
                       twice, bill>>
    BY <1>1 DEF Maps!BudgetSpent
  <2>2. Len(searched) = MaxSearches
    BY <2>1 DEF MapsIInv, MapsCounted, Maps!MapsAssumption
  <2>3. MapsBilled(Len(searched), 0)'
    BY <2>1 DEF MapsIInv, MapsSweeping, MapsBilled
  <2>4. Maps!NothingFar'
    BY <2>1 DEF MapsIInv, MapsHanded, Maps!NothingFar
  <2>5. MapsTyped' /\ MapsCounted' /\ MapsHanded'
    BY <2>1, <2>4 DEF MapsIInv, MapsTyped, MapsCounted, MapsHanded
  <2>6. MapsAtStart' /\ MapsSweeping' /\ MapsAtEnd'
    BY <2>1, <2>2, <2>3 DEF MapsAtStart, MapsSweeping, MapsAtEnd
  <2>7. QED
    BY <2>5, <2>6 DEF MapsIInv
<1>2. CASE UNCHANGED Maps!vars
  BY <1>2 DEF Maps!vars, MapsIInv, MapsTyped, MapsCounted, MapsAtStart, MapsSweeping,
    MapsAtEnd, MapsHanded, MapsBilled, Maps!NothingFar,
    MapsDone, MapsSearches, Maps!TileCount, Maps!Phrasings
<1>3. QED
  BY <1>1, <1>2, MapsLocated, MapsPosted, MapsFailed DEF Maps!Next

LEMMA MapsIInvComplete ==
  ASSUME Maps!MapsAssumption, MapsIInv
  PROVE  Maps!SweepComplete
<1>1. stage = "done" =>
        Len(searched) = MaxSearches \/ Maps!Range(searched) = (1 .. Maps!TileCount) \X (1 .. Maps!Phrasings)
  BY DEF MapsIInv, MapsAtEnd, MapsSearches
<1>2. bill <= ResultPages * MaxSearches + 1
  <2>1. PICK n \in Nat : n = Len(searched)
    BY MapsCounts
  <2>2. /\ n <= MaxSearches /\ MaxSearches \in Nat /\ ResultPages \in Nat \ {0}
        /\ page \in 1 .. ResultPages
    BY <2>1, MapsCounts DEF MapsIInv, MapsTyped, MapsCounted
  <2>3. PICK m \in Nat, top \in Nat : m = ResultPages * n /\ top = ResultPages * MaxSearches /\ m <= top
    BY <2>2, MapsProducts
  <2>4. CASE stage = "start"
    BY <2>3, <2>4 DEF MapsIInv, MapsTyped, MapsAtStart
  <2>5. CASE (stage = "sweep" /\ page = 1) \/ stage = "done"
    <3>1. bill \in Nat /\ bill <= m + 1 - 0
      BY <2>1, <2>3, <2>5 DEF MapsIInv, MapsTyped, MapsSweeping, MapsAtEnd, MapsBilled
    <3>2. QED
      BY <2>3, <3>1
  <2>6. CASE stage = "sweep" /\ page # 1
    <3>1. bill \in Nat /\ bill <= m + 1 - (ResultPages - (page - 1))
      BY <2>1, <2>3, <2>6 DEF MapsIInv, MapsTyped, MapsSweeping, MapsBilled
    <3>2. QED
      BY <2>2, <2>3, <3>1
  <2>7. CASE stage = "failed"
    <3>1. bill \in Nat /\ bill <= top + 1 - 0
      BY <2>3, <2>7 DEF MapsIInv, MapsTyped, MapsAtEnd, MapsBilled
    <3>2. QED
      BY <2>3, <3>1
  <2>8. QED
    BY <2>4, <2>5, <2>6, <2>7 DEF MapsIInv, MapsTyped
<1>3. QED
  BY <1>1, <1>2 DEF Maps!SweepComplete, MapsIInv, MapsCounted, MapsHanded

-----------------------------------------------------------------------------
(* Hiring signals                                                            *)

\* The signals' variables in the pool.
serp == s1
cred == s2
run == s3
signals == s4
found_pages == s5
calls == s6
skipped == s7
changes == s8
inline == s9
held_call == s10
fresh == s11

USE DEF serp, cred, run, signals, found_pages, calls, skipped, changes, inline, held_call, fresh

\* What a call that is being prepared is made with has been in force since the last one.
SignalsIInv ==
  /\ Signals!PublicPagesOnce
  /\ cred \in Signals!Creds
  /\ Signals!InForce \subseteq fresh
  /\ held_call # Signals!NoCall => held_call.with \in fresh

LEMMA SignalsInitIInv ==
  ASSUME Signals!Init
  PROVE  SignalsIInv
<1>1. DOMAIN <<>> = {}
  OBVIOUS
<1>2. QED
  BY <1>1 DEF Signals!Init, SignalsIInv, Signals!PublicPagesOnce, Signals!Range, Signals!IsInjective

LEMMA SignalsCardinality ==
  ASSUME NEW S
  PROVE  Signals!Cardinality(S) = Cardinality(S)
BY DEF Signals!Cardinality, Cardinality

\* The first links to each page, and what is brought in of them.
SignalsFirst(found, new) ==
  \A i \in new : found[i] \in {"page", "other page", "person"} /\ \A j \in 1 .. i - 1 : found[j] # found[i]

SignalsBrought(found, new, brought) ==
  brought = [k \in 1 .. Signals!Cardinality(new) |->
               found[CHOOSE i \in new : Signals!Cardinality({j \in new : j <= i}) = k]]

LEMMA SignalsFirstLinks ==
  ASSUME NEW n \in Nat, NEW found, NEW new \in SUBSET (1 .. n), NEW brought,
         SignalsFirst(found, new), SignalsBrought(found, new, brought)
  PROVE  Signals!Range(brought) \subseteq {"page", "other page", "person"} /\ Signals!IsInjective(brought)
<1> DEFINE UpTo(i) == {j \in new : j <= i}
           size == Signals!Cardinality(new)
<1>1. \A i \in new : i \in 1 .. n
  OBVIOUS
<1>2. \A k \in 1 .. size : \E i \in new : Signals!Cardinality(UpTo(i)) = k
  <2>1. \A k \in 1 .. Cardinality(new) : \E i \in new : Cardinality(UpTo(i)) = k
    BY Ranks
  <2>2. QED
    BY <2>1, SignalsCardinality
<1>3. \A k \in 1 .. size : \E i \in new : Signals!Cardinality(UpTo(i)) = k /\ brought[k] = found[i]
  <2>1. TAKE k \in 1 .. size
  <2>2. PICK i : i = CHOOSE o \in new : Signals!Cardinality(UpTo(o)) = k
    OBVIOUS
  <2>3. i \in new /\ Signals!Cardinality(UpTo(i)) = k
    BY <1>2, <2>2
  <2>4. brought[k] = found[i]
    BY <2>2 DEF SignalsBrought
  <2>5. QED
    BY <2>3, <2>4
<1> HIDE DEF UpTo, size
<1>4. ASSUME NEW a \in 1 .. size, NEW b \in 1 .. size, brought[a] = brought[b] PROVE a = b
  <2>1. PICK i \in new : Signals!Cardinality(UpTo(i)) = a /\ brought[a] = found[i]
    BY <1>3
  <2>2. PICK o \in new : Signals!Cardinality(UpTo(o)) = b /\ brought[b] = found[o]
    BY <1>3
  <2>3. (i < o => i \in 1 .. o - 1) /\ (o < i => o \in 1 .. i - 1) /\ i \in Int /\ o \in Int
    BY <1>1
  <2>4. found[i] = found[o]
    BY <1>4, <2>1, <2>2
  <2>5. ~ (i < o) /\ ~ (o < i)
    BY <2>3, <2>4 DEF SignalsFirst
  <2>6. i = o
    BY <2>3, <2>5
  <2>7. QED
    BY <2>1, <2>2, <2>6
<1>5. DOMAIN brought = 1 .. size
  BY DEF size, SignalsBrought
<1>6. \A k \in DOMAIN brought : brought[k] \in {"page", "other page", "person"}
  BY <1>3, <1>5 DEF SignalsFirst
<1>7. QED
  BY <1>4, <1>5, <1>6 DEF Signals!Range, Signals!IsInjective

LEMMA SignalsStepPages ==
  ASSUME Signals!PublicPagesOnce, Signals!Next \/ UNCHANGED Signals!vars
  PROVE  Signals!PublicPagesOnce'
<1>1. CASE found_pages' = found_pages
  BY <1>1 DEF Signals!PublicPagesOnce
<1>2. CASE found_pages' = <<>>
  <2>1. DOMAIN <<>> = {}
    OBVIOUS
  <2>2. QED
    BY <1>2, <2>1 DEF Signals!PublicPagesOnce, Signals!Range, Signals!IsInjective
<1>3. CASE Signals!Discover /\ found_pages' # found_pages
  <2>1. PICK links \in UNION {[1 .. n -> Signals!Links] : n \in 0 .. 3} :
          LET found == [i \in DOMAIN links |-> Signals!PageOf(links[i])]
              new   == {i \in DOMAIN links : found[i] # "none" /\ \A j \in 1 .. (i - 1) : found[j] # found[i]}
          IN  found_pages' = [n \in 1 .. Signals!Cardinality(new) |->
                                found[CHOOSE i \in new : Signals!Cardinality({j \in new : j <= i}) = n]]
    BY <1>3 DEF Signals!Discover, Signals!Skip, Signals!Prepare
  <2>2. PICK found : found = [i \in DOMAIN links |-> Signals!PageOf(links[i])]
    OBVIOUS
  <2>3. PICK new : new = {i \in DOMAIN links : found[i] # "none" /\ \A j \in 1 .. (i - 1) : found[j] # found[i]}
    OBVIOUS
  <2>4. SignalsBrought(found, new, found_pages')
    BY <2>1, <2>2, <2>3 DEF SignalsBrought
  <2>5. PICK n \in Nat : DOMAIN links = 1 .. n
    <3>1. PICK n \in 0 .. 3 : links \in [1 .. n -> Signals!Links]
      OBVIOUS
    <3>2. QED
      BY <3>1
  <2>6. \A i \in DOMAIN links : found[i] \in {"page", "other page", "person", "none"}
    BY <2>2 DEF Signals!PageOf
  <2>7. new \in SUBSET (1 .. n)
    BY <2>3, <2>5
  <2>8. SignalsFirst(found, new)
    BY <2>2, <2>3, <2>6 DEF SignalsFirst
  <2>9. PICK brought : brought = found_pages'
    OBVIOUS
  <2>10. Signals!Range(brought) \subseteq {"page", "other page", "person"} /\ Signals!IsInjective(brought)
    BY <2>4, <2>7, <2>8, <2>9, SignalsFirstLinks
  <2>11. QED
    BY <2>9, <2>10 DEF Signals!PublicPagesOnce
<1>4. QED
  BY <1>1, <1>2, <1>3 DEF Signals!Next, Signals!Step, Signals!SerpJobs, Signals!CheckAccess, Signals!ReadPage,
    Signals!FacebookJobs, Signals!Careers, Signals!ChangeAccess, Signals!WorkerRestarts, Signals!Skip,
    Signals!Prepare, Signals!vars

\* What a step does to the calls.
SignalsCallKept ==
  calls' = calls /\ held_call' = held_call /\ fresh' = fresh

SignalsCallHeld ==
  /\ calls' = calls /\ fresh' = fresh
  /\ \E to, with : held_call' = [to |-> to, with |-> with] /\ with \in Signals!InForce

SignalsCallMade ==
  /\ held_call # Signals!NoCall /\ held_call' = Signals!NoCall
  /\ calls' = calls \cup {held_call} /\ fresh' = Signals!InForce

LEMMA SignalsPrepare ==
  ASSUME SignalsIInv, NEW to, NEW with \in {serp, cred, NoKey}, NEW next, Signals!Prepare(to, with, next)
  PROVE  SignalsCallKept \/ SignalsCallHeld
<1>1. CASE with \in {NoKey, "none", "unreadable"}
  BY <1>1 DEF Signals!Prepare, SignalsCallKept
<1>2. CASE with \notin {NoKey, "none", "unreadable"}
  <2>1. with \in Signals!InForce
    BY <1>2 DEF Signals!InForce, SignalsIInv, Signals!Creds
  <2>2. calls' = calls /\ fresh' = fresh /\ held_call' = [to |-> to, with |-> with]
    BY <1>2 DEF Signals!Prepare
  <2>3. QED
    BY <2>1, <2>2 DEF SignalsCallHeld
<1>3. QED
  BY <1>1, <1>2

LEMMA SignalsStepCall ==
  ASSUME SignalsIInv, Signals!Step
  PROVE  SignalsCallKept \/ SignalsCallHeld \/ SignalsCallMade
<1>1. ASSUME NEW next, Signals!Call(next)
      PROVE  SignalsCallMade
  BY <1>1 DEF Signals!Call, SignalsCallMade
<1>2. ASSUME Signals!Skip
      PROVE  SignalsCallKept
  BY <1>2 DEF Signals!Skip, SignalsCallKept
<1>3. CASE Signals!SerpJobs
  BY <1>1, <1>3, SignalsPrepare DEF Signals!SerpJobs, Signals!Key
<1>4. CASE Signals!CheckAccess
  BY <1>2, <1>4 DEF Signals!CheckAccess, SignalsCallKept
<1>5. CASE Signals!ReadPage
  BY <1>1, <1>5, SignalsPrepare DEF Signals!ReadPage
<1>6. CASE Signals!FacebookJobs
  BY <1>1, <1>6, SignalsPrepare DEF Signals!FacebookJobs, Signals!Key
<1>7. CASE Signals!Careers
  BY <1>1, <1>7, SignalsPrepare DEF Signals!Careers, Signals!Key
<1>8. CASE Signals!Discover
  BY <1>1, <1>2, <1>8, SignalsPrepare DEF Signals!Discover, Signals!Key, SignalsCallKept
<1>9. QED
  BY <1>3, <1>4, <1>5, <1>6, <1>7, <1>8 DEF Signals!Step

\* A change of the access, or no step at all, makes and prepares no call.
LEMMA SignalsChanged ==
  ASSUME SignalsIInv, Signals!ChangeAccess \/ Signals!WorkerRestarts \/ UNCHANGED Signals!vars
  PROVE  /\ calls' \subseteq calls /\ Signals!InForce' \subseteq fresh' /\ cred' \in Signals!Creds
         /\ held_call' # Signals!NoCall => held_call' = held_call /\ fresh \subseteq fresh'
<1>1. CASE Signals!ChangeAccess
  BY <1>1 DEF Signals!ChangeAccess, SignalsIInv
<1>2. CASE Signals!WorkerRestarts
  BY <1>2 DEF Signals!WorkerRestarts, SignalsIInv
<1>3. CASE UNCHANGED Signals!vars
  <2>1. /\ calls' = calls /\ fresh' = fresh /\ held_call' = held_call /\ cred' = cred /\ serp' = serp
    BY <1>3 DEF Signals!vars
  <2>2. QED
    BY <2>1 DEF SignalsIInv, Signals!InForce
<1>4. QED
  BY <1>1, <1>2, <1>3

LEMMA SignalsNextIInv ==
  ASSUME SignalsIInv, Signals!Next \/ UNCHANGED Signals!vars
  PROVE  SignalsIInv' /\ Signals!CallHasAccess
<1>1. Signals!PublicPagesOnce'
  BY SignalsStepPages DEF SignalsIInv
<1>2. CASE Signals!ChangeAccess \/ Signals!WorkerRestarts \/ UNCHANGED Signals!vars
  <2>1. held_call' # Signals!NoCall => held_call'.with \in fresh'
    BY <1>2, SignalsChanged DEF SignalsIInv
  <2>2. Signals!CallHasAccess
    BY <1>2, SignalsChanged DEF Signals!CallHasAccess
  <2>3. SignalsIInv'
    BY <1>1, <1>2, <2>1, SignalsChanged DEF SignalsIInv, Signals!NoCall
  <2>4. QED
    BY <2>2, <2>3
<1>3. CASE Signals!Step /\ UNCHANGED <<serp, cred>>
  <2>1. Signals!InForce' = Signals!InForce /\ cred' \in Signals!Creds
    BY <1>3 DEF Signals!InForce, SignalsIInv
  <2>2. SignalsCallKept \/ SignalsCallHeld \/ SignalsCallMade
    BY <1>3, SignalsStepCall
  <2>3. Signals!InForce \subseteq fresh'
    BY <2>2 DEF SignalsCallKept, SignalsCallHeld, SignalsCallMade, SignalsIInv
  <2>4. held_call' # Signals!NoCall => held_call'.with \in fresh'
    BY <2>2 DEF SignalsCallKept, SignalsCallHeld, SignalsCallMade, SignalsIInv
  <2>5. Signals!CallHasAccess
    BY <2>2 DEF SignalsCallKept, SignalsCallHeld, SignalsCallMade, SignalsIInv, Signals!CallHasAccess
  <2>6. SignalsIInv'
    BY <1>1, <2>1, <2>3, <2>4 DEF SignalsIInv, Signals!NoCall
  <2>7. QED
    BY <2>5, <2>6
<1>4. QED
  BY <1>2, <1>3 DEF Signals!Next

-----------------------------------------------------------------------------
(* Templates                                                                 *)

\* The templates' variables in the pool.
template == s1
draft == s2
facts == s3
line == s4
message == s5
mailed == s6

USE DEF template, draft, facts, line, message, mailed

\* Each variable of the text has a value, and its words are in the body.
TemplatesFilled(body, of, with) ==
  \A v \in Templates!UsedVariables(of) : with[v] # <<>> /\ Templates!ToSet(with[v]) \subseteq Templates!ToSet(body)

TemplatesMessageOK ==
  /\ message = [message EXCEPT !.status = message.status]
  /\ message.status = "QUEUED" =>
       \E body, of, with :
         /\ message = [status |-> "QUEUED", body |-> body, of |-> of, with |-> with]
         /\ Templates!IsText(body) /\ TemplatesFilled(body, of, with)

TemplatesIInv ==
  /\ Templates!IsText(template) /\ Templates!IsText(draft) /\ facts \in Facts /\ line \in Lines
  /\ TemplatesMessageOK /\ Templates!MailedIsPersonal

LEMMA TemplatesToSet ==
  ASSUME NEW t
  PROVE  Templates!ToSet(t) = {t[i] : i \in DOMAIN t}
BY DEF Templates!ToSet

LEMMA TemplatesTexts ==
  ASSUME NEW T, NEW t \in Seq(T)
  PROVE  Templates!IsText(t)
<1>1. \A i \in 1 .. Len(t) : t[i] \in Templates!ToSet(t)
  BY TemplatesToSet
<1>2. t = [i \in 1 .. Len(t) |-> t[i]] /\ Len(t) \in Nat
  OBVIOUS
<1>3. QED
  BY <1>1, <1>2 DEF Templates!IsText

LEMMA TemplatesWider ==
  ASSUME NEW S, NEW T, NEW t \in Seq(S), S \subseteq T
  PROVE  t \in Seq(T)
OBVIOUS

\* What FlattenSeq goes through: its first n pieces joined.
TemplatesJoins(f, pieces, n) ==
  f = [i \in 1 .. n |-> IF i = 1 THEN pieces[i] ELSE f[i - 1] \o pieces[i]]

LEMMA TemplatesJoinsExist ==
  ASSUME NEW pieces, NEW n \in Nat
  PROVE  \E f : TemplatesJoins(f, pieces, n)
<1> DEFINE S == {k \in 0 .. n : \E f : TemplatesJoins(f, pieces, k)}
<1>1. 0 \in S
  <2>1. PICK f : f = [i \in 1 .. 0 |-> <<>>]
    OBVIOUS
  <2>2. f = [i \in 1 .. 0 |-> IF i = 1 THEN pieces[i] ELSE f[i - 1] \o pieces[i]]
    BY <2>1
  <2>3. TemplatesJoins(f, pieces, 0)
    BY <2>2 DEF TemplatesJoins
  <2>4. QED
    BY <2>3
<1>2. ASSUME NEW k \in 0 .. n - 1, k \in S PROVE k + 1 \in S
  <2>1. PICK f : TemplatesJoins(f, pieces, k)
    BY <1>2
  <2>2. PICK h : h = [i \in 1 .. k + 1 |-> IF i = 1 THEN pieces[i] ELSE f[i - 1] \o pieces[i]]
    OBVIOUS
  <2>3. f = [i \in 1 .. k |-> IF i = 1 THEN pieces[i] ELSE f[i - 1] \o pieces[i]]
    BY <2>1 DEF TemplatesJoins
  <2>4. \A i \in 1 .. k : h[i] = f[i]
    <3>1. TAKE i \in 1 .. k
    <3>2. f[i] = IF i = 1 THEN pieces[i] ELSE f[i - 1] \o pieces[i]
      BY <2>3
    <3>3. h[i] = IF i = 1 THEN pieces[i] ELSE f[i - 1] \o pieces[i]
      BY <2>2
    <3>4. QED
      BY <3>2, <3>3
  <2>5. \A i \in 1 .. k + 1 : i # 1 => h[i - 1] = f[i - 1]
    BY <2>4
  <2>6. h = [i \in 1 .. k + 1 |-> IF i = 1 THEN pieces[i] ELSE h[i - 1] \o pieces[i]]
    BY <2>2, <2>5
  <2>7. TemplatesJoins(h, pieces, k + 1)
    BY <2>6 DEF TemplatesJoins
  <2>8. QED
    BY <2>7
<1>3. n \in S
  <2> HIDE DEF S
  <2>1. QED
    BY <1>1, <1>2, Climb
<1>4. QED
  BY <1>3

LEMMA TemplatesJoined ==
  ASSUME NEW T, NEW x \in Seq(T), NEW p \in Seq(T)
  PROVE  /\ x \o p \in Seq(T)
         /\ Templates!ToSet(x) \subseteq Templates!ToSet(x \o p)
         /\ Templates!ToSet(p) \subseteq Templates!ToSet(x \o p)
<1>1. Len(x \o p) = Len(x) + Len(p) /\ Len(x) \in Nat /\ Len(p) \in Nat
  OBVIOUS
<1>2. DOMAIN x = 1 .. Len(x) /\ DOMAIN p = 1 .. Len(p) /\ DOMAIN (x \o p) = 1 .. Len(x) + Len(p)
  BY <1>1
<1>3. \A i \in 1 .. Len(x) : i \in DOMAIN (x \o p) /\ (x \o p)[i] = x[i]
  BY <1>1
<1>4. \A i \in 1 .. Len(p) : Len(x) + i \in DOMAIN (x \o p) /\ (x \o p)[Len(x) + i] = p[i]
  BY <1>1
<1>5. PICK y : y = x \o p
  OBVIOUS
<1>6. \A i \in DOMAIN x : x[i] \in Templates!ToSet(y)
  BY <1>2, <1>3, <1>5 DEF Templates!ToSet
<1>7. \A i \in DOMAIN p : p[i] \in Templates!ToSet(y)
  BY <1>2, <1>4, <1>5 DEF Templates!ToSet
<1>8. Templates!ToSet(x) \subseteq Templates!ToSet(y) /\ Templates!ToSet(p) \subseteq Templates!ToSet(y)
  <2>1. PICK whole : whole = Templates!ToSet(y)
    OBVIOUS
  <2>2. QED
    BY <1>6, <1>7, <2>1 DEF Templates!ToSet
<1>9. QED
  BY <1>5, <1>8

TemplatesHold(x, pieces, k) ==
  \A i \in 1 .. k : Templates!ToSet(pieces[i]) \subseteq Templates!ToSet(x)

\* The pieces of a text one after the other: the words of each.
LEMMA TemplatesFlatten ==
  ASSUME NEW T, NEW pieces \in Seq(Seq(T))
  PROVE  /\ Templates!FlattenSeq(pieces) \in Seq(T)
         /\ \A i \in DOMAIN pieces :
              Templates!ToSet(pieces[i]) \subseteq Templates!ToSet(Templates!FlattenSeq(pieces))
<1>1. PICK n \in Nat : n = Len(pieces) /\ DOMAIN pieces = 1 .. n
  OBVIOUS
<1>2. \A i \in 1 .. n : pieces[i] \in Seq(T)
  BY <1>1
<1>3. CASE n = 0
  <2>1. pieces = <<>> /\ Templates!FlattenSeq(pieces) = pieces
    BY <1>1, <1>3 DEF Templates!FlattenSeq
  <2>2. <<>> \in Seq(T) /\ DOMAIN pieces = {}
    BY <1>1, <1>3
  <2>3. QED
    BY <2>1, <2>2
<1>4. CASE n # 0
  <2>1. PICK f : f = CHOOSE g : TemplatesJoins(g, pieces, n)
    OBVIOUS
  <2>2. f = [i \in 1 .. n |-> IF i = 1 THEN pieces[i] ELSE f[i - 1] \o pieces[i]]
    BY <2>1, TemplatesJoinsExist DEF TemplatesJoins
  <2>3. Templates!FlattenSeq(pieces) = f[n]
    BY <1>1, <1>4, <2>1 DEF Templates!FlattenSeq, TemplatesJoins
  <2> DEFINE S == {k \in 0 .. n : k # 0 => f[k] \in Seq(T) /\ TemplatesHold(f[k], pieces, k)}
  <2>4. 0 \in S
    OBVIOUS
  <2>5. ASSUME NEW k \in 0 .. n - 1, k \in S PROVE k + 1 \in S
    <3>1. CASE k = 0
      <4>1. f[1] = pieces[1]
        BY <1>4, <2>2
      <4>2. QED
        BY <1>2, <1>4, <3>1, <4>1 DEF TemplatesHold
    <3>2. CASE k # 0
      <4>1. f[k + 1] = f[k] \o pieces[k + 1]
        <5>1. k + 1 \in 1 .. n /\ k + 1 # 1 /\ (k + 1) - 1 = k
          BY <3>2
        <5>2. QED
          BY <2>2, <5>1
      <4>2. PICK x \in Seq(T) : x = f[k] /\ TemplatesHold(x, pieces, k)
        BY <2>5, <3>2
      <4>3. PICK p \in Seq(T) : p = pieces[k + 1]
        BY <1>2
      <4>4. PICK y \in Seq(T) : y = x \o p
        BY TemplatesJoined
      <4>5. f[k + 1] = y /\ TemplatesHold(y, pieces, k + 1)
        BY <4>1, <4>2, <4>3, <4>4, TemplatesJoined DEF TemplatesHold
      <4>6. k + 1 \in 0 .. n
        OBVIOUS
      <4>7. f[k + 1] \in Seq(T) /\ TemplatesHold(f[k + 1], pieces, k + 1)
        BY <4>5
      <4>8. QED
        BY <4>6, <4>7
    <3>3. QED
      BY <3>1, <3>2
  <2>6. n \in S
    <3> HIDE DEF S
    <3>1. QED
      BY <2>4, <2>5, Climb
  <2>7. QED
    BY <1>1, <1>4, <2>3, <2>6 DEF TemplatesHold
<1>5. QED
  BY <1>3, <1>4

LEMMA TemplatesRendered ==
  ASSUME Templates!TemplatesAssumption, NEW with \in Facts, NEW text, Templates!IsText(text),
         Templates!Renders(text, with)
  PROVE  /\ Templates!IsText(Templates!Render(text, with))
         /\ TemplatesFilled(Templates!Render(text, with), text, with)
<1> DEFINE T == Templates!ToSet(text) \cup UNION {Templates!ToSet(with[v]) : v \in AllowedFacts}
<1>1. PICK pieces :
        pieces = [i \in DOMAIN text |-> IF text[i][1] = "var" THEN with[text[i][2]] ELSE <<text[i]>>]
  OBVIOUS
<1>2. \A i \in DOMAIN text : text[i][1] = "var" => text[i][2] \in Templates!UsedVariables(text)
  BY DEF Templates!UsedVariables, Templates!ToSet
<1>3. \A v \in Templates!UsedVariables(text) : v \in AllowedFacts /\ with[v] # <<>>
  BY DEF Templates!Renders
<1>4. \A v \in AllowedFacts : with[v] \in Seq(T)
  <2>1. TAKE v \in AllowedFacts
  <2>2. with[v] \in Seq(Templates!ToSet(with[v])) /\ Templates!ToSet(with[v]) \subseteq T
    BY DEF Templates!TemplatesAssumption, Templates!IsText
  <2>3. QED
    BY <2>2, TemplatesWider
<1>5. Len(text) \in Nat /\ DOMAIN text = 1 .. Len(text) /\ \A i \in DOMAIN text : text[i] \in T
  BY DEF Templates!IsText
<1>6. pieces \in Seq(Seq(T))
  <2> HIDE DEF T
  <2>1. \A i \in DOMAIN text : pieces[i] \in Seq(T)
    BY <1>1, <1>2, <1>3, <1>4, <1>5
  <2>2. QED
    BY <1>1, <1>5, <2>1
<1>7. PICK body : body = Templates!Render(text, with)
  OBVIOUS
<1>8. body = Templates!FlattenSeq(pieces)
  BY <1>1, <1>7 DEF Templates!Render
<1>9. body \in Seq(T) /\ \A i \in DOMAIN pieces : Templates!ToSet(pieces[i]) \subseteq Templates!ToSet(body)
  <2> HIDE DEF T
  <2>1. QED
    BY <1>6, <1>8, TemplatesFlatten
<1>10. ASSUME NEW v \in Templates!UsedVariables(text)
       PROVE  Templates!ToSet(with[v]) \subseteq Templates!ToSet(body)
  <2>1. PICK i \in DOMAIN text : text[i][1] = "var" /\ text[i][2] = v
    BY DEF Templates!UsedVariables, Templates!ToSet
  <2>2. pieces[i] = with[v] /\ i \in DOMAIN pieces
    BY <1>1, <2>1
  <2>3. QED
    BY <1>9, <2>2
<1>11. Templates!IsText(body)
  <2> HIDE DEF T
  <2>1. QED
    BY <1>9, TemplatesTexts
<1>12. QED
  BY <1>3, <1>7, <1>10, <1>11 DEF TemplatesFilled

LEMMA TemplatesWordsOf ==
  ASSUME NEW T, NEW x \in Seq(T), NEW p \in Seq(T)
  PROVE  /\ Templates!ToSet(x \o p) = Templates!ToSet(x) \cup Templates!ToSet(p)
         /\ p \in Templates!SubSeqs(x \o p)
<1>1. PICK y : y = x \o p
  OBVIOUS
<1>2. PICK n \in Nat, k \in Nat : n = Len(x) /\ k = Len(p) /\ DOMAIN x = 1 .. n /\ DOMAIN p = 1 .. k
  OBVIOUS
<1>3. /\ y \in Seq(T) /\ Len(y) = n + k /\ DOMAIN y = 1 .. n + k
      /\ \A i \in 1 .. n : y[i] = x[i]
      /\ \A i \in 1 .. k : y[n + i] = p[i]
  BY <1>1, <1>2
<1>4. \A i \in 1 .. n + k : i \in 1 .. n \/ \E o \in 1 .. k : i = n + o
  <2>1. TAKE i \in 1 .. n + k
  <2>2. CASE i > n
    <3>1. i - n \in 1 .. k /\ i = n + (i - n)
      BY <2>2
    <3>2. QED
      BY <3>1
  <2>3. QED
    BY <2>2
<1>5. \A i \in 1 .. n + k : y[i] \in Templates!ToSet(x) \cup Templates!ToSet(p)
  <2>1. TAKE i \in 1 .. n + k
  <2>2. CASE i \in 1 .. n
    <3>1. y[i] \in Templates!ToSet(x)
      BY <1>2, <1>3, <2>2 DEF Templates!ToSet
    <3>2. QED
      BY <3>1
  <2>3. CASE \E o \in 1 .. k : i = n + o
    <3>1. PICK o \in 1 .. k : i = n + o
      BY <2>3
    <3>2. y[i] = p[o]
      BY <1>3, <3>1
    <3>3. p[o] \in Templates!ToSet(p)
      BY <1>2 DEF Templates!ToSet
    <3>4. QED
      BY <3>2, <3>3
  <2>4. QED
    BY <1>4, <2>2, <2>3
<1>6. Templates!ToSet(y) \subseteq Templates!ToSet(x) \cup Templates!ToSet(p)
  BY <1>3, <1>5 DEF Templates!ToSet
<1>7. Templates!ToSet(x) \cup Templates!ToSet(p) \subseteq Templates!ToSet(y)
  BY <1>1, TemplatesJoined
<1>8. p = SubSeq(y, n + 1, n + k)
  <2>1. PICK z : z = SubSeq(y, n + 1, n + k)
    OBVIOUS
  <2>2. \A i \in n + 1 .. n + k : y[i] \in T
    BY <1>3
  <2>3. n + 1 \in Int /\ n + k \in Int
    OBVIOUS
  <2>4. /\ z \in Seq(T) /\ Len(z) = IF n + 1 <= n + k THEN (n + k) - (n + 1) + 1 ELSE 0
        /\ \A i \in 1 .. (n + k) - (n + 1) + 1 : z[i] = y[(n + 1) + i - 1]
    BY <2>1, <2>2, <2>3, SubSeqProperties
  <2>5. Len(z) = k /\ (n + k) - (n + 1) + 1 = k
    BY <2>4
  <2>6. \A i \in 1 .. k : z[i] = p[i]
    <3>1. TAKE i \in 1 .. k
    <3>2. (n + 1) + i - 1 = n + i
      OBVIOUS
    <3>3. QED
      BY <1>3, <2>4, <2>5, <3>2
  <2>7. z = p
    <3>1. z = [i \in 1 .. Len(z) |-> z[i]]
      BY <2>4
    <3>2. p = [i \in 1 .. k |-> p[i]]
      BY <1>2
    <3>3. QED
      BY <2>5, <2>6, <3>1, <3>2
  <2>8. QED
    BY <2>1, <2>7
<1>9. p \in Templates!SubSeqs(y)
  <2>1. n \in 0 .. Len(y) /\ n + k \in 0 .. Len(y)
    BY <1>3
  <2>2. QED
    BY <1>8, <2>1 DEF Templates!SubSeqs
<1>10. QED
  BY <1>1, <1>6, <1>7, <1>9

LEMMA TemplatesEnded ==
  ASSUME Templates!TemplatesAssumption, NEW text, Templates!IsText(text),
         Templates!UsedVariables(text) = {}, NEW l \in Lines
  PROVE  LET body == Templates!WithLine(text, l)
         IN  /\ Templates!UsedVariables(body) \subseteq Templates!UsedVariables(Templates!Said(l))
             /\ Templates!Said(l) \in Templates!SubSeqs(body)
             /\ Templates!ToSet(text) \subseteq Templates!ToSet(body)
<1>1. PICK said : said = Templates!Said(l)
  OBVIOUS
<1>2. Templates!IsText(said)
  <2>1. <<>> \in Seq({})
    OBVIOUS
  <2>2. Templates!IsText(<<>>)
    BY <2>1, TemplatesTexts
  <2>3. QED
    BY <1>1, <2>2 DEF Templates!Said, Templates!TemplatesAssumption
<1>3. CASE said # <<>> /\ said \in Templates!SubSeqs(text)
  BY <1>1, <1>3 DEF Templates!WithLine
<1>4. CASE ~ (said # <<>> /\ said \in Templates!SubSeqs(text))
  <2>1. PICK mark : mark = <<"text", "--">>
    OBVIOUS
  <2>2. PICK T : T = Templates!ToSet(text) \cup {mark} \cup Templates!ToSet(said)
    OBVIOUS
  <2>3. text \in Seq(T) /\ said \in Seq(T) /\ <<mark>> \in Seq(T)
    <3>1. text \in Seq(Templates!ToSet(text)) /\ said \in Seq(Templates!ToSet(said))
      BY <1>2 DEF Templates!IsText
    <3>2. QED
      BY <2>2, <3>1, TemplatesWider
  <2>4. PICK end \in Seq(T) : end = <<mark>> \o said
    BY <2>3, TemplatesJoined
  <2>5. PICK body : body = text \o end
    OBVIOUS
  <2>6. body = Templates!WithLine(text, l)
    BY <1>1, <1>4, <2>1, <2>4, <2>5 DEF Templates!WithLine, Templates!Rule
  <2>7. /\ Templates!ToSet(body) = Templates!ToSet(text) \cup Templates!ToSet(end)
        /\ Templates!ToSet(end) = Templates!ToSet(<<mark>>) \cup Templates!ToSet(said)
    <3>1. Templates!ToSet(text \o end) = Templates!ToSet(text) \cup Templates!ToSet(end)
      BY <2>3, TemplatesWordsOf
    <3>2. PICK start \in Seq(T) : start = <<mark>>
      BY <2>3
    <3>3. Templates!ToSet(start \o said) = Templates!ToSet(start) \cup Templates!ToSet(said)
      BY <2>3, TemplatesWordsOf
    <3>4. QED
      BY <2>4, <2>5, <3>1, <3>2, <3>3
  <2>8. Templates!ToSet(<<mark>>) = {mark} /\ mark[1] # "var"
    BY <2>1 DEF Templates!ToSet
  <2>9. Templates!UsedVariables(body) \subseteq Templates!UsedVariables(said)
    BY <2>7, <2>8 DEF Templates!UsedVariables
  <2>10. said \in Templates!SubSeqs(body)
    <3>1. PICK head \in Seq(T) : head = text \o <<mark>>
      BY <2>3, TemplatesJoined
    <3>2. body = head \o said
      BY <2>3, <2>4, <2>5, <3>1
    <3>3. QED
      BY <2>3, <3>1, <3>2, TemplatesWordsOf
  <2>11. QED
    BY <1>1, <2>6, <2>7, <2>9, <2>10
<1>5. QED
  BY <1>3, <1>4

LEMMA TemplatesInitIInv ==
  ASSUME Templates!TemplatesAssumption, Templates!Init
  PROVE  TemplatesIInv
<1>1. <<>> \in Seq({})
  OBVIOUS
<1>2. Templates!IsText(<<>>)
  BY <1>1, TemplatesTexts
<1>3. QED
  BY <1>2 DEF Templates!Init, Templates!NoText, Templates!NoMessage, Templates!NoMail, TemplatesIInv,
    TemplatesMessageOK, Templates!MailedIsPersonal

LEMMA TemplatesNextIInv ==
  ASSUME Templates!TemplatesAssumption, TemplatesIInv, Templates!Next \/ UNCHANGED Templates!vars
  PROVE  TemplatesIInv'
<1>1. Templates!IsText(<<>>)
  <2>1. <<>> \in Seq({})
    OBVIOUS
  <2>2. QED
    BY <2>1, TemplatesTexts
<1>2. \A text \in Texts \cup {template} : Templates!IsText(text)
  BY DEF TemplatesIInv, Templates!TemplatesAssumption
<1>3. CASE UNCHANGED <<message, mailed>>
  <2>1. TemplatesMessageOK' /\ Templates!MailedIsPersonal'
    BY <1>3 DEF TemplatesIInv, TemplatesMessageOK, Templates!MailedIsPersonal
  <2>2. Templates!IsText(template)' /\ Templates!IsText(draft)' /\ facts' \in Facts /\ line' \in Lines
    <3>1. CASE Templates!DeleteTemplate \/ Templates!Edit \/ UNCHANGED Templates!vars
      BY <1>1, <3>1 DEF TemplatesIInv, Templates!DeleteTemplate, Templates!NoText, Templates!Edit,
        Templates!vars
    <3>2. CASE \E text \in Texts \cup {template} : Templates!SaveTemplate(text) \/ Templates!CreateCampaign(text)
      BY <1>2, <3>2 DEF TemplatesIInv, Templates!SaveTemplate, Templates!CreateCampaign
    <3>3. CASE Templates!Launch \/ Templates!SendMessage
      BY <3>3 DEF TemplatesIInv, Templates!Launch, Templates!SendMessage
    <3>4. CASE \E with \in {Templates!Sample, facts} : Templates!TestSend(with)
      BY <3>4 DEF TemplatesIInv, Templates!TestSend
    <3>5. QED
      BY <3>1, <3>2, <3>3, <3>4 DEF Templates!Next
  <2>3. QED
    BY <2>1, <2>2 DEF TemplatesIInv
<1>4. CASE Templates!Launch
  <2>1. UNCHANGED <<template, draft, facts, line, mailed>>
    BY <1>4 DEF Templates!Launch
  <2>2. TemplatesMessageOK'
    <3>1. CASE Templates!Renders(draft, facts)
      <4>1. PICK body : body = Templates!Render(draft, facts)
        OBVIOUS
      <4>2. Templates!IsText(body) /\ TemplatesFilled(body, draft, facts)
        BY <3>1, <4>1, TemplatesRendered DEF TemplatesIInv
      <4>3. message' = [status |-> "QUEUED", body |-> body, of |-> draft, with |-> facts]
        BY <1>4, <3>1, <4>1 DEF Templates!Launch
      <4>4. QED
        BY <4>2, <4>3 DEF TemplatesMessageOK
    <3>2. CASE ~ Templates!Renders(draft, facts)
      BY <1>4, <3>2 DEF Templates!Launch, Templates!NoMessage, TemplatesMessageOK
    <3>3. QED
      BY <3>1, <3>2
  <2>3. QED
    BY <2>1, <2>2 DEF TemplatesIInv, Templates!MailedIsPersonal
<1>5. CASE Templates!SendMessage
  <2>1. PICK body, of, with :
          /\ message = [status |-> "QUEUED", body |-> body, of |-> of, with |-> with]
          /\ Templates!IsText(body) /\ TemplatesFilled(body, of, with)
    BY <1>5 DEF Templates!SendMessage, TemplatesIInv, TemplatesMessageOK
  <2>2. /\ Templates!UsedVariables(body) = {} /\ UNCHANGED <<template, draft, facts, line>>
        /\ mailed' = [body |-> Templates!WithLine(body, line), of |-> of, with |-> with, line |-> line, test |-> FALSE]
        /\ message' = [status |-> "SENT", body |-> body, of |-> of, with |-> with]
    BY <1>5, <2>1 DEF Templates!SendMessage, Templates!Sendable
  <2>3. PICK whole : whole = Templates!WithLine(body, line)
    OBVIOUS
  <2>4. /\ Templates!UsedVariables(whole) \subseteq Templates!UsedVariables(Templates!Said(line))
        /\ Templates!Said(line) \in Templates!SubSeqs(whole)
        /\ Templates!ToSet(body) \subseteq Templates!ToSet(whole)
    BY <2>1, <2>2, <2>3, TemplatesEnded DEF TemplatesIInv
  <2>5. TemplatesFilled(whole, of, with)
    BY <2>1, <2>4 DEF TemplatesFilled
  <2>6. Templates!MailedIsPersonal'
    <3>1. /\ mailed'.body = whole /\ mailed'.of = of /\ mailed'.with = with /\ mailed'.line = line
      BY <2>2, <2>3
    <3>2. line' = line
      BY <2>2
    <3>3. QED
      BY <2>4, <2>5, <3>1, <3>2 DEF Templates!MailedIsPersonal, TemplatesFilled
  <2>7. TemplatesMessageOK'
    BY <2>2 DEF TemplatesMessageOK
  <2>8. QED
    BY <2>2, <2>6, <2>7 DEF TemplatesIInv
<1>6. CASE \E with \in {Templates!Sample, facts} : Templates!TestSend(with)
  <2>1. UNCHANGED <<template, draft, facts, line, message>> /\ mailed'.test = TRUE
    BY <1>6 DEF Templates!TestSend
  <2>2. QED
    BY <2>1 DEF TemplatesIInv, TemplatesMessageOK, Templates!MailedIsPersonal
<1>7. QED
  BY <1>3, <1>4, <1>5, <1>6 DEF Templates!Next, Templates!SaveTemplate, Templates!CreateCampaign,
    Templates!DeleteTemplate, Templates!Edit, Templates!vars

-----------------------------------------------------------------------------
(* Polls of the mailboxes                                                    *)

\* The polls' variables in the pool.
credential == s1
gmail == s2
sent == s3
box == s4
answered == s5
msgs == s6
hits == s7
poll == s8
replies == s9
overtaken == s10
faults == s11

USE DEF credential, gmail, sent, box, answered, msgs, hits, poll, replies, overtaken, faults

MailboxStatuses == Mailbox!Negative \cup {"QUEUED", "SENT", "SOFT_BOUNCE", "REPLIED", "DELETED"}

MailboxPlaces == {"real", "demo"}

MailboxNotice ==
  [of : Msgs, shape : Shapes \cup {Mailbox!DemoShape},
   id : Mailbox!Servers \X MailboxPlaces \X (Nat \ {0})]

MailboxRowsOK ==
  /\ msgs \in [Msgs -> [status : MailboxStatuses, replied : BOOLEAN]]
  /\ sent \in Seq(Msgs)
  /\ \A m \in DOMAIN replies : replies[m] \notin Mailbox!Negative

\* A notice has its place for an id and is in the mailbox its message was sent from.
MailboxBoxOK ==
  /\ box \in [Mailbox!Servers -> [MailboxPlaces -> Seq(MailboxNotice)]]
  /\ \A a \in Mailbox!Servers : \A w \in MailboxPlaces : \A i \in DOMAIN box[a][w] :
       box[a][w][i].id = <<a, w, i>> /\ Account[box[a][w][i].of] = a

MailboxPollOK(p) ==
  /\ p = [on |-> p.on, todo |-> p.todo, status |-> p.status, hits |-> p.hits]
  /\ p.todo \in Seq(Mailbox!Servers)
  /\ \A m \in DOMAIN p.status : p.status[m] \in MailboxStatuses

\* A hit is a notice's, against a message to the recipient of the one it is about, and
\* against that one if the notice quotes it and it is still there.
MailboxHitRight(h) ==
  \E a \in Mailbox!Servers : \E w \in MailboxPlaces : \E k \in DOMAIN box[a][w] : \E m \in Msgs :
    \E outcome :
      /\ h = <<<<a, w, k>>, box[a][w][k].of, m, outcome>>
      /\ To[m] = To[box[a][w][k].of]
      /\ box[a][w][k].shape.quotes => m = box[a][w][k].of \/ ~ Mailbox!There(box[a][w][k].of)

MailboxHitsRight(hs) == \A h \in DOMAIN hs : MailboxHitRight(h)

MailboxAgainst(h, m) == h[3] = m /\ h[4] \in Mailbox!Negative

\* A permanent bounce is the only one of its message, counted once, and shown.
MailboxStands(hs, m, outcome) ==
  \A h \in DOMAIN hs : MailboxAgainst(h, m) =>
    /\ outcome \in Mailbox!Negative /\ hs[h] = 1
    /\ \A g \in DOMAIN hs : MailboxAgainst(g, m) => g = h

\* The status of a message in the poll's transaction.
MailboxNow(p, m) == IF m \in DOMAIN p.status THEN p.status[m] ELSE msgs[m].status

MailboxPollRight(p) ==
  /\ MailboxPollOK(p) /\ MailboxHitsRight(p.hits)
  /\ \A m \in DOMAIN p.status : m \in Msgs /\ Mailbox!There(m)
  /\ \A m \in Msgs \ overtaken : MailboxStands(p.hits, m, MailboxNow(p, m))

MailboxHitsStand == \A m \in Msgs \ overtaken : MailboxStands(hits, m, msgs[m].status)

MailboxIInv ==
  /\ MailboxRowsOK /\ MailboxBoxOK /\ MailboxPollRight(poll)
  /\ MailboxHitsRight(hits) /\ MailboxHitsStand

LEMMA MailboxFree ==
  ASSUME NEW hs, NEW m, NEW outcome, MailboxStands(hs, m, outcome), outcome \notin Mailbox!Negative
  PROVE  /\ \A h \in DOMAIN hs : ~ MailboxAgainst(h, m)
         /\ \A other : MailboxStands(hs, m, other)
BY DEF MailboxStands

LEMMA MailboxNothing ==
  /\ DOMAIN Mailbox!Nothing = {} /\ MailboxHitsRight(Mailbox!Nothing)
  /\ \A m, outcome : MailboxStands(Mailbox!Nothing, m, outcome)
<1>1. DOMAIN Mailbox!Nothing = {}
  BY DEF Mailbox!Nothing
<1>2. QED
  BY <1>1 DEF MailboxHitsRight, MailboxStands

LEMMA MailboxIdle ==
  /\ MailboxPollRight(Mailbox!Idle) /\ Mailbox!Idle.status = Mailbox!Nothing
  /\ Mailbox!Idle.hits = Mailbox!Nothing
<1>1. /\ Mailbox!Idle.status = Mailbox!Nothing /\ Mailbox!Idle.hits = Mailbox!Nothing
      /\ MailboxPollOK(Mailbox!Idle)
  BY MailboxNothing DEF Mailbox!Idle, MailboxPollOK
<1>2. QED
  BY <1>1, MailboxNothing DEF MailboxPollRight

LEMMA MailboxInitIInv ==
  ASSUME Mailbox!MailboxAssumption, Mailbox!Init
  PROVE  MailboxIInv
<1>1. MailboxRowsOK
  BY MailboxNothing DEF Mailbox!Init, MailboxRowsOK, MailboxStatuses
<1>2. MailboxBoxOK
  <2>1. \A a \in Mailbox!Servers : box[a] = [real |-> <<>>, demo |-> <<>>]
    BY DEF Mailbox!Init
  <2>2. [real |-> <<>>, demo |-> <<>>] = [w \in {"real", "demo"} |-> <<>>]
    OBVIOUS
  <2>3. box = [a \in Mailbox!Servers |-> [w \in MailboxPlaces |-> <<>>]]
    BY <2>2 DEF Mailbox!Init, MailboxPlaces
  <2>4. <<>> \in Seq(MailboxNotice) /\ DOMAIN <<>> = {}
    OBVIOUS
  <2>5. QED
    BY <2>3, <2>4 DEF MailboxBoxOK
<1>3. QED
  BY <1>1, <1>2, MailboxNothing, MailboxIdle DEF Mailbox!Init, MailboxIInv, MailboxHitsStand

-----------------------------------------------------------------------------
(* A notice finds its message                                                *)

LEMMA MailboxGreatest ==
  ASSUME NEW n \in Nat, NEW S \in SUBSET (1 .. n), S # {}
  PROVE  \E x \in S : \A y \in S : y <= x
<1>1. \A x \in S : x \in Nat /\ x <= n
  OBVIOUS
<1>2. PICK T : T = {n - x : x \in S}
  OBVIOUS
<1>3. T \in SUBSET Nat /\ T # {}
  <2>1. \A x \in S : n - x \in Nat
    BY <1>1
  <2>2. QED
    BY <1>2, <2>1
<1>4. PICK z \in T : \A y \in T : z <= y
  BY <1>3, Smallest
<1>5. PICK x \in S : z = n - x
  BY <1>2
<1>6. \A y \in S : n - x <= n - y
  BY <1>2, <1>4, <1>5
<1>7. QED
  BY <1>1, <1>6

LEMMA MailboxNewest ==
  ASSUME sent \in Seq(Msgs), NEW a, NEW rcpt, NEW m \in Mailbox!Newest(a, rcpt)
  PROVE  m \in Msgs /\ To[m] = rcpt /\ Mailbox!There(m)
<1>1. PICK n \in Nat : n = Len(sent) /\ DOMAIN sent = 1 .. n
  OBVIOUS
<1>2. PICK mails : mails = {i \in DOMAIN sent : /\ Account[sent[i]] = a /\ To[sent[i]] = rcpt
                                                /\ Mailbox!There(sent[i])}
  OBVIOUS
<1>3. mails # {} /\ m = sent[Mailbox!Max(mails)]
  BY <1>2 DEF Mailbox!Newest
<1>4. \E x \in mails : \A y \in mails : x >= y
  <2>1. mails \in SUBSET (1 .. n)
    BY <1>1, <1>2
  <2>2. PICK x \in mails : \A y \in mails : y <= x
    BY <1>3, <2>1, MailboxGreatest
  <2>3. QED
    BY <2>1, <2>2
<1>5. Mailbox!Max(mails) \in mails
  BY <1>4 DEF Mailbox!Max
<1>6. QED
  BY <1>2, <1>3, <1>5

LEMMA MailboxMatch ==
  ASSUME Mailbox!MailboxAssumption, sent \in Seq(Msgs), NEW n \in MailboxNotice,
         NEW m \in Mailbox!Match(Account[n.of], Mailbox!Parse(n))
  PROVE  /\ m \in Msgs /\ To[m] = To[n.of] /\ Mailbox!There(m)
         /\ n.shape.quotes => m = n.of \/ ~ Mailbox!There(n.of)
<1>1. n.of \in Msgs
  BY DEF MailboxNotice
<1>2. PICK info : info = Mailbox!Parse(n)
  OBVIOUS
<1>3. \E part : info = Mailbox!Info(n, part)
  BY <1>2 DEF Mailbox!Parse
<1>4. /\ info.of = n.of /\ info.quotes = n.shape.quotes
      /\ info.rcpt = To[n.of] \/ info.rcpt = "none"
  BY <1>3 DEF Mailbox!Info, Mailbox!None
<1>5. CASE n.shape.quotes /\ Mailbox!There(n.of)
  BY <1>1, <1>2, <1>4, <1>5 DEF Mailbox!Match
<1>6. CASE ~ (n.shape.quotes /\ Mailbox!There(n.of))
  <2>1. m \in Mailbox!Newest(Account[n.of], info.rcpt)
    BY <1>2, <1>4, <1>6 DEF Mailbox!Match
  <2>2. m \in Msgs /\ To[m] = info.rcpt /\ Mailbox!There(m)
    BY <2>1, MailboxNewest
  <2>3. To[m] # "none"
    BY <2>2 DEF Mailbox!MailboxAssumption
  <2>4. QED
    BY <1>4, <1>6, <2>2, <2>3
<1>7. QED
  BY <1>5, <1>6

-----------------------------------------------------------------------------
(* One notice, and all of an account                                         *)

LEMMA MailboxBounceStatus ==
  ASSUME NEW kind
  PROVE  Mailbox!BounceStatus(kind) \in MailboxStatuses
BY DEF Mailbox!BounceStatus, MailboxStatuses, Mailbox!Negative

LEMMA MailboxRecord ==
  ASSUME Mailbox!MailboxAssumption, MailboxRowsOK, MailboxBoxOK, NEW p, MailboxPollRight(p),
         NEW a \in Mailbox!Servers, NEW w \in MailboxPlaces, NEW k \in DOMAIN box[a][w]
  PROVE  LET q == Mailbox!Record(a, p, box[a][w][k]) IN MailboxPollRight(q) /\ q.todo = p.todo
<1>1. PICK n : n = box[a][w][k]
  OBVIOUS
<1>2. n \in MailboxNotice /\ n.id = <<a, w, k>> /\ Account[n.of] = a
  BY <1>1 DEF MailboxBoxOK
<1>3. PICK found : found = Mailbox!Match(a, Mailbox!Parse(n))
  OBVIOUS
<1>4. PICK m : m = CHOOSE x \in found : TRUE
  OBVIOUS
<1>5. PICK now : now = MailboxNow(p, m)
  OBVIOUS
<1>6. PICK outcome : outcome = Mailbox!BounceStatus(Mailbox!Parse(n).kind)
  OBVIOUS
<1>7. PICK hit : hit = <<n.id, n.of, m, outcome>>
  OBVIOUS
<1>8. PICK q : q = Mailbox!Record(a, p, n)
  OBVIOUS
<1>9. CASE found = {} \/ now \in Mailbox!Negative
  <2>1. q = p
    BY <1>3, <1>4, <1>5, <1>8, <1>9 DEF Mailbox!Record, Mailbox!Recorded, MailboxNow
  <2>2. QED
    BY <1>1, <1>8, <2>1
<1>10. CASE found # {} /\ now \notin Mailbox!Negative
  <2>1. /\ m \in Msgs /\ To[m] = To[n.of] /\ Mailbox!There(m)
        /\ n.shape.quotes => m = n.of \/ ~ Mailbox!There(n.of)
    BY <1>2, <1>3, <1>4, <1>10, MailboxMatch DEF MailboxRowsOK
  <2>2. PICK on, todo, st, hs : p = [on |-> on, todo |-> todo, status |-> st, hits |-> hs]
    BY DEF MailboxPollRight, MailboxPollOK
  <2>3. PICK st2 : st2 = Mailbox!With(st, m, outcome)
    OBVIOUS
  <2>4. PICK hs2 : hs2 = Mailbox!With(hs, hit, IF hit \in DOMAIN hs THEN 2 ELSE 1)
    OBVIOUS
  <2>5. q = [on |-> on, todo |-> todo, status |-> st2, hits |-> hs2]
    <3>1. q = [p EXCEPT !.status = Mailbox!With(p.status, m, outcome),
                        !.hits = Mailbox!With(p.hits, hit, IF hit \in DOMAIN p.hits THEN 2 ELSE 1)]
      BY <1>3, <1>4, <1>5, <1>6, <1>7, <1>8, <1>10 DEF Mailbox!Record, Mailbox!Recorded, MailboxNow
    <3>2. QED
      BY <2>2, <2>3, <2>4, <3>1
  <2>6. /\ DOMAIN st2 = DOMAIN st \cup {m}
        /\ \A y \in DOMAIN st2 : st2[y] = IF y = m THEN outcome ELSE st[y]
    <3>1. st2 = [y \in DOMAIN st \cup {m} |-> IF y = m THEN outcome ELSE st[y]]
      BY <2>3 DEF Mailbox!With
    <3>2. QED
      BY <3>1
  <2>7. /\ DOMAIN hs2 = DOMAIN hs \cup {hit} /\ (hit \notin DOMAIN hs => hs2[hit] = 1)
        /\ \A h \in DOMAIN hs : h # hit => hs2[h] = hs[h]
    <3>1. PICK times : times = IF hit \in DOMAIN hs THEN 2 ELSE 1
      OBVIOUS
    <3>2. hs2 = [y \in DOMAIN hs \cup {hit} |-> IF y = hit THEN times ELSE hs[y]]
      BY <2>4, <3>1 DEF Mailbox!With
    <3>3. QED
      BY <3>1, <3>2
  <2>8. MailboxPollOK(q)
    <3>1. outcome \in MailboxStatuses
      BY <1>6, MailboxBounceStatus
    <3>2. todo \in Seq(Mailbox!Servers) /\ \A y \in DOMAIN st : st[y] \in MailboxStatuses
      BY <2>2 DEF MailboxPollRight, MailboxPollOK
    <3>3. \A y \in DOMAIN st2 : st2[y] \in MailboxStatuses
      BY <2>6, <3>1, <3>2
    <3>4. q.on = on /\ q.todo = todo /\ q.status = st2 /\ q.hits = hs2
      BY <2>5
    <3>5. QED
      BY <2>5, <3>2, <3>3, <3>4 DEF MailboxPollOK
  <2>9. MailboxHitsRight(hs2)
    <3>1. MailboxHitRight(hit)
      BY <1>1, <1>2, <1>7, <2>1 DEF MailboxHitRight
    <3>2. \A h \in DOMAIN hs : MailboxHitRight(h)
      BY <2>2 DEF MailboxPollRight, MailboxHitsRight
    <3>3. QED
      BY <2>7, <3>1, <3>2 DEF MailboxHitsRight
  <2>10. ASSUME NEW o \in Msgs \ overtaken PROVE MailboxStands(hs2, o, MailboxNow(q, o))
    <3>1. MailboxStands(hs, o, MailboxNow(p, o))
      BY <2>2 DEF MailboxPollRight
    <3>2. hit[3] = m /\ hit[4] = outcome
      BY <1>7
    <3>3. CASE o = m
      <4>1. \A h \in DOMAIN hs : ~ MailboxAgainst(h, m)
        BY <1>5, <1>10, <3>1, <3>3, MailboxFree
      <4>2. MailboxNow(q, m) = outcome
        BY <2>5, <2>6 DEF MailboxNow
      <4>3. \A h \in DOMAIN hs2 : MailboxAgainst(h, m) => h = hit /\ hs2[h] = 1 /\ outcome \in Mailbox!Negative
        <5>1. TAKE h \in DOMAIN hs2
        <5>2. HAVE MailboxAgainst(h, m)
        <5>3. h = hit /\ hit \notin DOMAIN hs
          BY <2>7, <4>1, <5>2
        <5>4. QED
          BY <2>7, <3>2, <5>2, <5>3 DEF MailboxAgainst
      <4>4. QED
        BY <3>3, <4>2, <4>3 DEF MailboxStands
    <3>4. CASE o # m
      <4>1. ~ MailboxAgainst(hit, o)
        BY <3>2, <3>4 DEF MailboxAgainst
      <4>2. MailboxNow(q, o) = MailboxNow(p, o)
        BY <2>2, <2>5, <2>6, <3>4 DEF MailboxNow
      <4>3. \A h \in DOMAIN hs2 : MailboxAgainst(h, o) => h \in DOMAIN hs /\ hs2[h] = hs[h]
        BY <2>7, <4>1
      <4>4. QED
        BY <3>1, <4>2, <4>3 DEF MailboxStands
    <3>5. QED
      BY <3>3, <3>4
  <2>11. MailboxPollRight(q) /\ q.todo = p.todo
    <3>1. \A y \in DOMAIN st2 : y \in Msgs /\ Mailbox!There(y)
      BY <2>1, <2>2, <2>6 DEF MailboxPollRight
    <3>2. q.status = st2 /\ q.hits = hs2 /\ q.todo = todo /\ p.todo = todo
      BY <2>2, <2>5
    <3>3. QED
      BY <2>8, <2>9, <2>10, <3>1, <3>2 DEF MailboxPollRight
  <2>12. QED
    BY <1>1, <1>8, <2>11
<1>11. QED
  BY <1>9, <1>10

LEMMA MailboxListed ==
  ASSUME Mailbox!MailboxAssumption, MailboxBoxOK, NEW a \in Mailbox!Servers
  PROVE  LET listed == Mailbox!Listed(a)
         IN  /\ Len(listed) \in Nat
             /\ \A i \in 1 .. Len(listed) :
                  \E k \in DOMAIN box[a][Mailbox!Backend(a)] :
                    listed[i] = box[a][Mailbox!Backend(a)][k]
<1>1. Mailbox!Backend(a) \in MailboxPlaces
  BY DEF Mailbox!Backend, MailboxPlaces
<1>2. PICK all \in Seq(MailboxNotice) : all = box[a][Mailbox!Backend(a)]
  BY <1>1 DEF MailboxBoxOK
<1>3. PICK n \in Nat : n = Len(all) /\ DOMAIN all = 1 .. n
  OBVIOUS
<1>4. PICK by : by = IF Mailbox!Backend(a) = "real" THEN Mailbox!Reverse(all) ELSE all
  OBVIOUS
<1>5. by \in Seq(MailboxNotice) /\ Len(by) = n /\ \A i \in 1 .. n : \E k \in 1 .. n : by[i] = all[k]
  <2>1. CASE Mailbox!Backend(a) = "real"
    <3>1. by = [i \in 1 .. n |-> all[(n - i) + 1]]
      BY <1>3, <1>4, <2>1 DEF Mailbox!Reverse
    <3>2. \A i \in 1 .. n : (n - i) + 1 \in 1 .. n /\ by[i] = all[(n - i) + 1]
      BY <3>1
    <3>3. \A i \in 1 .. n : by[i] \in MailboxNotice
      BY <1>3, <3>2
    <3>4. QED
      BY <3>1, <3>2, <3>3
  <2>2. CASE Mailbox!Backend(a) # "real"
    BY <1>3, <1>4, <2>2
  <2>3. QED
    BY <2>1, <2>2
<1>6. PICK top : top = Mailbox!Min({PageSize, n})
  OBVIOUS
<1>7. top \in 0 .. n
  <2>1. PageSize \in Nat
    BY DEF Mailbox!MailboxAssumption
  <2>2. \E x \in {PageSize, n} : \A y \in {PageSize, n} : x =< y
    BY <2>1
  <2>3. top \in {PageSize, n} /\ \A y \in {PageSize, n} : top =< y
    BY <1>6, <2>2 DEF Mailbox!Min
  <2>4. QED
    BY <2>1, <2>3
<1>8. PICK listed : listed = Mailbox!Listed(a)
  OBVIOUS
<1>9. listed = SubSeq(by, 1, top)
  BY <1>2, <1>4, <1>5, <1>6, <1>8 DEF Mailbox!Listed
<1>10. Len(listed) = top /\ \A i \in 1 .. top : listed[i] = by[i]
  <2>1. \A i \in 1 .. top : by[i] \in MailboxNotice
    BY <1>5, <1>7
  <2>2. 1 \in Int /\ top \in Int
    BY <1>7
  <2>3. /\ Len(listed) = IF 1 <= top THEN top - 1 + 1 ELSE 0
        /\ \A i \in 1 .. top - 1 + 1 : listed[i] = by[1 + i - 1]
    BY <1>9, <2>1, <2>2, SubSeqProperties
  <2>4. QED
    BY <1>7, <2>3
<1>11. \A i \in 1 .. top : \E k \in 1 .. n : listed[i] = all[k]
  <2>1. TAKE i \in 1 .. top
  <2>2. i \in 1 .. n
    BY <1>7
  <2>3. PICK k \in 1 .. n : by[i] = all[k]
    BY <1>5, <2>2
  <2>4. QED
    BY <1>10, <2>3
<1>12. QED
  <2>1. Len(listed) \in Nat /\ DOMAIN all = 1 .. n
    BY <1>3, <1>7, <1>10
  <2>2. QED
    BY <1>2, <1>8, <1>10, <1>11, <2>1

\* What RecordAll goes through: the poll after the first n of the notices.
MailboxPasses(f, a, listed, n) ==
  f = [i \in 0 .. n |-> IF i = 0 THEN poll ELSE Mailbox!Record(a, f[i - 1], listed[i])]

LEMMA MailboxPassesExist ==
  ASSUME NEW a, NEW listed, NEW n \in Nat
  PROVE  \E f : MailboxPasses(f, a, listed, n)
<1> DEFINE S == {k \in 0 .. n : \E f : MailboxPasses(f, a, listed, k)}
<1>1. 0 \in S
  <2>1. PICK f : f = [i \in 0 .. 0 |-> poll]
    OBVIOUS
  <2>2. f = [i \in 0 .. 0 |-> IF i = 0 THEN poll ELSE Mailbox!Record(a, f[i - 1], listed[i])]
    BY <2>1
  <2>3. MailboxPasses(f, a, listed, 0)
    BY <2>2 DEF MailboxPasses
  <2>4. QED
    BY <2>3
<1>2. ASSUME NEW k \in 0 .. n - 1, k \in S PROVE k + 1 \in S
  <2>1. PICK f : MailboxPasses(f, a, listed, k)
    BY <1>2
  <2>2. PICK h : h = [i \in 0 .. k + 1 |-> IF i = 0 THEN poll ELSE Mailbox!Record(a, f[i - 1], listed[i])]
    OBVIOUS
  <2>3. f = [i \in 0 .. k |-> IF i = 0 THEN poll ELSE Mailbox!Record(a, f[i - 1], listed[i])]
    BY <2>1 DEF MailboxPasses
  <2>4. \A i \in 0 .. k : h[i] = f[i]
    <3>1. TAKE i \in 0 .. k
    <3>2. f[i] = IF i = 0 THEN poll ELSE Mailbox!Record(a, f[i - 1], listed[i])
      BY <2>3
    <3>3. h[i] = IF i = 0 THEN poll ELSE Mailbox!Record(a, f[i - 1], listed[i])
      BY <2>2
    <3>4. QED
      BY <3>2, <3>3
  <2>5. \A i \in 0 .. k + 1 : i # 0 => h[i - 1] = f[i - 1]
    BY <2>4
  <2>6. h = [i \in 0 .. k + 1 |-> IF i = 0 THEN poll ELSE Mailbox!Record(a, h[i - 1], listed[i])]
    BY <2>2, <2>5
  <2>7. MailboxPasses(h, a, listed, k + 1)
    BY <2>6 DEF MailboxPasses
  <2>8. QED
    BY <2>7
<1>3. n \in S
  <2> HIDE DEF S
  <2>1. QED
    BY <1>1, <1>2, Climb
<1>4. QED
  BY <1>3

LEMMA MailboxRecordAll ==
  ASSUME Mailbox!MailboxAssumption, MailboxIInv, NEW a \in Mailbox!Servers
  PROVE  MailboxPollRight(Mailbox!RecordAll(a)) /\ Mailbox!RecordAll(a).todo = poll.todo
<1>1. PICK listed : listed = Mailbox!Listed(a)
  OBVIOUS
<1>2. PICK w \in MailboxPlaces : w = Mailbox!Backend(a)
  BY DEF Mailbox!Backend, MailboxPlaces
<1>3. PICK n \in Nat : n = Len(listed)
  BY <1>1, MailboxListed DEF MailboxIInv
<1>4. \A i \in 1 .. n : \E k \in DOMAIN box[a][w] : listed[i] = box[a][w][k]
  BY <1>1, <1>2, <1>3, MailboxListed DEF MailboxIInv
<1>5. PICK f : f = CHOOSE g : MailboxPasses(g, a, listed, n)
  OBVIOUS
<1>6. f = [i \in 0 .. n |-> IF i = 0 THEN poll ELSE Mailbox!Record(a, f[i - 1], listed[i])]
  BY <1>5, MailboxPassesExist DEF MailboxPasses
<1>7. Mailbox!RecordAll(a) = f[n]
  BY <1>1, <1>3, <1>5 DEF Mailbox!RecordAll, MailboxPasses
<1> DEFINE S == {k \in 0 .. n : MailboxPollRight(f[k]) /\ f[k].todo = poll.todo}
<1>8. 0 \in S
  BY <1>6 DEF MailboxIInv
<1>9. ASSUME NEW k \in 0 .. n - 1, k \in S PROVE k + 1 \in S
  <2>1. k + 1 \in 0 .. n /\ k + 1 # 0 /\ (k + 1) - 1 = k /\ k + 1 \in 1 .. n
    OBVIOUS
  <2>2. f[k + 1] = Mailbox!Record(a, f[k], listed[k + 1])
    BY <1>6, <2>1
  <2>3. PICK o \in DOMAIN box[a][w] : listed[k + 1] = box[a][w][o]
    BY <1>4, <2>1
  <2>4. MailboxPollRight(f[k]) /\ f[k].todo = poll.todo
    BY <1>9
  <2>5. PICK q : q = f[k + 1] /\ q = Mailbox!Record(a, f[k], box[a][w][o])
    BY <2>2, <2>3
  <2>6. MailboxPollRight(q) /\ q.todo = f[k].todo
    BY <2>4, <2>5, MailboxRecord DEF MailboxIInv
  <2>7. QED
    BY <2>1, <2>4, <2>5, <2>6
<1>10. n \in S
  <2> HIDE DEF S
  <2>1. QED
    BY <1>8, <1>9, Climb
<1>11. QED
  BY <1>7, <1>10

-----------------------------------------------------------------------------
(* Every step                                                                *)

MailboxKept ==
  \A a \in Mailbox!Servers : \A w \in MailboxPlaces : \A k \in DOMAIN box[a][w] :
    k \in DOMAIN box'[a][w] /\ box'[a][w][k] = box[a][w][k]

LEMMA MailboxPut ==
  ASSUME MailboxBoxOK, NEW a \in Mailbox!Servers, NEW w \in MailboxPlaces, NEW n \in MailboxNotice,
         n.id = <<a, w, Len(box[a][w]) + 1>>, Account[n.of] = a,
         box' = [box EXCEPT ![a] = [box[a] EXCEPT ![w] = Append(box[a][w], n)]]
  PROVE  MailboxBoxOK' /\ MailboxKept
<1>1. PICK old \in Seq(MailboxNotice) : old = box[a][w]
  BY DEF MailboxBoxOK
<1>2. PICK last \in Nat : last = Len(old) /\ DOMAIN old = 1 .. last
  OBVIOUS
<1>3. PICK new : new = Append(old, n)
  OBVIOUS
<1>4. /\ new \in Seq(MailboxNotice) /\ DOMAIN new = 1 .. last + 1 /\ new[last + 1] = n
      /\ \A k \in 1 .. last : new[k] = old[k]
  BY <1>2, <1>3
<1>5. PICK mine : mine = [box[a] EXCEPT ![w] = new]
  OBVIOUS
<1>6. box' = [box EXCEPT ![a] = mine]
  BY <1>1, <1>3, <1>5
<1>7. /\ mine \in [MailboxPlaces -> Seq(MailboxNotice)] /\ mine[w] = new
      /\ \A v \in MailboxPlaces : v # w => mine[v] = box[a][v]
  BY <1>4, <1>5 DEF MailboxBoxOK
<1>8. /\ box' \in [Mailbox!Servers -> [MailboxPlaces -> Seq(MailboxNotice)]] /\ box'[a] = mine
      /\ \A b \in Mailbox!Servers : b # a => box'[b] = box[b]
  BY <1>6, <1>7 DEF MailboxBoxOK
<1>9. ASSUME NEW b \in Mailbox!Servers, NEW v \in MailboxPlaces
      PROVE  (b = a /\ v = w) \/ box'[b][v] = box[b][v]
  BY <1>7, <1>8
<1>10. box'[a][w] = new
  BY <1>7, <1>8
<1>11. MailboxKept
  <2>1. SUFFICES ASSUME NEW b \in Mailbox!Servers, NEW v \in MailboxPlaces, NEW k \in DOMAIN box[b][v]
                 PROVE  k \in DOMAIN box'[b][v] /\ box'[b][v][k] = box[b][v][k]
    BY DEF MailboxKept
  <2>2. CASE b = a /\ v = w
    <3>1. k \in 1 .. last
      BY <1>1, <1>2, <2>2
    <3>2. k \in 1 .. last + 1
      BY <3>1
    <3>3. QED
      BY <1>1, <1>4, <1>10, <2>2, <3>1, <3>2
  <2>3. QED
    BY <1>9, <2>2
<1>12. ASSUME NEW b \in Mailbox!Servers, NEW v \in MailboxPlaces, NEW k \in DOMAIN box'[b][v]
       PROVE  box'[b][v][k].id = <<b, v, k>> /\ Account[box'[b][v][k].of] = b
  <2>1. CASE b = a /\ v = w /\ k = last + 1
    BY <1>1, <1>2, <1>4, <1>10, <2>1
  <2>2. CASE k \in DOMAIN box[b][v]
    <3>1. box'[b][v][k] = box[b][v][k]
      BY <1>11, <2>2 DEF MailboxKept
    <3>2. QED
      BY <2>2, <3>1 DEF MailboxBoxOK
  <2>3. k \in DOMAIN box[b][v] \/ (b = a /\ v = w /\ k = last + 1)
    <3>1. CASE b = a /\ v = w
      <4>1. k \in 1 .. last + 1
        BY <1>4, <1>10, <3>1
      <4>2. k \in 1 .. last \/ k = last + 1
        BY <4>1
      <4>3. QED
        BY <1>1, <1>2, <3>1, <4>2
    <3>2. QED
      BY <1>9, <3>1
  <2>4. QED
    BY <2>1, <2>2, <2>3
<1>13. QED
  BY <1>8, <1>11, <1>12 DEF MailboxBoxOK

LEMMA MailboxBoxStep ==
  ASSUME Mailbox!MailboxAssumption, MailboxBoxOK, Mailbox!Next \/ UNCHANGED Mailbox!vars
  PROVE  MailboxBoxOK' /\ MailboxKept
<1>1. CASE box' = box
  BY <1>1 DEF MailboxBoxOK, MailboxKept
<1>2. ASSUME NEW m \in Msgs, NEW shape \in Shapes \cup {Mailbox!DemoShape}, NEW w \in MailboxPlaces,
             LET a == Account[m]
             IN  box' = [box EXCEPT ![a] = [box[a] EXCEPT
                           ![w] = Append(box[a][w], Mailbox!Notice(m, shape, a, w))]]
      PROVE  MailboxBoxOK' /\ MailboxKept
  <2>1. PICK a \in Mailbox!Servers : a = Account[m]
    BY DEF Mailbox!MailboxAssumption, Mailbox!Servers
  <2>2. PICK n : n = Mailbox!Notice(m, shape, a, w)
    OBVIOUS
  <2>3. n = [of |-> m, shape |-> shape, id |-> <<a, w, Len(box[a][w]) + 1>>]
    BY <2>2 DEF Mailbox!Notice
  <2>4. Len(box[a][w]) \in Nat
    BY DEF MailboxBoxOK
  <2>5. n \in MailboxNotice /\ n.id = <<a, w, Len(box[a][w]) + 1>> /\ Account[n.of] = a
    <3>1. Len(box[a][w]) + 1 \in Nat \ {0}
      BY <2>4
    <3>2. QED
      BY <2>1, <2>3, <3>1 DEF MailboxNotice
  <2>6. box' = [box EXCEPT ![a] = [box[a] EXCEPT ![w] = Append(box[a][w], n)]]
    BY <1>2, <2>1, <2>2
  <2>7. QED
    BY <2>5, <2>6, MailboxPut
<1>3. ASSUME NEW m \in Msgs, Mailbox!Send(m), box' # box
      PROVE  MailboxBoxOK' /\ MailboxKept
  <2>1. LET a == Account[m]
        IN  box' = [box EXCEPT ![a].demo = Append(@, Mailbox!Notice(m, Mailbox!DemoShape, a, "demo"))]
    BY <1>3 DEF Mailbox!Send
  <2>2. LET a == Account[m]
        IN  box' = [box EXCEPT ![a] = [box[a] EXCEPT
                      !["demo"] = Append(box[a]["demo"], Mailbox!Notice(m, Mailbox!DemoShape, a, "demo"))]]
    BY <2>1
  <2>3. "demo" \in MailboxPlaces
    BY DEF MailboxPlaces
  <2>4. QED
    BY <1>2, <2>2, <2>3
<1>4. ASSUME NEW m \in Msgs, NEW shape \in Shapes, Mailbox!Deliver(m, shape)
      PROVE  MailboxBoxOK' /\ MailboxKept
  <2>1. LET a == Account[m]
        IN  box' = [box EXCEPT ![a].real = Append(@, Mailbox!Notice(m, shape, a, "real"))]
    BY <1>4 DEF Mailbox!Deliver
  <2>2. LET a == Account[m]
        IN  box' = [box EXCEPT ![a] = [box[a] EXCEPT
                      !["real"] = Append(box[a]["real"], Mailbox!Notice(m, shape, a, "real"))]]
    BY <2>1
  <2>3. "real" \in MailboxPlaces
    BY DEF MailboxPlaces
  <2>4. QED
    BY <1>2, <2>2, <2>3
<1>5. QED
  BY <1>1, <1>3, <1>4 DEF Mailbox!Next, Mailbox!vars, Mailbox!Answer, Mailbox!Fault, Mailbox!Recover,
    Mailbox!Relaunch, Mailbox!StartPoll, Mailbox!PollAccount, Mailbox!PollFails,
    Mailbox!PollCommits, Mailbox!FindReplies, Mailbox!CommitReplies, Mailbox!RepliesFail

\* A row that was deleted does not come back.
MailboxGone == \A m \in Msgs : ~ Mailbox!There(m) => ~ (Mailbox!There(m)')

LEMMA MailboxGoneStep ==
  ASSUME MailboxIInv, Mailbox!Next \/ UNCHANGED Mailbox!vars
  PROVE  MailboxGone
<1>1. SUFFICES ASSUME NEW m \in Msgs, msgs[m].status = "DELETED" PROVE msgs'[m].status = "DELETED"
  BY DEF MailboxGone, Mailbox!There
<1>2. CASE msgs' = msgs
  BY <1>1, <1>2
<1>3. ASSUME NEW o \in Msgs, Mailbox!Send(o) PROVE msgs'[m].status = "DELETED"
  <2>1. o # m
    BY <1>1, <1>3 DEF Mailbox!Send
  <2>2. QED
    BY <1>1, <1>3, <2>1 DEF Mailbox!Send, MailboxIInv, MailboxRowsOK
<1>4. ASSUME NEW o \in Msgs, Mailbox!Relaunch(o) PROVE msgs'[m].status = "DELETED"
  <2>1. o # m
    BY <1>1, <1>4 DEF Mailbox!Relaunch
  <2>2. QED
    BY <1>1, <1>4, <2>1 DEF Mailbox!Relaunch, MailboxIInv, MailboxRowsOK
<1>5. CASE Mailbox!PollCommits
  <2>1. m \notin DOMAIN poll.status
    BY <1>1 DEF MailboxIInv, MailboxPollRight, Mailbox!There
  <2>2. QED
    BY <1>1, <1>5, <2>1 DEF Mailbox!PollCommits
<1>6. CASE Mailbox!CommitReplies
  BY <1>1, <1>6 DEF Mailbox!CommitReplies, Mailbox!There
<1>7. QED
  BY <1>2, <1>3, <1>4, <1>5, <1>6 DEF Mailbox!Next, Mailbox!vars, Mailbox!Answer, Mailbox!Deliver,
    Mailbox!Fault, Mailbox!Recover, Mailbox!StartPoll, Mailbox!PollAccount, Mailbox!PollFails,
    Mailbox!FindReplies, Mailbox!RepliesFail

LEMMA MailboxHitKept ==
  ASSUME MailboxBoxOK, MailboxKept, MailboxGone, NEW h, MailboxHitRight(h)
  PROVE  MailboxHitRight(h)'
<1>1. PICK a, w, k, m, outcome :
        /\ a \in Mailbox!Servers /\ w \in MailboxPlaces /\ k \in DOMAIN box[a][w] /\ m \in Msgs
        /\ h = <<<<a, w, k>>, box[a][w][k].of, m, outcome>>
        /\ To[m] = To[box[a][w][k].of]
        /\ box[a][w][k].shape.quotes => m = box[a][w][k].of \/ ~ Mailbox!There(box[a][w][k].of)
  BY DEF MailboxHitRight
<1>2. k \in DOMAIN box'[a][w] /\ box'[a][w][k] = box[a][w][k]
  BY <1>1 DEF MailboxKept
<1>3. PICK o \in Msgs : o = box[a][w][k].of
  <2>1. box[a][w] \in Seq(MailboxNotice)
    BY <1>1 DEF MailboxBoxOK
  <2>2. box[a][w][k] \in MailboxNotice
    BY <1>1, <2>1
  <2>3. QED
    BY <2>2 DEF MailboxNotice
<1>4. ~ Mailbox!There(o) => ~ (Mailbox!There(o)')
  BY DEF MailboxGone
<1>5. box'[a][w][k].shape.quotes => m = box'[a][w][k].of \/ ~ (Mailbox!There(o)')
  BY <1>1, <1>2, <1>3, <1>4
<1>6. box'[a][w][k].of = o
  BY <1>2, <1>3
<1>7. QED
  BY <1>1, <1>2, <1>3, <1>5, <1>6 DEF MailboxHitRight, Mailbox!There

\* A message's status may change under the polls unless it is a permanent bounce.
LEMMA MailboxCarry ==
  ASSUME MailboxIInv, MailboxKept, MailboxGone, poll' = poll, hits' = hits,
         overtaken \subseteq overtaken',
         \A m \in DOMAIN poll.status : Mailbox!There(m) => Mailbox!There(m)',
         \A m \in Msgs \ overtaken' :
           msgs'[m].status = msgs[m].status \/ msgs[m].status \notin Mailbox!Negative
  PROVE  MailboxPollRight(poll)' /\ MailboxHitsRight(hits)' /\ MailboxHitsStand'
<1>1. PICK p : p = poll
  OBVIOUS
<1>2. PICK hs : hs = hits
  OBVIOUS
<1>3. MailboxHitsRight(p.hits)' /\ MailboxHitsRight(hs)'
  BY <1>1, <1>2, MailboxHitKept DEF MailboxIInv, MailboxPollRight, MailboxHitsRight
<1>4. ASSUME NEW m \in Msgs \ overtaken' PROVE MailboxStands(hs, m, msgs'[m].status)
  <2>1. MailboxStands(hs, m, msgs[m].status)
    BY <1>2 DEF MailboxIInv, MailboxHitsStand
  <2>2. QED
    BY <2>1, MailboxFree
<1>5. ASSUME NEW m \in Msgs \ overtaken' PROVE MailboxStands(p.hits, m, MailboxNow(p, m)')
  <2>1. MailboxStands(p.hits, m, MailboxNow(p, m))
    BY <1>1 DEF MailboxIInv, MailboxPollRight
  <2>2. CASE m \in DOMAIN p.status
    BY <2>1, <2>2 DEF MailboxNow
  <2>3. CASE m \notin DOMAIN p.status
    BY <2>1, <2>3, MailboxFree DEF MailboxNow
  <2>4. QED
    BY <2>2, <2>3
<1>6. MailboxPollOK(p)
  BY <1>1 DEF MailboxIInv, MailboxPollRight
<1>7. MailboxPollRight(p)'
  <2>1. \A m \in DOMAIN p.status : m \in Msgs /\ Mailbox!There(m)'
    BY <1>1 DEF MailboxIInv, MailboxPollRight
  <2>2. QED
    BY <1>3, <1>5, <1>6, <2>1 DEF MailboxPollRight, MailboxStands
<1>8. QED
  BY <1>1, <1>2, <1>3, <1>4, <1>7 DEF MailboxHitsStand

LEMMA MailboxCommitsStep ==
  ASSUME MailboxIInv, MailboxKept, MailboxGone, Mailbox!PollCommits
  PROVE  MailboxPollRight(poll)' /\ MailboxHitsRight(hits)' /\ MailboxHitsStand'
<1>1. PICK p : p = poll
  OBVIOUS
<1>2. poll' = Mailbox!Idle /\ hits' = p.hits /\ overtaken' = overtaken
  BY <1>1 DEF Mailbox!PollCommits
<1>3. MailboxPollRight(Mailbox!Idle)'
  BY MailboxIdle, MailboxNothing DEF MailboxPollRight, MailboxPollOK, MailboxHitsRight
<1>4. MailboxHitsRight(p.hits)'
  BY <1>1, MailboxHitKept DEF MailboxIInv, MailboxPollRight, MailboxHitsRight
<1>5. ASSUME NEW m \in Msgs PROVE msgs'[m].status = MailboxNow(p, m)
  <2>1. msgs' = [o \in Msgs |-> IF o \in DOMAIN p.status
                                THEN [msgs[o] EXCEPT !.status = p.status[o]] ELSE msgs[o]]
    BY <1>1 DEF Mailbox!PollCommits
  <2>2. PICK was \in [status : MailboxStatuses, replied : BOOLEAN] : was = msgs[m]
    BY DEF MailboxIInv, MailboxRowsOK
  <2>3. msgs'[m] = IF m \in DOMAIN p.status THEN [was EXCEPT !.status = p.status[m]] ELSE was
    BY <2>1, <2>2
  <2>4. QED
    BY <2>2, <2>3 DEF MailboxNow
<1>6. \A m \in Msgs \ overtaken : MailboxStands(p.hits, m, MailboxNow(p, m))
  BY <1>1 DEF MailboxIInv, MailboxPollRight
<1>7. QED
  BY <1>2, <1>3, <1>4, <1>5, <1>6 DEF MailboxHitsStand

LEMMA MailboxPollsStep ==
  ASSUME Mailbox!MailboxAssumption, MailboxIInv,
         Mailbox!StartPoll \/ Mailbox!PollAccount \/ Mailbox!PollFails
  PROVE  MailboxPollRight(poll)' /\ MailboxHitsRight(hits)' /\ MailboxHitsStand'
<1>1. UNCHANGED <<box, msgs, hits, overtaken>>
  BY DEF Mailbox!StartPoll, Mailbox!PollAccount, Mailbox!PollFails
<1>2. MailboxHitsRight(hits)' /\ MailboxHitsStand'
  BY <1>1 DEF MailboxIInv, MailboxHitsRight, MailboxHitRight, MailboxHitsStand, MailboxStands,
    MailboxAgainst, Mailbox!There
<1>3. ASSUME NEW p, MailboxPollRight(p) PROVE MailboxPollRight(p)'
  BY <1>1, <1>3 DEF MailboxPollRight, MailboxHitsRight, MailboxHitRight, MailboxNow, Mailbox!There
<1>4. PICK p : p = poll'
  OBVIOUS
<1>5. MailboxPollRight(p)
  <2>1. CASE Mailbox!StartPoll
    <3>1. p = [on |-> TRUE, todo |-> Accounts, status |-> Mailbox!Nothing, hits |-> hits]
      BY <1>4, <2>1 DEF Mailbox!StartPoll
    <3>2. p.on = TRUE /\ p.todo = Accounts /\ p.status = Mailbox!Nothing /\ p.hits = hits
      BY <3>1
    <3>3. MailboxPollOK(p)
      BY <3>1, <3>2, MailboxNothing DEF MailboxPollOK, Mailbox!MailboxAssumption, Mailbox!Servers
    <3>4. \A m : MailboxNow(p, m) = msgs[m].status
      BY <3>2, MailboxNothing DEF MailboxNow
    <3>5. DOMAIN p.status = {}
      BY <3>2, MailboxNothing
    <3>6. QED
      BY <3>2, <3>3, <3>4, <3>5 DEF MailboxIInv, MailboxHitsStand, MailboxPollRight
  <2>2. CASE Mailbox!PollAccount
    <3>1. PICK a : a = Head(poll.todo)
      OBVIOUS
    <3>2. poll.todo \in Seq(Mailbox!Servers) /\ poll.todo # <<>>
      BY <2>2 DEF Mailbox!PollAccount, MailboxIInv, MailboxPollRight, MailboxPollOK
    <3>3. a \in Mailbox!Servers /\ Tail(poll.todo) \in Seq(Mailbox!Servers)
      BY <3>1, <3>2
    <3>4. PICK q : q = Mailbox!RecordAll(a)
      OBVIOUS
    <3>5. MailboxPollRight(q) /\ q.todo = poll.todo
      BY <3>3, <3>4, MailboxRecordAll
    <3>6. PICK on, outcome, hs : q = [on |-> on, todo |-> poll.todo, status |-> outcome, hits |-> hs]
      BY <3>5 DEF MailboxPollRight, MailboxPollOK
    <3>7. p = [q EXCEPT !.todo = Tail(q.todo)]
      BY <1>4, <2>2, <3>1, <3>4 DEF Mailbox!PollAccount
    <3>8. p = [on |-> on, todo |-> Tail(poll.todo), status |-> outcome, hits |-> hs]
      BY <3>5, <3>6, <3>7
    <3>9. p.on = on /\ p.todo = Tail(poll.todo) /\ p.status = outcome /\ p.hits = hs
      BY <3>8
    <3>10. q.status = outcome /\ q.hits = hs
      BY <3>6
    <3>11. MailboxPollOK(p)
      BY <3>3, <3>5, <3>8, <3>9, <3>10 DEF MailboxPollRight, MailboxPollOK
    <3>12. QED
      BY <3>5, <3>9, <3>10, <3>11 DEF MailboxPollRight, MailboxNow
  <2>3. CASE Mailbox!PollFails
    BY <1>4, <2>3, MailboxIdle DEF Mailbox!PollFails
  <2>4. QED
    BY <2>1, <2>2, <2>3
<1>6. QED
  BY <1>2, <1>3, <1>4, <1>5

\* The record of a message goes with its row.
LEMMA MailboxRelaunchStep ==
  ASSUME MailboxIInv, MailboxKept, MailboxGone, NEW m \in Msgs, Mailbox!Relaunch(m)
  PROVE  MailboxPollRight(poll)' /\ MailboxHitsRight(hits)' /\ MailboxHitsStand'
<1>1. PICK p : p = poll
  OBVIOUS
<1>2. PICK on, todo, st, hs : p = [on |-> on, todo |-> todo, status |-> st, hits |-> hs]
  BY <1>1 DEF MailboxIInv, MailboxPollRight, MailboxPollOK
<1>3. PICK less : less = Mailbox!Without(hs, m)
  OBVIOUS
<1>4. PICK q : q = [on |-> on, todo |-> todo, status |-> st, hits |-> less]
  OBVIOUS
<1>5. PICK kept : kept = Mailbox!Without(hits, m)
  OBVIOUS
<1>6. poll' = q /\ hits' = kept /\ overtaken' = overtaken
  <2>1. poll' = [p EXCEPT !.hits = Mailbox!Without(p.hits, m)]
    BY <1>1 DEF Mailbox!Relaunch
  <2>2. QED
    BY <1>2, <1>3, <1>4, <1>5, <2>1 DEF Mailbox!Relaunch
<1>7. ASSUME NEW some, NEW rest, rest = Mailbox!Without(some, m)
      PROVE  /\ \A h \in DOMAIN rest : h \in DOMAIN some /\ rest[h] = some[h] /\ h[3] # m
             /\ MailboxHitsRight(some) => MailboxHitsRight(rest)'
             /\ \A o, outcome : MailboxStands(some, o, outcome) => MailboxStands(rest, o, outcome)
             /\ \A outcome : MailboxStands(rest, m, outcome)
  <2>1. \A h \in DOMAIN rest : h \in DOMAIN some /\ rest[h] = some[h] /\ h[3] # m
    BY <1>7 DEF Mailbox!Without
  <2>2. ASSUME MailboxHitsRight(some) PROVE MailboxHitsRight(rest)'
    BY <2>1, <2>2, MailboxHitKept DEF MailboxIInv, MailboxHitsRight
  <2>3. ASSUME NEW o, NEW outcome, MailboxStands(some, o, outcome)
        PROVE  MailboxStands(rest, o, outcome)
    BY <2>1, <2>3 DEF MailboxStands
  <2>4. ASSUME NEW outcome PROVE MailboxStands(rest, m, outcome)
    BY <2>1 DEF MailboxStands, MailboxAgainst
  <2>5. QED
    BY <2>1, <2>2, <2>3, <2>4
<1>8. \A o \in Msgs : o # m => msgs'[o] = msgs[o]
  BY DEF Mailbox!Relaunch, MailboxIInv, MailboxRowsOK
<1>9. MailboxHitsRight(less)' /\ MailboxHitsRight(kept)'
  <2>1. MailboxHitsRight(hs) /\ MailboxHitsRight(hits)
    BY <1>1, <1>2 DEF MailboxIInv, MailboxPollRight
  <2>2. QED
    BY <1>3, <1>5, <1>7, <2>1
<1>10. ASSUME NEW o \in Msgs \ overtaken PROVE MailboxStands(kept, o, msgs'[o].status)
  <2>1. MailboxStands(hits, o, msgs[o].status)
    BY DEF MailboxIInv, MailboxHitsStand
  <2>2. QED
    BY <1>5, <1>7, <1>8, <2>1
<1>11. ASSUME NEW o \in Msgs \ overtaken PROVE MailboxStands(less, o, MailboxNow(q, o)')
  <2>1. MailboxStands(hs, o, MailboxNow(p, o))
    BY <1>1, <1>2 DEF MailboxIInv, MailboxPollRight
  <2>2. CASE o = m
    BY <1>3, <1>7, <2>2
  <2>3. CASE o # m
    <3>1. p.status = st /\ q.status = st
      BY <1>2, <1>4
    <3>2. MailboxNow(q, o)' = MailboxNow(p, o)
      BY <1>8, <2>3, <3>1 DEF MailboxNow
    <3>3. QED
      BY <1>3, <1>7, <2>1, <3>2
  <2>4. QED
    BY <2>2, <2>3
<1>12. MailboxPollRight(q)'
  <2>1. q.on = on /\ q.todo = todo /\ q.status = st /\ q.hits = less
    BY <1>4
  <2>2. p.todo = todo /\ p.status = st
    BY <1>2
  <2>3. MailboxPollOK(q)
    BY <1>1, <1>4, <2>1, <2>2 DEF MailboxIInv, MailboxPollRight, MailboxPollOK
  <2>4. \A o \in DOMAIN st : o \in Msgs /\ Mailbox!There(o)'
    <3>1. TAKE o \in DOMAIN st
    <3>2. o \in Msgs /\ Mailbox!There(o) /\ o # m
      BY <1>1, <2>2 DEF MailboxIInv, MailboxPollRight, Mailbox!Relaunch
    <3>3. msgs'[o] = msgs[o]
      BY <3>2 DEF Mailbox!Relaunch, MailboxIInv, MailboxRowsOK
    <3>4. QED
      BY <3>2, <3>3 DEF Mailbox!There
  <2>5. QED
    BY <1>6, <1>9, <1>11, <2>1, <2>3, <2>4 DEF MailboxPollRight, MailboxPollOK
<1>13. QED
  BY <1>6, <1>9, <1>10, <1>12 DEF MailboxHitsStand

LEMMA MailboxRowsStep ==
  ASSUME Mailbox!MailboxAssumption, MailboxIInv, Mailbox!Next \/ UNCHANGED Mailbox!vars
  PROVE  MailboxRowsOK'
<1>1. msgs' \in [Msgs -> [status : MailboxStatuses, replied : BOOLEAN]]
  <2>1. CASE msgs' = msgs
    BY <2>1 DEF MailboxIInv, MailboxRowsOK
  <2>2. ASSUME NEW m \in Msgs, Mailbox!Send(m)
        PROVE  msgs' \in [Msgs -> [status : MailboxStatuses, replied : BOOLEAN]]
    BY <2>2 DEF MailboxIInv, MailboxRowsOK, Mailbox!Send, MailboxStatuses
  <2>3. CASE Mailbox!PollCommits
    BY <2>3 DEF MailboxIInv, MailboxRowsOK, MailboxPollRight, MailboxPollOK, Mailbox!PollCommits
  <2>4. CASE Mailbox!CommitReplies
    BY <2>4 DEF MailboxIInv, MailboxRowsOK, Mailbox!CommitReplies, MailboxStatuses
  <2>5. ASSUME NEW m \in Msgs, Mailbox!Relaunch(m)
        PROVE  msgs' \in [Msgs -> [status : MailboxStatuses, replied : BOOLEAN]]
    BY <2>5 DEF MailboxIInv, MailboxRowsOK, Mailbox!Relaunch, MailboxStatuses
  <2>6. QED
    BY <2>1, <2>2, <2>3, <2>4, <2>5 DEF Mailbox!Next, Mailbox!vars, Mailbox!Answer, Mailbox!Deliver,
      Mailbox!Fault, Mailbox!Recover, Mailbox!StartPoll, Mailbox!PollAccount, Mailbox!PollFails,
      Mailbox!FindReplies, Mailbox!RepliesFail
<1>2. sent' \in Seq(Msgs)
  <2>1. CASE sent' = sent
    BY <2>1 DEF MailboxIInv, MailboxRowsOK
  <2>2. ASSUME NEW m \in Msgs, Mailbox!Send(m) PROVE sent' \in Seq(Msgs)
    BY <2>2 DEF MailboxIInv, MailboxRowsOK, Mailbox!Send
  <2>3. QED
    BY <2>1, <2>2 DEF Mailbox!Next, Mailbox!vars, Mailbox!Answer, Mailbox!Deliver, Mailbox!Fault,
      Mailbox!Relaunch, Mailbox!Recover, Mailbox!StartPoll, Mailbox!PollAccount, Mailbox!PollFails,
      Mailbox!PollCommits, Mailbox!FindReplies, Mailbox!CommitReplies, Mailbox!RepliesFail
<1>3. \A m \in DOMAIN replies' : replies'[m] \notin Mailbox!Negative
  <2>1. CASE replies' = replies
    BY <2>1 DEF MailboxIInv, MailboxRowsOK
  <2>2. CASE Mailbox!FindReplies
    <3>1. PICK found :
            /\ replies' = [m \in found |-> msgs[m].status]
            /\ \A m \in found : msgs[m].status \notin Mailbox!Negative \cup {"QUEUED", "REPLIED"}
      BY <2>2 DEF Mailbox!FindReplies
    <3>2. QED
      BY <3>1
  <2>3. CASE Mailbox!CommitReplies \/ Mailbox!RepliesFail
    BY <2>3, MailboxNothing DEF Mailbox!CommitReplies, Mailbox!RepliesFail
  <2>4. QED
    BY <2>1, <2>2, <2>3 DEF Mailbox!Next, Mailbox!vars, Mailbox!Send, Mailbox!Answer, Mailbox!Deliver,
      Mailbox!Relaunch, Mailbox!Fault, Mailbox!Recover, Mailbox!StartPoll, Mailbox!PollAccount,
      Mailbox!PollFails, Mailbox!PollCommits
<1>4. QED
  BY <1>1, <1>2, <1>3 DEF MailboxRowsOK

LEMMA MailboxNextIInv ==
  ASSUME Mailbox!MailboxAssumption, MailboxIInv, Mailbox!Next \/ UNCHANGED Mailbox!vars
  PROVE  MailboxIInv'
<1>1. MailboxRowsOK' /\ MailboxBoxOK' /\ MailboxKept /\ MailboxGone
  BY MailboxRowsStep, MailboxBoxStep, MailboxGoneStep DEF MailboxIInv
<1>2. MailboxPollRight(poll)' /\ MailboxHitsRight(hits)' /\ MailboxHitsStand'
  <2>1. CASE Mailbox!StartPoll \/ Mailbox!PollAccount \/ Mailbox!PollFails
    BY <2>1, MailboxPollsStep
  <2>2. CASE Mailbox!PollCommits
    BY <1>1, <2>2, MailboxCommitsStep
  <2>3. CASE UNCHANGED <<msgs, hits, poll, overtaken>>
    BY <1>1, <2>3, MailboxCarry DEF Mailbox!There
  <2>4. ASSUME NEW m \in Msgs, Mailbox!Send(m)
        PROVE  MailboxPollRight(poll)' /\ MailboxHitsRight(hits)' /\ MailboxHitsStand'
    <3>1. UNCHANGED <<hits, poll, overtaken>>
      BY <2>4 DEF Mailbox!Send
    <3>2. \A o \in Msgs : o # m => msgs'[o] = msgs[o]
      BY <2>4 DEF Mailbox!Send, MailboxIInv, MailboxRowsOK
    <3>3. msgs[m].status \notin Mailbox!Negative
      BY <2>4 DEF Mailbox!Send, Mailbox!Negative
    <3>4. \A o : Mailbox!There(o) => Mailbox!There(o)'
      BY <2>4 DEF Mailbox!Send, MailboxIInv, MailboxRowsOK, Mailbox!There
    <3>5. QED
      BY <1>1, <3>1, <3>2, <3>3, <3>4, MailboxCarry
  <2>5. CASE Mailbox!CommitReplies
    <3>1. PICK reread \in SUBSET DOMAIN replies :
            LET missed   == {m \in DOMAIN replies \ reread : msgs[m].status # replies[m]}
                keep   == {m \in reread : msgs[m].status \in Mailbox!Negative}
                marked == {m \in DOMAIN replies : Mailbox!There(m)}
            IN  /\ msgs' = [m \in Msgs |->
                      IF m \notin marked THEN msgs[m]
                      ELSE [status |-> IF m \in keep THEN msgs[m].status ELSE "REPLIED",
                            replied |-> TRUE]]
                /\ overtaken' = overtaken \cup missed
      BY <2>5 DEF Mailbox!CommitReplies
    <3>2. UNCHANGED <<hits, poll>> /\ overtaken \subseteq overtaken'
      BY <2>5, <3>1 DEF Mailbox!CommitReplies
    <3>3. ASSUME NEW m \in Msgs
          PROVE  \/ msgs'[m].status = msgs[m].status
                 \/ m \in overtaken'
                 \/ msgs[m].status \notin Mailbox!Negative
      <4>1. CASE m \notin DOMAIN replies
        BY <3>1, <4>1
      <4>2. CASE m \in reread
        BY <3>1, <4>2
      <4>3. CASE m \in DOMAIN replies \ reread
        BY <3>1, <4>3 DEF MailboxIInv, MailboxRowsOK
      <4>4. QED
        BY <4>1, <4>2, <4>3
    <3>4. ASSUME NEW m \in DOMAIN poll.status, Mailbox!There(m) PROVE Mailbox!There(m)'
      <4>1. m \in Msgs
        BY <3>4 DEF MailboxIInv, MailboxPollRight
      <4>2. Mailbox!There(m) /\ \A o \in Msgs : msgs[o].status \in Mailbox!Negative => msgs[o].status # "DELETED"
        BY <3>4 DEF Mailbox!Negative
      <4>3. QED
        BY <3>1, <4>1, <4>2 DEF Mailbox!There
    <3>5. QED
      BY <1>1, <3>2, <3>3, <3>4, MailboxCarry
  <2>6. ASSUME NEW m \in Msgs, Mailbox!Relaunch(m)
        PROVE  MailboxPollRight(poll)' /\ MailboxHitsRight(hits)' /\ MailboxHitsStand'
    BY <1>1, <2>6, MailboxRelaunchStep
  <2>7. QED
    BY <2>1, <2>2, <2>3, <2>4, <2>5, <2>6 DEF Mailbox!Next, Mailbox!vars, Mailbox!Answer, Mailbox!Deliver,
      Mailbox!Fault, Mailbox!Recover, Mailbox!FindReplies, Mailbox!RepliesFail
<1>3. QED
  BY <1>1, <1>2 DEF MailboxIInv

LEMMA MailboxIInvHits ==
  ASSUME MailboxIInv
  PROVE  Mailbox!NoticeHitsItsMessage
<1>1. SUFFICES ASSUME NEW h \in DOMAIN hits
               PROVE  /\ To[h[3]] = To[h[2]]
                      /\ (\E i \in DOMAIN box[h[1][1]][h[1][2]] :
                            /\ box[h[1][1]][h[1][2]][i].id = h[1]
                            /\ box[h[1][1]][h[1][2]][i].shape.quotes)
                         => h[3] = h[2] \/ msgs[h[2]].status = "DELETED"
  BY DEF Mailbox!NoticeHitsItsMessage
<1>2. PICK a, w, k, m, outcome :
        /\ a \in Mailbox!Servers /\ w \in MailboxPlaces /\ k \in DOMAIN box[a][w] /\ m \in Msgs
        /\ h = <<<<a, w, k>>, box[a][w][k].of, m, outcome>>
        /\ To[m] = To[box[a][w][k].of]
        /\ box[a][w][k].shape.quotes => m = box[a][w][k].of \/ ~ Mailbox!There(box[a][w][k].of)
  BY DEF MailboxIInv, MailboxHitsRight, MailboxHitRight
<1>3. /\ h[1] = <<a, w, k>> /\ h[2] = box[a][w][k].of /\ h[3] = m
      /\ h[1][1] = a /\ h[1][2] = w
  BY <1>2
<1>4. \A i \in DOMAIN box[a][w] : box[a][w][i].id = h[1] => i = k
  BY <1>2, <1>3 DEF MailboxIInv, MailboxBoxOK
<1>5. QED
  BY <1>2, <1>3, <1>4 DEF Mailbox!There

LEMMA MailboxIInvBounce ==
  ASSUME MailboxIInv
  PROVE  Mailbox!BounceStands
<1>1. SUFFICES ASSUME NEW m \in Msgs \ overtaken, NEW on,
                      on = {h \in DOMAIN hits : h[3] = m /\ h[4] \in Mailbox!Negative}, on # {}
               PROVE  /\ Mailbox!Cardinality(on) = 1 /\ \A h \in on : hits[h] = 1
                      /\ msgs[m].status \in Mailbox!Negative
  BY DEF Mailbox!BounceStands
<1>2. \A h \in on : h \in DOMAIN hits /\ MailboxAgainst(h, m)
  BY <1>1 DEF MailboxAgainst
<1>3. MailboxStands(hits, m, msgs[m].status)
  BY DEF MailboxIInv, MailboxHitsStand
<1>4. PICK h \in on : TRUE
  BY <1>1
<1>5. \A g \in on : g = h /\ hits[g] = 1 /\ msgs[m].status \in Mailbox!Negative
  BY <1>2, <1>3, <1>4 DEF MailboxStands
<1>6. on = {h}
  BY <1>4, <1>5
<1>7. Mailbox!Cardinality({h}) = 1
  <2>1. Mailbox!Cardinality({h}) = Cardinality({h})
    BY DEF Mailbox!Cardinality, Cardinality
  <2>2. QED
    BY <2>1, FS_Singleton
<1>8. QED
  BY <1>4, <1>5, <1>6, <1>7
===============================================================================
