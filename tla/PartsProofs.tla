------------------------------ MODULE PartsProofs ------------------------------
(***************************************************************************)
(* The properties of the parts that hold for every value of the constants. *)
(***************************************************************************)
EXTENDS Parts, PoolProofs

-----------------------------------------------------------------------------
(* Addresses and the sales-ready list                                        *)

LeadsInv == focus = "leads" => Leads!IInv

LEMMA LeadsStep ==
  ASSUME [Next]_vars, focus = "leads"
  PROVE  focus' = "leads" /\ (Leads!Next \/ UNCHANGED Leads!vars)
  BY DEF Next, vars, Leads!vars, Leads!rows, Leads!world, Leads!history, Leads!budget, F4, F5,
    F6, F7,
    F8, F9, F10, F11, F12, F13, F14, F15, F16, F17, F18

LEMMA LeadsInductive ==
  ASSUME Leads!LeadsAssumption
  PROVE  Spec => []LeadsInv
<1>1. Init => LeadsInv
  BY Leads!InitIInv DEF Init, LeadsInv
<1>2. LeadsInv /\ [Next]_vars => LeadsInv'
  <2>1. SUFFICES ASSUME LeadsInv, [Next]_vars, focus' = "leads" PROVE Leads!IInv'
    BY DEF LeadsInv
  <2>2. focus = "leads"
    BY <2>1 DEF Next, vars
  <2>3. Leads!Next \/ UNCHANGED Leads!vars
    BY <2>1, <2>2, LeadsStep
  <2>4. QED
    BY <2>1, <2>2, <2>3, Leads!NextIInv DEF LeadsInv
<1>3. QED
  BY <1>1, <1>2, PTL DEF Spec

\* A contact whose address bounced stays off the sales-ready list and suppressed, and
\* nobody is listed or suppressed twice, where no two transactions on an address overlapped.
THEOREM TheListIsRight ==
  ASSUME Leads!LeadsAssumption
  PROVE  Spec => []ListIsRight
<1>1. LeadsInv => ListIsRight
  BY Leads!IInvLists DEF LeadsInv, ListIsRight
<1>2. QED
  BY <1>1, LeadsInductive, PTL

\* A recomputation puts only contacts that are VERIFIED then on the list.
THEOREM VerifiedSurface ==
  ASSUME Leads!LeadsAssumption
  PROVE  Spec => OnlyVerifiedSurface
<1>1. LeadsInv /\ [Next]_vars => [focus = "leads" => Leads!SurfacesVerified]_vars
  BY LeadsStep, Leads!NextSurfaces DEF LeadsInv
<1>2. QED
  BY <1>1, LeadsInductive, PTL DEF Spec, OnlyVerifiedSurface

\* What a bounce or an answer says of a message is not taken back.
THEOREM OutcomesStay ==
  ASSUME Leads!LeadsAssumption
  PROVE  Spec => OutcomeIsFinal
<1>1. LeadsInv /\ [Next]_vars => [focus = "leads" => Leads!OutcomeStays]_vars
  BY LeadsStep, Leads!NextOutcomes DEF LeadsInv
<1>2. QED
  BY <1>1, LeadsInductive, PTL DEF Spec, OutcomeIsFinal

-----------------------------------------------------------------------------
(* Exports                                                                   *)

ExportsInv == focus = "exports" => ExportsIInv

LEMMA ExportsInductive ==
  ASSUME Exports!ExportsAssumption
  PROVE  Spec => []ExportsInv
<1>1. Init => ExportsInv
  BY ExportsInitIInv DEF Init, ExportsInv
<1>2. ExportsInv /\ [Next]_vars => ExportsInv'
  BY ExportsNextIInv DEF Next, vars, ExportsInv, Exports!vars, F4, F5, F6, F7, F8, F9
<1>3. QED
  BY <1>1, <1>2, PTL DEF Spec

\* What is offered for download as COMPLETED is whole and no older than its request.
THEOREM CompletedExportsAreWhole ==
  ASSUME Exports!ExportsAssumption
  PROVE  Spec => []CompletedIsWhole
<1>1. ExportsInv => CompletedIsWhole
  BY ExportsIInvCompletes DEF ExportsInv, CompletedIsWhole
<1>2. QED
  BY <1>1, ExportsInductive, PTL

\* An export that reads QUEUED has a worker or a message, unless the API died before it
\* could send one.
THEOREM QueuedExportsAreCarried ==
  ASSUME Exports!ExportsAssumption
  PROVE  Spec => []QueuedIsQueued
<1>1. ExportsInv => QueuedIsQueued
  BY ExportsIInvQueues DEF ExportsInv, QueuedIsQueued
<1>2. QED
  BY <1>1, ExportsInductive, PTL

-----------------------------------------------------------------------------
(* Live events                                                               *)

EventsInv == focus = "events" => Events!IInv

LEMMA EventsInductive ==
  ASSUME Events!EventAssumption
  PROVE  Spec => []EventsInv
<1>1. Init => EventsInv
  BY Events!InitIInv DEF Init, EventsInv
<1>2. EventsInv /\ [Next]_vars => EventsInv'
  BY Events!NextIInv DEF Next, vars, EventsInv, Events!vars, F4, F5, F6, F7, F8, F9, F10, F11,
    F12, F13, F14,
    F15, F16, Events!writing, Events!serving, Events!page
<1>3. QED
  BY <1>1, <1>2, PTL DEF Spec

\* A connection sends every event at most once and in order.
THEOREM EventsInOrder ==
  ASSUME Events!EventAssumption
  PROVE  Spec => []ServedOnceInOrder
<1>1. EventsInv => ServedOnceInOrder
  BY Events!IInvServes DEF EventsInv, ServedOnceInOrder
<1>2. QED
  BY <1>1, EventsInductive, PTL

\* A page that has caught up shows every committed event that no race could hide.
THEOREM EventsShown ==
  ASSUME Events!EventAssumption
  PROVE  Spec => []ShowsCommitted
<1>1. EventsInv => ShowsCommitted
  BY Events!IInvShows DEF EventsInv, ShowsCommitted
<1>2. QED
  BY <1>1, EventsInductive, PTL

-----------------------------------------------------------------------------
(* Rate limiter                                                              *)

BucketInv == focus = "bucket" => Bucket!IInv

LEMMA BucketInductive ==
  ASSUME Bucket!BucketAssumption
  PROVE  Spec => []BucketInv
<1>1. Init => BucketInv
  BY Bucket!InitIInv DEF Init, BucketInv
<1>2. BucketInv /\ [Next]_vars => BucketInv'
  BY Bucket!NextIInv DEF Next, vars, BucketInv, Bucket!vars, F4, F5, F6
<1>3. QED
  BY <1>1, <1>2, PTL DEF Spec

\* No stretch of time sees more grants than burst, refill and clock corrections allow;
\* refusals cost no quota; and who sleeps as long as it was told is let through.
THEOREM QuotasAreExact ==
  ASSUME Bucket!BucketAssumption
  PROVE  Spec => []QuotaIsExact
<1>1. BucketInv => QuotaIsExact
  BY Bucket!IInvQuota DEF BucketInv, QuotaIsExact
<1>2. QED
  BY <1>1, BucketInductive, PTL

-----------------------------------------------------------------------------
(* Paid lookups                                                              *)

LookupsInv == focus = "lookups" => LookupsIInv

LEMMA LookupsInductive ==
  ASSUME Lookups!LookupAssumption
  PROVE  Spec => []LookupsInv
<1>1. Init => LookupsInv
  BY LookupsInitIInv DEF Init, LookupsInv
<1>2. LookupsInv /\ [Next]_vars => LookupsInv'
  <2>1. SUFFICES ASSUME LookupsInv, [Next]_vars, focus' = "lookups" PROVE LookupsIInv'
    BY DEF LookupsInv
  <2>2. focus = "lookups"
    BY <2>1 DEF Next, vars
  <2>3. Lookups!Next \/ UNCHANGED Lookups!vars
    BY <2>1, <2>2 DEF Next, vars, Lookups!vars, F4, F5, F6, F7, F8, F9
  <2>4. QED
    BY <2>1, <2>2, <2>3, LookupsNextIInv DEF LookupsInv
<1>3. QED
  BY <1>1, <1>2, PTL DEF Spec

\* An answer that was paid for and kept is not paid for again while it lives, whichever
\* worker asks, Redis or the provider fails and the retry task asks again.
THEOREM AnswersArePaidOnce ==
  ASSUME Lookups!LookupAssumption
  PROVE  Spec => []OneCreditPerWindow
<1>1. LookupsInv => OneCreditPerWindow
  BY DEF LookupsInv, LookupsIInv, OneCreditPerWindow
<1>2. QED
  BY <1>1, LookupsInductive, PTL

-----------------------------------------------------------------------------
(* Website crawler                                                           *)

CrawlInv == focus = "crawl" => CrawlIInv

LEMMA CrawlInductive ==
  ASSUME Crawl!CrawlAssumption
  PROVE  Spec => []CrawlInv
<1>1. Init => CrawlInv
  BY CrawlInitIInv DEF Init, CrawlInv
<1>2. CrawlInv /\ [Next]_vars => CrawlInv'
  <2>1. SUFFICES ASSUME CrawlInv, [Next]_vars, focus' = "crawl" PROVE CrawlIInv'
    BY DEF CrawlInv
  <2>2. focus = "crawl"
    BY <2>1 DEF Next, vars
  <2>3. Crawl!Next \/ UNCHANGED Crawl!vars
    BY <2>1, <2>2 DEF Next, vars, Crawl!vars, Crawl!site, Crawl!world,
      F4, F5, F6, F7, F8, F9, F10, F11, F12, F13, F14, F15
  <2>4. QED
    BY <2>1, <2>2, <2>3, CrawlNextIInv DEF CrawlInv
<1>3. QED
  BY <1>1, <1>2, PTL DEF Spec

\* The crawl itself asks for no page robots.txt excludes on the site's host, for none
\* twice, and for no more of them than the limit, whatever fails on the way and wherever
\* pages redirect to.
THEOREM CrawlsArePolite ==
  ASSUME Crawl!CrawlAssumption
  PROVE  Spec => []PoliteCrawl
<1>1. CrawlInv => PoliteCrawl
  BY CrawlIInvPolite DEF CrawlInv, PoliteCrawl
<1>2. QED
  BY <1>1, CrawlInductive, PTL

-----------------------------------------------------------------------------
(* Validation rules                                                          *)

GatesInv == focus = "rules" => GatesIInv

LEMMA GatesInductive ==
  ASSUME Gates!RulesAssumption
  PROVE  Spec => []GatesInv
<1>1. Init => GatesInv
  BY GatesInitIInv DEF Init, GatesInv
<1>2. GatesInv /\ [Next]_vars => GatesInv'
  <2>1. SUFFICES ASSUME GatesInv, [Next]_vars, focus' = "rules" PROVE GatesIInv'
    BY DEF GatesInv
  <2>2. focus = "rules"
    BY <2>1 DEF Next, vars
  <2>3. Gates!Next \/ UNCHANGED Gates!vars
    BY <2>1, <2>2 DEF Next, vars, Gates!vars, F4
  <2>4. QED
    BY <2>1, <2>2, <2>3, GatesNextIInv DEF GatesInv
<1>3. QED
  BY <1>1, <1>2, PTL DEF Spec

\* No saved row opens a gate of decide, whichever edits were made at the same time, and
\* the settings screen shows what decide goes by.
THEOREM GatesStayShut ==
  ASSUME Gates!RulesAssumption
  PROVE  Spec => []GatesHold
<1>1. GatesInv => GatesHold
  BY GatesIInvShown DEF GatesInv, GatesIInv, GatesHold
<1>2. QED
  BY <1>1, GatesInductive, PTL

-----------------------------------------------------------------------------
(* Credentials                                                               *)

RowsIn == focus = "secrets" => SecretsRowsOK

LEMMA RowsInductive ==
  ASSUME Secrets!SecretsAssumption
  PROVE  Spec => []RowsIn
<1>1. Init => RowsIn
  BY SecretsInitRows DEF Init, RowsIn
<1>2. RowsIn /\ [Next]_vars => RowsIn'
  <2>1. SUFFICES ASSUME RowsIn, [Next]_vars, focus' = "secrets" PROVE SecretsRowsOK'
    BY DEF RowsIn
  <2>2. focus = "secrets"
    BY <2>1 DEF Next, vars
  <2>3. Secrets!Next \/ UNCHANGED Secrets!vars
    BY <2>1, <2>2 DEF Next, vars, Secrets!vars, F4, F5, F6, F7, F8, F9, F10, F11, F12,
      F13, F14, F15, F16
  <2>4. QED
    BY <2>1, <2>2, <2>3, SecretsNextRows DEF RowsIn
<1>3. QED
  BY <1>1, <1>2, PTL DEF Spec

EnvIn == focus = "secrets" => SecretsEnvOK

LEMMA EnvInductive ==
  ASSUME Secrets!SecretsAssumption
  PROVE  Spec => []EnvIn
<1>1. Init => EnvIn
  BY SecretsInitEnv DEF Init, EnvIn
<1>2. EnvIn /\ [Next]_vars => EnvIn'
  <2>1. SUFFICES ASSUME EnvIn, [Next]_vars, focus' = "secrets" PROVE SecretsEnvOK'
    BY DEF EnvIn
  <2>2. focus = "secrets"
    BY <2>1 DEF Next, vars
  <2>3. Secrets!Next \/ UNCHANGED Secrets!vars
    BY <2>1, <2>2 DEF Next, vars, Secrets!vars, F4, F5, F6, F7, F8, F9, F10, F11, F12,
      F13, F14, F15, F16
  <2>4. QED
    BY <2>1, <2>2, <2>3, SecretsNextEnv DEF EnvIn
<1>3. QED
  BY <1>1, <1>2, PTL DEF Spec

\* A key that is shown as verified was found good by its provider if its last test called
\* one, whatever keys of other tenants, restarts and rewrites of .env come between.
THEOREM VerifiedKeysWereTested ==
  ASSUME Secrets!SecretsAssumption
  PROVE  Spec => [](focus = "secrets" => Secrets!VerifiedWasTested)
<1>1. RowsIn => (focus = "secrets" => Secrets!VerifiedWasTested)
  BY SecretsRowsTested DEF RowsIn
<1>2. QED
  BY <1>1, RowsInductive, PTL

\* The API's adapters come to use the key that was set last as well, unless the process
\* environment names the key, .env could not be written or two rewrites ran at once.
THEOREM KeysStayTrue ==
  ASSUME Secrets!SecretsAssumption
  PROVE  Spec => []KeysAreTrue
<1>1. RowsIn /\ EnvIn => KeysAreTrue
  BY SecretsRowsTested, SecretsEnvFollows DEF RowsIn, EnvIn, KeysAreTrue
<1>2. QED
  BY <1>1, RowsInductive, EnvInductive, PTL

-----------------------------------------------------------------------------
(* Sign-in                                                                   *)

SignInInv == focus = "sign-in" => SignInIInv

LEMMA SignInInductive ==
  ASSUME SignIn!SignInAssumption
  PROVE  Spec => []SignInInv
<1>1. Init => SignInInv
  BY SignInInitIInv DEF Init, SignInInv
<1>2. SignInInv /\ [Next]_vars => SignInInv'
  <2>1. SUFFICES ASSUME SignInInv, [Next]_vars, focus' = "sign-in" PROVE SignInIInv'
    BY DEF SignInInv
  <2>2. focus = "sign-in"
    BY <2>1 DEF Next, vars
  <2>3. SignIn!Next \/ UNCHANGED SignIn!vars
    BY <2>1, <2>2 DEF Next, vars, SignIn!vars, F4, F5, F6, F7, F8, F9, F10
  <2>4. QED
    BY <2>1, <2>2, <2>3, SignInNextIInv DEF SignInInv
<1>3. QED
  BY <1>1, <1>2, PTL DEF Spec

\* A Google account comes back to the row of its first sign-in and only admins
\* administer, in whichever order two sign-ins read and write; excepted are the accounts
\* that a sign-in with the address of another account's row brought together.
THEOREM AccountsStayTheirs ==
  ASSUME SignIn!SignInAssumption
  PROVE  Spec => []AccountsStay
<1>1. SignInInv => AccountsStay
  BY SignInIInvAccounts DEF SignInInv, AccountsStay
<1>2. QED
  BY <1>1, SignInInductive, PTL

-----------------------------------------------------------------------------
(* Google Maps                                                               *)

MapsInv == focus = "maps" => MapsIInv

LEMMA MapsInductive ==
  ASSUME Maps!MapsAssumption
  PROVE  Spec => []MapsInv
<1>1. Init => MapsInv
  BY MapsInitIInv DEF Init, MapsInv
<1>2. MapsInv /\ [Next]_vars => MapsInv'
  <2>1. SUFFICES ASSUME MapsInv, [Next]_vars, focus' = "maps" PROVE MapsIInv'
    BY DEF MapsInv
  <2>2. focus = "maps"
    BY <2>1 DEF Next, vars
  <2>3. Maps!Next \/ UNCHANGED Maps!vars
    BY <2>1, <2>2 DEF Next, vars, Maps!vars, F4, F5, F6, F7, F8, F9, F10, F11, F12, F13, F14
  <2>4. QED
    BY <2>1, <2>2, <2>3, MapsNextIInv DEF MapsInv
<1>3. QED
  BY <1>1, <1>2, PTL DEF Spec

\* A sweep that ends well has made each of its searches once, or spent its budget; it
\* bills no more than that, hands no place over twice and none from beyond the circle.
THEOREM SweepsAreComplete ==
  ASSUME Maps!MapsAssumption
  PROVE  Spec => []SweepComplete
<1>1. MapsInv => SweepComplete
  <2>1. SUFFICES ASSUME MapsIInv PROVE Maps!SweepComplete /\ Maps!NothingFar
    BY DEF MapsInv, SweepComplete
  <2>2. QED
    BY <2>1, MapsIInvComplete DEF MapsIInv, MapsHanded
<1>2. QED
  BY <1>1, MapsInductive, PTL

-----------------------------------------------------------------------------
(* Hiring signals                                                            *)

SignalsInv == focus = "signals" => SignalsIInv

LEMMA SignalsStep ==
  ASSUME [Next]_vars, focus = "signals"
  PROVE  focus' = "signals" /\ (Signals!Next \/ UNCHANGED Signals!vars)
  BY DEF Next, vars, Signals!vars, F4, F5, F6, F7, F8, F9, F10, F11, F12

LEMMA SignalsInductive == Spec => []SignalsInv
<1>1. Init => SignalsInv
  BY SignalsInitIInv DEF Init, SignalsInv
<1>2. SignalsInv /\ [Next]_vars => SignalsInv'
  <2>1. SUFFICES ASSUME SignalsInv, [Next]_vars, focus' = "signals"
                 PROVE  SignalsIInv'
    BY DEF SignalsInv
  <2>2. focus = "signals"
    BY <2>1 DEF Next, vars
  <2>3. QED
    BY <2>1, <2>2, SignalsStep, SignalsNextIInv DEF SignalsInv
<1>3. QED
  BY <1>1, <1>2, PTL DEF Spec

\* Every call goes out with a key or credential that has been in force since the run's
\* last call, and what is discovered is each page once, however the access changes while
\* calls are prepared and between them.
THEOREM AccessIsHeeded == Spec => CallsHaveAccess
<1>1. SignalsInv /\ [Next]_vars
        => [focus = "signals" => Signals!CallHasAccess /\ Signals!PublicPagesOnce']_vars
  BY SignalsStep, SignalsNextIInv DEF SignalsInv, SignalsIInv
<1>2. QED
  BY <1>1, SignalsInductive, PTL DEF Spec, CallsHaveAccess

-----------------------------------------------------------------------------
(* Templates                                                                 *)

TemplatesInv == focus = "templates" => TemplatesIInv

LEMMA TemplatesInductive ==
  ASSUME Templates!TemplatesAssumption
  PROVE  Spec => []TemplatesInv
<1>1. Init => TemplatesInv
  BY TemplatesInitIInv DEF Init, TemplatesInv
<1>2. TemplatesInv /\ [Next]_vars => TemplatesInv'
  <2>1. SUFFICES ASSUME TemplatesInv, [Next]_vars, focus' = "templates" PROVE TemplatesIInv'
    BY DEF TemplatesInv
  <2>2. focus = "templates"
    BY <2>1 DEF Next, vars
  <2>3. Templates!Next \/ UNCHANGED Templates!vars
    BY <2>1, <2>2 DEF Next, vars, Templates!vars, F4, F5, F6, F7
  <2>4. QED
    BY <2>1, <2>2, <2>3, TemplatesNextIInv DEF TemplatesInv
<1>3. QED
  BY <1>1, <1>2, PTL DEF Spec

\* What is mailed to a contact has no placeholder of the template's or the facts' left,
\* all its facts and the opt-out line, whatever the texts and the facts are and whenever
\* a template is edited; the opt-out line itself may bring a placeholder in or be blank.
THEOREM MailsArePersonal ==
  ASSUME Templates!TemplatesAssumption
  PROVE  Spec => []MailedIsPersonal
<1>1. TemplatesInv => MailedIsPersonal
  BY DEF TemplatesInv, TemplatesIInv, MailedIsPersonal
<1>2. QED
  BY <1>1, TemplatesInductive, PTL

-----------------------------------------------------------------------------
(* Polls of the mailboxes                                                    *)

MailboxInv == focus = "mailbox" => MailboxIInv

LEMMA MailboxInductive ==
  ASSUME Mailbox!MailboxAssumption
  PROVE  Spec => []MailboxInv
<1>1. Init => MailboxInv
  BY MailboxInitIInv DEF Init, MailboxInv
<1>2. MailboxInv /\ [Next]_vars => MailboxInv'
  <2>1. SUFFICES ASSUME MailboxInv, [Next]_vars, focus' = "mailbox" PROVE MailboxIInv'
    BY DEF MailboxInv
  <2>2. focus = "mailbox"
    BY <2>1 DEF Next, vars
  <2>3. Mailbox!Next \/ UNCHANGED Mailbox!vars
    BY <2>1, <2>2 DEF Next, vars, Mailbox!vars, F4, F5, F6, F7, F8, F9, F10, F11, F12
  <2>4. QED
    BY <2>1, <2>2, <2>3, MailboxNextIInv DEF MailboxInv
<1>3. QED
  BY <1>1, <1>2, PTL DEF Spec

\* A notice is recorded against a message to its recipient, and against the one it quotes
\* while that one's row is there, whatever its parts lack and whatever else was sent.
THEOREM NoticesHit ==
  ASSUME Mailbox!MailboxAssumption
  PROVE  Spec => []NoticeHitsItsMessage
<1>1. MailboxInv => NoticeHitsItsMessage
  BY MailboxIInvHits DEF MailboxInv, NoticeHitsItsMessage
<1>2. QED
  BY <1>1, MailboxInductive, PTL

\* A permanent bounce is recorded once and stays with its message's row, through polls
\* that list its notice again, are rolled back or run beside the search for replies, but
\* for the messages whose rows that search had read before.
THEOREM BouncesStand ==
  ASSUME Mailbox!MailboxAssumption
  PROVE  Spec => []BounceStands
<1>1. MailboxInv => BounceStands
  BY MailboxIInvBounce DEF MailboxInv, BounceStands
<1>2. QED
  BY <1>1, MailboxInductive, PTL

-----------------------------------------------------------------------------
(* The sheet                                                                 *)

\* The sheet's variables in the pool.
tab == s1
source == s2
sheet == s3
map == s4
events == s5
pc == s6
flushes == s7
torn == s8
written == s9
notes == s10
died == s11

USE DEF tab, source, sheet, map, events, pc, flushes, torn, written, notes, died

SheetPhases == {"update", "delete", "append", "commit"}

SheetLine == [key : RowKeys, val : Nat, note : RowKeys \cup {NoNote}]

SheetTypeOK ==
  /\ pc \in [Flushers -> SheetPhases \cup {"idle"}] /\ flushes = [w \in Flushers |-> flushes[w]]
  /\ source \in [RowKeys -> Nat] /\ written \in Nat

\* One row for each key, and the notes in their leads' rows.
SheetRowsOK(s) ==
  /\ s \in Seq(SheetLine)
  /\ \A i, j \in DOMAIN s : s[i].key = s[j].key => i = j
  /\ \A i \in DOMAIN s : s[i].note \in {NoNote, s[i].key}

\* The map knows the row of every key in the sheet, and what it last wrote there.
SheetMapped(m, s) ==
  /\ \A k \in DOMAIN m :
       /\ m[k] = [row |-> m[k].row, hash |-> m[k].hash]
       /\ m[k].row \in DOMAIN s /\ s[m[k].row].key = k
       /\ m[k].hash # 0 => s[m[k].row].val = m[k].hash
  /\ \A i \in DOMAIN s : s[i].key \in DOMAIN m

SheetPlanOK(p) ==
  /\ p = [rows |-> p.rows, known |-> p.known, seeded |-> p.seeded, drained |-> p.drained,
          wrote |-> p.wrote, update |-> p.update, delete |-> p.delete, append |-> p.append]
  /\ p.rows \in [RowKeys -> Nat] /\ p.wrote \in BOOLEAN

\* What is left to do in a phase, and what is done; what follows a map that was found
\* again in the sheet is not shown to be complete.
SheetPhaseOK(p, phase, s) ==
  LET listed == Sheet!Listed(p.rows)
  IN  /\ phase = "update" =>
           /\ p.update = {k \in listed \cap DOMAIN p.known : p.known[k].hash # p.rows[k]}
           /\ p.seeded => \A k \in DOMAIN p.known : p.known[k].hash = 0
      /\ phase \in {"update", "delete"} =>
           p.delete = IF p.seeded THEN {} ELSE DOMAIN p.known \ listed
      /\ phase # "commit" => p.append = listed \ DOMAIN p.known
      /\ phase = "append" /\ ~ p.seeded => DOMAIN p.known \subseteq listed
      /\ phase = "commit" /\ ~ p.seeded => DOMAIN p.known = listed
      /\ phase # "update" /\ ~ p.seeded =>
           \A k \in listed \cap DOMAIN p.known : s[p.known[k].row].val = p.rows[k]

SheetPlanRight(p, phase, s) ==
  SheetPlanOK(p) /\ SheetMapped(p.known, s) /\ SheetPhaseOK(p, phase, s)

SheetMapOK ==
  (\A w \in Flushers : pc[w] # "idle" => ~ flushes[w].wrote) /\ map # Sheet!Empty
    => SheetMapped(map, sheet)

\* Nobody but w is at work on the tab.
SheetAlone(w) == \A v \in Flushers \ {w} : pc[v] = "idle"

SheetIInv ==
  /\ SheetTypeOK
  /\ ~ torn => /\ SheetRowsOK(sheet) /\ SheetMapOK
               /\ \A w \in Flushers : pc[w] # "idle" => SheetAlone(w)
               /\ \A w \in Flushers : pc[w] # "idle" => SheetPlanRight(flushes[w], pc[w], sheet)

-----------------------------------------------------------------------------
(* Deleting rows                                                             *)

LEMMA SheetCardinality ==
  ASSUME NEW S
  PROVE  Sheet!Cardinality(S) = Cardinality(S)
BY DEF Sheet!Cardinality, Cardinality

LEMMA SheetRank ==
  ASSUME NEW n \in Nat, NEW gone \in SUBSET (1 .. n), NEW r \in (1 .. n) \ gone
  PROVE  Cardinality({m \in (1 .. n) \ gone : m <= r}) = Sheet!Remap(r, gone)
<1>1. PICK A : A = {m \in (1 .. n) \ gone : m <= r}
  OBVIOUS
<1>2. PICK B : B = {g \in gone : g < r}
  OBVIOUS
<1>3. A \cup B = 1 .. r /\ A \cap B = {}
  <2>1. \A m \in 1 .. n : m \in A <=> m \notin gone /\ m <= r
    BY <1>1
  <2>2. \A m \in 1 .. n : m \in B <=> m \in gone /\ m < r
    BY <1>2
  <2>3. A \subseteq 1 .. n /\ B \subseteq 1 .. n /\ r \in 1 .. n /\ r \notin gone
    BY <1>1, <1>2
  <2>4. \A m \in 1 .. n : m \in A \cup B <=> m <= r
    BY <2>1, <2>2, <2>3
  <2>5. A \cup B = 1 .. r
    <3>1. \A m \in 1 .. n : m \in 1 .. r <=> m <= r
      BY <2>3
    <3>2. 1 .. r \subseteq 1 .. n
      BY <2>3
    <3>3. QED
      BY <2>3, <2>4, <3>1, <3>2
  <2>6. QED
    BY <2>1, <2>2, <2>3, <2>5
<1>4. IsFiniteSet(1 .. r) /\ Cardinality(1 .. r) = r
  BY FS_Interval
<1>5. IsFiniteSet(A) /\ IsFiniteSet(B)
  BY <1>3, <1>4, FS_Subset
<1>6. Cardinality(A) \in Nat /\ Cardinality(B) \in Nat /\ Cardinality({}) = 0
  BY <1>5, FS_CardinalityType, FS_EmptySet
<1>7. r = Cardinality(A) + Cardinality(B)
  <2>1. Cardinality(A \cup B) = Cardinality(A) + Cardinality(B) - Cardinality(A \cap B)
    BY <1>5, FS_Union
  <2>2. Cardinality(A \cup B) = r /\ Cardinality(A \cap B) = 0
    BY <1>3, <1>4, <1>6
  <2>3. QED
    BY <1>6, <2>1, <2>2
<1>8. Sheet!Remap(r, gone) = r - Cardinality(B)
  BY <1>2, SheetCardinality DEF Sheet!Remap
<1>9. Cardinality(A) = Sheet!Remap(r, gone)
  BY <1>6, <1>7, <1>8
<1>10. QED
  BY <1>1, <1>9

SheetKeeps(rows, gone, n, s, c) ==
  /\ DOMAIN s = 1 .. c
  /\ \A r \in (1 .. n) \ gone : Sheet!Remap(r, gone) \in 1 .. c /\ s[Sheet!Remap(r, gone)] = rows[r]
  /\ \A r, q \in (1 .. n) \ gone : Sheet!Remap(r, gone) = Sheet!Remap(q, gone) => r = q
  /\ \A i \in 1 .. c : \E r \in (1 .. n) \ gone : Sheet!Remap(r, gone) = i

LEMMA SheetWithout ==
  ASSUME NEW n \in Nat, NEW rows, DOMAIN rows = 1 .. n, NEW gone \in SUBSET (1 .. n)
  PROVE  \E c \in Nat : SheetKeeps(rows, gone, n, Sheet!Without(rows, gone), c)
<1>1. PICK kept \in SUBSET (1 .. n) : kept = (1 .. n) \ gone
  OBVIOUS
<1>2. PICK c \in Nat : c = Cardinality(kept)
  BY Ranks
<1> DEFINE rank(r) == Sheet!Cardinality({m \in kept : m <= r})
<1>3. /\ \A r \in kept : rank(r) \in 1 .. c
      /\ \A r, q \in kept : r < q => rank(r) < rank(q)
      /\ \A i \in 1 .. c : \E r \in kept : rank(r) = i
  <2>1. /\ \A r \in kept : Cardinality({m \in kept : m <= r}) \in 1 .. c
        /\ \A r, q \in kept : r < q =>
             Cardinality({m \in kept : m <= r}) < Cardinality({m \in kept : m <= q})
        /\ \A i \in 1 .. c : \E r \in kept : Cardinality({m \in kept : m <= r}) = i
    BY <1>2, Ranks
  <2>2. QED
    BY <2>1, SheetCardinality
<1>4. \A r \in kept : rank(r) = Sheet!Remap(r, gone)
  BY <1>1, SheetRank, SheetCardinality
<1>5. PICK s : s = Sheet!Without(rows, gone)
  OBVIOUS
<1>6. s = [i \in 1 .. c |-> rows[CHOOSE r \in kept : rank(r) = i]]
  <2>1. kept = DOMAIN rows \ gone /\ c = Sheet!Cardinality(kept)
    BY <1>1, <1>2, SheetCardinality
  <2>2. QED
    BY <1>5, <2>1 DEF Sheet!Without
<1>7. \A r \in kept : r \in Int
  OBVIOUS
<1> HIDE DEF rank
<1>8. \A r, q \in kept : rank(r) = rank(q) => r = q
  <2>1. SUFFICES ASSUME NEW r \in kept, NEW q \in kept, rank(r) = rank(q), r # q PROVE FALSE
    OBVIOUS
  <2>2. r < q \/ q < r
    BY <1>7, <2>1
  <2>3. rank(r) \in 1 .. c /\ rank(q) \in 1 .. c /\ (rank(r) < rank(q) \/ rank(q) < rank(r))
    BY <1>3, <2>2
  <2>4. QED
    BY <2>1, <2>3
<1>9. ASSUME NEW r \in kept PROVE s[rank(r)] = rows[r]
  <2>1. rank(r) \in 1 .. c
    BY <1>3
  <2>2. (CHOOSE q \in kept : rank(q) = rank(r)) = r
    BY <1>8
  <2>3. QED
    BY <1>6, <2>1, <2>2
<1>10. DOMAIN s = 1 .. c
  BY <1>6
<1>11. SheetKeeps(rows, gone, n, s, c)
  BY <1>1, <1>3, <1>4, <1>8, <1>9, <1>10 DEF SheetKeeps
<1>12. QED
  BY <1>5, <1>11

\* What Delete makes of the sheet's rows s and of the map m.
SheetDeletes(s, m, d, gone, rest, shifted) ==
  /\ gone = {m[k].row : k \in d}
  /\ rest = Sheet!Without(s, gone)
  /\ shifted = [k \in DOMAIN m \ d |->
                [m[k] EXCEPT !.row = IF m[k].row <= Len(s) THEN Sheet!Remap(m[k].row, gone)
                                     ELSE m[k].row]]

\* The rows and the map fit after it, and the remaining rows are as they were.
SheetStays(s, m, d, rest, shifted) ==
  /\ SheetRowsOK(rest) /\ SheetMapped(shifted, rest) /\ DOMAIN shifted = DOMAIN m \ d
  /\ \A k \in DOMAIN shifted : rest[shifted[k].row] = s[m[k].row] /\ shifted[k].hash = m[k].hash

LEMMA SheetDeleted ==
  ASSUME NEW s, NEW m, NEW d \in SUBSET DOMAIN m, SheetRowsOK(s), SheetMapped(m, s),
         NEW gone, NEW rest, NEW shifted, SheetDeletes(s, m, d, gone, rest, shifted)
  PROVE  SheetStays(s, m, d, rest, shifted)
<1>0. /\ gone = {m[k].row : k \in d}
      /\ rest = Sheet!Without(s, gone)
      /\ shifted = [k \in DOMAIN m \ d |->
                    [m[k] EXCEPT !.row = IF m[k].row <= Len(s) THEN Sheet!Remap(m[k].row, gone)
                                         ELSE m[k].row]]
  BY DEF SheetDeletes
<1>1. PICK n \in Nat : n = Len(s) /\ DOMAIN s = 1 .. n
  BY DEF SheetRowsOK
<1>2. \A k \in DOMAIN m : m[k].row \in 1 .. n /\ s[m[k].row].key = k
  BY <1>1 DEF SheetMapped
<1>3. gone \in SUBSET (1 .. n)
  BY <1>0, <1>2
<1>4. PICK c \in Nat : SheetKeeps(s, gone, n, rest, c)
  BY <1>0, <1>1, <1>3, SheetWithout
<1>5. \A k \in DOMAIN m \ d : m[k].row \in (1 .. n) \ gone
  BY <1>0, <1>2
<1>6. ASSUME NEW k \in DOMAIN m \ d
      PROVE  /\ shifted[k] = [row |-> Sheet!Remap(m[k].row, gone), hash |-> m[k].hash]
             /\ Sheet!Remap(m[k].row, gone) \in 1 .. c
             /\ rest[Sheet!Remap(m[k].row, gone)] = s[m[k].row]
  <2>1. PICK r \in (1 .. n) \ gone : r = m[k].row
    BY <1>5
  <2>2. r <= Len(s)
    BY <1>1
  <2>3. PICK h : m[k] = [row |-> r, hash |-> h]
    BY <2>1 DEF SheetMapped
  <2>4. shifted[k] = [m[k] EXCEPT !.row = Sheet!Remap(r, gone)]
    BY <1>0, <2>1, <2>2
  <2>5. shifted[k] = [row |-> Sheet!Remap(r, gone), hash |-> h]
    BY <2>3, <2>4
  <2>6. QED
    BY <1>4, <2>1, <2>3, <2>5 DEF SheetKeeps
<1>7. DOMAIN shifted = DOMAIN m \ d /\ DOMAIN rest = 1 .. c
  BY <1>0, <1>4 DEF SheetKeeps
<1>8. ASSUME NEW i \in 1 .. c
      PROVE  \E r \in (1 .. n) \ gone : Sheet!Remap(r, gone) = i /\ rest[i] = s[r]
  <2>1. PICK r \in (1 .. n) \ gone : Sheet!Remap(r, gone) = i
    BY <1>4 DEF SheetKeeps
  <2>2. rest[Sheet!Remap(r, gone)] = s[r]
    BY <1>4 DEF SheetKeeps
  <2>3. QED
    BY <2>1, <2>2
<1>9. SheetRowsOK(rest)
  <2>1. \A i \in 1 .. c : rest[i] \in SheetLine /\ rest[i].note \in {NoNote, rest[i].key}
    <3>1. TAKE i \in 1 .. c
    <3>2. PICK r \in (1 .. n) \ gone : rest[i] = s[r]
      BY <1>8
    <3>3. QED
      BY <1>1, <3>2 DEF SheetRowsOK
  <2>2. rest \in Seq(SheetLine)
    <3>1. rest = [i \in 1 .. c |-> rest[i]]
      <4>1. \E T, f : rest = [i \in T |-> f[i]]
        <5>1. PICK g : g = [i \in 1 .. Sheet!Cardinality(DOMAIN s \ gone) |-> rest[i]]
          OBVIOUS
        <5>2. rest = g
          BY <1>0, <5>1 DEF Sheet!Without
        <5>3. QED
          BY <5>1, <5>2
      <4>2. QED
        BY <1>7, <4>1
    <3>2. QED
      BY <2>1, <3>1
  <2>3. ASSUME NEW i \in 1 .. c, NEW j \in 1 .. c, rest[i].key = rest[j].key PROVE i = j
    <3>1. PICK r \in (1 .. n) \ gone : Sheet!Remap(r, gone) = i /\ rest[i] = s[r]
      BY <1>8
    <3>2. PICK q \in (1 .. n) \ gone : Sheet!Remap(q, gone) = j /\ rest[j] = s[q]
      BY <1>8
    <3>3. r = q
      BY <1>1, <2>3, <3>1, <3>2 DEF SheetRowsOK
    <3>4. QED
      BY <3>1, <3>2, <3>3
  <2>4. QED
    BY <1>7, <2>1, <2>2, <2>3 DEF SheetRowsOK
<1>10. SheetMapped(shifted, rest)
  <2>1. ASSUME NEW k \in DOMAIN shifted
        PROVE  /\ shifted[k] = [row |-> shifted[k].row, hash |-> shifted[k].hash]
               /\ shifted[k].row \in DOMAIN rest /\ rest[shifted[k].row].key = k
               /\ shifted[k].hash # 0 => rest[shifted[k].row].val = shifted[k].hash
    <3>1. k \in DOMAIN m \ d
      BY <1>7
    <3>2. PICK r : r = Sheet!Remap(m[k].row, gone)
      OBVIOUS
    <3>3. shifted[k] = [row |-> r, hash |-> m[k].hash] /\ r \in 1 .. c /\ rest[r] = s[m[k].row]
      BY <1>6, <3>1, <3>2
    <3>4. s[m[k].row].key = k /\ (m[k].hash # 0 => s[m[k].row].val = m[k].hash)
      BY <3>1 DEF SheetMapped
    <3>5. QED
      BY <1>7, <3>3, <3>4
  <2>2. ASSUME NEW i \in DOMAIN rest PROVE rest[i].key \in DOMAIN shifted
    <3>1. PICK r \in (1 .. n) \ gone : rest[i] = s[r]
      BY <1>7, <1>8
    <3>2. PICK k \in DOMAIN m : s[r].key = k
      BY <1>1, <3>1 DEF SheetMapped
    <3>3. m[k].row = r
      BY <1>1, <1>2, <3>1, <3>2 DEF SheetRowsOK
    <3>4. k \notin d
      BY <1>0, <3>1, <3>3
    <3>5. QED
      BY <1>7, <3>1, <3>2, <3>4
  <2>3. QED
    BY <2>1, <2>2 DEF SheetMapped
<1>11. QED
  <2>1. ASSUME NEW k \in DOMAIN shifted
        PROVE  rest[shifted[k].row] = s[m[k].row] /\ shifted[k].hash = m[k].hash
    <3>1. PICK r : r = Sheet!Remap(m[k].row, gone)
      OBVIOUS
    <3>2. shifted[k] = [row |-> r, hash |-> m[k].hash] /\ rest[r] = s[m[k].row]
      BY <1>6, <1>7, <3>1
    <3>3. QED
      BY <3>2
  <2>2. QED
    BY <1>7, <1>9, <1>10, <2>1 DEF SheetStays

\* Nothing deleted.
LEMMA SheetWhole ==
  ASSUME NEW s, SheetRowsOK(s)
  PROVE  Sheet!Without(s, {}) = s
<1>1. PICK n \in Nat : n = Len(s) /\ DOMAIN s = 1 .. n /\ s = [i \in 1 .. n |-> s[i]]
  BY DEF SheetRowsOK
<1>2. PICK rest : rest = Sheet!Without(s, {})
  OBVIOUS
<1>3. PICK c \in Nat : SheetKeeps(s, {}, n, rest, c)
  BY <1>1, <1>2, SheetWithout
<1>4. \A r \in 1 .. n : Sheet!Remap(r, {}) = r
  <2>1. TAKE r \in 1 .. n
  <2>2. {g \in {} : g < r} = {}
    OBVIOUS
  <2>3. Sheet!Cardinality({}) = 0
    BY SheetCardinality, FS_EmptySet
  <2>4. QED
    BY <2>2, <2>3 DEF Sheet!Remap
<1>5. \A r \in 1 .. n : r \in 1 .. c /\ rest[r] = s[r]
  BY <1>3, <1>4 DEF SheetKeeps
<1>6. \A i \in 1 .. c : i \in 1 .. n
  BY <1>3, <1>4 DEF SheetKeeps
<1>7. DOMAIN rest = 1 .. n
  BY <1>3, <1>5, <1>6 DEF SheetKeeps
<1>8. \E T, f : rest = [i \in T |-> f[i]]
  <2>1. PICK g : g = [i \in 1 .. Sheet!Cardinality(DOMAIN s \ {}) |-> rest[i]]
    OBVIOUS
  <2>2. rest = g
    BY <1>2, <2>1 DEF Sheet!Without
  <2>3. QED
    BY <2>1, <2>2
<1>9. QED
  BY <1>1, <1>2, <1>5, <1>7, <1>8

-----------------------------------------------------------------------------
(* Appending and updating rows                                               *)

SheetLists(news, S, c) ==
  /\ news \in [1 .. c -> S]
  /\ \A i, j \in 1 .. c : news[i] = news[j] => i = j
  /\ \A x \in S : \E i \in 1 .. c : news[i] = x

LEMMA SheetToSeq ==
  ASSUME NEW S, IsFiniteSet(S), NEW news, news = Sheet!SetToSeq(S)
  PROVE  \E c \in Nat : SheetLists(news, S, c)
<1>1. PICK c \in Nat : c = Cardinality(S) /\ ExistsBijection(1 .. c, S)
  BY FS_CardinalityType
<1>2. PICK f \in Bijection(1 .. c, S) : TRUE
  BY <1>1 DEF ExistsBijection
<1>3. f \in [1 .. c -> S] /\ \A i, j \in 1 .. c : f[i] = f[j] => i = j
  BY <1>2 DEF Bijection, Injection, IsInjective
<1>4. news = CHOOSE g \in [1 .. c -> S] : Sheet!IsInjective(g)
  BY <1>1, SheetCardinality DEF Sheet!SetToSeq
<1>5. \E g \in [1 .. c -> S] : Sheet!IsInjective(g)
  BY <1>3 DEF Sheet!IsInjective
<1>6. news \in [1 .. c -> S] /\ Sheet!IsInjective(news)
  BY <1>4, <1>5
<1>7. \A i, j \in 1 .. c : news[i] = news[j] => i = j
  BY <1>6 DEF Sheet!IsInjective
<1>8. news \in Injection(1 .. c, S)
  BY <1>6, <1>7 DEF Injection, IsInjective
<1>9. news \in Surjection(1 .. c, S)
  <2>1. IsFiniteSet(1 .. c) /\ Cardinality(1 .. c) = c
    BY FS_Interval
  <2>2. QED
    BY <1>1, <1>8, <2>1, FS_Injection
<1>10. \A x \in S : \E i \in 1 .. c : news[i] = x
  BY <1>9 DEF Surjection
<1>11. QED
  BY <1>6, <1>7, <1>10 DEF SheetLists

\* What AppendRows makes of the sheet's rows s and of the map m.
SheetAppends(s, m, a, vals, news, whole, wider) ==
  /\ news = Sheet!SetToSeq(a)
  /\ whole = s \o [i \in DOMAIN news |-> [key |-> news[i], val |-> vals[news[i]], note |-> NoNote]]
  /\ wider = [k \in DOMAIN m \cup a |->
                IF k \in a THEN [row |-> Len(s) + (CHOOSE i \in DOMAIN news : news[i] = k),
                                 hash |-> vals[k]]
                ELSE m[k]]

\* The rows and the map fit after it, with what was there and with the values added.
SheetGrows(s, m, a, vals, whole, wider) ==
  /\ SheetRowsOK(whole) /\ SheetMapped(wider, whole) /\ DOMAIN wider = DOMAIN m \cup a
  /\ \A k \in a : whole[wider[k].row].val = vals[k]
  /\ \A k \in DOMAIN m : wider[k] = m[k] /\ whole[m[k].row] = s[m[k].row]

LEMMA SheetAppended ==
  ASSUME NEW s, NEW m, NEW a \in SUBSET RowKeys, NEW vals \in [RowKeys -> Nat],
         SheetRowsOK(s), SheetMapped(m, s), a \cap DOMAIN m = {}, IsFiniteSet(RowKeys),
         NEW news, NEW whole, NEW wider, SheetAppends(s, m, a, vals, news, whole, wider)
  PROVE  SheetGrows(s, m, a, vals, whole, wider) /\ (news = <<>> => whole = s)
<1>1. PICK n \in Nat : n = Len(s) /\ DOMAIN s = 1 .. n
  BY DEF SheetRowsOK
<1>0. PICK c \in Nat : SheetLists(news, a, c)
  <2>1. IsFiniteSet(a)
    BY FS_Subset
  <2>2. news = Sheet!SetToSeq(a)
    BY DEF SheetAppends
  <2>3. QED
    BY <2>1, <2>2, SheetToSeq
<1>2. /\ news \in [1 .. c -> a]
      /\ \A i, j \in 1 .. c : news[i] = news[j] => i = j
      /\ \A x \in a : \E i \in 1 .. c : news[i] = x
  BY <1>0 DEF SheetLists
<1>3. PICK added :
        added = [i \in 1 .. c |-> [key |-> news[i], val |-> vals[news[i]], note |-> NoNote]]
  OBVIOUS
<1>4. /\ added \in Seq(SheetLine) /\ Len(added) = c
      /\ \A i \in 1 .. c : /\ added[i].key = news[i] /\ added[i].val = vals[news[i]]
                           /\ added[i].note = NoNote
  <2>1. \A i \in 1 .. c : news[i] \in RowKeys /\ vals[news[i]] \in Nat
    BY <1>2
  <2>2. \A i \in 1 .. c : added[i] \in SheetLine
    BY <1>3, <2>1 DEF SheetLine
  <2>3. QED
    BY <1>3, <2>2
<1>5. whole = s \o added
  <2>1. DOMAIN news = 1 .. c
    BY <1>2
  <2>2. QED
    BY <1>3, <2>1 DEF SheetAppends
<1>6. /\ whole \in Seq(SheetLine) /\ DOMAIN whole = 1 .. n + c
      /\ \A i \in 1 .. n : whole[i] = s[i]
      /\ \A i \in 1 .. c : whole[n + i] = added[i]
  <2>1. s \in Seq(SheetLine)
    BY DEF SheetRowsOK
  <2>2. /\ whole \in Seq(SheetLine) /\ Len(whole) = n + c
        /\ \A i \in 1 .. n + c : whole[i] = IF i <= n THEN s[i] ELSE added[i - n]
    <3>1. /\ s \o added \in Seq(SheetLine) /\ Len(s \o added) = Len(s) + Len(added)
          /\ \A i \in 1 .. Len(s) + Len(added) :
               (s \o added)[i] = IF i <= Len(s) THEN s[i] ELSE added[i - Len(s)]
      BY <1>4, <2>1, ConcatProperties
    <3>2. QED
      BY <1>1, <1>4, <1>5, <3>1
  <2>3. \A i \in 1 .. n : i \in 1 .. n + c /\ i <= n
    OBVIOUS
  <2>4. \A i \in 1 .. c : n + i \in 1 .. n + c /\ ~ (n + i <= n) /\ n + i - n = i
    OBVIOUS
  <2>5. QED
    BY <2>2, <2>3, <2>4
<1>7. \A i \in 1 .. n + c : i \in 1 .. n \/ \E o \in 1 .. c : i = n + o
  <2>1. TAKE i \in 1 .. n + c
  <2>2. CASE i <= n
    BY <2>2
  <2>3. CASE i > n
    <3>1. i - n \in 1 .. c /\ i = n + (i - n)
      BY <2>3
    <3>2. QED
      BY <3>1
  <2>4. QED
    BY <2>2, <2>3
<1>8. \A i \in 1 .. n : s[i].key \in DOMAIN m
  BY <1>1 DEF SheetMapped
<1>9. SheetRowsOK(whole)
  <2>1. ASSUME NEW i \in 1 .. n + c, NEW j \in 1 .. n + c, whole[i].key = whole[j].key PROVE i = j
    <3>1. CASE i \in 1 .. n /\ j \in 1 .. n
      BY <1>1, <1>6, <2>1, <3>1 DEF SheetRowsOK
    <3>2. CASE i \notin 1 .. n /\ j \notin 1 .. n
      <4>1. PICK o \in 1 .. c : i = n + o
        BY <1>7, <3>2
      <4>2. PICK u \in 1 .. c : j = n + u
        BY <1>7, <3>2
      <4>3. news[o] = news[u]
        BY <1>4, <1>6, <2>1, <4>1, <4>2
      <4>4. QED
        BY <1>2, <4>1, <4>2, <4>3
    <3>3. ASSUME NEW x \in 1 .. n, NEW y \in 1 .. c PROVE whole[x].key # whole[n + y].key
      <4>1. whole[x].key \in DOMAIN m /\ whole[n + y].key = news[y] /\ news[y] \in a
        BY <1>2, <1>4, <1>6, <1>8
      <4>2. QED
        BY <4>1
    <3>4. CASE i \in 1 .. n /\ j \notin 1 .. n
      BY <1>7, <2>1, <3>3, <3>4
    <3>5. CASE i \notin 1 .. n /\ j \in 1 .. n
      BY <1>7, <2>1, <3>3, <3>5
    <3>6. QED
      BY <3>1, <3>2, <3>4, <3>5
  <2>2. ASSUME NEW i \in 1 .. n + c PROVE whole[i].note \in {NoNote, whole[i].key}
    <3>1. CASE i \in 1 .. n
      BY <1>1, <1>6, <3>1 DEF SheetRowsOK
    <3>2. CASE i \notin 1 .. n
      <4>1. PICK o \in 1 .. c : i = n + o
        BY <1>7, <3>2
      <4>2. QED
        BY <1>4, <1>6, <4>1
    <3>3. QED
      BY <3>1, <3>2
  <2>3. QED
    BY <1>6, <2>1, <2>2 DEF SheetRowsOK
<1>10. ASSUME NEW k \in a
       PROVE  \E i \in 1 .. c : wider[k] = [row |-> n + i, hash |-> vals[k]] /\ news[i] = k
  <2>1. PICK i : i = CHOOSE o \in 1 .. c : news[o] = k
    OBVIOUS
  <2>2. i \in 1 .. c /\ news[i] = k
    BY <1>2, <2>1
  <2>3. DOMAIN news = 1 .. c
    BY <1>2
  <2>4. wider[k] = [row |-> n + i, hash |-> vals[k]]
    BY <1>1, <2>1, <2>3 DEF SheetAppends
  <2>5. QED
    BY <2>2, <2>4
<1>11. DOMAIN wider = DOMAIN m \cup a /\ \A k \in DOMAIN m : wider[k] = m[k]
  BY DEF SheetAppends
<1>12. \A k \in DOMAIN m : m[k].row \in 1 .. n /\ whole[m[k].row] = s[m[k].row]
  BY <1>1, <1>6 DEF SheetMapped
<1>13. ASSUME NEW k \in a
       PROVE  /\ wider[k] = [row |-> wider[k].row, hash |-> wider[k].hash]
              /\ wider[k].row \in DOMAIN whole /\ whole[wider[k].row].key = k
              /\ whole[wider[k].row].val = vals[k] /\ wider[k].hash = vals[k]
  <2>1. PICK i \in 1 .. c : wider[k] = [row |-> n + i, hash |-> vals[k]] /\ news[i] = k
    BY <1>10
  <2>2. n + i \in 1 .. n + c /\ whole[n + i].key = k /\ whole[n + i].val = vals[k]
    BY <1>4, <1>6, <2>1
  <2>3. QED
    BY <1>6, <2>1, <2>2
<1>14. SheetMapped(wider, whole)
  <2>1. ASSUME NEW k \in DOMAIN wider
        PROVE  /\ wider[k] = [row |-> wider[k].row, hash |-> wider[k].hash]
               /\ wider[k].row \in DOMAIN whole /\ whole[wider[k].row].key = k
               /\ wider[k].hash # 0 => whole[wider[k].row].val = wider[k].hash
    <3>1. CASE k \in a
      BY <1>13, <3>1
    <3>2. CASE k \notin a
      <4>1. k \in DOMAIN m /\ wider[k] = m[k]
        BY <1>11, <3>2
      <4>2. m[k].row \in 1 .. n + c /\ whole[m[k].row] = s[m[k].row]
        BY <1>12, <4>1
      <4>3. QED
        BY <1>6, <4>1, <4>2 DEF SheetMapped
    <3>3. QED
      BY <3>1, <3>2
  <2>2. ASSUME NEW i \in 1 .. n + c PROVE whole[i].key \in DOMAIN wider
    <3>1. CASE i \in 1 .. n
      BY <1>6, <1>8, <1>11, <3>1
    <3>2. CASE i \notin 1 .. n
      <4>1. PICK o \in 1 .. c : i = n + o
        BY <1>7, <3>2
      <4>2. QED
        BY <1>2, <1>4, <1>6, <1>11, <4>1
    <3>3. QED
      BY <3>1, <3>2
  <2>3. QED
    BY <1>6, <2>1, <2>2 DEF SheetMapped
<1>15. news = <<>> => whole = s
  <2>1. HAVE news = <<>>
  <2>2. s \in Seq(SheetLine)
    BY DEF SheetRowsOK
  <2>3. c = 0
    <3>1. DOMAIN news = {} /\ DOMAIN news = 1 .. c
      BY <1>2, <2>1
    <3>2. QED
      BY <3>1
  <2>4. added = <<>>
    BY <1>4, <2>3
  <2>5. QED
    BY <1>5, <2>2, <2>4
<1>16. QED
  BY <1>9, <1>11, <1>12, <1>13, <1>14, <1>15 DEF SheetGrows

\* What Update makes of the sheet's rows s and of the map m.
SheetUpdates(s, m, u, vals, hash, shown, noted) ==
  /\ shown = [i \in DOMAIN s |->
                IF {k \in u : m[k].row = i} = {} THEN s[i]
                ELSE LET k == CHOOSE k \in {k \in u : m[k].row = i} : TRUE
                     IN  [s[i] EXCEPT !.key = k, !.val = vals[k]]]
  /\ noted = [k \in DOMAIN m |-> [row |-> m[k].row, hash |-> hash[k]]]
  /\ \A k \in u : hash[k] \in {vals[k], 0}
  /\ \A k \in DOMAIN m \ u : hash[k] = m[k].hash

LEMMA SheetUpdated ==
  ASSUME NEW s, NEW m, NEW u \in SUBSET DOMAIN m, NEW vals \in [RowKeys -> Nat],
         SheetRowsOK(s), SheetMapped(m, s),
         NEW hash, NEW shown, NEW noted, SheetUpdates(s, m, u, vals, hash, shown, noted)
  PROVE  /\ SheetRowsOK(shown) /\ SheetMapped(noted, shown) /\ DOMAIN noted = DOMAIN m
         /\ \A k \in u : shown[noted[k].row].val = vals[k]
         /\ \A k \in DOMAIN m \ u : noted[k] = m[k] /\ shown[m[k].row] = s[m[k].row]
         /\ u = {} => shown = s
<1>1. PICK n \in Nat : n = Len(s) /\ DOMAIN s = 1 .. n /\ s = [i \in 1 .. n |-> s[i]]
  BY DEF SheetRowsOK
<1>2. /\ \A i \in 1 .. n : /\ s[i] = [key |-> s[i].key, val |-> s[i].val, note |-> s[i].note]
                           /\ s[i] \in SheetLine
      /\ \A i, j \in 1 .. n : s[i].key = s[j].key => i = j
      /\ \A i \in 1 .. n : s[i].note \in {NoNote, s[i].key}
  <2>1. \A i \in 1 .. n : s[i] \in SheetLine
    BY <1>1 DEF SheetRowsOK
  <2>2. \A l \in SheetLine : l = [key |-> l.key, val |-> l.val, note |-> l.note]
    BY DEF SheetLine
  <2>3. QED
    BY <1>1, <2>1, <2>2 DEF SheetRowsOK
<1>3. \A k \in DOMAIN m : m[k].row \in 1 .. n /\ s[m[k].row].key = k
  BY <1>1 DEF SheetMapped
<1>4. DOMAIN shown = 1 .. n /\ DOMAIN noted = DOMAIN m
  BY <1>1 DEF SheetUpdates
<1>5. ASSUME NEW i \in 1 .. n, s[i].key \notin u PROVE shown[i] = s[i]
  <2>1. {k \in u : m[k].row = i} = {}
    BY <1>3, <1>5
  <2>2. QED
    BY <1>1, <2>1 DEF SheetUpdates
<1>6. ASSUME NEW i \in 1 .. n, s[i].key \in u
      PROVE  shown[i] = [key |-> s[i].key, val |-> vals[s[i].key], note |-> s[i].note]
  <2>1. PICK key : key = s[i].key
    OBVIOUS
  <2>2. m[key].row = i
    <3>1. key \in DOMAIN m
      BY <1>6, <2>1
    <3>2. QED
      BY <1>2, <1>3, <2>1, <3>1
  <2>3. {k \in u : m[k].row = i} = {key}
    BY <1>3, <1>6, <2>1, <2>2
  <2>4. (CHOOSE k \in {key} : TRUE) = key
    OBVIOUS
  <2>5. PICK val, note : s[i] = [key |-> key, val |-> val, note |-> note]
    BY <1>2, <2>1
  <2>6. shown[i] = [s[i] EXCEPT !.key = key, !.val = vals[key]]
    BY <1>1, <2>3, <2>4 DEF SheetUpdates
  <2>7. QED
    BY <2>1, <2>5, <2>6
<1>7. ASSUME NEW i \in 1 .. n
      PROVE  shown[i].key = s[i].key /\ shown[i].note = s[i].note /\ shown[i] \in SheetLine
  <2>1. CASE s[i].key \in u
    <3>1. s[i].key \in RowKeys /\ s[i].note \in RowKeys \cup {NoNote}
      BY <1>2 DEF SheetLine
    <3>2. vals[s[i].key] \in Nat
      BY <3>1
    <3>3. \A a \in RowKeys, b \in Nat, c \in RowKeys \cup {NoNote} :
             [key |-> a, val |-> b, note |-> c] \in SheetLine
      BY DEF SheetLine
    <3>4. [key |-> s[i].key, val |-> vals[s[i].key], note |-> s[i].note] \in SheetLine
      BY <3>1, <3>2, <3>3
    <3>5. shown[i] = [key |-> s[i].key, val |-> vals[s[i].key], note |-> s[i].note]
      BY <1>6, <2>1
    <3>6. QED
      BY <3>4, <3>5
  <2>2. CASE s[i].key \notin u
    BY <1>2, <1>5, <2>2
  <2>3. QED
    BY <2>1, <2>2
<1>8. SheetRowsOK(shown)
  <2>1. shown \in Seq(SheetLine)
    <3>1. shown = [i \in 1 .. n |-> shown[i]]
      BY <1>1 DEF SheetUpdates
    <3>2. QED
      BY <1>7, <3>1
  <2>2. QED
    BY <1>2, <1>4, <1>7, <2>1 DEF SheetRowsOK
<1>10. ASSUME NEW k \in u
       PROVE  /\ shown[noted[k].row].val = vals[k]
              /\ noted[k] = [row |-> m[k].row, hash |-> hash[k]]
              /\ hash[k] = vals[k] \/ hash[k] = 0
  <2>1. k \in DOMAIN m
    OBVIOUS
  <2>2. PICK i \in 1 .. n : i = m[k].row /\ s[i].key = k
    BY <1>3, <2>1
  <2>3. noted[k] = [row |-> i, hash |-> hash[k]]
    BY <2>1, <2>2 DEF SheetUpdates
  <2>4. shown[i].val = vals[k]
    <3>1. s[i].key \in u
      BY <2>2
    <3>2. shown[i] = [key |-> s[i].key, val |-> vals[s[i].key], note |-> s[i].note]
      BY <1>6, <3>1
    <3>3. QED
      BY <2>2, <3>2
  <2>5. hash[k] = vals[k] \/ hash[k] = 0
    BY DEF SheetUpdates
  <2>6. QED
    BY <2>2, <2>3, <2>4, <2>5
<1>11. ASSUME NEW k \in DOMAIN m \ u
       PROVE  noted[k] = m[k] /\ shown[m[k].row] = s[m[k].row]
  <2>1. PICK i \in 1 .. n : i = m[k].row /\ s[i].key = k
    BY <1>3
  <2>2. noted[k] = [row |-> i, hash |-> m[k].hash]
    BY <2>1 DEF SheetUpdates
  <2>3. m[k] = [row |-> i, hash |-> m[k].hash]
    BY <2>1 DEF SheetMapped
  <2>4. QED
    BY <1>5, <2>1, <2>2, <2>3
<1>12. SheetMapped(noted, shown)
  <2>1. ASSUME NEW k \in DOMAIN m
        PROVE  /\ noted[k] = [row |-> noted[k].row, hash |-> noted[k].hash]
               /\ noted[k].row \in DOMAIN shown /\ shown[noted[k].row].key = k
               /\ noted[k].hash # 0 => shown[noted[k].row].val = noted[k].hash
    <3>1. PICK i \in 1 .. n : i = m[k].row /\ s[i].key = k
      BY <1>3
    <3>2. PICK h : h = hash[k] /\ noted[k] = [row |-> i, hash |-> h]
      BY <3>1 DEF SheetUpdates
    <3>3. shown[i].key = k
      BY <1>7, <3>1
    <3>4. h # 0 => shown[i].val = h
      <4>1. CASE k \in u
        <5>1. shown[noted[k].row].val = vals[k] /\ (hash[k] = vals[k] \/ hash[k] = 0)
          BY <1>10, <4>1
        <5>2. noted[k].row = i
          BY <3>2
        <5>3. QED
          BY <3>2, <5>1, <5>2
      <4>2. CASE k \notin u
        <5>1. noted[k] = m[k] /\ shown[i] = s[i]
          BY <1>11, <3>1, <3>2, <4>2
        <5>2. QED
          BY <3>1, <3>2, <5>1 DEF SheetMapped
      <4>3. QED
        BY <4>1, <4>2
    <3>5. QED
      BY <1>4, <3>2, <3>3, <3>4
  <2>2. \A i \in 1 .. n : shown[i].key \in DOMAIN m
    BY <1>1, <1>7 DEF SheetMapped
  <2>3. QED
    BY <1>4, <2>1, <2>2 DEF SheetMapped
<1>13. u = {} => shown = s
  <2>1. HAVE u = {}
  <2>2. \A i \in 1 .. n : shown[i] = s[i]
    BY <1>5, <2>1
  <2>3. shown = [i \in 1 .. n |-> shown[i]]
    BY <1>1 DEF SheetUpdates
  <2>4. QED
    BY <1>1, <2>2, <2>3
<1>14. QED
  BY <1>4, <1>8, <1>10, <1>11, <1>12, <1>13

-----------------------------------------------------------------------------
(* Flushes of the sheet                                                      *)

LEMMA SheetInitIInv ==
  ASSUME Sheet!Init
  PROVE  SheetIInv
<1>1. SheetTypeOK
  <2>1. /\ source = [k \in RowKeys |-> 0] /\ written = 0
        /\ pc = [w \in Flushers |-> "idle"] /\ flushes = [w \in Flushers |-> <<>>]
    BY DEF Sheet!Init
  <2>2. flushes = [w \in Flushers |-> flushes[w]]
    BY <2>1
  <2>3. QED
    BY <2>1, <2>2 DEF SheetTypeOK
<1>2. SheetRowsOK(sheet)
  <2>1. sheet = <<>>
    BY DEF Sheet!Init
  <2>2. QED
    BY <2>1 DEF SheetRowsOK
<1>3. SheetMapOK
  BY DEF Sheet!Init, SheetMapOK
<1>4. \A w \in Flushers : pc[w] = "idle"
  BY DEF Sheet!Init
<1>5. QED
  BY <1>1, <1>2, <1>3, <1>4 DEF SheetIInv

\* A flusher goes on to its next phase.
SheetSteps(w, p, phase) ==
  /\ phase \in SheetPhases
  /\ pc' = [pc EXCEPT ![w] = phase] /\ flushes' = [flushes EXCEPT ![w] = p]
  /\ map' = map /\ source' = source /\ written' = written

LEMMA SheetGoesOn ==
  ASSUME SheetIInv, ~ torn, NEW w \in Flushers, SheetAlone(w), NEW p, NEW phase,
         SheetSteps(w, p, phase), SheetRowsOK(sheet'), SheetPlanRight(p, phase, sheet'),
         ~ p.wrote => sheet' = sheet /\ (pc[w] = "idle" \/ ~ flushes[w].wrote)
  PROVE  SheetIInv'
<1>1. SheetTypeOK
  BY DEF SheetIInv
<1>2. /\ SheetAlone(w)'
      /\ \A v \in Flushers : pc[v] # "idle" \/ pc'[v] # "idle" => v = w
  BY <1>1 DEF SheetTypeOK, SheetAlone, SheetSteps
<1>3. pc'[w] = phase /\ flushes'[w] = p /\ phase # "idle"
  BY <1>1 DEF SheetTypeOK, SheetSteps, SheetPhases
<1>4. SheetTypeOK'
  <2>1. pc' \in [Flushers -> SheetPhases \cup {"idle"}]
    BY <1>1 DEF SheetTypeOK, SheetSteps
  <2>2. flushes' = [v \in Flushers |-> flushes'[v]]
    BY <1>1 DEF SheetTypeOK, SheetSteps
  <2>3. QED
    BY <1>1, <2>1, <2>2 DEF SheetTypeOK, SheetSteps
<1>5. SheetMapOK'
  <2>1. SUFFICES ASSUME \A v \in Flushers : pc'[v] # "idle" => ~ flushes'[v].wrote,
                        map' # Sheet!Empty
                 PROVE  SheetMapped(map', sheet')
    BY DEF SheetMapOK
  <2>2. ~ p.wrote
    BY <1>3, <2>1
  <2>3. sheet' = sheet /\ map' = map
    BY <2>2 DEF SheetSteps
  <2>4. \A v \in Flushers : pc[v] # "idle" => ~ flushes[v].wrote
    BY <1>2, <2>2
  <2>5. QED
    BY <2>1, <2>3, <2>4 DEF SheetIInv, SheetMapOK
<1>6. \A v \in Flushers : pc'[v] # "idle" => SheetPlanRight(flushes'[v], pc'[v], sheet')
  BY <1>2, <1>3
<1>7. \A v \in Flushers : pc'[v] # "idle" => SheetAlone(v)'
  BY <1>2
<1>8. SheetRowsOK(sheet')
  OBVIOUS
<1>9. QED
  BY <1>4, <1>5, <1>6, <1>7, <1>8 DEF SheetIInv

\* The rows of a sheet whose map is empty are found by their keys.
LEMMA SheetSeeds ==
  ASSUME SheetRowsOK(sheet), map = Sheet!Empty
  PROVE  SheetMapped(Sheet!Seeds, sheet) /\ \A k \in DOMAIN Sheet!Seeds : Sheet!Seeds[k].hash = 0
<1>1. PICK found : found = Sheet!Seeds
  OBVIOUS
<1>2. found = [k \in {sheet[i].key : i \in DOMAIN sheet} |-> [row |-> Sheet!RowOf(k), hash |-> 0]]
  BY <1>1 DEF Sheet!Seeds
<1>3. ASSUME NEW i \in DOMAIN sheet PROVE Sheet!RowOf(sheet[i].key) = i
  <2>1. \A o \in DOMAIN sheet : sheet[o].key = sheet[i].key => o = i
    BY DEF SheetRowsOK
  <2>2. i \in Nat /\ i <= i
    BY DEF SheetRowsOK
  <2>3. Sheet!RowOf(sheet[i].key) =
          CHOOSE r \in DOMAIN sheet :
            /\ sheet[r].key = sheet[i].key
            /\ \A o \in DOMAIN sheet : sheet[o].key = sheet[i].key => o <= r
    BY DEF Sheet!RowOf
  <2>4. QED
    BY <2>1, <2>2, <2>3
<1>4. ASSUME NEW k \in DOMAIN found
      PROVE  \E i \in DOMAIN sheet : sheet[i].key = k /\ found[k] = [row |-> i, hash |-> 0]
  <2>1. PICK i \in DOMAIN sheet : sheet[i].key = k
    BY <1>2
  <2>2. found[k] = [row |-> Sheet!RowOf(k), hash |-> 0]
    BY <1>2
  <2>3. QED
    BY <1>3, <2>1, <2>2
<1>5. \A i \in DOMAIN sheet : sheet[i].key \in DOMAIN found
  BY <1>2
<1>6. \A k \in DOMAIN found :
        /\ found[k] = [row |-> found[k].row, hash |-> found[k].hash]
        /\ found[k].row \in DOMAIN sheet /\ sheet[found[k].row].key = k /\ found[k].hash = 0
  <2>1. TAKE k \in DOMAIN found
  <2>2. PICK i \in DOMAIN sheet : sheet[i].key = k /\ found[k] = [row |-> i, hash |-> 0]
    BY <1>4
  <2>3. QED
    BY <2>2
<1>7. SheetMapped(found, sheet)
  BY <1>5, <1>6 DEF SheetMapped
<1>8. QED
  BY <1>1, <1>6, <1>7

LEMMA SheetReadStep ==
  ASSUME SheetIInv, ~ torn, ~ torn', NEW w \in Flushers, Sheet!Read(w)
  PROVE  SheetIInv'
<1>0. \A v \in Flushers : pc[v] = "idle"
  BY DEF Sheet!Read
<1>1. PICK known : known = IF map = Sheet!Empty THEN Sheet!Seeds ELSE map
  OBVIOUS
<1>2. PICK p : p = Sheet!Diff(source, known, map)
  OBVIOUS
<1>3. SheetSteps(w, p, "update") /\ sheet' = sheet /\ pc[w] = "idle"
  BY <1>1, <1>2 DEF Sheet!Read, SheetSteps, SheetPhases
<1>4. SheetRowsOK(sheet) /\ SheetMapOK
  BY DEF SheetIInv
<1>5. /\ SheetMapped(known, sheet)
      /\ known # map => map = Sheet!Empty /\ \A k \in DOMAIN known : known[k].hash = 0
  <2>1. CASE map = Sheet!Empty
    BY <1>1, <1>4, <2>1, SheetSeeds
  <2>2. CASE map # Sheet!Empty
    <3>1. \A v \in Flushers : pc[v] = "idle"
      BY <1>0
    <3>2. QED
      BY <1>1, <1>4, <2>2, <3>1 DEF SheetMapOK
  <2>3. QED
    BY <2>1, <2>2
<1>6. /\ p = [rows |-> p.rows, known |-> p.known, seeded |-> p.seeded, drained |-> p.drained,
              wrote |-> p.wrote, update |-> p.update, delete |-> p.delete, append |-> p.append]
      /\ p.rows = source /\ p.known = known /\ p.wrote = FALSE
      /\ p.seeded = (known # map)
      /\ p.update = {k \in Sheet!Listed(source) \cap DOMAIN known : known[k].hash # source[k]}
      /\ p.delete = DOMAIN map \ Sheet!Listed(source)
      /\ p.append = Sheet!Listed(source) \ DOMAIN known
  BY <1>2 DEF Sheet!Diff
<1>7. SheetPlanOK(p)
  BY <1>6 DEF SheetPlanOK, SheetIInv, SheetTypeOK
<1>8. p.delete = IF p.seeded THEN {} ELSE DOMAIN p.known \ Sheet!Listed(p.rows)
  <2>1. CASE known = map
    BY <1>6, <2>1
  <2>2. CASE known # map
    <3>1. DOMAIN map = {}
      BY <1>5, <2>2 DEF Sheet!Empty
    <3>2. QED
      BY <1>6, <2>2, <3>1
  <2>3. QED
    BY <2>1, <2>2
<1>9. p.seeded => \A k \in DOMAIN p.known : p.known[k].hash = 0
  BY <1>5, <1>6
<1>10. SheetPhaseOK(p, "update", sheet')
  BY <1>6, <1>8, <1>9 DEF SheetPhaseOK
<1>11. SheetPlanRight(p, "update", sheet')
  BY <1>3, <1>5, <1>6, <1>7, <1>10 DEF SheetPlanRight
<1>12. SheetAlone(w)
  BY <1>0 DEF SheetAlone
<1>13. QED
  BY <1>3, <1>4, <1>11, <1>12, SheetGoesOn

\* A plan with another known and wrote.
SheetReplans(p, q) ==
  /\ q = [rows |-> p.rows, known |-> q.known, seeded |-> p.seeded, drained |-> p.drained,
          wrote |-> q.wrote, update |-> p.update, delete |-> p.delete, append |-> p.append]
  /\ q.wrote \in BOOLEAN

\* What a step writes back of a flusher's plan.
SheetReplanned(w, known, wrote, next) ==
  next = [flushes EXCEPT ![w].known = known, ![w].wrote = wrote]

LEMMA SheetReplan ==
  ASSUME SheetTypeOK, NEW w \in Flushers, SheetPlanOK(flushes[w]), NEW known, NEW wrote \in BOOLEAN,
         NEW next, SheetReplanned(w, known, wrote, next)
  PROVE  \E q : /\ next = [flushes EXCEPT ![w] = q] /\ SheetReplans(flushes[w], q)
                /\ q.known = known /\ q.wrote = wrote
<1>1. PICK p : p = flushes[w]
  OBVIOUS
<1>2. PICK q : q = [rows |-> p.rows, known |-> known, seeded |-> p.seeded, drained |-> p.drained,
                    wrote |-> wrote, update |-> p.update, delete |-> p.delete, append |-> p.append]
  OBVIOUS
<1>3. q = [[p EXCEPT !.known = known] EXCEPT !.wrote = wrote]
  <2>1. p = [rows |-> p.rows, known |-> p.known, seeded |-> p.seeded, drained |-> p.drained,
             wrote |-> p.wrote, update |-> p.update, delete |-> p.delete, append |-> p.append]
    BY <1>1 DEF SheetPlanOK
  <2>2. PICK a, b, c, d, e, f, g, h :
          /\ p = [rows |-> a, known |-> b, seeded |-> c, drained |-> d,
                  wrote |-> e, update |-> f, delete |-> g, append |-> h]
          /\ q = [rows |-> a, known |-> known, seeded |-> c, drained |-> d,
                  wrote |-> wrote, update |-> f, delete |-> g, append |-> h]
    BY <1>2, <2>1
  <2>3. [p EXCEPT !.known = known] =
          [rows |-> a, known |-> known, seeded |-> c, drained |-> d,
           wrote |-> e, update |-> f, delete |-> g, append |-> h]
    BY <2>2
  <2>4. q = [[rows |-> a, known |-> known, seeded |-> c, drained |-> d,
              wrote |-> e, update |-> f, delete |-> g, append |-> h] EXCEPT !.wrote = wrote]
    BY <2>2
  <2>5. QED
    BY <2>3, <2>4
<1>4. flushes = [v \in Flushers |-> flushes[v]]
  BY DEF SheetTypeOK
<1>5. next = [flushes EXCEPT ![w] = q]
  <2>1. PICK f : f = [flushes EXCEPT ![w] = q]
    OBVIOUS
  <2>2. DOMAIN f = Flushers /\ \A v \in Flushers : f[v] = IF v = w THEN q ELSE flushes[v]
    BY <1>4, <2>1
  <2>3. DOMAIN next = Flushers /\ \A v \in Flushers : next[v] = IF v = w THEN q ELSE flushes[v]
    BY <1>1, <1>3, <1>4 DEF SheetReplanned
  <2>4. f = [v \in Flushers |-> f[v]] /\ next = [v \in Flushers |-> next[v]]
    BY <1>4, <2>1 DEF SheetReplanned
  <2>5. QED
    BY <2>1, <2>2, <2>3, <2>4
<1>6. q.known = known /\ q.wrote = wrote
  BY <1>2
<1>7. SheetReplans(p, q)
  BY <1>2, <1>6 DEF SheetReplans
<1>8. QED
  BY <1>1, <1>5, <1>6, <1>7

LEMMA SheetUpdateStep ==
  ASSUME SheetIInv, ~ torn, NEW w \in Flushers, Sheet!Update(w)
  PROVE  SheetIInv'
<1>1. PICK p : p = flushes[w]
  OBVIOUS
<1>2. /\ pc[w] = "update" /\ SheetRowsOK(sheet) /\ SheetPlanOK(p) /\ SheetMapped(p.known, sheet)
      /\ SheetPhaseOK(p, "update", sheet) /\ SheetAlone(w)
  BY <1>1 DEF Sheet!Update, SheetIInv, SheetPlanRight
<1>3. PICK listed : listed = Sheet!Listed(p.rows)
  OBVIOUS
<1>4. /\ p.update = {k \in listed \cap DOMAIN p.known : p.known[k].hash # p.rows[k]}
      /\ p.seeded => \A k \in DOMAIN p.known : p.known[k].hash = 0
      /\ p.delete = IF p.seeded THEN {} ELSE DOMAIN p.known \ listed
      /\ p.append = listed \ DOMAIN p.known
  BY <1>2, <1>3 DEF SheetPhaseOK
<1>5. PICK hash : hash = [k \in DOMAIN p.known |->
                            IF k \in p.update /\ ~ p.seeded THEN p.rows[k] ELSE p.known[k].hash]
  OBVIOUS
<1>6. PICK noted : noted = [k \in DOMAIN p.known |-> [row |-> p.known[k].row, hash |-> hash[k]]]
  OBVIOUS
<1>7. PICK wrote \in BOOLEAN : wrote = (p.wrote \/ p.update # {})
  OBVIOUS
<1>8. SheetReplanned(w, noted, wrote, flushes')
  BY <1>1, <1>5, <1>6, <1>7 DEF Sheet!Update, SheetReplanned
<1>9. PICK q : /\ flushes' = [flushes EXCEPT ![w] = q] /\ SheetReplans(p, q)
               /\ q.known = noted /\ q.wrote = wrote
  <2>1. SheetTypeOK /\ SheetPlanOK(flushes[w])
    BY <1>1, <1>2 DEF SheetIInv
  <2>2. PICK next : next = flushes'
    OBVIOUS
  <2>3. SheetReplanned(w, noted, wrote, next)
    BY <1>8, <2>2
  <2>4. \E q : /\ next = [flushes EXCEPT ![w] = q] /\ SheetReplans(flushes[w], q)
               /\ q.known = noted /\ q.wrote = wrote
    BY <2>1, <2>3, SheetReplan
  <2>5. QED
    BY <1>1, <2>2, <2>4
<1>10. SheetSteps(w, q, "delete")
  BY <1>9 DEF Sheet!Update, SheetSteps, SheetPhases
<1>11. SheetUpdates(sheet, p.known, p.update, p.rows, hash, sheet', noted)
  <2>1. sheet' = [i \in DOMAIN sheet |->
                IF {k \in p.update : p.known[k].row = i} = {} THEN sheet[i]
                ELSE LET k == CHOOSE k \in {k \in p.update : p.known[k].row = i} : TRUE
                     IN  [sheet[i] EXCEPT !.key = k, !.val = p.rows[k]]]
    BY <1>1 DEF Sheet!Update
  <2>2. ASSUME NEW k \in p.update PROVE hash[k] \in {p.rows[k], 0}
    <3>1. k \in DOMAIN p.known
      BY <1>4
    <3>2. CASE p.seeded
      BY <1>4, <1>5, <3>1, <3>2
    <3>3. CASE ~ p.seeded
      BY <1>5, <3>1, <3>3
    <3>4. QED
      BY <3>2, <3>3
  <2>3. \A k \in DOMAIN p.known \ p.update : hash[k] = p.known[k].hash
    BY <1>5
  <2>4. QED
    BY <1>6, <2>1, <2>2, <2>3 DEF SheetUpdates
<1>12. p.rows \in [RowKeys -> Nat] /\ p.update \in SUBSET DOMAIN p.known
  BY <1>2, <1>4 DEF SheetPlanOK
<1>13. /\ SheetRowsOK(sheet') /\ SheetMapped(noted, sheet') /\ DOMAIN noted = DOMAIN p.known
       /\ \A k \in p.update : sheet'[noted[k].row].val = p.rows[k]
       /\ \A k \in DOMAIN p.known \ p.update :
            noted[k] = p.known[k] /\ sheet'[p.known[k].row] = sheet[p.known[k].row]
       /\ p.update = {} => sheet' = sheet
  <2>1. PICK s, m, u, vals, shown :
          s = sheet /\ m = p.known /\ u = p.update /\ vals = p.rows /\ shown = sheet'
    OBVIOUS
  <2>2. /\ SheetUpdates(s, m, u, vals, hash, shown, noted) /\ SheetRowsOK(s) /\ SheetMapped(m, s)
        /\ u \in SUBSET DOMAIN m /\ vals \in [RowKeys -> Nat]
    BY <1>2, <1>11, <1>12, <2>1
  <2>3. /\ SheetRowsOK(shown) /\ SheetMapped(noted, shown) /\ DOMAIN noted = DOMAIN m
        /\ \A k \in u : shown[noted[k].row].val = vals[k]
        /\ \A k \in DOMAIN m \ u : noted[k] = m[k] /\ shown[m[k].row] = s[m[k].row]
        /\ u = {} => shown = s
    BY <2>2, SheetUpdated
  <2>4. QED
    BY <2>1, <2>3
<1>14. ASSUME NEW k \in listed \cap DOMAIN noted
       PROVE  sheet'[noted[k].row].val = p.rows[k]
  <2>1. CASE k \in p.update
    BY <1>13, <2>1
  <2>2. CASE k \notin p.update
    <3>1. k \in DOMAIN p.known /\ p.known[k].hash = p.rows[k] /\ p.rows[k] # 0
      BY <1>3, <1>4, <1>13, <2>2 DEF Sheet!Listed
    <3>2. sheet[p.known[k].row].val = p.rows[k]
      BY <1>2, <3>1 DEF SheetMapped
    <3>3. noted[k] = p.known[k] /\ sheet'[p.known[k].row] = sheet[p.known[k].row]
      BY <1>13, <2>2, <3>1
    <3>4. QED
      BY <3>2, <3>3
  <2>3. QED
    BY <2>1, <2>2
<1>15. /\ q.rows = p.rows /\ q.seeded = p.seeded /\ q.delete = p.delete /\ q.append = p.append
       /\ q = [rows |-> q.rows, known |-> q.known, seeded |-> q.seeded, drained |-> q.drained,
               wrote |-> q.wrote, update |-> q.update, delete |-> q.delete, append |-> q.append]
       /\ q.wrote \in BOOLEAN
  BY <1>9 DEF SheetReplans
<1>16. SheetPlanOK(q)
  BY <1>12, <1>15 DEF SheetPlanOK
<1>17. SheetPhaseOK(q, "delete", sheet')
  <2>1. q.delete = IF q.seeded THEN {} ELSE DOMAIN q.known \ listed
    BY <1>4, <1>9, <1>13, <1>15
  <2>2. q.append = listed \ DOMAIN q.known
    BY <1>4, <1>9, <1>13, <1>15
  <2>3. \A k \in listed \cap DOMAIN q.known : sheet'[q.known[k].row].val = q.rows[k]
    BY <1>9, <1>14, <1>15
  <2>4. QED
    BY <1>3, <1>15, <2>1, <2>2, <2>3 DEF SheetPhaseOK
<1>18. SheetPlanRight(q, "delete", sheet')
  BY <1>9, <1>13, <1>16, <1>17 DEF SheetPlanRight
<1>19. ~ q.wrote => sheet' = sheet /\ ~ flushes[w].wrote
  BY <1>1, <1>7, <1>9, <1>13
<1>20. QED
  BY <1>2, <1>10, <1>13, <1>18, <1>19, SheetGoesOn

LEMMA SheetDeleteStep ==
  ASSUME SheetIInv, ~ torn, NEW w \in Flushers, Sheet!Delete(w)
  PROVE  SheetIInv'
<1>1. PICK p : p = flushes[w]
  OBVIOUS
<1>2. /\ pc[w] = "delete" /\ SheetRowsOK(sheet) /\ SheetPlanOK(p) /\ SheetMapped(p.known, sheet)
      /\ SheetPhaseOK(p, "delete", sheet) /\ SheetAlone(w)
  BY <1>1 DEF Sheet!Delete, SheetIInv, SheetPlanRight
<1>3. PICK listed : listed = Sheet!Listed(p.rows)
  OBVIOUS
<1>4. /\ p.delete = IF p.seeded THEN {} ELSE DOMAIN p.known \ listed
      /\ p.append = listed \ DOMAIN p.known
      /\ ~ p.seeded => \A k \in listed \cap DOMAIN p.known : sheet[p.known[k].row].val = p.rows[k]
  BY <1>2, <1>3 DEF SheetPhaseOK
<1>5. PICK gone : gone = {p.known[k].row : k \in p.delete}
  OBVIOUS
<1>6. PICK shifted : shifted = [k \in DOMAIN p.known \ p.delete |->
                              [p.known[k] EXCEPT !.row = IF p.known[k].row <= Len(sheet)
                                                         THEN Sheet!Remap(p.known[k].row, gone)
                                                         ELSE p.known[k].row]]
  OBVIOUS
<1>7. PICK wrote \in BOOLEAN : wrote = (p.wrote \/ gone # {})
  OBVIOUS
<1>8. /\ SheetReplanned(w, shifted, wrote, flushes')
      /\ sheet' = Sheet!Without(sheet, gone)
  BY <1>1, <1>5, <1>6, <1>7 DEF Sheet!Delete, SheetReplanned
<1>9. PICK q : /\ flushes' = [flushes EXCEPT ![w] = q] /\ SheetReplans(p, q)
               /\ q.known = shifted /\ q.wrote = wrote
  <2>1. SheetTypeOK /\ SheetPlanOK(flushes[w])
    BY <1>1, <1>2 DEF SheetIInv
  <2>2. PICK next : next = flushes'
    OBVIOUS
  <2>3. SheetReplanned(w, shifted, wrote, next)
    BY <1>8, <2>2
  <2>4. \E q : /\ next = [flushes EXCEPT ![w] = q] /\ SheetReplans(flushes[w], q)
               /\ q.known = shifted /\ q.wrote = wrote
    BY <2>1, <2>3, SheetReplan
  <2>5. QED
    BY <1>1, <2>2, <2>4
<1>10. SheetSteps(w, q, "append")
  BY <1>9 DEF Sheet!Delete, SheetSteps, SheetPhases
<1>11. p.delete \in SUBSET DOMAIN p.known /\ p.delete \cap listed = {}
  BY <1>4
<1>12. /\ SheetRowsOK(sheet') /\ SheetMapped(shifted, sheet')
       /\ DOMAIN shifted = DOMAIN p.known \ p.delete
       /\ \A k \in DOMAIN shifted :
            sheet'[shifted[k].row] = sheet[p.known[k].row] /\ shifted[k].hash = p.known[k].hash
  <2>0. SheetDeletes(sheet, p.known, p.delete, gone, sheet', shifted)
    BY <1>5, <1>6, <1>8 DEF SheetDeletes
  <2>1. PICK s, m, d, rest : s = sheet /\ m = p.known /\ d = p.delete /\ rest = sheet'
    OBVIOUS
  <2>2. /\ SheetDeletes(s, m, d, gone, rest, shifted) /\ SheetRowsOK(s) /\ SheetMapped(m, s)
        /\ d \in SUBSET DOMAIN m
    BY <1>2, <1>11, <2>0, <2>1
  <2>3. SheetStays(s, m, d, rest, shifted)
    BY <2>2, SheetDeleted
  <2>4. QED
    BY <2>1, <2>3 DEF SheetStays
<1>13. gone = {} => sheet' = sheet
  BY <1>2, <1>8, SheetWhole
<1>14. /\ q.rows = p.rows /\ q.seeded = p.seeded /\ q.append = p.append
       /\ q = [rows |-> q.rows, known |-> q.known, seeded |-> q.seeded, drained |-> q.drained,
               wrote |-> q.wrote, update |-> q.update, delete |-> q.delete, append |-> q.append]
       /\ q.wrote \in BOOLEAN
  BY <1>9 DEF SheetReplans
<1>15. SheetPlanOK(q)
  BY <1>2, <1>14 DEF SheetPlanOK
<1>16. SheetPhaseOK(q, "append", sheet')
  <2>1. q.append = listed \ DOMAIN q.known
    BY <1>4, <1>9, <1>11, <1>12, <1>14
  <2>2. ~ q.seeded => DOMAIN q.known \subseteq listed
    BY <1>4, <1>9, <1>12, <1>14
  <2>3. ~ q.seeded => \A k \in listed \cap DOMAIN q.known : sheet'[q.known[k].row].val = q.rows[k]
    BY <1>4, <1>9, <1>12, <1>14
  <2>4. QED
    BY <1>3, <1>14, <2>1, <2>2, <2>3 DEF SheetPhaseOK
<1>17. SheetPlanRight(q, "append", sheet')
  BY <1>9, <1>12, <1>15, <1>16 DEF SheetPlanRight
<1>18. ~ q.wrote => sheet' = sheet /\ ~ flushes[w].wrote
  BY <1>1, <1>7, <1>9, <1>13
<1>19. QED
  BY <1>2, <1>10, <1>12, <1>17, <1>18, SheetGoesOn

LEMMA SheetAppendStep ==
  ASSUME Sheet!SheetAssumption, SheetIInv, ~ torn, NEW w \in Flushers, Sheet!AppendRows(w)
  PROVE  SheetIInv'
<1>1. PICK p : p = flushes[w]
  OBVIOUS
<1>2. /\ pc[w] = "append" /\ SheetRowsOK(sheet) /\ SheetPlanOK(p) /\ SheetMapped(p.known, sheet)
      /\ SheetPhaseOK(p, "append", sheet) /\ SheetAlone(w)
  BY <1>1 DEF Sheet!AppendRows, SheetIInv, SheetPlanRight
<1>3. PICK listed : listed = Sheet!Listed(p.rows)
  OBVIOUS
<1>4. /\ p.append = listed \ DOMAIN p.known
      /\ ~ p.seeded => DOMAIN p.known \subseteq listed
      /\ ~ p.seeded => \A k \in listed \cap DOMAIN p.known : sheet[p.known[k].row].val = p.rows[k]
  BY <1>2, <1>3 DEF SheetPhaseOK
<1>5. PICK news : news = Sheet!SetToSeq(p.append)
  OBVIOUS
<1>6. PICK wider : wider = [k \in DOMAIN p.known \cup p.append |->
                              IF k \in p.append
                              THEN [row |-> Len(sheet) + (CHOOSE i \in DOMAIN news : news[i] = k),
                                    hash |-> p.rows[k]]
                              ELSE p.known[k]]
  OBVIOUS
<1>7. PICK wrote \in BOOLEAN : wrote = (p.wrote \/ news # <<>>)
  OBVIOUS
<1>8. SheetReplanned(w, wider, wrote, flushes')
  <2>1. PICK new : new = [k \in p.append |->
                            [row |-> Len(sheet) + (CHOOSE i \in DOMAIN news : news[i] = k),
                             hash |-> p.rows[k]]]
    OBVIOUS
  <2>2. wider = [k \in DOMAIN p.known \cup p.append |->
                   IF k \in p.append THEN new[k] ELSE p.known[k]]
    BY <1>6, <2>1
  <2>3. flushes' = [flushes EXCEPT
          ![w].known = [k \in DOMAIN p.known \cup p.append |->
                          IF k \in p.append THEN new[k] ELSE p.known[k]],
          ![w].wrote = wrote]
    BY <1>1, <1>5, <1>7, <2>1 DEF Sheet!AppendRows
  <2>4. QED
    BY <2>2, <2>3 DEF SheetReplanned
<1>9. PICK q : /\ flushes' = [flushes EXCEPT ![w] = q] /\ SheetReplans(p, q)
               /\ q.known = wider /\ q.wrote = wrote
  <2>1. SheetTypeOK /\ SheetPlanOK(flushes[w])
    BY <1>1, <1>2 DEF SheetIInv
  <2>2. PICK next : next = flushes'
    OBVIOUS
  <2>3. SheetReplanned(w, wider, wrote, next)
    BY <1>8, <2>2
  <2>4. \E q : /\ next = [flushes EXCEPT ![w] = q] /\ SheetReplans(flushes[w], q)
               /\ q.known = wider /\ q.wrote = wrote
    BY <2>1, <2>3, SheetReplan
  <2>5. QED
    BY <1>1, <2>2, <2>4
<1>10. SheetSteps(w, q, "commit")
  BY <1>9 DEF Sheet!AppendRows, SheetSteps, SheetPhases
<1>11. SheetAppends(sheet, p.known, p.append, p.rows, news, sheet', wider)
  BY <1>1, <1>5, <1>6 DEF Sheet!AppendRows, SheetAppends
<1>12. /\ p.rows \in [RowKeys -> Nat] /\ p.append \in SUBSET RowKeys
       /\ p.append \cap DOMAIN p.known = {} /\ IsFiniteSet(RowKeys)
  BY <1>2, <1>3, <1>4 DEF SheetPlanOK, Sheet!Listed, Sheet!SheetAssumption, Sheet!IsFiniteSet,
    IsFiniteSet
<1>13. /\ SheetRowsOK(sheet') /\ SheetMapped(wider, sheet')
       /\ DOMAIN wider = DOMAIN p.known \cup p.append
       /\ \A k \in p.append : sheet'[wider[k].row].val = p.rows[k]
       /\ \A k \in DOMAIN p.known :
            wider[k] = p.known[k] /\ sheet'[p.known[k].row] = sheet[p.known[k].row]
       /\ news = <<>> => sheet' = sheet
  <2>1. PICK s, m, a, vals, whole :
          s = sheet /\ m = p.known /\ a = p.append /\ vals = p.rows /\ whole = sheet'
    OBVIOUS
  <2>2. /\ SheetAppends(s, m, a, vals, news, whole, wider) /\ SheetRowsOK(s) /\ SheetMapped(m, s)
        /\ a \in SUBSET RowKeys /\ vals \in [RowKeys -> Nat] /\ a \cap DOMAIN m = {}
        /\ IsFiniteSet(RowKeys)
    BY <1>2, <1>11, <1>12, <2>1
  <2>3. SheetGrows(s, m, a, vals, whole, wider) /\ (news = <<>> => whole = s)
    BY <2>2, SheetAppended
  <2>4. QED
    BY <2>1, <2>3 DEF SheetGrows
<1>14. /\ q.rows = p.rows /\ q.seeded = p.seeded
       /\ q = [rows |-> q.rows, known |-> q.known, seeded |-> q.seeded, drained |-> q.drained,
               wrote |-> q.wrote, update |-> q.update, delete |-> q.delete, append |-> q.append]
       /\ q.wrote \in BOOLEAN
  BY <1>9 DEF SheetReplans
<1>15. SheetPlanOK(q)
  BY <1>12, <1>14 DEF SheetPlanOK
<1>16. SheetPhaseOK(q, "commit", sheet')
  <2>1. ~ q.seeded => DOMAIN q.known = listed
    BY <1>4, <1>9, <1>13, <1>14
  <2>2. ASSUME ~ q.seeded, NEW k \in listed \cap DOMAIN q.known
        PROVE  sheet'[q.known[k].row].val = q.rows[k]
    <3>1. CASE k \in p.append
      BY <1>9, <1>13, <1>14, <3>1
    <3>2. CASE k \notin p.append
      <4>1. k \in DOMAIN p.known
        BY <1>9, <1>13, <3>2
      <4>2. sheet[p.known[k].row].val = p.rows[k]
        BY <1>4, <1>14, <2>2, <4>1
      <4>3. wider[k] = p.known[k] /\ sheet'[p.known[k].row] = sheet[p.known[k].row]
        BY <1>13, <4>1
      <4>4. QED
        BY <1>9, <1>14, <4>2, <4>3
    <3>3. QED
      BY <3>1, <3>2
  <2>3. QED
    BY <1>3, <1>14, <2>1, <2>2 DEF SheetPhaseOK
<1>17. SheetPlanRight(q, "commit", sheet')
  BY <1>9, <1>13, <1>15, <1>16 DEF SheetPlanRight
<1>18. ~ q.wrote => sheet' = sheet /\ ~ flushes[w].wrote
  BY <1>1, <1>7, <1>9, <1>13
<1>19. QED
  BY <1>2, <1>10, <1>13, <1>17, <1>18, SheetGoesOn

LEMMA SheetCommitStep ==
  ASSUME SheetIInv, ~ torn, NEW w \in Flushers, Sheet!Commit(w)
  PROVE  SheetIInv'
<1>1. /\ pc[w] = "commit" /\ map' = flushes[w].known /\ sheet' = sheet
      /\ pc' = [pc EXCEPT ![w] = "idle"] /\ flushes' = [flushes EXCEPT ![w] = <<>>]
      /\ source' = source /\ written' = written
  BY DEF Sheet!Commit
<1>2. /\ SheetTypeOK /\ SheetRowsOK(sheet) /\ SheetPlanRight(flushes[w], pc[w], sheet)
      /\ SheetAlone(w)
  BY <1>1 DEF SheetIInv
<1>3. \A v \in Flushers : pc'[v] = "idle"
  BY <1>1, <1>2 DEF SheetTypeOK, SheetAlone
<1>4. SheetMapped(map', sheet')
  BY <1>1, <1>2 DEF SheetPlanRight
<1>5. SheetTypeOK'
  <2>1. /\ pc' \in [Flushers -> SheetPhases \cup {"idle"}]
        /\ flushes' = [v \in Flushers |-> flushes'[v]]
    BY <1>1, <1>2 DEF SheetTypeOK
  <2>2. QED
    BY <1>1, <1>2, <2>1 DEF SheetTypeOK
<1>6. SheetRowsOK(sheet')
  BY <1>1, <1>2
<1>7. QED
  BY <1>3, <1>4, <1>5, <1>6 DEF SheetIInv, SheetMapOK

LEMMA SheetDieStep ==
  ASSUME SheetIInv, NEW w \in Flushers, Sheet!Die(w)
  PROVE  SheetIInv'
<1>1. /\ pc[w] # "idle" /\ map' = map /\ sheet' = sheet
      /\ pc' = [pc EXCEPT ![w] = "idle"] /\ flushes' = [flushes EXCEPT ![w] = <<>>]
      /\ source' = source /\ written' = written
      /\ torn' = (torn \/ (flushes[w].wrote /\ map # Sheet!Empty))
  BY DEF Sheet!Die
<1>2. SheetTypeOK
  BY DEF SheetIInv
<1>3. SheetTypeOK'
  <2>1. /\ pc' \in [Flushers -> SheetPhases \cup {"idle"}]
        /\ flushes' = [v \in Flushers |-> flushes'[v]]
    BY <1>1, <1>2 DEF SheetTypeOK
  <2>2. QED
    BY <1>1, <1>2, <2>1 DEF SheetTypeOK
<1>4. SUFFICES ASSUME ~ torn' PROVE SheetIInv'
  BY <1>3 DEF SheetIInv
<1>5. ~ torn /\ ~ (flushes[w].wrote /\ map # Sheet!Empty)
  BY <1>1, <1>4, Zenon
<1>6. SheetRowsOK(sheet) /\ SheetMapOK /\ SheetAlone(w)
  BY <1>1, <1>5 DEF SheetIInv
<1>7. \A v \in Flushers : pc'[v] = "idle" /\ (pc[v] # "idle" => v = w)
  BY <1>1, <1>2, <1>6 DEF SheetTypeOK, SheetAlone
<1>8. map # Sheet!Empty => SheetMapped(map, sheet)
  <2>1. HAVE map # Sheet!Empty
  <2>2. ~ flushes[w].wrote
    BY <1>5, <2>1, Zenon
  <2>3. \A v \in Flushers : pc[v] # "idle" => ~ flushes[v].wrote
    BY <1>7, <2>2
  <2>4. QED
    BY <1>6, <2>1, <2>3 DEF SheetMapOK
<1>9. SheetMapOK'
  BY <1>1, <1>8 DEF SheetMapOK
<1>10. SheetRowsOK(sheet')
  BY <1>1, <1>6
<1>11. QED
  BY <1>3, <1>7, <1>9, <1>10 DEF SheetIInv

\* A sheet with other notes.
SheetSame(s, t) ==
  /\ DOMAIN t = DOMAIN s
  /\ \A i \in DOMAIN s : t[i].key = s[i].key /\ t[i].val = s[i].val

LEMMA SheetSameRight ==
  ASSUME NEW s, NEW t, SheetSame(s, t)
  PROVE  /\ \A m : SheetMapped(m, s) => SheetMapped(m, t)
         /\ \A p, phase : SheetPlanRight(p, phase, s) => SheetPlanRight(p, phase, t)
<1>1. ASSUME NEW m, SheetMapped(m, s) PROVE SheetMapped(m, t)
  <2>1. \A k \in DOMAIN m :
          /\ m[k] = [row |-> m[k].row, hash |-> m[k].hash]
          /\ m[k].row \in DOMAIN t /\ t[m[k].row].key = k
          /\ m[k].hash # 0 => t[m[k].row].val = m[k].hash
    <3>1. TAKE k \in DOMAIN m
    <3>2. PICK r : r = m[k].row
      OBVIOUS
    <3>3. /\ m[k] = [row |-> r, hash |-> m[k].hash] /\ r \in DOMAIN s /\ s[r].key = k
          /\ m[k].hash # 0 => s[r].val = m[k].hash
      BY <1>1, <3>2 DEF SheetMapped
    <3>4. r \in DOMAIN t /\ t[r].key = s[r].key /\ t[r].val = s[r].val
      BY <3>3 DEF SheetSame
    <3>5. QED
      BY <3>2, <3>3, <3>4
  <2>2. \A i \in DOMAIN t : t[i].key \in DOMAIN m
    BY <1>1 DEF SheetMapped, SheetSame
  <2>3. QED
    BY <2>1, <2>2 DEF SheetMapped
<1>2. ASSUME NEW p, NEW phase, SheetPlanRight(p, phase, s) PROVE SheetPlanRight(p, phase, t)
  <2>1. SheetPlanOK(p) /\ SheetMapped(p.known, s) /\ SheetPhaseOK(p, phase, s)
    BY <1>2 DEF SheetPlanRight
  <2>2. \A k \in DOMAIN p.known : t[p.known[k].row].val = s[p.known[k].row].val
    BY <2>1 DEF SheetMapped, SheetSame
  <2>3. SheetPhaseOK(p, phase, t)
    BY <2>1, <2>2 DEF SheetPhaseOK
  <2>4. QED
    BY <1>1, <2>1, <2>3 DEF SheetPlanRight
<1>3. QED
  BY <1>1, <1>2

LEMMA SheetOutside ==
  ASSUME SheetIInv, pc' = pc, flushes' = flushes, map' = map, torn' = torn,
         source' \in [RowKeys -> Nat], written' \in Nat,
         ~ torn => SheetRowsOK(sheet') /\ SheetSame(sheet, sheet')
  PROVE  SheetIInv'
<1>1. SheetTypeOK'
  BY DEF SheetIInv, SheetTypeOK
<1>2. SUFFICES ASSUME ~ torn PROVE SheetIInv'
  BY <1>1 DEF SheetIInv
<1>3. PICK s, t : s = sheet /\ t = sheet'
  OBVIOUS
<1>4. SheetSame(s, t)
  BY <1>2, <1>3
<1>5. /\ \A m : SheetMapped(m, s) => SheetMapped(m, t)
      /\ \A p, phase : SheetPlanRight(p, phase, s) => SheetPlanRight(p, phase, t)
  BY <1>4, SheetSameRight
<1>6. SheetMapOK'
  BY <1>2, <1>3, <1>5 DEF SheetIInv, SheetMapOK
<1>7. \A w \in Flushers : pc[w] # "idle" => SheetPlanRight(flushes[w], pc[w], sheet')
  BY <1>2, <1>3, <1>5 DEF SheetIInv
<1>8. \A w \in Flushers : pc'[w] # "idle" => SheetPlanRight(flushes'[w], pc'[w], sheet')
  BY <1>7
<1>9. \A w \in Flushers : pc'[w] # "idle" => SheetAlone(w)'
  BY <1>2 DEF SheetIInv, SheetAlone
<1>10. QED
  BY <1>1, <1>2, <1>6, <1>8, <1>9 DEF SheetIInv

LEMMA SheetSourceStep ==
  ASSUME SheetIInv, NEW k \in RowKeys, Sheet!Change(k) \/ Sheet!Leave(k)
  PROVE  SheetIInv'
<1>1. /\ pc' = pc /\ flushes' = flushes /\ map' = map /\ torn' = torn /\ sheet' = sheet
      /\ written' = written + 1
      /\ source' = [source EXCEPT ![k] = written + 1] \/ source' = [source EXCEPT ![k] = 0]
  BY DEF Sheet!Change, Sheet!Leave
<1>2. written' \in Nat /\ source' \in [RowKeys -> Nat]
  BY <1>1 DEF SheetIInv, SheetTypeOK
<1>3. ~ torn => SheetRowsOK(sheet') /\ SheetSame(sheet, sheet')
  BY <1>1 DEF SheetIInv, SheetSame
<1>4. QED
  BY <1>1, <1>2, <1>3, SheetOutside

LEMMA SheetNoteStep ==
  ASSUME SheetIInv, NEW i \in DOMAIN sheet, Sheet!SalesNote(i)
  PROVE  SheetIInv'
<1>1. /\ pc' = pc /\ flushes' = flushes /\ map' = map /\ torn' = torn
      /\ source' = source /\ written' = written
      /\ sheet' = [sheet EXCEPT ![i].note = sheet[i].key]
  BY DEF Sheet!SalesNote
<1>2. ASSUME ~ torn PROVE SheetRowsOK(sheet') /\ SheetSame(sheet, sheet')
  <2>1. SheetRowsOK(sheet)
    BY <1>2 DEF SheetIInv
  <2>2. sheet \in Seq(SheetLine)
    BY <2>1 DEF SheetRowsOK
  <2>3. PICK key \in RowKeys, val \in Nat, note \in RowKeys \cup {NoNote} :
          sheet[i] = [key |-> key, val |-> val, note |-> note]
    <3>1. sheet[i] \in SheetLine
      BY <2>2
    <3>2. QED
      BY <3>1 DEF SheetLine
  <2>4. PICK l : l = [key |-> key, val |-> val, note |-> key]
    OBVIOUS
  <2>5. l \in SheetLine /\ l.key = key /\ l.val = val /\ l.note = key
    BY <2>4 DEF SheetLine
  <2>6. sheet' = [sheet EXCEPT ![i] = l]
    <3>1. l = [sheet[i] EXCEPT !.note = sheet[i].key]
      BY <2>3, <2>4
    <3>2. QED
      BY <1>1, <3>1
  <2>7. sheet' \in Seq(SheetLine) /\ DOMAIN sheet' = DOMAIN sheet
    BY <2>2, <2>5, <2>6
  <2>8. sheet'[i] = l /\ \A j \in DOMAIN sheet : j # i => sheet'[j] = sheet[j]
    BY <2>2, <2>6
  <2>9. \A j \in DOMAIN sheet : /\ sheet'[j].key = sheet[j].key /\ sheet'[j].val = sheet[j].val
                                /\ sheet'[j].note \in {sheet[j].note, sheet[j].key}
    BY <2>3, <2>5, <2>8
  <2>10. SheetSame(sheet, sheet')
    BY <2>7, <2>9 DEF SheetSame
  <2>11. SheetRowsOK(sheet')
    BY <2>1, <2>7, <2>9 DEF SheetRowsOK
  <2>12. QED
    BY <2>10, <2>11
<1>3. source' \in [RowKeys -> Nat] /\ written' \in Nat
  BY <1>1 DEF SheetIInv, SheetTypeOK
<1>4. QED
  BY <1>1, <1>2, <1>3, SheetOutside

LEMMA SheetTornStep ==
  ASSUME SheetIInv, torn \/ torn', NEW w \in Flushers, Sheet!Flush(w)
  PROVE  SheetIInv'
<1>1. torn' /\ source' = source /\ written' = written
  <2>1. \/ torn' = torn
        \/ torn' = (torn \/ (flushes[w].wrote /\ map # Sheet!Empty))
        \/ torn' = (torn \/ \E v \in Flushers : pc[v] # "idle")
    BY DEF Sheet!Flush, Sheet!Read, Sheet!Update, Sheet!Delete, Sheet!AppendRows, Sheet!Commit,
      Sheet!Die
  <2>2. torn'
    BY <2>1, Zenon
  <2>3. QED
    BY <2>2 DEF Sheet!Flush, Sheet!Read, Sheet!Update, Sheet!Delete, Sheet!AppendRows, Sheet!Commit,
      Sheet!Die
<1>2. SheetTypeOK
  BY DEF SheetIInv
<1>3. pc' \in [Flushers -> SheetPhases \cup {"idle"}]
  <2>1. \E phase \in SheetPhases \cup {"idle"} : pc' = [pc EXCEPT ![w] = phase]
    BY DEF Sheet!Flush, Sheet!Read, Sheet!Update, Sheet!Delete, Sheet!AppendRows, Sheet!Commit,
      Sheet!Die, SheetPhases
  <2>2. QED
    BY <1>2, <2>1 DEF SheetTypeOK
<1>4. flushes' = [v \in Flushers |-> flushes'[v]]
  <2>1. \A known, wrote : [flushes EXCEPT ![w].known = known, ![w].wrote = wrote]
          = [v \in Flushers |-> [flushes EXCEPT ![w].known = known, ![w].wrote = wrote][v]]
    BY <1>2 DEF SheetTypeOK
  <2>2. \A p : [flushes EXCEPT ![w] = p] = [v \in Flushers |-> [flushes EXCEPT ![w] = p][v]]
    BY <1>2 DEF SheetTypeOK
  <2>3. CASE \E known, wrote : flushes' = [flushes EXCEPT ![w].known = known, ![w].wrote = wrote]
    BY <2>1, <2>3
  <2>4. CASE \E p : flushes' = [flushes EXCEPT ![w] = p]
    BY <2>2, <2>4
  <2>5. QED
    BY <2>3, <2>4 DEF Sheet!Flush, Sheet!Read, Sheet!Update, Sheet!Delete, Sheet!AppendRows,
      Sheet!Commit, Sheet!Die
<1>5. SheetTypeOK'
  BY <1>1, <1>2, <1>3, <1>4 DEF SheetTypeOK
<1>6. QED
  BY <1>1, <1>5 DEF SheetIInv

LEMMA SheetNextIInv ==
  ASSUME Sheet!SheetAssumption, SheetIInv, Sheet!Next \/ UNCHANGED Sheet!vars
  PROVE  SheetIInv'
<1>1. CASE UNCHANGED Sheet!vars
  <2>1. /\ pc' = pc /\ flushes' = flushes /\ map' = map /\ torn' = torn /\ source' = source
        /\ written' = written /\ sheet' = sheet
    BY <1>1 DEF Sheet!vars
  <2>2. source' \in [RowKeys -> Nat] /\ written' \in Nat
    BY <2>1 DEF SheetIInv, SheetTypeOK
  <2>3. ~ torn => SheetRowsOK(sheet') /\ SheetSame(sheet, sheet')
    BY <2>1 DEF SheetIInv, SheetSame
  <2>4. QED
    BY <2>1, <2>2, <2>3, SheetOutside
<1>2. CASE \E k \in RowKeys : Sheet!Change(k) \/ Sheet!Leave(k)
  BY <1>2, SheetSourceStep
<1>3. CASE \E i \in DOMAIN sheet : Sheet!SalesNote(i)
  BY <1>3, SheetNoteStep
<1>4. CASE \E w \in Flushers : Sheet!Flush(w)
  <2>1. PICK w \in Flushers : Sheet!Flush(w)
    BY <1>4
  <2>2. CASE torn \/ torn'
    BY <2>1, <2>2, SheetTornStep
  <2>3. CASE ~ torn /\ ~ torn'
    BY <2>1, <2>3, SheetReadStep, SheetUpdateStep, SheetDeleteStep, SheetAppendStep,
      SheetCommitStep, SheetDieStep DEF Sheet!Flush
  <2>4. QED
    BY <2>2, <2>3
<1>5. QED
  BY <1>1, <1>2, <1>3, <1>4 DEF Sheet!Next

LEMMA SheetIInvNotes ==
  ASSUME SheetIInv
  PROVE  Sheet!NotesStayUntorn
BY DEF SheetIInv, SheetRowsOK, Sheet!NotesStayUntorn, Sheet!NotesStayWithLead

LEMMA SheetIInvMirrors ==
  ASSUME Sheet!SheetAssumption, SheetIInv
  PROVE  Sheet!SheetMirrors
<1>1. SUFFICES ASSUME NEW w \in Flushers, pc[w] = "commit", ~ flushes[w].seeded, ~ torn
               PROVE  /\ {<<sheet[i].key, sheet[i].val>> : i \in DOMAIN sheet}
                           = {<<k, flushes[w].rows[k]>> : k \in Sheet!Listed(flushes[w].rows)}
                      /\ Len(sheet) = Sheet!Cardinality(Sheet!Listed(flushes[w].rows))
  BY DEF Sheet!SheetMirrors
<1>2. PICK p : p = flushes[w]
  OBVIOUS
<1>3. PICK listed : listed = Sheet!Listed(p.rows)
  OBVIOUS
<1>4. /\ SheetRowsOK(sheet) /\ SheetMapped(p.known, sheet)
      /\ DOMAIN p.known = listed
      /\ \A k \in listed : sheet[p.known[k].row].val = p.rows[k]
  BY <1>1, <1>2, <1>3 DEF SheetIInv, SheetPlanRight, SheetPhaseOK
<1>5. PICK n \in Nat : n = Len(sheet) /\ DOMAIN sheet = 1 .. n
  BY <1>4 DEF SheetRowsOK
<1>6. PICK place : place = [k \in listed |-> p.known[k].row]
  OBVIOUS
<1>7. \A k \in listed : place[k] \in 1 .. n /\ sheet[place[k]].key = k /\ sheet[place[k]].val = p.rows[k]
  BY <1>4, <1>5, <1>6 DEF SheetMapped
<1>8. \A i \in 1 .. n : sheet[i].key \in listed /\ place[sheet[i].key] = i
  <2>1. TAKE i \in 1 .. n
  <2>2. sheet[i].key \in listed
    BY <1>4, <1>5 DEF SheetMapped
  <2>3. QED
    BY <1>4, <1>5, <1>7, <2>2 DEF SheetRowsOK
<1>9. place \in Bijection(listed, 1 .. n)
  <2>1. place \in [listed -> 1 .. n]
    BY <1>6, <1>7
  <2>2. \A k, l \in listed : place[k] = place[l] => k = l
    BY <1>7
  <2>3. \A i \in 1 .. n : \E k \in listed : place[k] = i
    BY <1>8
  <2>4. QED
    BY <2>1, <2>2, <2>3 DEF Bijection, Injection, Surjection, IsInjective
<1>10. n = Cardinality(listed)
  <2>1. IsFiniteSet(listed)
    <3>1. IsFiniteSet(RowKeys)
      BY DEF Sheet!SheetAssumption, Sheet!IsFiniteSet, IsFiniteSet
    <3>2. listed \in SUBSET RowKeys
      BY <1>3 DEF Sheet!Listed
    <3>3. QED
      BY <3>1, <3>2, FS_Subset
  <2>2. IsFiniteSet(1 .. n) /\ Cardinality(1 .. n) = n
    BY FS_Interval
  <2>3. ExistsBijection(listed, 1 .. n)
    BY <1>9 DEF ExistsBijection
  <2>4. QED
    BY <2>1, <2>2, <2>3, FS_Bijection
<1>11. PICK A : A = {<<sheet[i].key, sheet[i].val>> : i \in DOMAIN sheet}
  OBVIOUS
<1>12. PICK B : B = {<<k, p.rows[k]>> : k \in listed}
  OBVIOUS
<1>13. A \subseteq B
  <2>1. ASSUME NEW i \in 1 .. n PROVE <<sheet[i].key, sheet[i].val>> \in B
    <3>1. sheet[i].key \in listed /\ sheet[i].val = p.rows[sheet[i].key]
      BY <1>7, <1>8
    <3>2. QED
      BY <1>12, <3>1
  <2>2. QED
    BY <1>5, <1>11, <2>1
<1>14. B \subseteq A
  <2>1. ASSUME NEW k \in listed PROVE <<k, p.rows[k]>> \in A
    BY <1>5, <1>7, <1>11
  <2>2. QED
    BY <1>12, <2>1
<1>15. QED
  BY <1>2, <1>3, <1>5, <1>10, <1>11, <1>12, <1>13, <1>14, SheetCardinality

-----------------------------------------------------------------------------
(* The sheet in the program                                                  *)

SheetInv == focus = "sheet" => SheetIInv

LEMMA SheetInductive ==
  ASSUME Sheet!SheetAssumption
  PROVE  Spec => []SheetInv
<1>1. Init => SheetInv
  BY SheetInitIInv DEF Init, SheetInv
<1>2. SheetInv /\ [Next]_vars => SheetInv'
  <2>1. SUFFICES ASSUME SheetInv, [Next]_vars, focus' = "sheet" PROVE SheetIInv'
    BY DEF SheetInv
  <2>2. focus = "sheet"
    BY <2>1 DEF Next, vars
  <2>3. Sheet!Next \/ UNCHANGED Sheet!vars
    BY <2>1, <2>2 DEF Next, vars, Sheet!vars, F4, F5, F6, F7, F8, F9, F10, F11, F12
  <2>4. QED
    BY <2>1, <2>2, <2>3, SheetNextIInv DEF SheetInv
<1>3. QED
  BY <1>1, <1>2, PTL DEF Spec

\* A sales person's note stays in its lead's row, through leads that leave, come back and
\* move up and through flushes that die, until one has died after it wrote beside a map
\* or two were under way at once.
THEOREM NotesAreKept ==
  ASSUME Sheet!SheetAssumption
  PROVE  Spec => []NotesStayUntorn
<1>1. SheetInv => NotesStayUntorn
  BY SheetIInvNotes DEF SheetInv, NotesStayUntorn
<1>2. QED
  BY <1>1, SheetInductive, PTL

\* What a flush is about to commit the sheet shows: every listed key once, with the values
\* that were read, and nothing else, until flushes have overlapped or died as above.
THEOREM SheetsMirror ==
  ASSUME Sheet!SheetAssumption
  PROVE  Spec => []SheetMirrors
<1>1. SheetInv => SheetMirrors
  BY SheetIInvMirrors DEF SheetInv, SheetMirrors
<1>2. QED
  BY <1>1, SheetInductive, PTL
===============================================================================
