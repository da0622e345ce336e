--------------------------------- MODULE Parts ---------------------------------
(***************************************************************************)
(* Parts of the program that share no state, as one specification: a       *)
(* behaviour is a behaviour of the part in focus and of no other.  The     *)
(* parts' variables are taken from one pool; those a part does not need    *)
(* are off.  A constant that means another thing in another part has the   *)
(* part's name in front of it; the parts' modules say what each is.        *)
(***************************************************************************)
EXTENDS Pool

CONSTANTS
  \* Leads
  Contacts, Aliases, MaxMails, LeadWorkers, LeadRequests, NoOne, BounceKinds, Verdicts,
  SoftBudget, MaxRetries, BatchSize, MaxRuns, LeadNotices, MaxPolls, MaxEdits,
  \* Sheet
  Tabs, RowKeys, NoNote, Flushers, FlushDeaths, SheetWrites, MaxNotes,
  \* Live events
  EventWriters, MaxSeq, ErrorLimit,
  \* Rate limiter
  Buckets, Per, Callers, Rate, Senders, BucketAttempts, MaxWait, MinTtl, MaxTime,
  MaxBack

VARIABLE focus

vars == <<focus, s1, s2, s3, F4>>

Off   == "off"
Off19 == s19 = Off
Off18 == s18 = Off /\ Off19
Off17 == s17 = Off /\ Off18
Off16 == s16 = Off /\ Off17
Off15 == s15 = Off /\ Off16
Off14 == s14 = Off /\ Off15
Off13 == s13 = Off /\ Off14
Off12 == s12 = Off /\ Off13
Off11 == s11 = Off /\ Off12
Off10 == s10 = Off /\ Off11
Off9  == s9 = Off /\ Off10
Off8  == s8 = Off /\ Off9
Off7  == s7 = Off /\ Off8
Off6  == s6 = Off /\ Off7
Off5  == s5 = Off /\ Off6
Off4  == s4 = Off /\ Off5

-----------------------------------------------------------------------------
(* The parts                                                                *)

Leads == INSTANCE LeadsProofs WITH
  final <- s1, checks <- s2, leads <- s3, supp <- s4, msgs <- s5, softs <- s6, mailbox <- s7,
  answered <- s8, lock <- s9, proc <- s10, out <- s11, clash <- s12, seen <- s13, runs <- s14,
  sentNotices <- s15, polls <- s16, edits <- s17,
  Workers <- LeadWorkers, Requests <- LeadRequests, Kinds <- BounceKinds,
  MaxNotices <- LeadNotices

Sheet == INSTANCE SheetSync WITH
  tab <- s1, db <- s2, sheet <- s3, map <- s4, events <- s5, pc <- s6, plan <- s7, torn <- s8,
  writes <- s9, notes <- s10, deaths <- s11,
  Keys <- RowKeys, MaxDeaths <- FlushDeaths, MaxWrites <- SheetWrites

Events == INSTANCE EventStreamProofs WITH
  drawn <- s1, rows <- s2, unsent <- s3, committed <- s4, conn <- s5, inbox <- s6, last_seq <- s7,
  frames <- s8, log <- s9, lastSeq <- s10, errors <- s11, timer <- s12, pollTimer <- s13,
  closed <- s14, raced <- s15,
  Writers <- EventWriters

Bucket == INSTANCE TokenBucketProofs WITH
  time <- s1, clock <- s2, bucket <- s3, caller <- s4, grants <- s5,
  Attempts <- BucketAttempts

ASSUME Assumptions ==
  /\ Leads!LeadsAssumption /\ Gates!RulesAssumption
  /\ Sheet!SheetAssumption /\ Events!EventAssumption
  /\ SignIn!SignInAssumption /\ Secrets!SecretsAssumption /\ Bucket!BucketAssumption
  /\ Lookups!LookupAssumption /\ Maps!MapsAssumption /\ Signals!SignalAssumption
  /\ Crawl!CrawlAssumption /\ Mailbox!MailboxAssumption /\ Exports!ExportsAssumption
  /\ Templates!TemplatesAssumption

-----------------------------------------------------------------------------

Init ==
  \/ focus = "leads" /\ Leads!Init /\ Off18
  \/ focus = "rules" /\ Gates!Init /\ Off4
  \/ focus = "sheet" /\ Sheet!Init /\ Off12
  \/ focus = "events" /\ Events!Init /\ Off16
  \/ focus = "sign-in" /\ SignIn!Init /\ Off10
  \/ focus = "secrets" /\ Secrets!Init /\ Off16
  \/ focus = "bucket" /\ Bucket!Init /\ Off6
  \/ focus = "lookups" /\ Lookups!Init /\ Off10
  \/ focus = "maps" /\ Maps!Init /\ Off14
  \/ focus = "signals" /\ Signals!Init /\ Off12
  \/ focus = "crawl" /\ Crawl!Init /\ Off16
  \/ focus = "mailbox" /\ Mailbox!Init /\ Off12
  \/ focus = "exports" /\ Exports!Init /\ Off9
  \/ focus = "templates" /\ Templates!Init /\ Off7

Next ==
  \/ focus = "leads" /\ Leads!Next /\ UNCHANGED <<focus, F18>>
  \/ focus = "rules" /\ Gates!Next /\ UNCHANGED <<focus, F4>>
  \/ focus = "sheet" /\ Sheet!Next /\ UNCHANGED <<focus, F12>>
  \/ focus = "events" /\ Events!Next /\ UNCHANGED <<focus, F16>>
  \/ focus = "sign-in" /\ SignIn!Next /\ UNCHANGED <<focus, F10>>
  \/ focus = "secrets" /\ Secrets!Next /\ UNCHANGED <<focus, F16>>
  \/ focus = "bucket" /\ Bucket!Next /\ UNCHANGED <<focus, F6>>
  \/ focus = "lookups" /\ Lookups!Next /\ UNCHANGED <<focus, F10>>
  \/ focus = "maps" /\ Maps!Next /\ UNCHANGED <<focus, F14>>
  \/ focus = "signals" /\ Signals!Next /\ UNCHANGED <<focus, F12>>
  \/ focus = "crawl" /\ Crawl!Next /\ UNCHANGED <<focus, F16>>
  \/ focus = "mailbox" /\ Mailbox!Next /\ UNCHANGED <<focus, F12>>
  \/ focus = "exports" /\ Exports!Next /\ UNCHANGED <<focus, F9>>
  \/ focus = "templates" /\ Templates!Next /\ UNCHANGED <<focus, F7>>

Spec == Init /\ [][Next]_vars

-----------------------------------------------------------------------------
(* Properties: those of the parts' modules, which say more about them.      *)

\* Leads: a contact whose address bounced stays out of the sales-ready list, and
\* nobody is on it, or suppressed, twice.
ListIsRight == focus = "leads" => Leads!TypeOK /\ Leads!BouncedStaysOut /\ Leads!OneRowEach

\* Leads: recompute_sales_ready_for_job lists only contacts that are VERIFIED then.
OnlyVerifiedSurface == [][focus = "leads" => Leads!SurfacesVerified]_vars

\* Leads: a bounce or an answer of a message is not taken back.
OutcomeIsFinal == [][focus = "leads" => Leads!OutcomeStays]_vars

\* Validation rules: no row that was seeded or saved opens a gate of decide, and the
\* keywords, handlings and threshold that the settings screen shows are decide's.
GatesHold == focus = "rules" => Gates!VerifiedPassedGates /\ Gates!ShownIsDecided

\* Sheet: a sales person's note stays in its lead's row unless a flush died half-way or
\* two were under way at once.
NotesStayUntorn == focus = "sheet" => Sheet!NotesStayUntorn

\* Sheet: what a flush commits is what the sheet shows.
SheetMirrors == focus = "sheet" => Sheet!SheetMirrors

\* Live events: a connection sends every event at most once and in order.
ServedOnceInOrder == focus = "events" => Events!ServedOnceInOrder

\* Live events: a page that has caught up shows every event that was not raced.
ShowsCommitted == focus = "events" => Events!ShowsCommitted

\* Sign-in: a Google account comes back to the user row of its first sign-in, unless it
\* met another's address, and a token from before a demotion administers nothing.
AccountsStay == focus = "sign-in" => SignIn!SameUserAgain /\ SignIn!OnlyAdminsAdminister

\* Credentials: a key shown as verified passed its test if that called the provider, and
\* the API's adapters come to use the key set last where .env was written and decides.
KeysAreTrue == focus = "secrets" => Secrets!VerifiedWasTested /\ Secrets!ApiFollows

\* Rate limiter: no stretch of time sees more grants than burst and refill allow, quota
\* is spent on grants alone, and who sleeps as long as it was told is let through.
QuotaIsExact ==
  focus = "bucket" => Bucket!LimitHolds /\ Bucket!RefusalsAreFree /\ Bucket!AdviceSuffices

\* Paid lookups: an answer that was kept is not paid for again while it lives.
OneCreditPerWindow == focus = "lookups" => Lookups!OneCreditPerWindow

\* Google Maps: a sweep makes every search once, as far as its budget goes, hands no
\* place over twice and none from elsewhere.
SweepComplete == focus = "maps" => Maps!SweepComplete /\ Maps!NothingFar

\* Hiring signals: a key or credential taken away serves at most the call that was being
\* prepared, and discovery brings in each page once and no path that is no page's.
CallsHaveAccess ==
  [][focus = "signals" => Signals!CallHasAccess /\ Signals!PublicPagesOnce']_vars

\* Crawler: it asks for no page the site forbids, none twice, and no more than the
\* budget; where a page redirects to is not asked about.
PoliteCrawl == focus = "crawl" => Crawl!PoliteCrawl

\* Bounce poll: a notice is recorded against the message it quotes, and against another
\* to its recipient only once a re-launch has deleted that one.
NoticeHitsItsMessage == focus = "mailbox" => Mailbox!NoticeHitsItsMessage

\* Bounce and reply polls: a permanent bounce is recorded once and stays as long as its
\* message's row.
BounceStands == focus = "mailbox" => Mailbox!BounceStands

\* Exports: what a COMPLETED export offers is whole and as new as its request.
CompletedIsWhole == focus = "exports" => Exports!CompletedIsWhole

\* Exports: an export that reads QUEUED has somebody or something to carry it on.
QueuedIsQueued == focus = "exports" => Exports!QueuedIsQueued

\* Templates: a contact's mail has no placeholder that its template or its facts brought
\* in, its own facts and the opt-out line of the hour.
MailedIsPersonal == focus = "templates" => Templates!MailedIsPersonal
=============================================================================
