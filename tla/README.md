# LeadMine AI: a formal model

TLA+ models of the program in `src/backend/app`, the TLC runs that check them
on small instances, and theorems about them that TLAPS proves for every value
of the constants. `PROJECT.json` lists the runs, the mutants that show each
property can fail, the source lines behind each definition, the findings and
the hazards.

    tlc -workers 2 -config MCJobInline.cfg MCMiningJob
    tlapm PartsProofs.tla

## 1. The system

LeadMine AI mines companies and contacts for a tenant and mails the verified
ones. A FastAPI process serves the web frontend; Celery workers and a beat run
the long work; PostgreSQL holds the state, Redis the broker, flags, rate limits
and the live-event channels; Google Sheets mirrors the tables and Gmail sends.

| Part | State it keeps | Operations | Talks to |
| --- | --- | --- | --- |
| Mining job (`api/jobs.py`, `pipeline/orchestrator.py`) | the `mining_jobs` row: status, progress; Redis key `job:{id}:cancelled` | start, pause, cancel; the driver `advance`, the inline runner, `_safe_sync` | broker, stages, sheet |
| Pipeline stages (`pipeline/stages.py`, `dedupe.py`, `sales_ready.py`) | companies, contacts, candidates, checks, leads | discovery, extraction, enrichment, validation, sales-ready | adapters, rate limiter, events, sheet events |
| Source adapters (`adapters/`) and crawler (`crawler/`) | response cache, source runs, usage, robots cache | resolve, search, fetch | the web |
| Email validation (`pipeline/validation.py`, `tasks/validation.py`, `api/settings.py`) | rules row, checks, retry counts | edit the rules, decide, verify, retry the unknown | providers |
| Campaign (`api/campaigns.py`, `outreach/scheduler.py`, `sender.py`, `renderer.py`, `tasks/campaign.py`) | `campaigns` row, `email_messages` rows, templates | launch, pause, resume, cancel; beat dispatch, `send_message`, `_maybe_complete`, `classify_deliveries` | broker, Gmail, suppressions |
| Feedback (`tasks/bounce.py`, `outreach/suppression.py`, `reply_monitor.py`, `bounce_parser.py`) | message status, bounce and reply events, suppressions, contact status, lead tombstones | poll bounces, poll replies, add and delete a suppression | Gmail, sheet events |
| Sheet mirror (`sheetsync/`) | pending sync events, row map | enqueue, flush a tab, set up | Google Sheets |
| Live events (`services/events.py`, `api/events.py`, `sse.ts`) | `job_events` with a sequence, Redis channels, the page's log | publish, replay and follow, reconnect, poll | every writer of a job |
| Rate limiter (`workers/rate_limit.py`) | token buckets in Redis | acquire, suggested delay | send and provider calls |
| Sign-in and users (`security/`, `api/auth.py`, `api/users.py`) | tenants, users, session tokens | sign in, demo login, invite, change a role | Google, Microsoft |
| Credentials (`services/credentials.py`, `envfile.py`, `api/integrations.py`) | credential rows, `.env`, each process's cached settings | put, delete, test a key | every adapter |
| Exports (`services/exportsvc.py`, `api/exports.py`) | the export row and its file | request, build, download | broker |
| Read-only API, frontend | | queries, CRUD | |

What is hard in it:

* **Transactions that overlap.** Sessions are READ COMMITTED, objects are not
  expired on commit, and most handlers read, decide and write without a lock.
  An ORM update names the changed columns only. A stage of the pipeline is one
  transaction that keeps the job's row locked to its end.
* **Delivery more than once.** `acks_late` with `reject_on_worker_lost` delivers
  a task again after a crash, the Redis visibility timeout delivers it again
  while it runs, the beat adds a send task per queued message every minute, and
  every poll of a mailbox lists the notices of three days.
* **Several stores.** The Redis cancel flag, channels, cache and buckets, the
  sheet, `.env`, export files and Gmail change outside the database transaction,
  before or after it.
* **No unique indexes.** Companies, leads and suppressions are looked up and then
  inserted.
* **Retries within retries.** Lookups, crawls and sends have a ladder of attempts,
  a second pass of the stage, a retry by the beat and a redelivery of the task.
* **Users at the same time.** Start, pause, cancel, launch and resume are plain
  requests, as many at once as users make.

What makes each part correct is stated at the end of its module; section 5 says
what is left out.

## 2. The modules

| Module | What it is |
| --- | --- |
| `MiningJob` | the job row and everything that writes it |
| `JobLedger` | the abstract specification of a job: steps in order on committed results, COMPLETED after all of them |
| `Stages` (uses `Sources`) | discovery, extraction and enrichment of several jobs over a tenant's companies and contacts |
| `Sources` | which adapter serves a source: cards, gates, drivers (operators) |
| `Campaign` | one campaign, its messages, workers, users and outcomes |
| `Leads` | an address from its validation to the sales-ready list, its mails, and what comes back |
| `ValidationRules` (extends `EmailDecision`) | the rules between the settings screen and the decisions |
| `EmailDecision` | the decision table, the rules' decoding and the local gates (operators) |
| `Lookups` | paid lookups: cache, charges, retry ladder, outages of Redis |
| `MapsSearch` | the sweep of Google Maps |
| `Signals` | the sources of hiring signals |
| `Crawl` | the crawl of one website |
| `Mailbox` | the polls of the senders' mailboxes |
| `Templates` | the words of a mail from template to sending |
| `SheetSync` | the flush of one tab into the spreadsheet |
| `EventStream` | the event log from writer to page |
| `TokenBucket` | the Redis token buckets and their callers |
| `SignIn` | workspaces, users, roles |
| `Secrets` | the keys of a provider: rows, `.env`, cached settings |
| `Exports` | one export from request to download |
| `Parts` (extends `Pool`) | the fourteen parts that share no state, as one specification |
| `Pool` | the variables that the parts are given, and ten of the parts |
| `MCParts`, `MCMiningJob`, `MCCampaign`, `MCStages`, `MCRules` | TLC instances |
| `MCValues` | the larger values the instances give to constants |
| `MiningJobProofs`, `CampaignProofs`, `StagesProofs` | theorems of `MiningJob`, `Campaign`, `Stages` |
| `LeadsProofs`, `EventStreamProofs`, `TokenBucketProofs` | inductive invariants of three parts |
| `PoolProofs` | inductive invariants of the parts in `Pool` |
| `PartsProofs` | inductive invariant of `SheetSync`, theorems of `Parts` |

**Parts that share no state.** A module takes the rest of the system as its
environment: what other parts do to the state it models is an action of its own
(a user deletes a suppression in `Leads`, the pipeline commits rows in
`Exports`). Where two modules speak of the same rows they divide the columns:
`Campaign` has the launch and the sending of a message, `Leads` what the address
and the lead become, `Mailbox` how a notice finds its message, `Templates` its
words. `Parts` is their sum, not their product: a behaviour picks the part in
focus and is a behaviour of that part alone, so nothing is gained or lost for a
part by being beside the others. Its variables are one pool that the parts'
instances rename; those a part does not need stay "off". A property of `Parts`
is the conjunction of a part's properties, guarded by its focus.

A definition whose comment starts with "Mutant of" is a variant of a definition
of the code with a plausible bug. No specification uses it; putting it in the
place of the original must break the property it is paired with.

### MiningJob

*State.* `job` is the committed row (status, progress), `lock` the transaction
that holds its row lock, `cancelled` the Redis flag, `queue` the
`discover_places` messages, `sheet` the status in the Mining_Jobs tab. Each
worker and API request is a process in `proc`: a program counter, the row *as it
read it*, and the step it is at. `done` is what has been committed. `order`,
``late` and `cut` are history: the users' last word, who entered a stage since, and
whether, since the last start, what held the job ended without a handler.

*Actions and code.* `Call` loads a job and applies the 409 condition of
`start_job`, `pause_job`, `cancel_job`; `ClearFlag`, `RaiseFlag`, `StartJob`,
`Enqueue`, `PauseJob`, `CancelJob` are the rest of those handlers in the order
of the code. `Advance` and `CheckFlagFirst` are the entry of
`orchestrator.advance`; `BeginRunning`, `Refresh`, `CheckFlag`, `EnterStage`,
`FinishStage` and `Complete` are `_drive` and its helpers; `DriveRaises`,
`ReloadForFail`, `Fail` its failure path, `CancelSeen` is `_cancel`, `SafeSync`
is `_safe_sync`. `InDrive` says where the handler of `advance` reaches; `LoadFails`
and `Escapes` are the exceptions outside it (the load of the job, the read of the
flag, the first `_cancel`, `_fail` itself), after which the task has failed, its
message is acknowledged and nobody has the job. `RunInline` and `GuardCancel` with the same stage actions are
`run_job_inline` in the thread of a request. `WorkerLost`, `Redeliver` and
`ApiAbort` are crashes and redeliveries.

*Abstractions.* `progress_percent` keeps only the order of the values the code
writes (0, begun, entered step i, finished step i, 100). What a stage does to
other tables is the one fact that it committed. A short transaction (read
already done, update, commit) is one step that waits for the row lock.

### JobLedger

What users of a job may rely on whatever the schedule: step i is carried out
only on committed results of 1..i-1 and COMPLETED comes only after all. Any
other status may appear at any time. `MiningJob` implements it with
`status <- job.status` and `done` as it is.

### Campaign

*State.* `status` is the campaign, `msgs` the message rows (a message is
<<contact, launch>>, so that rows of earlier launches are told apart), `lock`
the row locks, `tasks` the send tasks, `worker` and `request` the processes,
`verified` and `suppressed` what eligibility is made of, `checking` the validations
that have read the suppressions. `mailed`, `shared` (messages two workers had in hand
at once), `answered`, `bounced`, `pardoned` (a user deleted the suppression of the
bounce), `restored` (a validation has found the contact VERIFIED since), `stopped` and
`late` are history.

*Actions and code.* `Call` and `Transition` are the endpoints and `_transition`.
A launch goes through `LoadCampaign`, `DeleteRows`, `RowsLocked` and `Rebuild`
(`launch._schedule` and `schedule_campaign`): the DELETE is for the rows it can
see when it starts, it waits for those that workers hold, and eligibility is
derived afterwards. `Dispatch` is the beat. `Take`, `CheckCampaign`, `Send`,
`Flush`, `MaybeComplete` and `Sent` are `send_message` from the load of the
message to the commit; `NotSent`, `Revoked` and the second branch of `Send` are
the ways it fails, `Refused` is the PermanentError of `_safe_render`, at
every turn, for a message in which a contact's details left a placeholder (`Garbled`);
details are edited between launches, so it is so at some launches only (`Spoilt`).
`Reply` and `HardBounce` are `apply_reply` and `apply_bounce`; `Suppress` and
`Unsuppress` the suppression endpoints; `Verify` and `Validated` the verify endpoint
and the retry of validation, which read the suppressions first and commit their
verdict later.

*Abstractions.* No code assigns SCHEDULED, QUEUED or FAILED to a campaign, so the
active states are SENDING alone. DELIVERED is not told apart from SENT (in
`Leads` it is). Time is left out: any queued message may be due. Contacts stand
for addresses: two contacts never share one.

### Stages and Sources

*State.* Committed `companies` (key, posture, evidence, website status) and
`contacts`, what a running discovery has inserted and merged (`drafts`,
`mends`), and the stage each job is in with what is still to do in it.

*Actions and code.* `BeginDiscovery`, `RunSource`, `SkipSource`, `Sight`,
`FinishSource`, `SourceRaises`, `CommitDiscovery` are `run_discovery` with
`_upsert_company` and `merge_company_evidence`; `Crawl` and `SecondPass` are
`run_extraction_batch` with `_apply_contacts`, and `_second_pass_extraction`;
`Enrich` and `RetryDeferred` are `run_enrichment` and the second half of
`_run_enrichment_stage`. `Sources!Resolve` is `resolve_source`: demo override,
gate flag, sign-off, mode, keys, provider.

*Abstractions.* A company is its dedupe key; names, phones and addresses are
merged as one. A crawl finds a small set of people and inboxes.

### Leads

*State.* Rows of several tables: `final`, `checks`, `leads`, `supp`, `msgs`,
`softs`; the senders' `mailbox`; `proc`, the transaction of each worker and
request with what it has read; `lock`, which rows it has flushed.

*Actions and code.* `StageStore`, `Ask`, `Store` are
`run_validation_for_candidate` in the stage, in `retry_unknown_batch` and in
the verify endpoint; `Surface` and `SalesReadyStage` are
`recompute_sales_ready_for_job`. `LookNotice`, `Match`, `Mark`, `Silence` are
`apply_bounce` with its helpers; `LookReply`, `ApplyReply` and `Classify`,
`Deliver` are `apply_reply` and `classify_deliveries`; `LookSuppression`,
`Suppress`, `Unsuppress` are the users' endpoints. Every look is a step of its
own, so that two transactions on an address can overlap; `clash` remembers those
that did, and the properties hold for the others. `MCLeadsSoft` and
`MCLeadsRetry` use the module as it is.

### EmailDecision, ValidationRules, Lookups

`RulesFrom` is `RuleSet.from_dict`, `PatchRules` and `RulesShown` the settings
endpoint's two translations with every field the screen has but the number of
retries, `Gates` and `Decide` the order of `decide`,
`MxFor` what the stage takes for MX. `ValidationRules` lets admins open and save
the row (`Open`, `Save`: the row is rewritten as it was read) between decisions.

`Lookups` has the calls of RocketReach, MillionVerifier and Groq: `Hit` and `Keep`
are the cache, `Charge` is `record_usage`, `Refused`, `Throttled`, `Garbled` the
ways a call fails, `Retry` the batch of the beat. Time is days, which is what
expiry is about.

### MapsSearch, Signals, Crawl

`MapsSearch`: `Locate` is `_resolve_center` with `geocode`; `Post` one search with
its pages, the position in the sweep being tile, phrasing and page; `BudgetSpent`
and `PostFails` end it. `Signals`: `Prepare` reads the key or credential a call is made
with, `Call` makes it; `ChangeAccess` is an admin's change at any time between,
`WorkerRestarts` the only way a worker gets another key; `PageOf` is
`facebook_page_from_url`, prefix by prefix. `Crawl`: `FetchRobots`, `Http`, `Insecure`,
`Browser` are the attempts of `PageFetcher.fetch`, each with the redirects it follows
unasked (`Request`, `Followed`), `Pick` the frontier, `Stop`, `Fails`, `TimeUp` the
ends of `crawl_company`. Pages are numbers in the order of
their score; texts, links and parsers are left out.

### Mailbox and Templates

`Mailbox`: `StartPoll`, `PollAccount`, `PollFails`, `PollCommits` are
`poll_bounces` as one transaction over all accounts; `Parse` and `Classify` say
what `bounce_parser.py` recovers from the shape of a notice, `Match` is
`match_message`; `FindReplies`, `CommitReplies` and `RepliesFail` are the reply poll,
which writes the statuses it has read. `Relaunch` is the environment: the launch that
deletes a message's row and, by cascade, its bounce. `Backend` picks Gmail or the demo mailbox.

`Templates`: `SaveTemplate`, `CreateCampaign`, `Launch`, `SendMessage`, `TestSend`,
with a text as a short sequence of placeholders, words and blanks. The opt-out line is
such a text too (`Said`, `WithLine`), since nothing checks what a tenant writes there.

### SheetSync, EventStream, TokenBucket

`SheetSync`: `Read`, `Update`, `Delete`, `AppendRows`, `Commit` are `flush_tab` in
its order, `Die` any end but the commit; `Change`, `Leave`, `SalesNote` are the
world. `EventStream`: `Flush`, `Publish`, `Commit`, `Rollback` of a writer,
`Connect`, `Replay`, `Listen`, `Forward` of `_job_stream`, `StreamError`, `Poll`,
`Remount` of `sse.ts`. `TokenBucket`: `Script` is the Lua script as one step,
`Acquire` and `Suggest` its callers; time passes and the clock may be set back.
Levels are integers in units of 1/Per of a token, so that nothing is rounded.

### SignIn, Secrets, Exports

`SignIn`: `Callback` reads and decides (`Decide` is `_upsert_oauth_user`), `Commit`
writes under the unique constraints; `Invite` and `PatchUser` act with the role of
the user's row. `Secrets`: `StoreCredential`, `DeleteCredential`, `PutEnvKey` and
`Replace` (the rewrite of `.env` in two steps), `NotWritten` (the OSError of a file
system that is read-only), `Loads` (the process environment wins over `.env`), `Probe`
and `RecordProbe`, which call the provider only where `live`, and the restarts. `Exports`: `Create`, `Enqueue` of the request, `Take`, `Read`, `Open`,
`Write`, `Raise`, `Finish`, `Ack` of the task, `Die`, `Download`.

## 3. The runs

| Run | Instance | Shows |
| --- | --- | --- |
| `MCJobInline` | 1 worker, 2 requests that may run inline, 2 steps, 3 calls, 1 fault | types, nobody strands the job but by ending outside every handler, honest progress, `JobLedger` |
| `MCJobOneWorker` | 1 worker, 1 request, 3 steps, 4 calls, 3 faults | no step is redone, the sheet shows the outcome |
| `MCJobLive` | 2 workers, 1 request, 2 steps, 3 calls, 1 fault, fair | work after an acknowledged cancel is at most the stage already entered; a queued or running job settles |
| `MCCampaignSends` | 1 contact, 2 workers, 1 request, 3 calls, 2 copies of a task, 1 fault, 2 edits | types, one mail per message but for faults and `shared` ones, one message per address, a bounced contact is left alone until it is pardoned and verified again |
| `MCCampaignLive` | 2 contacts, one of them `Garbled` at the first launch, 2 workers, 1 request, 2 calls, 1 fault, fair | every queued message that renders leaves the queue, a stop bounds the mails, COMPLETED is drained |
| `MCStages` | 2 jobs (one with one company, followed to its end, one with two), 2 keys, 2 contacts per company, 1 name, 2 addresses, 3 settings of the tenant | no rows or contacts are mixed up, evidence is licit, throttled and refused work is treated as such, one answer is paid |
| `MCParts` | fourteen parts, each alone | see below |
| `MCJobPause`, `MCCampaignTwoLaunches`, `MCCampaignDrain`, `MCCampaignReplied`, `MCRulesMx` | | violated, see section 6 |

| Property of `Parts` | Instance of the part | What it says |
| --- | --- | --- |
| `ListIsRight`, `OnlyVerifiedSurface`, `OutcomeIsFinal` | `Leads`: 1 contact, 1 alias, 1 mail, 1 worker, 1 request, 2 recomputations, 1 notice, 2 polls, 1 edit | a bounced contact stays out, one row each; only VERIFIED contacts are listed; outcomes are not taken back |
| `GatesHold` | `ValidationRules`: 6 addresses, 8 edits, 5 verdicts | no saved row opens a gate; the keywords, the handlings the pipeline knows and the hard threshold that the screen shows are those that decide |
| `NotesStayUntorn`, `SheetMirrors` | `SheetSync`: 2 keys, 5 changes, 1 note, 1 death, 1 flusher, 3 kinds of tab | notes stay with their leads and the sheet shows the rows, unless the tab is `torn` |
| `ServedOnceInOrder`, `ShowsCommitted` | `EventStream`: 2 writers, 3 events, 4 errors | a stream is in order; a page that caught up shows all that was not raced |
| `AccountsStay` | `SignIn`: 4 identities, 2 sign-ins at once, 2 users, 1 role change | a Google account comes back to its user unless it met another's address (`mixed`); a demotion binds old tokens |
| `KeysAreTrue` | `Secrets`: 2 tenants, 2 keys, 2 writers, 2 writes, 1 restart | verified means found good by the provider, unless nobody was called (`untested`); the API comes to use the key set last where `.env` decides and was written |
| `QuotaIsExact` | `TokenBucket`: 2 windows, 2 callers, 5 seconds, 1 back | limits hold, refusals are free, the advised wait suffices |
| `OneCreditPerWindow` | `Lookups`: 1 key, 2 workers, 2 asks, 1 outage, 1 day | a kept answer is not paid again while it lives |
| `SweepComplete` | `MapsSearch`: 2 tiles, 3 searches, 2 pages, 2 places | every search once within the budget, no place twice, none from afar |
| `CallsHaveAccess` | `Signals`: 2 keys, 2 changes | what is taken away serves the call in preparation at most; pages once, and no path of another kind |
| `PoliteCrawl` | `Crawl`: 3 pages and the home page, 3 variants on 2 hosts, 3 attempts, 2 browser attempts, 1 redirect | for the pages the crawl asks for: robots.txt, the page budget and "once each" through all retries |
| `NoticeHitsItsMessage`, `BounceStands` | `Mailbox`: 2 messages to one recipient, 2 accounts, 3 shapes of notices, 1 fault | a notice that quotes its message finds it while its row is there; a bounce is recorded once and stays as long as the row |
| `CompletedIsWhole`, `QueuedIsQueued` | `Exports`: 2 tabs, 2 commits, 2 deaths | a COMPLETED export is whole; a QUEUED one is in somebody's hands |
| `MailedIsPersonal` | `Templates`: 5 texts, 2 sets of facts, 4 opt-out lines | no placeholder but the opt-out line's own, the contact's own facts, the opt-out line of the hour |

**What properties except.** Some properties leave out races that the code has. Each is
kept by a history variable, the property says so, and section 6 tells what comes of it:

| Variable | Set when | Left out of |
| --- | --- | --- |
| `cut` (`MiningJob`) | since the last start, an API process that held the job died, or a worker raised outside the handler of `advance` | `NoStrandedJob`, `EventuallySettles` |
| `shared` (`Campaign`) | a worker takes up a message that another has in hand | `EachMessageOnce` |
| `pardoned`, `restored` (`Campaign`) | a user deletes a bounced contact's suppression, a validation finds it VERIFIED again | `BouncedNotTakenUp`, when both are set |
| `clash` (`Leads`) | transactions on one address overlap | `ListIsRight`, `OutcomeIsFinal` |
| `overlap` (`Stages`) | two discoveries overlap | one row per company, postures |
| `torn` (`SheetSync`) | a flush dies after it wrote beside a map, or a second one begins while one is under way | `NotesStayUntorn`, `SheetMirrors` |
| `raced` (`EventStream`) | an event is committed behind a page's cursor | `ShowsCommitted` |
| `mixed` (`SignIn`) | a Google account is given the row of another one | `AccountsStay` |
| `raced`, `untested`, `lost` (`Secrets`) | a key is replaced under a test; a test calls nobody; a rewrite of `.env` fails or overlaps another | `KeysAreTrue` |
| `raced` (`Mailbox`) | a bounce is recorded after the reply poll read the message | `BounceStands` |

**Bounds.** The exact values are in the `.cfg` files.
`MaxRequests`/`MaxCalls` bound the calls of a behaviour, `MaxFaults` the crashes,
errors and redeliveries, `MaxEdits` the users' edits, `MaxOutcomes` the contacts that
answer or bounce (none in the fair run, where they would only empty the queue
sooner; any number in `MCCampaignSends`), `MaxCopies` the send tasks waiting per message. Two drivers are enough for every race of jobs, which only
ever compare a driver's copy with the committed row; two steps make "skipped",
"repeated" and "out of order" differ and the third step in `MCJobOneWorker` gives
a resumed run something to skip and something to do. Three calls allow launch,
pause, launch again, and two edits a deleted suppression and a new verdict. One waiting
copy of a send task would be enough for a message to be `shared`, because the one a
worker holds is a second one; with two, both workers and the queue have one. Two
contacts make "the last message" and
"not the last" differ. In `MCStages` two jobs make a key known from elsewhere, two
addresses make "the same person" and "a colleague" differ. In the parts: two keys
of a tab let a row leave and another move up, with five changes one can come back;
three events let two writers commit against their numbers with one in between;
two windows with unlike rates let one bucket refuse and the other pay, and five
seconds outlive the expiry of the shorter one; one day is the life of a cached
answer, so it can be asked for before, on and after its expiry; three searches end
a sweep of two tiles early and let a shorter one finish; two messages to one
recipient are what a match by recipient confuses; two tabs can be read before and
after a commit. Every mutant of a property is found within these bounds.

`MCParts` has one flusher of the sheet: a second one only makes `torn` true at its first
step, and the two properties are then silent. The theorems are about any number of them.

**One worker or one request.** A property checked with one worker slot or one
request slot is a statement about that deployment (`--concurrency=1`, one
operator). Section 4 says for which properties the number is needed: there it is
a hypothesis of the theorem, and the violated runs show what happens without it.

**Fairness.** Weak fairness of each worker's next step, of each request that was
received and, for campaigns, of the beat's dispatch of each message: Celery
workers loop, the beat runs every minute, the server carries a request to its
end. Campaigns also need that a task waiting in the broker is taken in the end
(strong fairness of `Take` for each message): a queue is a list in Redis, and a
message that is refused again and again must not be all that workers ever see.
Faults, users' calls and outcomes are never fair. A call of Gmail or a stage is
taken to return. `EventuallySettles` excludes the job whose holder ended outside
every handler (`cut`): nothing in the code recovers that.

**Deadlock** is checked in the runs of jobs and campaigns; `Rest` is the
stutter of a system with nothing to do. `MCStages` and `MCParts` switch it off:
their behaviours end when the jobs are done or a bound is used up.

## 4. What is proved

Each theorem holds for every value of the constants under the module's named
assumption, which TLC evaluates on the runs: bounds are numbers, the sets of
workers, buckets or phrasings are finite where something is counted, processes of
unlike kinds are unlike. Hypotheses beyond that say how a deployment is used:

| Hypothesis | Theorems | Why it is needed |
| --- | --- | --- |
| `OneRequestSlot`: calls of the endpoints do not overlap | `Campaign`: `Drained`, `OnePerAddress`, `StopIsHeard`, `BouncedStaysOut`; `MiningJob`: `CancelBounds` | two launches at once break the first two (`MCCampaignTwoLaunches`); a start beside a cancel takes its flag away |
| `OneRunner`: one worker, no inline start | `NothingRedone` | `MCJobRedelivery` |

All others hold for any number of everything.

| Module | Theorems | Run properties they establish |
| --- | --- | --- |
| `MiningJobProofs` | `TypeCorrect`, `ProgressIsHonest`, `NeverStranded`, `RefinesLedger`, `SheetShows`, `NothingRedone`, `CancelBounds` | `TypeOK`, `ProgressHonest`, `NoStrandedJob`, `ImplementsLedger`, `SheetShowsOutcome`, `NoStepRedone`, `CancelBoundsWork` |
| `CampaignProofs` | `TypeCorrect`, `Drained`, `OnePerAddress`, `StopIsHeard`, `BouncedStaysOut`, `MailedOnce` | `TypeOK`, `CompletedDrained`, `OneMessagePerAddress`, `StopBoundsSends`, `BouncedNotTakenUp`, `EachMessageOnce` |
| `StagesProofs` | `OneRowOnePerson`, `LawfulEvidence`, `ThrottledIsDeferred`, `LookupsArePaid`, `RefusalsAreHeard` | `NoMixUps`, `EvidenceIsLicit`, `ThrottledStaysPending`, `OneAnswerPaid`, `RefusalRespected` |
| `PartsProofs` | `TheListIsRight`, `VerifiedSurface`, `OutcomesStay`, `CompletedExportsAreWhole`, `QueuedExportsAreCarried`, `EventsInOrder`, `EventsShown`, `QuotasAreExact`, `AnswersArePaidOnce`, `CrawlsArePolite`, `GatesStayShut`, `VerifiedKeysWereTested`, `KeysStayTrue`, `AccountsStayTheirs`, `SweepsAreComplete`, `AccessIsHeeded`, `MailsArePersonal`, `NoticesHit`, `BouncesStand`, `NotesAreKept`, `SheetsMirror` | `ListIsRight`, `OnlyVerifiedSurface`, `OutcomeIsFinal`, `CompletedIsWhole`, `QueuedIsQueued`, `ServedOnceInOrder`, `ShowsCommitted`, `QuotaIsExact`, `OneCreditPerWindow`, `PoliteCrawl`, `GatesHold`, `KeysAreTrue`, `AccountsStay`, `SweepComplete`, `CallsHaveAccess`, `MailedIsPersonal`, `NoticeHitsItsMessage`, `BounceStands`, `NotesStayUntorn`, `SheetMirrors` |

*Where a part is proved.* `PartsProofs` carries an invariant of a part over to
`Parts`: the initial states of the part in focus, its steps, and the other parts'
steps, which leave the focus elsewhere. The invariant itself and the lemma for
each of the part's actions are in `LeadsProofs`, `EventStreamProofs` and
`TokenBucketProofs` for the three largest parts, in `PartsProofs` for `SheetSync`,
and in `PoolProofs` for the ten others, stated of the instances in `Pool`.

With these every safety invariant and every safety action property of the passing
runs has its theorem.

### The invariants

Most properties are not inductive; what has to be added to each is the content of
its proof.

**MiningJob.** A process writes what it derived from the row it read long ago, so
`IInv` says what each copy is worth: the progress a process has *read* is honest
about `done` too (`done` never shrinks, so a stale copy stays honest); a process
at step i has all of 1..i-1 committed, since it skipped those its copy counts as
finished and ran the others itself; a process about to complete has seen all done.
`NextStep` gives the second from the first by the step it jumps over. For
`NoStrandedJob` each kind of process that leaves the job leaves it in a stopped
status, with a message in the queue, with another process `Responsible`, or with `cut`
set, and a process counts as such only as long as what it may still write differs from
what it read. `SheetShows` adds that, while nothing
has failed, COMPLETED is the only outcome and it is in the sheet or in the hands of
the process that will put it there (`Unfailed`). `NothingRedone` adds that the
only runner's copy is up to date and the ledger exact (`Alone`); `CancelBounds`
that the flag stays raised from the acknowledgement to the next start and whoever
entered a stage since is past the door (`Halted`).

**Campaign.** With one request slot a launch is alone: it deletes every row there
is and has not seen the campaign SENDING (`SoleLaunch`), a worker that has flushed
holds the lock of a row that exists (`HeldRows`), and the worker that finds no
other QUEUED row is the last (`LastOne`); a contact in `bounced` is suppressed until
pardoned and unverified until restored (`BouncedOut`). Whatever the number of workers,
a message that is not `shared` is in one worker's hand (`OneHand`), its count of mails
is the one recorded, plus one for each fault, plus the one it is at (`SentOnce`), and a
launch numbers its rows afresh (`FreshLaunches`).

**Stages.** A contact's company is committed, a stage works on its own job's rows
(`Belongs`); keys are unique among committed rows and the drafts of each discovery,
until two discoveries overlapped (`Unique`); a posture covers its evidence
(`Covered`); lookups are counted by the stage a contact's job is in (`Lookups`).

**Leads.** What a transaction read of an address still holds as long as nobody
wrote to the address since (`Fresh`): who does write while it is under way puts
the address into `clash`, and the theorems are about the others. With it a VERIFIED
lead is of a contact that is not out, and an outcome and its flags agree (`Settles`).

**EventStream.** Numbers are taken once, by one writer, and published before they
are committed (`Numbers`); a commit behind the page's cursor was noted as raced
(`Overtaken`); once the replay is over, what is published is known or on its way
(`OnItsWay`). The order of the replay is shown with ranks: the sorted sequence of
a finite set of numbers has at i the member of rank i.

**TokenBucket.** For each grant i, the tokens granted since, the bucket's level and
what the next call would refill are at most the fastest rate times the window, the
time since and the set-back of the clock (`Accounted`); a key lives until its
bucket is full again (`Lives`), so that expiry adds nothing; the level a sleeping
caller will find when it wakes is enough (`Advised`). Sums over a bounded number of
callers and the products are lemmas.

**Lookups.** A charge whose answer was kept has it in the cache until the day of the
charge plus the expiry, and a call under way, which has missed the cache, knows that
all answers kept before it was asked had expired. **Crawl.** What was asked for was
allowed by the rules in the cache at that moment, which no longer change, and lies
behind the crawl: it is in `visited` or the page being fetched (`CrawlAskedOK`); what
redirects added is told apart by who asked (`by`).
**Exports.** The one message of the export is in the broker from its enqueue to the
acknowledgement, and the row is decided before that (`ExportsOneMessage`); the tabs of a
build are no older than the request. **ValidationRules.** What the row stores under two
names is the same (`GatesRowOK`), also in the rows that open edits are about to write
back. **Secrets.** A test in progress is of the row's key, unless that was replaced or
could not be read (`SecretsRowOK`); a key is assigned once in `.env`, and unless a
rewrite was `lost` the key set last is there or about to be written (`SecretsEnvOK`). **SignIn.** A subject has one row, ids
are drawn above those in use, and a decision not yet written still fits the rows
(`SignInWriteOK`); the unique constraints turn down the others, and a row that changes
hands puts both accounts into `mixed`. **MapsSearch.** The
searches made are those before the position in the sweep, and while later pages of a
search are read that search too; the bill is the pages of the searches begun, less those
the present one has left, and one more at most (`MapsSweeping`).

**SheetSync.** The plan of a flush says what is left to do and what is done
(`SheetPhaseOK`): after `Update` every listed key that has a row shows its value,
after `Delete` no other key has one, after `AppendRows` every listed key has. Through
all of it the plan's map is exact: each known key has its row, and every row's key
is known (`SheetMapped`), so rows can be renumbered and appended to without two keys
meeting in one. The committed map is as exact unless a flush under way has written
(`SheetMapOK`), and that is why a flush may die before its first write but not after it.
As long as the tab is not `torn` whoever flushes it is alone (`SheetAlone`), for any
number of flushers; a plan read beside another is right for nobody.
The lemmas `SheetDeleted`, `SheetAppended` and `SheetUpdated` say it of any sheet and
any map: what is left after a deletion is counted by ranks (`SheetRank`: the number of
rows kept up to r is r less the deleted ones above). A plan whose map was empty and
was found again in the sheet keeps its notes, but mirrors only with the next flush.

**Mailbox.** A hit is of a notice that is in the box under its own id, against a message
to the recipient of the one it is about (`MailboxHitRight`), in the poll's transaction
as among the committed rows; a box only grows. A permanent bounce is the only one of
its message, counted once, and in the status that transaction sees (`MailboxStands`);
the reply poll holds only messages without one (`MailboxRowsOK`), and when a bounce is
committed before it writes them they are in `raced`. A row that is deleted takes its
hits along, from the poll's transaction too. The fold over a listing is followed
from its first notice to its last (`MailboxPasses`).

**Templates.** Every fact that its text asks for is in a queued body whole
(`TemplatesFilled`); placeholders that a fact brought in are what the sender's check is
for. The footer comes after that check: what is left to say is that every placeholder
in the mail is one of the opt-out line. What `FlattenSeq` yields is shown by induction on the number of pieces.
**Signals.** The pages brought are each found page once: a page's place is its rank
among the first occurrences. What a call is prepared with was in force then, and `fresh`
collects what has been in force since the last call (`SignalsIInv`), so a call may use
what was taken away while it was prepared and nothing older.

Induction over sets and numbers is done without operator parameters: a set of
numbers that holds 0 and with k also k+1 holds all (`Climb`), or the least
counterexample is taken (`WFMin`). A recursive function of the model or the library
is followed with it: it exists up to k, and has the value the step gives at k+1.

### What stays with TLC

* Liveness: `EventuallySettles`, `EveryMessageLeaves`. Fairness and ENABLED are
  beyond the proof system.
* What the violated runs show, and the configurations of section 6.

## 5. What the model leaves out

* `create_job`, read-only endpoints, the dashboard, audit: inserts and queries.
* `launch?inline=true`, the demo path that sends inside the request.
* The reserved fan-out tasks and their stage counter: no code enqueues them.
* Parsing, normalisation and wording: pages, notices' layout, phone numbers and
  names (a dedupe key is a value), spreadsheet columns, prompts. What a
  conversion decides is modelled where a property is about it: the class of a
  notice, the rules' words, a text's placeholders.
* Times of day: `assign_schedule` and its windows.
* The setup of a spreadsheet and of a tenant's folders.
* Authorisation of each endpoint: callers are taken as allowed, but for the
  administration of users in `SignIn`. Token signatures and the code exchange.
* Loss of the broker's or the database's data, failures of the database in
  `Exports`; the loss of Redis is in `Lookups`.
* The frontend but for its event stream (whose cap of 500 events is left out).

## 6. Findings

Five runs end in a violation of what a comment or document of the repository says:

* `MCJobPause`: a pause just before `_begin_running` is overwritten and the whole
  pipeline runs ("pause/cancel-safe").
* `MCCampaignTwoLaunches`: two launches at the same time leave two messages for
  each address ("one message per distinct address per campaign").
* `MCCampaignDrain`: two workers that send the last two messages together leave
  the campaign SENDING ("COMPLETED once no QUEUED messages remain").
* `MCCampaignReplied`: launching a paused campaign again mails contacts that
  replied, as the rows that say so are deleted first.
* `MCRulesMx`: the MX stage never asks DNS, and nothing calls `check_mx`, so an
  address whose domain takes no mail is VERIFIED.

Seven more disagreements came out of the restated properties of passing runs: what the
document or comment says is more than the property can, and the property says what is
left of it.

* `EvidenceIsLicit`: the README of the repository (168, 440-446, 452) tells of a fall
  back to the mocks when a key is missing; `registry.py` skips the source, as
  `test_registry_resolution.py` asks.
* `GatesHold`: the settings screen says of its disposable domains that they "are rejected
  as invalid" and shows a minimum LLM score; `check_disposable` never sees the list, and
  the threshold decides only in mode "hard" (`ScreenDecides` in `MCRulesScreen`).
* `KeysAreTrue`: PUT env-keys answers that the key was saved when `.env` could not be
  written, and a test that calls nobody (demo mode, a provider without a check) is
  recorded as "last verified".
* `PoliteCrawl`: "respects robots directives"; redirects are followed unasked.
* `NoticeHitsItsMessage`: after a re-launch a notice that quotes a deleted row is recorded
  against the newest message to the recipient.
* `MailedIsPersonal`: the opt-out line is appended after the check for placeholders; one
  in it is mailed as it is, and a blank line means a mail without an opt-out.
* `CallsHaveAccess`: `facebook_signals.py:140-142` "rejects personal profiles"; a profile
  at an address of its own is taken for a page.

More configurations, kept beside the runs, end in violations as well; each checks
one property, whose comment quotes what the code says:

| Configuration (module) | Property | What happens |
| --- | --- | --- |
| `MCJobRedelivery` (`MCMiningJob`) | `NoStepRedone` | a task redelivered while it still runs repeats a step ("resumes rather than re-spending") |
| `MCJobLatePause` (`MCMiningJob`) | `LatePauseHonored` | a pause between the last re-check and the final write is lost |
| `MCStagesGated` (`MCStages`) | `UnavailableSkipped` | a gated source without its licensed provider raises and fails the job's discovery, where `_provider_base.py` says the job continues |
| `MCRulesScreen` (`MCRules`) | `ScreenDecides` | of what the settings screen shows, the disposable domains and (but in mode "hard") the threshold decide nothing, and "accept" and "reject" are words the pipeline does not know |
| `MCLeadsSoft` (`Leads`) | `SoftBudgetKept` | one soft notice, listed by several polls, uses up the budget of soft bounces |
| `MCLeadsRetry` (`Leads`) | `OnlyUnknownRetried` | an old unknown check of a candidate validated anew is tried again |
| `MCCampaignShared` (`MCCampaign`) | `NoMessageMailedTwice` | two workers take two copies of one message's task and both mail it, without a fault: nothing locks the row between the check and the send |
| `MCSheetTorn` (`SheetSync`) | `NotesStayWithLead` | a flush that dies after deleting rows leaves row numbers that put a note beside another lead; with two flushers in the configuration both append the same rows |
| `MCEventsGap` (`EventStream`) | `NoGap` | an event published before the subscription and committed after the replay is not shown |
| `MCEventsFollowing` (`EventStream`) | `StillFollowing` | after repeated errors the page neither streams nor polls: `pollTimer` is never set back |

Four more such properties are stated in their modules without a configuration:
`NoticeRecorded` (`Mailbox`: one tenant's revoked or busy mailbox aborts the polls of
all, for ever), `RetryAsksAgain` (`Lookups`: "unknown" is cached for 30 days, so all
retries of an unknown address are answered from the cache), `OverLimitSurfaces` (`MapsSearch`: a geocoder that refuses for quota
is taken as "no such place" and the sweep goes on without a centre) and
`RobotsHonored` (`Crawl`: robots.txt is asked of the home page's host alone, before the
request; pages of another host of the domain and the targets of redirects are fetched
unasked).

Met on the way and stated nowhere, so without a property:

* A suppression added after a launch does not stop a message that is already
  queued; the code looks at suppressions at launch and nowhere claims more.
* An exception outside the handler of `advance` (the load of the job, the read of the
  Redis flag, the first `_cancel`, `_fail` itself) fails the task, which acknowledges it;
  the job stays QUEUED or RUNNING with nobody (`cut` in `MiningJob`).
* A fact with braces in it leaves its message QUEUED: the sender refuses it at every
  turn and the campaign never completes (`Garbled` and `Spoilt` in `Campaign`). `{{First Name}}` is
  not matched by the renderer and is mailed as it is.
* A bounced contact whose suppression a user deletes becomes VERIFIED with the next
  verification and is mailed by the next launch.
* A reply poll under way when a re-launch deletes its messages fails on the foreign key
  and loses the replies it was about to record until the next one.
* The reply poll writes the status it read over a hard bounce recorded meanwhile
  (`raced` in `Mailbox`); a poll that lists more than a page sees the newest alone.
* An API process that dies between the commit and the enqueue leaves an export
  QUEUED, and a job likewise. Tabs of one export are read by separate queries.
* Two first sign-ins of one domain at once create two tenants; after that each
  sign-in of the domain fails. The last admin can demote himself.
* A second Google account that has been given another one's old address signs in as
  that one's user, and after its own address changes it is given a row of its own
  (`mixed` in `SignIn`).
* Two flushes of one tab at once both append the rows that are new; the poll, the job's
  sync and the API do not exclude each other (`torn` in `SheetSync`).
* One tenant's deletion of a provider's key empties `.env` for all tenants.
* Two workers that ask for one key at once both pay.

## 7. Plan

Done: `MiningJob` with `JobLedger` and proofs; `Campaign`; `Leads` (feedback and
sales-ready); `SheetSync`; `EventStream`; validation and its retries; `TokenBucket`;
`Stages` with `Sources`; the adapters' sweeps, signals and lookups; the crawler;
the mailbox; templates; sign-in; credentials; exports.

Proved: section 4, every safety property of the passing runs.

Next, in this order:

1. Abstract specifications: a follower sees each committed event once and in order
   (`EventStream`); a tab is the projection of the rows (`SheetSync`).
2. `launch?inline=true` as one more process that sends; `assign_schedule` as a
   recursive function against a reference definition.
3. `Leads` with two workers, where overlaps are exempt today: which of them are
   harmless, and what the others cost.
