------------------------------- MODULE Campaign -------------------------------
(***************************************************************************)
(* One outreach campaign and its messages: the launch, pause, resume and   *)
(* cancel endpoints of the API, the beat that dispatches due messages, the *)
(* Celery workers that run send_message, and the outcomes (replies, hard   *)
(* bounces) and suppressions that come back while they do.                 *)
(*                                                                         *)
(* A message is <<contact, launch>>: a launch deletes the rows of earlier  *)
(* ones and inserts new ones.  READ COMMITTED as in MiningJob: a row that  *)
(* an open transaction has updated or deleted is locked until its commit,  *)
(* while everybody else still reads the committed row.                     *)
(*                                                                         *)
(* SCHEDULED, QUEUED and FAILED are campaign statuses no code assigns, so  *)
(* the active send states come down to SENDING.  DELIVERED is not told     *)
(* apart from SENT, and `due` is left to the scheduler: any queued message *)
(* may be.                                                                 *)
(***************************************************************************)
EXTENDS Integers, FiniteSets

CONSTANTS
  Contacts,   \* contacts of the campaign that are VERIFIED when it is created
  Garbled,    \* those whose details may put a {{placeholder}} into a rendered message
  Spoilt,     \* launches at which they do: details are edited between launches
  Workers,    \* Celery worker slots of queue campaign_jobs
  Requests,   \* API request slots: concurrent calls of the campaign endpoints
  NoOne,      \* "nobody holds the row lock", and "no message"
  MaxCalls,   \* bound: API calls made in a behaviour
  MaxCopies,  \* bound: undelivered send tasks per message when one is added
  MaxFaults,  \* bound: crashes, Gmail errors and rate limit denials
  MaxEdits,   \* bound: suppressions added or deleted, and validations asked for
  MaxOutcomes \* bound: contacts that answer, and contacts that bounce

ASSUME CampaignAssumption ==
  /\ Workers \cap Requests = {} /\ Garbled \subseteq Contacts /\ Spoilt \subseteq Nat
  /\ NoOne \notin Workers \cup Requests \cup (Contacts \X (1..MaxCalls))
  /\ {MaxCalls, MaxCopies, MaxFaults, MaxEdits, MaxOutcomes} \subseteq Nat

Ids == Contacts \X (1..MaxCalls)
To(id) == id[1]

VARIABLES
  status,     \* the committed status of the campaign
  msgs,       \* the committed status of each message row, "absent" if no row
  lock,       \* the transaction that has updated or deleted the row
  tasks,      \* send_message tasks of each message ready in the broker
  worker,     \* each worker: where it is in send_message, and the message
  request,    \* each API request: where it is and what it has read
  verified,   \* contacts whose final_email_status is VERIFIED
  suppressed, \* contacts whose address is in the suppressions table
  checking,   \* contacts under a validation that found no suppression
  mailed,     \* history: how often Gmail accepted each message
  shared,     \* history: messages a worker took up while another had them
  answered,   \* history: contacts whose reply has been recorded
  bounced,    \* history: contacts whose hard bounce has been recorded
  pardoned,   \* history: ... and whose suppression a user has deleted since
  restored,   \* history: ... and that a validation has found VERIFIED since
  stopped,    \* history: the last word of the users is a pause or a cancel
  late,       \* history: workers that sent an email since that word
  calls, faults, edits  \* how much of each bound is used

outcomes == <<verified, suppressed, checking, answered, bounced, pardoned, restored>>
word     == <<stopped, late>>
budget   == <<calls, faults, edits>>
vars     == <<status, msgs, lock, tasks, worker, request, mailed, shared,
              outcomes, word, budget>>

Statuses == {"draft", "sending", "paused", "completed", "cancelled"}

WorkerType  == [pc : {"idle", "campaign", "gmail", "flush", "check", "commit",
                      "finish"},
                id : Ids \cup {NoOne}]
RequestType == [pc : {"idle", "load", "delete", "wait", "rebuild", "write"},
                op : {"none", "launch", "pause", "resume", "cancel"},
                gen : 0..MaxCalls, seen : Statuses, doomed : SUBSET Ids]

Free   == [pc |-> "idle", id |-> NoOne]
NoCall == [pc |-> "idle", op |-> "none", gen |-> 0, seen |-> "draft",
           doomed |-> {}]

TypeOK ==
  /\ status \in Statuses
  /\ msgs \in [Ids -> {"absent", "queued", "sent", "replied", "bounced"}]
  /\ lock \in [Ids -> Workers \cup Requests \cup {NoOne}]
  /\ tasks \in [Ids -> Nat]
  /\ worker \in [Workers -> WorkerType]
  /\ request \in [Requests -> RequestType]
  /\ mailed \in [Ids -> Nat]
  /\ shared \subseteq Ids
  /\ {verified, suppressed, checking, answered, bounced, pardoned, restored}
       \subseteq SUBSET Contacts
  /\ stopped \in BOOLEAN /\ late \subseteq Workers
  /\ calls \in 0..MaxCalls /\ faults \in 0..MaxFaults /\ edits \in 0..MaxEdits

Init ==
  /\ status = "draft"
  /\ msgs = [id \in Ids |-> "absent"]
  /\ lock = [id \in Ids |-> NoOne]
  /\ tasks = [id \in Ids |-> 0]
  /\ worker = [w \in Workers |-> Free]
  /\ request = [r \in Requests |-> NoCall]
  /\ mailed = [id \in Ids |-> 0]
  /\ shared = {} /\ verified = Contacts /\ suppressed = {} /\ checking = {}
  /\ answered = {} /\ bounced = {} /\ pardoned = {} /\ restored = {}
  /\ stopped = FALSE /\ late = {}
  /\ calls = 0 /\ faults = 0 /\ edits = 0

Fault == faults < MaxFaults /\ faults' = faults + 1 /\ UNCHANGED <<calls, edits>>
Edit  == edits < MaxEdits /\ edits' = edits + 1 /\ UNCHANGED <<calls, faults>>

\* The row locks once p's transaction has ended.
Unlocked(p) == [id \in Ids |-> IF lock[id] = p THEN NoOne ELSE lock[id]]

Rows    == {id \in Ids : msgs[id] # "absent"}
Pending == {id \in Ids : msgs[id] = "queued"}

-----------------------------------------------------------------------------
(* The campaign endpoints of the API                                        *)

AllowedFrom(op) ==
  CASE op = "launch" -> Statuses \ {"sending", "completed"}
    [] op = "pause"  -> {"sending"}
    [] op = "resume" -> {"paused"}
    [] op = "cancel" -> {"draft", "sending", "paused"}

\* A request loads the campaign and applies the endpoint's 409 condition.
Call(r, op) ==
  /\ request[r].pc = "idle"
  /\ calls < MaxCalls
  /\ status \in AllowedFrom(op)
  /\ request' = [request EXCEPT ![r] =
                   [NoCall EXCEPT !.pc = IF op = "launch" THEN "load" ELSE "write",
                                  !.op = op, !.gen = calls + 1]]
  /\ calls' = calls + 1
  /\ IF op \in {"launch", "resume"}
     THEN stopped' = FALSE /\ late' = {}
     ELSE UNCHANGED word
  /\ UNCHANGED <<status, msgs, lock, tasks, worker, mailed, shared, outcomes, faults, edits>>

\* _transition writes the status without looking at the row again; resume then
\* asks for a dispatch (Dispatch is always possible while SENDING).
Transition(r) ==
  /\ request[r].pc = "write"
  /\ LET op == request[r].op
     IN  /\ status' = CASE op = "pause"  -> "paused"
                        [] op = "resume" -> "sending"
                        [] op = "cancel" -> "cancelled"
         /\ IF op = "resume" THEN UNCHANGED word ELSE stopped' = TRUE /\ late' = {}
  /\ request' = [request EXCEPT ![r] = NoCall]
  /\ UNCHANGED <<msgs, lock, tasks, worker, mailed, shared, outcomes, budget>>

\* The launch's thread opens its own session and reads the campaign again,
\* without a second 409 condition.
LoadCampaign(r) ==
  /\ request[r].pc = "load"
  /\ request' = [request EXCEPT ![r].pc = "delete", ![r].seen = status]
  /\ UNCHANGED <<status, msgs, lock, tasks, worker, mailed, shared, outcomes, word, budget>>

\* schedule_campaign deletes the campaign's messages: the DELETE is for the rows
\* committed when it starts ...
DeleteRows(r) ==
  /\ request[r].pc = "delete"
  /\ request' = [request EXCEPT ![r].pc = "wait", ![r].doomed = Rows]
  /\ UNCHANGED <<status, msgs, lock, tasks, worker, mailed, shared, outcomes, word, budget>>

\* Mutant of RowsLocked: a re-launch leaves the existing messages in place.
RowsKept(r) ==
  /\ request[r].pc = "wait"
  /\ request' = [request EXCEPT ![r].pc = "rebuild", ![r].doomed = {}]
  /\ UNCHANGED <<status, msgs, lock, tasks, worker, mailed, shared, outcomes, word, budget>>

\* ... and waits for the transactions that have locked them.  (It locks row by
\* row; in one step here, as two DELETEs meet the rows in the same order.)
RowsLocked(r) ==
  /\ request[r].pc = "wait"
  /\ \A id \in request[r].doomed : msgs[id] # "absent" => lock[id] = NoOne
  /\ lock' = [id \in Ids |-> IF id \in request[r].doomed \cap Rows THEN r
                                                               ELSE lock[id]]
  /\ request' = [request EXCEPT ![r].pc = "rebuild", ![r].doomed = {}]
  /\ UNCHANGED <<status, msgs, tasks, worker, mailed, shared, outcomes, word, budget>>

\* plan_recipients: verified, not suppressed, and no message with a terminal
\* outcome among the rows the transaction sees, which are not those it deleted.
Eligible(r) ==
  {c \in verified \ suppressed :
     ~ \E id \in Ids : /\ To(id) = c
                       /\ msgs[id] \in {"replied", "bounced"}
                       /\ lock[id] # r}

\* A QUEUED message for every eligible contact, SENDING, commit.  Without one
\* eligible contact everything is rolled back (422).  The status is written
\* only if the session's campaign was not SENDING already.
Rebuild(r) ==
  /\ request[r].pc = "rebuild"
  /\ IF Eligible(r) = {}
     THEN UNCHANGED <<status, msgs>>
     ELSE /\ msgs' = [id \in Ids |->
                        IF id \in Eligible(r) \X {request[r].gen} THEN "queued"
                        ELSE IF lock[id] = r THEN "absent" ELSE msgs[id]]
          /\ status' = IF request[r].seen = "sending" THEN status ELSE "sending"
  /\ lock' = Unlocked(r)
  /\ request' = [request EXCEPT ![r] = NoCall]
  /\ UNCHANGED <<tasks, worker, mailed, shared, outcomes, word, budget>>

\* The API process dies part way: its transaction is rolled back.
Abort(r) ==
  /\ request[r].pc # "idle"
  /\ Fault
  /\ lock' = Unlocked(r)
  /\ request' = [request EXCEPT ![r] = NoCall]
  /\ UNCHANGED <<status, msgs, tasks, worker, mailed, shared, outcomes, word>>

-----------------------------------------------------------------------------
(* The beat and the workers                                                 *)

\* Mutant of Dispatch: the beat waits until the queue of tasks has been worked off.
WhenNoneWaits(id) ==
  /\ msgs[id] = "queued" /\ status = "sending"
  /\ \A i \in Ids : tasks[i] = 0
  /\ tasks' = [tasks EXCEPT ![id] = @ + 1]
  /\ UNCHANGED <<status, msgs, lock, worker, request, mailed, shared, outcomes, word, budget>>

\* dispatch_due_messages: one more task for a due message, however many copies
\* are on their way already.
Dispatch(id) ==
  /\ msgs[id] = "queued" /\ status = "sending"
  /\ tasks[id] < MaxCopies
  /\ tasks' = [tasks EXCEPT ![id] = @ + 1]
  /\ UNCHANGED <<status, msgs, lock, worker, request, mailed, shared, outcomes, word, budget>>

\* A worker has a task of message id in hand.
HasIt(id) == \E w \in Workers : worker[w].id = id

\* Mutant of Take: send_message does not look at the status of the message.
TakeAny(w, id) ==
  /\ worker[w].pc = "idle"
  /\ tasks[id] > 0
  /\ tasks' = [tasks EXCEPT ![id] = @ - 1]
  /\ worker' = [worker EXCEPT ![w] =
                  IF msgs[id] # "absent" THEN [pc |-> "campaign", id |-> id] ELSE Free]
  /\ shared' = IF HasIt(id) THEN shared \cup {id} ELSE shared
  /\ UNCHANGED <<status, msgs, lock, request, mailed, outcomes, word, budget>>

\* send_message loads the message: one that is gone or not QUEUED is skipped.
\* Nothing tells it that another worker has the same message in hand.
Take(w, id) ==
  /\ worker[w].pc = "idle"
  /\ tasks[id] > 0
  /\ tasks' = [tasks EXCEPT ![id] = @ - 1]
  /\ worker' = [worker EXCEPT ![w] =
                  IF msgs[id] = "queued" THEN [pc |-> "campaign", id |-> id] ELSE Free]
  /\ shared' = IF HasIt(id) THEN shared \cup {id} ELSE shared
  /\ UNCHANGED <<status, msgs, lock, request, mailed, outcomes, word, budget>>

\* Mutant of CheckCampaign: the campaign is not looked at.
CampaignIgnored(w) ==
  /\ worker[w].pc = "campaign"
  /\ worker' = [worker EXCEPT ![w].pc = "gmail"]
  /\ UNCHANGED <<status, msgs, lock, tasks, request, mailed, shared, outcomes, word, budget>>

\* The campaign is loaded after the message; it stays in the session as read.
CheckCampaign(w) ==
  /\ worker[w].pc = "campaign"
  /\ worker' = [worker EXCEPT ![w] =
                  IF status = "sending" THEN [@ EXCEPT !.pc = "gmail"] ELSE Free]
  /\ UNCHANGED <<status, msgs, lock, tasks, request, mailed, shared, outcomes, word, budget>>

\* _safe_render finds that the message in hand is fully rendered.
Renders(w) == worker[w].id \notin Garbled \X Spoilt

\* ... or it does not (PermanentError): the task ends and the message stays QUEUED,
\* for the beat to dispatch again a minute later.
Refused(w) ==
  /\ worker[w].pc = "gmail" /\ ~ Renders(w)
  /\ worker' = [worker EXCEPT ![w] = Free]
  /\ UNCHANGED <<status, msgs, lock, tasks, request, mailed, shared, outcomes, word, budget>>

\* The rate limiter or Gmail says no (TransientError): rolled back and retried,
\* or, with the retries used up or another error, left to the next dispatch.
NotSent(w) ==
  /\ worker[w].pc = "gmail" /\ Renders(w)
  /\ Fault
  /\ \/ tasks' = [tasks EXCEPT ![worker[w].id] = @ + 1]
     \/ UNCHANGED tasks
  /\ worker' = [worker EXCEPT ![w] = Free]
  /\ UNCHANGED <<status, msgs, lock, request, mailed, shared, outcomes, word>>

\* Mutant of Revoked: the campaign gets a status no endpoint leads out of.
RevokedFails(w) ==
  /\ worker[w].pc = "gmail" /\ Renders(w)
  /\ Fault
  /\ status' = "failed"
  /\ worker' = [worker EXCEPT ![w] = Free]
  /\ UNCHANGED <<msgs, lock, tasks, request, mailed, shared, outcomes, word>>

\* invalid_grant (PermanentError): the campaign is PAUSED whatever it is by now.
Revoked(w) ==
  /\ worker[w].pc = "gmail" /\ Renders(w)
  /\ Fault
  /\ status' = "paused"
  /\ worker' = [worker EXCEPT ![w] = Free]
  /\ UNCHANGED <<msgs, lock, tasks, request, mailed, shared, outcomes, word>>

\* Gmail accepts the email.  An answer that never arrives is an error of no
\* class that is retried: the message stays QUEUED although it was sent.
Send(w) ==
  /\ worker[w].pc = "gmail" /\ Renders(w)
  /\ mailed' = [mailed EXCEPT ![worker[w].id] = @ + 1]
  /\ late' = IF stopped THEN late \cup {w} ELSE late
  /\ \/ worker' = [worker EXCEPT ![w].pc = "flush"] /\ UNCHANGED budget
     \/ worker' = [worker EXCEPT ![w] = Free] /\ Fault
  /\ UNCHANGED <<status, msgs, lock, tasks, request, shared, outcomes, stopped>>

\* The UPDATE to SENT waits for the row lock; a row that a launch has deleted
\* meanwhile makes it raise StaleDataError and the task fails.
Flush(w) ==
  /\ worker[w].pc = "flush"
  /\ LET id == worker[w].id
     IN  /\ lock[id] = NoOne
         /\ IF msgs[id] = "absent"
            THEN worker' = [worker EXCEPT ![w] = Free] /\ UNCHANGED lock
            ELSE /\ lock' = [lock EXCEPT ![id] = w]
                 /\ worker' = [worker EXCEPT ![w].pc = "check"]
  /\ UNCHANGED <<status, msgs, tasks, request, mailed, shared, outcomes, word, budget>>

\* Mutant of MaybeComplete: what remains is not looked up.
CompleteAlways(w) ==
  /\ worker[w].pc = "check"
  /\ worker' = [worker EXCEPT ![w].pc = "finish"]
  /\ UNCHANGED <<status, msgs, lock, tasks, request, mailed, shared, outcomes, word, budget>>

\* _maybe_complete looks for QUEUED messages: its own is flushed, those that
\* others are sending are not committed yet.  The campaign is the one read in
\* CheckCampaign, which was SENDING.
MaybeComplete(w) ==
  /\ worker[w].pc = "check"
  /\ worker' = [worker EXCEPT ![w].pc =
                  IF Pending \subseteq {worker[w].id} THEN "finish" ELSE "commit"]
  /\ UNCHANGED <<status, msgs, lock, tasks, request, mailed, shared, outcomes, word, budget>>

\* Commit: the message is SENT and the campaign COMPLETED, over whatever status
\* it has by now.
Sent(w) ==
  /\ worker[w].pc \in {"commit", "finish"}
  /\ msgs' = [msgs EXCEPT ![worker[w].id] = "sent"]
  /\ status' = IF worker[w].pc = "finish" THEN "completed" ELSE status
  /\ lock' = Unlocked(w)
  /\ worker' = [worker EXCEPT ![w] = Free]
  /\ UNCHANGED <<tasks, request, mailed, shared, outcomes, word, budget>>

\* A worker process dies: rollback, and its task is delivered again.
WorkerLost(w) ==
  /\ worker[w].pc # "idle"
  /\ Fault
  /\ tasks' = [tasks EXCEPT ![worker[w].id] = @ + 1]
  /\ lock' = Unlocked(w)
  /\ worker' = [worker EXCEPT ![w] = Free]
  /\ UNCHANGED <<status, msgs, request, mailed, shared, outcomes, word>>

-----------------------------------------------------------------------------
(* What comes back: polls of the mailbox, and users' suppressions           *)

More == Cardinality(answered) + Cardinality(bounced) < MaxOutcomes

\* poll_replies finds a reply to a message that was sent (apply_reply).  It does
\* not look at cancelled campaigns.
Reply(id) ==
  /\ msgs[id] = "sent" /\ lock[id] = NoOne /\ status # "cancelled" /\ More
  /\ msgs' = [msgs EXCEPT ![id] = "replied"]
  /\ answered' = answered \cup {To(id)}
  /\ UNCHANGED <<status, lock, tasks, worker, request, verified, suppressed, checking,
                 mailed, shared, bounced, pardoned, restored, word, budget>>

\* Mutant of HardBounce: the contact stays VERIFIED.
ContactKept(id) ==
  /\ msgs[id] \notin {"absent", "bounced"} /\ mailed[id] > 0 /\ lock[id] = NoOne /\ More
  /\ msgs' = [msgs EXCEPT ![id] = "bounced"]
  /\ suppressed' = suppressed \cup {To(id)}
  /\ bounced' = bounced \cup {To(id)}
  /\ pardoned' = pardoned \ {To(id)} /\ restored' = restored \ {To(id)}
  /\ UNCHANGED <<status, lock, tasks, worker, request, verified, checking, mailed,
                 shared, answered, word, budget>>

\* poll_bounces matches a hard bounce by Message-ID (apply_bounce): whatever the
\* message's status, the address is suppressed and the contact flipped.  It polls
\* an account while any campaign that uses it is not cancelled.
HardBounce(id) ==
  /\ msgs[id] \notin {"absent", "bounced"} /\ mailed[id] > 0 /\ lock[id] = NoOne /\ More
  /\ msgs' = [msgs EXCEPT ![id] = "bounced"]
  /\ suppressed' = suppressed \cup {To(id)}
  /\ verified' = verified \ {To(id)}
  /\ bounced' = bounced \cup {To(id)}
  /\ pardoned' = pardoned \ {To(id)} /\ restored' = restored \ {To(id)}
  /\ UNCHANGED <<status, lock, tasks, worker, request, checking, mailed, shared,
                 answered, word, budget>>

\* A user adds a suppression, or deletes one.
Suppress(c) ==
  /\ c \notin suppressed /\ Edit
  /\ suppressed' = suppressed \cup {c}
  /\ UNCHANGED <<status, msgs, lock, tasks, worker, request, verified, checking, mailed,
                 shared, answered, bounced, pardoned, restored, word>>

Unsuppress(c) ==
  /\ c \in suppressed /\ Edit
  /\ suppressed' = suppressed \ {c}
  /\ pardoned' = IF c \in bounced THEN pardoned \cup {c} ELSE pardoned
  /\ UNCHANGED <<status, msgs, lock, tasks, worker, request, verified, checking, mailed,
                 shared, answered, bounced, restored, word>>

\* A user asks for a contact to be verified, or the retry of validation comes to it:
\* the transaction reads the suppressions, which end the matter ...
Verify(c) ==
  /\ c \notin suppressed /\ c \notin checking /\ Edit
  /\ checking' = checking \cup {c}
  /\ UNCHANGED <<status, msgs, lock, tasks, worker, request, verified, suppressed, mailed,
                 shared, answered, bounced, pardoned, restored, word>>

\* ... and commits what its checks say of the address, whatever has been recorded of
\* the contact since it began.
Validated(c) ==
  /\ c \in checking
  /\ checking' = checking \ {c}
  /\ \/ verified' = verified \ {c} /\ UNCHANGED restored
     \/ /\ verified' = verified \cup {c}
        /\ restored' = IF c \in bounced THEN restored \cup {c} ELSE restored
  /\ UNCHANGED <<status, msgs, lock, tasks, worker, request, suppressed, mailed,
                 shared, answered, bounced, pardoned, word, budget>>

-----------------------------------------------------------------------------

RequestStep(r) == \/ Transition(r) \/ LoadCampaign(r) \/ DeleteRows(r)
                  \/ RowsLocked(r) \/ Rebuild(r)

WorkerStep(w) == \/ \E id \in Ids : Take(w, id)
                 \/ CheckCampaign(w) \/ Refused(w) \/ Send(w) \/ Flush(w)
                 \/ MaybeComplete(w) \/ Sent(w)

\* No call in progress, no task, nobody at work.
Quiet == /\ \A r \in Requests : request[r].pc = "idle"
         /\ \A w \in Workers : worker[w].pc = "idle"
         /\ \A id \in Ids : tasks[id] = 0
Rest  == Quiet /\ UNCHANGED vars

Next ==
  \/ \E r \in Requests : \/ \E op \in {"launch", "pause", "resume", "cancel"} : Call(r, op)
                         \/ RequestStep(r)
                         \/ Abort(r)
  \/ \E w \in Workers : WorkerStep(w) \/ NotSent(w) \/ Revoked(w) \/ WorkerLost(w)
  \/ \E id \in Ids : Dispatch(id) \/ Reply(id) \/ HardBounce(id)
  \/ \E c \in Contacts : Suppress(c) \/ Unsuppress(c) \/ Verify(c) \/ Validated(c)
  \/ Rest

Spec == Init /\ [][Next]_vars

\* The beat keeps dispatching, the broker hands tasks out in turn (each is a list in
\* Redis), workers keep working, and a request that was received is carried through.
Fairness ==
  /\ \A id \in Ids     : WF_vars(Dispatch(id))
  /\ \A id \in Ids     : SF_vars(\E w \in Workers : Take(w, id))
  /\ \A w \in Workers  : WF_vars(WorkerStep(w))
  /\ \A r \in Requests : WF_vars(RequestStep(r))

FairSpec == Spec /\ Fairness

-----------------------------------------------------------------------------
(* Properties                                                               *)

\* Whatever copies of its task the beat adds and however often the campaign is paused,
\* resumed and launched again, a message is mailed once, and once more for every crash
\* or lost answer at most; unless a worker took it up while another had it in hand,
\* which nothing prevents (MCCampaignShared) and `shared` records.
EachMessageOnce == \A id \in Ids \ shared : mailed[id] <= 1 + faults

\* One message per distinct address per campaign (plan_recipients, and
\* schedule_campaign "existing messages for the campaign are cleared and rebuilt").
OneMessagePerAddress == \A i, j \in Rows : To(i) = To(j) => i = j

\* No send is taken up for a contact whose hard bounce has been recorded, although a
\* new launch deletes the bounced message: apply_bounce suppresses the address and
\* flips the contact, and it takes both a user who deletes the suppression and a
\* validation that finds the contact VERIFIED again for it to be mailed once more.
BouncedNotTakenUp ==
  [][\A w \in Workers : worker[w].pc = "idle" /\ worker'[w].pc = "campaign"
       => To(worker'[w].id) \notin bounced \/ To(worker'[w].id) \in pardoned \cap restored]_vars

\* A campaign shown as COMPLETED has no message left to send, which no dispatch
\* would ever pick up (_maybe_complete).
CompletedDrained == status = "completed" => Pending = {}

\* Once a pause or cancel is acknowledged and until the next launch or resume, a
\* worker sends at most the one email it was past the campaign check of.
StopBoundsSends ==
  [][\A w \in Workers : Send(w) /\ stopped => w \notin late]_vars

\* A queued message of a campaign that keeps sending is eventually sent (or bounced, or
\* deleted by a new launch), whatever is skipped, retried, rolled back or refused
\* meanwhile.  One that does not render is dispatched and refused for ever.
EveryMessageLeaves ==
  \A id \in Ids \ (Garbled \X Spoilt) :
    (msgs[id] = "queued" /\ status = "sending") ~> (msgs[id] # "queued" \/ status # "sending")

\* "Flip a campaign to COMPLETED once no QUEUED messages remain."
DrainedCompletes == Quiet /\ faults = 0 /\ Pending = {} => status # "sending"

\* A contact that replied in a prior message is not mailed again.
RepliedNotRemailed ==
  [][\A w \in Workers : Send(w) => To(worker[w].id) \notin answered]_vars
=============================================================================
