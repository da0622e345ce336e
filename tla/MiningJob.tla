------------------------------ MODULE MiningJob ------------------------------
(***************************************************************************)
(* One mining job of LeadMine AI and everything that writes its row:       *)
(* the job endpoints of the API (start, pause, cancel), the Celery         *)
(* workers that run orchestrator.advance, and the inline runner that a     *)
(* start request may execute in its own thread.                            *)
(*                                                                         *)
(* PostgreSQL runs READ COMMITTED.  A transaction reads committed rows     *)
(* into an ORM object, and its UPDATE writes only the columns the object   *)
(* changed.  A stage of the pipeline is ONE transaction: it updates the    *)
(* row when it enters the stage and keeps the row lock until the stage     *)
(* commits.  The short transactions (begin, complete, fail, cancel, the    *)
(* API writes) are one step each, enabled while nobody else has the lock.  *)
(***************************************************************************)
EXTENDS Integers, FiniteSets

CONSTANTS
  Workers,      \* Celery worker slots of queue google_maps_jobs
  Requests,     \* API request slots: concurrent calls of the job endpoints
  NoOne,        \* "nobody holds the row lock"
  NSteps,       \* len(_STEPS) of the orchestrator (5 in the code)
  InlineAllowed,\* whether start may be called with ?inline=true
  MaxRequests,  \* bound: API calls made in a behaviour
  MaxFaults     \* bound: crashes, exceptions, redeliveries and sheet errors

ASSUME MiningJobAssumption ==
  /\ NSteps \in Nat \ {0}
  /\ Workers \cap Requests = {}
  /\ NoOne \notin Workers \cup Requests
  /\ InlineAllowed \in BOOLEAN
  /\ MaxRequests \in Nat
  /\ MaxFaults \in Nat

Procs == Workers \cup Requests
Steps == 1..NSteps

Statuses == {"draft", "queued", "running", "paused", "completed", "failed",
             "cancelled"}
Active   == {"queued", "running"}
Stopped  == {"paused", "cancelled"}

(***************************************************************************)
(* progress_percent takes a few values only: 0, 5 once begun, the value    *)
(* _enter_stage writes for step i (STAGE_PROGRESS - 5), the value with     *)
(* which step i finishes, and 100.  Only their order matters.              *)
(***************************************************************************)
Begun       == 1
Entered(i)  == 2 * i
Finished(i) == 2 * i + 1
Hundred     == 2 * NSteps + 2
Rows        == [status : Statuses, progress : 0..Hundred]

Larger(a, b) == IF a >= b THEN a ELSE b

VARIABLES
  job,       \* the committed mining_jobs row
  lock,      \* the process whose open transaction has updated that row
  cancelled, \* Redis: key job:{id}:cancelled exists
  queue,     \* discover_places messages ready in the broker
  proc,      \* each worker and request: where it is and what it has read
  done,      \* steps whose work has been committed at least once
  sheet,     \* the job's status in the Mining_Jobs tab ("draft" if no row)
  order,     \* the user's last word: an acknowledged pause or cancel, else "none"
  late,      \* processes that entered a stage since that order
  cut,       \* since the last start a process that held the job ended without a
             \* handler: an API process, or a worker outside the handler of advance
  calls,     \* API calls so far
  faults     \* faults so far

vars == <<job, lock, cancelled, queue, proc, done, sheet, order, late, cut,
          calls, faults>>
budget == <<calls, faults>>

WorkerPCs  == {"idle", "loaded", "begin", "loop", "flag", "enter", "body",
               "rolledback", "failing", "cancelling", "complete", "sync"}
RequestPCs == {"read", "unflag", "setflag", "write", "enqueue", "inline",
               "guard"}

ProcType == [pc : WorkerPCs \cup RequestPCs,
             op : {"none", "start", "startinline", "pause", "cancel", "task"},
             row : Rows,
             step : 0..NSteps + 1]

Idle == [pc |-> "idle", op |-> "none",
         row |-> [status |-> "draft", progress |-> 0], step |-> 0]

TypeOK ==
  /\ job \in Rows
  /\ lock \in Procs \cup {NoOne}
  /\ cancelled \in BOOLEAN
  /\ queue \in Nat
  /\ proc \in [Procs -> ProcType]
  /\ done \subseteq Steps
  /\ sheet \in {"draft", "completed", "failed"}
  /\ order \in {"none", "pause", "cancel"}
  /\ late \subseteq Procs
  /\ cut \in BOOLEAN
  /\ calls \in 0..MaxRequests
  /\ faults \in 0..MaxFaults

Init ==
  /\ job = [status |-> "draft", progress |-> 0]
  /\ lock = NoOne
  /\ cancelled = FALSE
  /\ queue = 0
  /\ proc = [p \in Procs |-> Idle]
  /\ done = {}
  /\ sheet = "draft"
  /\ order = "none"
  /\ late = {}
  /\ cut = FALSE
  /\ calls = 0
  /\ faults = 0

-----------------------------------------------------------------------------
(* Reading and writing the row                                              *)

\* The row after the flush of an object read as `seen` and set to `new`: an
\* UPDATE names the changed columns only, the others keep what is committed.
Flushed(seen, new) ==
  [status   |-> IF new.status = seen.status THEN job.status ELSE new.status,
   progress |-> IF new.progress = seen.progress THEN job.progress
                                                ELSE new.progress]

\* Commit of a short transaction of p that sets its object to `new`.
Commit(p, new) ==
  /\ lock = NoOne
  /\ job' = Flushed(proc[p].row, new)

At(p, pc)  == proc[p].pc = pc
Goto(p, pc) == proc' = [proc EXCEPT ![p].pc = pc]
Release(p) == proc' = [proc EXCEPT ![p] = Idle]
Holding(p, pc, row) == proc' = [proc EXCEPT ![p].pc = pc, ![p].row = row]

Fault == faults < MaxFaults /\ faults' = faults + 1 /\ UNCHANGED calls

-----------------------------------------------------------------------------
(* The job endpoints of the API                                             *)

\* A request loads the job and applies the endpoint's 409 condition to it.
Accepts(op) ==
  CASE op \in {"start", "startinline"} -> job.status \notin {"running", "completed"}
    [] op = "pause"  -> job.status \in Active
    [] op = "cancel" -> job.status \notin {"completed", "cancelled"}

\* start clears the Redis flag first, cancel raises it, pause has none.
FirstPlace(op) == IF op = "cancel" THEN "setflag"
                  ELSE IF op = "pause" THEN "write" ELSE "unflag"

Call(r, op) ==
  /\ At(r, "idle")
  /\ calls < MaxRequests
  /\ Accepts(op)
  /\ proc' = [proc EXCEPT ![r] =
                 [pc |-> FirstPlace(op), op |-> op, row |-> job, step |-> 0]]
  /\ calls' = calls + 1
  /\ IF op \in {"start", "startinline"}
     THEN order' = "none" /\ late' = {}
     ELSE UNCHANGED <<order, late>>
  /\ UNCHANGED <<job, lock, cancelled, queue, done, sheet, cut, faults>>

\* start_job clears "any stale cancel flag from a previous run" before it writes.
ClearFlag(r) ==
  /\ At(r, "unflag")
  /\ cancelled' = FALSE
  /\ Goto(r, "write")
  /\ UNCHANGED <<job, lock, queue, done, sheet, order, late, cut, budget>>

\* Mutant of RaiseFlag: cancel_job only writes the row.
RaiseFlagForgotten(r) ==
  /\ At(r, "setflag")
  /\ Goto(r, "write")
  /\ UNCHANGED <<job, lock, cancelled, queue, done, sheet, order, late, cut, budget>>

\* cancel_job raises the Redis flag before it writes the row.
RaiseFlag(r) ==
  /\ At(r, "setflag")
  /\ cancelled' = TRUE
  /\ Goto(r, "write")
  /\ UNCHANGED <<job, lock, queue, done, sheet, order, late, cut, budget>>

\* start_job: QUEUED is committed, then the task is enqueued (or run inline).
StartJob(r) ==
  /\ At(r, "write")
  /\ proc[r].op \in {"start", "startinline"}
  /\ Commit(r, [proc[r].row EXCEPT !.status = "queued"])
  /\ Goto(r, IF proc[r].op = "start" THEN "enqueue" ELSE "inline")
  /\ cut' = FALSE
  /\ UNCHANGED <<lock, cancelled, queue, done, sheet, order, late, budget>>

Enqueue(r) ==
  /\ At(r, "enqueue")
  /\ queue' = queue + 1
  /\ Release(r)
  /\ UNCHANGED <<job, lock, cancelled, done, sheet, order, late, cut, budget>>

PauseJob(r) ==
  /\ At(r, "write")
  /\ proc[r].op = "pause"
  /\ Commit(r, [proc[r].row EXCEPT !.status = "paused"])
  /\ order' = "pause" /\ late' = {}
  /\ Release(r)
  /\ UNCHANGED <<lock, cancelled, queue, done, sheet, cut, budget>>

CancelJob(r) ==
  /\ At(r, "write")
  /\ proc[r].op = "cancel"
  /\ Commit(r, [proc[r].row EXCEPT !.status = "cancelled"])
  /\ order' = "cancel" /\ late' = {}
  /\ Release(r)
  /\ UNCHANGED <<lock, cancelled, queue, done, sheet, cut, budget>>

\* The API process dies, or the handler raises, part way: the open transaction
\* is rolled back and nothing takes over what the request had still to do.
\* run_job_inline does not catch a stage's exception: it ends the same way.
ApiAbort(r) ==
  /\ ~At(r, "idle")
  /\ Fault
  /\ lock' = IF lock = r THEN NoOne ELSE lock
  /\ cut' = (cut \/ proc[r].pc \notin {"unflag", "setflag", "write", "sync"})
  /\ Release(r)
  /\ UNCHANGED <<job, cancelled, queue, done, sheet, order, late>>

-----------------------------------------------------------------------------
(* orchestrator.advance on a worker                                         *)

\* The worker takes a message (acks_late: it stays unacknowledged) and loads
\* the job; a stopped or finished job is returned from at once.
Advance(w) ==
  /\ At(w, "idle")
  /\ queue > 0
  /\ queue' = queue - 1
  /\ IF job.status \in {"paused", "cancelled", "completed", "failed"}
     THEN UNCHANGED proc
     ELSE proc' = [proc EXCEPT ![w] =
                     [pc |-> "loaded", op |-> "task", row |-> job, step |-> 0]]
  /\ UNCHANGED <<job, lock, cancelled, done, sheet, order, late, cut, budget>>

\* The Redis flag is read after the row; _drive begins unless already RUNNING.
CheckFlagFirst(w) ==
  /\ At(w, "loaded")
  /\ Goto(w, IF cancelled THEN "cancelling"
             ELSE IF proc[w].row.status = "running" THEN "loop" ELSE "begin")
  /\ UNCHANGED <<job, lock, cancelled, queue, done, sheet, order, late, cut, budget>>

\* _begin_running.  The inline runner goes straight to its first stage.
BeginRunning(p) ==
  /\ At(p, "begin")
  /\ LET new == [status |-> "running",
                 progress |-> Larger(proc[p].row.progress, Begun)]
     IN  /\ Commit(p, new)
         /\ IF p \in Workers
            THEN Holding(p, "loop", new)
            ELSE proc' = [proc EXCEPT ![p].pc = "enter", ![p].row = new,
                                      ![p].step = 1]
  /\ UNCHANGED <<lock, cancelled, queue, done, sheet, order, late, cut, budget>>

\* Mutant of NextStep: the loop compares with the progress written on entering.
NextStepByEntry(p, i) ==
  /\ i \in proc[p].step + 1 .. NSteps + 1
  /\ i \in Steps => proc[p].row.progress < Entered(i) - 2
  /\ \A k \in Steps : proc[p].step < k /\ k < i
                        => proc[p].row.progress >= Entered(k) - 2

\* The step the for loop of _drive stops at next: the first one after the last
\* it ran whose finish progress the row IT READ has not reached, or NSteps + 1.
NextStep(p, i) ==
  /\ i \in proc[p].step + 1 .. NSteps + 1
  /\ i \in Steps => proc[p].row.progress < Finished(i)
  /\ \A k \in Steps : proc[p].step < k /\ k < i
                        => proc[p].row.progress >= Finished(k)

\* session.refresh(job) at a stage boundary, then the pause/cancel check on it.
Refresh(w) ==
  /\ At(w, "loop")
  /\ IF job.status \in Stopped
     THEN Release(w)
     ELSE \E i \in 1..NSteps + 1 :
            /\ NextStep(w, i)
            /\ proc' = [proc EXCEPT ![w].pc = "flag", ![w].row = job,
                                    ![w].step = i]
  /\ UNCHANGED <<job, lock, cancelled, queue, done, sheet, order, late, cut, budget>>

\* Mutant of CheckFlag: the last step is taken for the end of the list.
CheckFlagOffByOne(p) ==
  /\ At(p, "flag")
  /\ Goto(p, IF cancelled THEN "cancelling"
             ELSE IF proc[p].step < NSteps THEN "enter" ELSE "complete")
  /\ UNCHANGED <<job, lock, cancelled, queue, done, sheet, order, late, cut, budget>>

\* The Redis flag at a stage boundary (is_cancelled), for both runners.
CheckFlag(p) ==
  /\ At(p, "flag")
  /\ Goto(p, IF cancelled THEN "cancelling"
             ELSE IF proc[p].step \in Steps THEN "enter" ELSE "complete")
  /\ UNCHANGED <<job, lock, cancelled, queue, done, sheet, order, late, cut, budget>>

\* _enter_stage flushes the progress: the UPDATE waits for the row lock and
\* takes it until the stage commits.  With nothing to change there is no UPDATE.
EnterStage(p) ==
  /\ At(p, "enter")
  /\ LET entered == Larger(proc[p].row.progress, Entered(proc[p].step))
     IN  IF entered # proc[p].row.progress
         THEN lock = NoOne /\ lock' = p
         ELSE UNCHANGED lock
  /\ late' = IF order = "none" THEN late ELSE late \cup {p}
  /\ Goto(p, "body")
  /\ UNCHANGED <<job, cancelled, queue, done, sheet, order, cut, budget>>

\* Mutant of StepProgress: the finish progress is not recorded.
StepProgressUnrecorded(p, i) == proc[p].row.progress

\* The progress a runner commits with step i: the inline runner has no
\* _finish_stage after SALES_READY, it commits what _enter_stage wrote.
StepProgress(p, i) ==
  Larger(proc[p].row.progress,
         IF p \in Requests /\ i = NSteps THEN Entered(i) ELSE Finished(i))

\* The stage's work and its progress are committed and the lock is released.
FinishStage(p) ==
  /\ At(p, "body")
  /\ LET i   == proc[p].step
         new == [proc[p].row EXCEPT !.progress = StepProgress(p, i)]
     IN  /\ new # proc[p].row => lock \in {p, NoOne}
         /\ job' = Flushed(proc[p].row, new)
         /\ done' = done \cup {i}
         /\ Holding(p, IF p \in Workers THEN "loop"
                       ELSE IF i = NSteps THEN "complete" ELSE "guard", new)
  /\ lock' = IF lock = p THEN NoOne ELSE lock
  /\ UNCHANGED <<cancelled, queue, sheet, order, late, cut, budget>>

\* Where a worker is inside _drive, and so inside the handler of advance.
InDrive(w) ==
  \/ proc[w].pc \in {"begin", "loop", "flag", "enter", "body", "complete"}
  \/ At(w, "cancelling") /\ proc[w].step # 0
  \/ At(w, "sync") /\ proc[w].row.status = "completed"

\* Anything in _drive raises on a worker, a stage mostly, or the commit that follows
\* the final sync, which may have reached the sheet: rollback, then _fail reloads the
\* job ...
DriveRaises(w) ==
  /\ InDrive(w)
  /\ Fault
  /\ lock' = IF lock = w THEN NoOne ELSE lock
  /\ Goto(w, "rolledback")
  /\ sheet' \in {sheet} \cup (IF At(w, "sync") THEN {proc[w].row.status} ELSE {})
  /\ UNCHANGED <<job, cancelled, queue, done, order, late, cut>>

\* The worker takes a message and cannot load the job (session.get).
LoadFails(w) ==
  /\ At(w, "idle") /\ queue > 0
  /\ Fault
  /\ queue' = queue - 1
  /\ cut' = TRUE
  /\ UNCHANGED <<job, lock, cancelled, proc, done, sheet, order, late>>

\* What is not inside the handler raises: the read of the flag, the _cancel before
\* _drive, or _fail itself.  The task fails, which acknowledges its message, and
\* nothing takes the job over.
Escapes(w) ==
  /\ \/ proc[w].pc \in {"loaded", "rolledback", "failing"}
     \/ At(w, "cancelling") /\ ~ InDrive(w)
  /\ Fault
  /\ cut' = TRUE
  /\ Release(w)
  /\ UNCHANGED <<job, lock, cancelled, queue, done, sheet, order, late>>

ReloadForFail(w) ==
  /\ At(w, "rolledback")
  /\ Holding(w, "failing", job)
  /\ UNCHANGED <<job, lock, cancelled, queue, done, sheet, order, late, cut, budget>>

\* ... and writes FAILED over whatever status it finds, without a check.  A
\* TransientError is re-raised to Celery, which enqueues a retry.
Fail(w) ==
  /\ At(w, "failing")
  /\ LET new == [proc[w].row EXCEPT !.status = "failed"]
     IN  Commit(w, new) /\ Holding(w, "sync", new)
  /\ \/ UNCHANGED <<queue, budget>>
     \/ Fault /\ queue' = queue + 1
  /\ UNCHANGED <<lock, cancelled, done, sheet, order, late, cut>>

\* Mutant of Complete: the task ends without the final sheet sync.
CompleteUnsynced(p) ==
  /\ At(p, "complete")
  /\ Commit(p, [status |-> "completed", progress |-> Hundred])
  /\ Release(p)
  /\ UNCHANGED <<lock, cancelled, queue, done, sheet, order, late, cut, budget>>

\* _complete, after the last re-check of status and flag.
Complete(p) ==
  /\ At(p, "complete")
  /\ LET new == [status |-> "completed", progress |-> Hundred]
     IN  Commit(p, new) /\ Holding(p, "sync", new)
  /\ UNCHANGED <<lock, cancelled, queue, done, sheet, order, late, cut, budget>>

\* _cancel after the Redis flag was seen.
CancelSeen(p) ==
  /\ At(p, "cancelling")
  /\ Commit(p, [proc[p].row EXCEPT !.status = "cancelled"])
  /\ Release(p)
  /\ UNCHANGED <<lock, cancelled, queue, done, sheet, order, late, cut, budget>>

\* Mutant of SafeSync: the row is read again for the sheet.
SafeSyncRereads(p) ==
  /\ At(p, "sync")
  /\ sheet' = job.status
  /\ Release(p)
  /\ UNCHANGED <<job, lock, cancelled, queue, done, order, late, cut, budget>>

\* _safe_sync: the tab gets the status of the object in the session (it is not
\* re-read); an error of the sheet is swallowed.
SafeSync(p) ==
  /\ At(p, "sync")
  /\ \/ sheet' = proc[p].row.status /\ UNCHANGED budget
     \/ Fault /\ UNCHANGED sheet
  /\ Release(p)
  /\ UNCHANGED <<job, lock, cancelled, queue, done, order, late, cut>>

-----------------------------------------------------------------------------
(* orchestrator.run_job_inline in the thread of a start request             *)

RunInline(r) ==
  /\ At(r, "inline")
  /\ Holding(r, "begin", job)
  /\ UNCHANGED <<job, lock, cancelled, queue, done, sheet, order, late, cut, budget>>

\* _guard_cancel: a paused job is left alone, a cancelled one is cancelled again.
GuardCancel(r) ==
  /\ At(r, "guard")
  /\ \/ job.status = "paused"    /\ Release(r)
     \/ job.status = "cancelled" /\ Holding(r, "cancelling", job)
     \/ /\ job.status \notin Stopped
        /\ proc' = [proc EXCEPT ![r].pc = "flag", ![r].row = job, ![r].step = @ + 1]
  /\ UNCHANGED <<job, lock, cancelled, queue, done, sheet, order, late, cut, budget>>

-----------------------------------------------------------------------------
(* The broker (Celery over Redis, external)                                 *)

\* Mutant of WorkerLost: the message was acknowledged early and is gone.
WorkerLostAcked(w) ==
  /\ proc[w].op = "task"
  /\ Fault
  /\ lock' = IF lock = w THEN NoOne ELSE lock
  /\ Release(w)
  /\ UNCHANGED <<job, cancelled, queue, done, sheet, order, late, cut>>

\* A worker process dies: its transaction is rolled back and, with acks_late
\* and reject_on_worker_lost, its message is ready again.
WorkerLost(w) ==
  /\ proc[w].op = "task"
  /\ Fault
  /\ lock' = IF lock = w THEN NoOne ELSE lock
  /\ queue' = queue + 1
  /\ Release(w)
  /\ UNCHANGED <<job, cancelled, done, sheet, order, late, cut>>

\* A task that outlives the visibility timeout of the Redis transport (no
\* broker_transport_options are set) is delivered again while it still runs.
Redeliver(w) ==
  /\ proc[w].op = "task"
  /\ Fault
  /\ queue' = queue + 1
  /\ UNCHANGED <<job, lock, cancelled, proc, done, sheet, order, late, cut>>

-----------------------------------------------------------------------------

RequestStep(r) ==
  \/ ClearFlag(r) \/ RaiseFlag(r) \/ StartJob(r) \/ Enqueue(r)
  \/ PauseJob(r) \/ CancelJob(r) \/ RunInline(r) \/ GuardCancel(r)

\* The steps of both runners; they differ on Workers and Requests inside.
RunnerStep(p) ==
  \/ BeginRunning(p) \/ CheckFlag(p) \/ EnterStage(p) \/ FinishStage(p)
  \/ Complete(p) \/ CancelSeen(p) \/ SafeSync(p)

WorkerStep(w) ==
  \/ Advance(w) \/ CheckFlagFirst(w) \/ Refresh(w) \/ ReloadForFail(w) \/ Fail(w)

Ops == {"start", "pause", "cancel"}
         \cup (IF InlineAllowed THEN {"startinline"} ELSE {})

\* Nothing to do: no message and no process at work (users need not call).
Quiet == queue = 0 /\ \A p \in Procs : At(p, "idle")
Rest  == Quiet /\ UNCHANGED vars

Next ==
  \/ \E r \in Requests : \/ \E op \in Ops : Call(r, op)
                         \/ RequestStep(r)
                         \/ ApiAbort(r)
  \/ \E w \in Workers : \/ WorkerStep(w) \/ DriveRaises(w) \/ WorkerLost(w) \/ Redeliver(w)
                         \/ LoadFails(w) \/ Escapes(w)
  \/ \E p \in Procs : RunnerStep(p)
  \/ Rest

Spec == Init /\ [][Next]_vars

\* Workers keep consuming and running, and a request that was received is
\* carried through; users call when they like and faults need not happen.
Fairness ==
  /\ \A w \in Workers  : WF_vars(WorkerStep(w))
  /\ \A r \in Requests : WF_vars(RequestStep(r))
  /\ \A p \in Procs    : WF_vars(RunnerStep(p))

FairSpec == Spec /\ Fairness

-----------------------------------------------------------------------------
(* Properties                                                               *)

\* A process that still has to act on the job: it will read the row again, or
\* what it read is not already the status that it may write last.
Responsible(p) ==
  \/ proc[p].pc \in {"enqueue", "inline", "begin", "loop", "rolledback", "guard"}
  \/ /\ proc[p].pc \in {"loaded", "flag", "enter", "body"}
     /\ proc[p].row.status \notin {"completed", "cancelled"}
  \/ At(p, "failing")    /\ proc[p].row.status # "failed"
  \/ At(p, "complete")   /\ proc[p].row.status # "completed"
  \/ At(p, "cancelling") /\ proc[p].row.status # "cancelled"

\* A job shown as queued or running is in somebody's hands: a message in the
\* broker, a start request about to enqueue one, or a runner.  It is stranded only by
\* an API process that dies between the commit of QUEUED and the hand-over (start_job)
\* or in run_job_inline, and by an exception on a worker before or after the handler of
\* advance (`cut`); and a start puts it into somebody's hands again.
NoStrandedJob ==
  job.status \in Active =>
    queue > 0 \/ cut \/ \E p \in Procs : Responsible(p)

\* progress_percent never claims a step whose results are not committed, and
\* COMPLETED means that every step's are: under any number of runners that
\* skip steps by what they read of it, retries, pauses, crashes and stale writes.
ProgressHonest ==
  /\ \A i \in Steps : job.progress >= Finished(i) => 1..i \subseteq done
  /\ job.status = "completed" => done = Steps

\* The job's status and its committed steps behave as JobLedger says.
Ledger == INSTANCE JobLedger WITH status <- job.status
ImplementsLedger == Ledger!Spec

\* With one runner at a time, a task that is delivered again after a crash, or a
\* job that is started again, never repeats a step that was committed ("resumes
\* rather than re-spending", workers/tasks/__init__.py).
NoStepRedone ==
  [][\A p \in Procs : FinishStage(p) => proc[p].step \notin done]_vars

\* Once a cancel is acknowledged and until the next start, a runner enters at
\* most the one stage it was already past the cancel check of (cancel_job sets
\* the Redis flag before the row so that a stale status cannot keep it going).
CancelBoundsWork ==
  [][\A p \in Procs : EnterStage(p) /\ order = "cancel" => p \notin late]_vars

\* The same for pause, which has no Redis flag (advance is "pause/cancel-safe").
PauseBoundsWork ==
  [][\A p \in Procs : EnterStage(p) /\ order = "pause" => p \notin late]_vars

\* A pause that lands during the final stage is not overwritten by COMPLETED
\* ("Re-check once more before finalizing so a late pause is honored", _drive).
LatePauseHonored ==
  [][job.status = "paused" => job'.status # "completed"]_vars

\* When everything is quiet and nothing failed, the Mining_Jobs tab shows the
\* outcome the job ended with (_safe_sync writes what the runner committed).
SheetShowsOutcome ==
  Quiet /\ faults = 0 /\ job.status \in {"completed", "failed"}
    => sheet = job.status

\* A job that is queued or running is eventually neither, unless what held it ended
\* without a handler: no wait for the row lock is endless, no message is lost.
EventuallySettles == (job.status \in Active) ~> (job.status \notin Active \/ cut)
=============================================================================
