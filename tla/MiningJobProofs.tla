--------------------------- MODULE MiningJobProofs ---------------------------
(***************************************************************************)
(* Proofs about a mining job for any number of workers, requests and       *)
(* pipeline steps: types and the honesty of the progress ledger, the       *)
(* refinement of JobLedger, nobody strands the job, the sheet shows its    *)
(* outcome, one runner redoes no step, a cancel bounds the work.           *)
(***************************************************************************)
EXTENDS MiningJob, TLAPS

\* A row read or committed claims no step whose results are not committed.
RowHonest(row) ==
  \A i \in Steps : row.progress >= Finished(i) => 1..i \subseteq done

\* What a process relies on at each place: the step it is about to run comes
\* right after committed ones, and what it will write to the sheet is an outcome.
PlaceOK(p) ==
  /\ RowHonest(proc[p].row)
  /\ proc[p].pc \in {"enter", "body", "guard"} => proc[p].step \in Steps
  /\ proc[p].pc = "sync" => proc[p].row.status \in {"completed", "failed"}
  /\ p \in Workers /\ proc[p].pc \in {"loaded", "begin", "loop"}
       => 1..proc[p].step \subseteq done
  /\ proc[p].pc \in {"flag", "enter", "body"} => 1..(proc[p].step - 1) \subseteq done
  /\ proc[p].pc = "flag" => proc[p].step # 0
  /\ proc[p].pc = "guard" => 1..proc[p].step \subseteq done
  /\ proc[p].pc = "complete" => done = Steps

\* TypeOK in two parts: the provers treat Booleans apart from the rest.
FlagTypes == cancelled \in BOOLEAN /\ cut \in BOOLEAN

DataTypes ==
  /\ job \in Rows
  /\ lock \in Procs \cup {NoOne}
  /\ queue \in Nat
  /\ proc \in [Procs -> ProcType]
  /\ done \subseteq Steps
  /\ sheet \in {"draft", "completed", "failed"}
  /\ order \in {"none", "pause", "cancel"}
  /\ late \subseteq Procs
  /\ calls \in 0..MaxRequests
  /\ faults \in 0..MaxFaults

\* The inductive invariant behind both theorems.
IInv ==
  /\ DataTypes
  /\ RowHonest(job)
  /\ job.status = "completed" => done = Steps
  /\ \A p \in Procs : PlaceOK(p)

USE MiningJobAssumption DEF Procs, Steps

LEMMA InitIInv == Init => IInv
<1> SUFFICES ASSUME Init PROVE IInv
  OBVIOUS
<1>1. Idle \in ProcType
  BY DEF Idle, ProcType, WorkerPCs, RequestPCs, Rows, Statuses, Hundred
<1>2. DataTypes
  BY <1>1 DEF Init, DataTypes, Rows, Statuses, Hundred
<1>3. RowHonest(job) /\ (job.status = "completed" => done = Steps)
  BY DEF Init, RowHonest, Finished
<1>4. ASSUME NEW p \in Procs PROVE PlaceOK(p)
  BY DEF Init, PlaceOK, RowHonest, Finished, Idle
<1>5. QED
  BY <1>2, <1>3, <1>4 DEF IInv

\* Committing the columns an object changed yields a well-typed row.
LEMMA FlushedType ==
  ASSUME job \in Rows, NEW seen \in Rows, NEW new \in Rows
  PROVE  Flushed(seen, new) \in Rows
  BY DEF Flushed, Rows

\* Only p moves, to a well-typed place.
Moves(p) ==
  /\ proc' \in [Procs -> ProcType]
  /\ \A q \in Procs : q # p => proc'[q] = proc[q]

LEMMA GotoMoves ==
  ASSUME DataTypes, NEW p \in Procs, NEW pc \in WorkerPCs \cup RequestPCs,
         Goto(p, pc)
  PROVE  /\ Moves(p)
         /\ proc'[p].pc = pc /\ proc'[p].row = proc[p].row
         /\ proc'[p].step = proc[p].step
  BY DEF DataTypes, Moves, Goto, ProcType

LEMMA HoldingMoves ==
  ASSUME DataTypes, NEW p \in Procs, NEW pc \in WorkerPCs \cup RequestPCs,
         NEW row \in Rows, Holding(p, pc, row)
  PROVE  /\ Moves(p)
         /\ proc'[p].pc = pc /\ proc'[p].row = row
         /\ proc'[p].step = proc[p].step
  BY DEF DataTypes, Moves, Holding, ProcType

LEMMA ReleaseMoves ==
  ASSUME DataTypes, NEW p \in Procs, Release(p)
  PROVE  /\ Moves(p)
         /\ proc'[p].pc = "idle" /\ proc'[p].row.progress = 0
<1>1. Idle \in ProcType
  BY DEF Idle, ProcType, WorkerPCs, RequestPCs, Rows, Statuses, Hundred
<1>2. QED
  BY <1>1 DEF DataTypes, Moves, Release, Idle

\* What a place relies on is stable: committed steps stay committed.
LEMMA PlaceStable ==
  ASSUME NEW q \in Procs, PlaceOK(q), proc'[q] = proc[q],
         done \subseteq done', done' \subseteq Steps
  PROVE  PlaceOK(q)'
  BY DEF PlaceOK, RowHonest, Finished

\* A step of p keeps the invariant if it keeps the types, the row's honesty and
\* what p itself relies on.
LEMMA Assemble ==
  ASSUME IInv, NEW p \in Procs, Moves(p), DataTypes', done \subseteq done',
         RowHonest(job)', (job.status = "completed" => done = Steps)', PlaceOK(p)'
  PROVE  IInv'
<1>1. \A q \in Procs : PlaceOK(q)'
  BY PlaceStable DEF IInv, Moves, DataTypes
<1>2. QED
  BY <1>1 DEF IInv

\* The same for a step that neither commits a row nor finishes a stage.
LEMMA AssembleLocal ==
  ASSUME IInv, NEW p \in Procs, Moves(p), DataTypes', UNCHANGED <<job, done>>,
         PlaceOK(p)'
  PROVE  IInv'
  BY Assemble DEF IInv, RowHonest

-----------------------------------------------------------------------------
(* One lemma per group of actions                                           *)

LEMMA CallStep ==
  ASSUME IInv, NEW r \in Requests, NEW op \in Ops, Call(r, op)
  PROVE  IInv'
<1> DEFINE x == [pc |-> FirstPlace(op), op |-> op, row |-> job, step |-> 0]
<1>1. op \in {"start", "startinline", "pause", "cancel"}
  BY DEF Ops
<1>2. FirstPlace(op) \in {"setflag", "write", "unflag"}
  BY DEF FirstPlace
<1>3. x \in ProcType
  BY <1>1, <1>2 DEF IInv, DataTypes, ProcType, RequestPCs
<1>4. proc' = [proc EXCEPT ![r] = x]
  BY DEF Call
<1>5. Moves(r) /\ proc'[r] = x
  BY <1>3, <1>4 DEF IInv, DataTypes, Moves
<1>6. PlaceOK(r)'
  BY <1>2, <1>5 DEF IInv, Call, PlaceOK, RowHonest, Finished, Rows, DataTypes
<1>7. DataTypes'
  BY <1>5 DEF IInv, DataTypes, Call, Moves
<1>8. UNCHANGED <<job, done>>
  BY DEF Call
<1>9. QED
  BY <1>5, <1>6, <1>7, <1>8, AssembleLocal

\* The steps of a request that do not write the row.
LEMMA RequestLocalStep ==
  ASSUME IInv, NEW r \in Requests,
         ClearFlag(r) \/ RaiseFlag(r) \/ Enqueue(r) \/ RunInline(r)
           \/ GuardCancel(r) \/ ApiAbort(r)
  PROVE  IInv'
<1>1. CASE ClearFlag(r) \/ RaiseFlag(r)
  <2>1. Goto(r, "write") /\ UNCHANGED <<job, lock, queue, done, sheet, order, late, budget>>
    BY <1>1 DEF ClearFlag, RaiseFlag
  <2>2. Moves(r) /\ proc'[r].pc = "write" /\ proc'[r].row = proc[r].row
    BY <2>1, GotoMoves DEF IInv, RequestPCs
  <2>3. DataTypes' /\ PlaceOK(r)'
    BY <2>1, <2>2 DEF IInv, DataTypes, Moves, PlaceOK, RowHonest, budget
  <2>4. QED
    BY <2>1, <2>2, <2>3, AssembleLocal
<1>2. CASE Enqueue(r)
  <2>1. Moves(r) /\ proc'[r].pc = "idle" /\ proc'[r].row.progress = 0
    BY <1>2, ReleaseMoves DEF IInv, Enqueue
  <2>2. DataTypes' /\ PlaceOK(r)'
    BY <1>2, <2>1 DEF IInv, DataTypes, Moves, PlaceOK, RowHonest, Finished, budget, Enqueue
  <2>3. QED
    BY <1>2, <2>1, <2>2, AssembleLocal DEF Enqueue
<1>3. CASE RunInline(r)
  <2>1. Moves(r) /\ proc'[r].pc = "begin" /\ proc'[r].row = job
    BY <1>3, HoldingMoves DEF IInv, DataTypes, WorkerPCs, RunInline
  <2>2. DataTypes' /\ PlaceOK(r)'
    BY <1>3, <2>1 DEF IInv, DataTypes, Moves, PlaceOK, RowHonest, budget, RunInline
  <2>3. QED
    BY <1>3, <2>1, <2>2, AssembleLocal DEF RunInline
<1>4. CASE ApiAbort(r)
  <2>1. Moves(r) /\ proc'[r].pc = "idle" /\ proc'[r].row.progress = 0
    BY <1>4, ReleaseMoves DEF IInv, ApiAbort
  <2>2. /\ UNCHANGED <<job, queue, done, sheet, order, late, calls>>
        /\ lock' \in {lock, NoOne} /\ faults' \in 0..MaxFaults
    BY <1>4 DEF ApiAbort, Fault, IInv, DataTypes
  <2>3. DataTypes' /\ PlaceOK(r)'
    BY <2>1, <2>2 DEF IInv, DataTypes, Moves, PlaceOK, RowHonest, Finished
  <2>4. QED
    BY <2>1, <2>2, <2>3, AssembleLocal
<1>5. CASE GuardCancel(r)
  <2>1. CASE job.status = "paused" /\ Release(r)
    <3>1. Moves(r) /\ proc'[r].pc = "idle" /\ proc'[r].row.progress = 0
      BY <2>1, ReleaseMoves DEF IInv
    <3>2. DataTypes' /\ PlaceOK(r)'
      BY <1>5, <3>1 DEF IInv, DataTypes, Moves, PlaceOK, RowHonest, Finished, budget, GuardCancel
    <3>3. QED
      BY <1>5, <3>1, <3>2, AssembleLocal DEF GuardCancel
  <2>2. CASE job.status = "cancelled" /\ Holding(r, "cancelling", job)
    <3>1. Moves(r) /\ proc'[r].pc = "cancelling" /\ proc'[r].row = job
      BY <2>2, HoldingMoves DEF IInv, DataTypes, WorkerPCs
    <3>2. DataTypes' /\ PlaceOK(r)'
      BY <1>5, <3>1 DEF IInv, DataTypes, Moves, PlaceOK, RowHonest, budget, GuardCancel
    <3>3. QED
      BY <1>5, <3>1, <3>2, AssembleLocal DEF GuardCancel
  <2>3. CASE proc' = [proc EXCEPT ![r].pc = "flag", ![r].row = job, ![r].step = @ + 1]
    <3>1. proc[r].step \in Steps /\ 1..proc[r].step \subseteq done
      BY <1>5 DEF IInv, PlaceOK, GuardCancel, At
    <3>2. /\ Moves(r) /\ proc'[r].pc = "flag" /\ proc'[r].row = job
          /\ proc'[r].step = proc[r].step + 1
      BY <2>3, <3>1 DEF IInv, DataTypes, Moves, ProcType, WorkerPCs
    <3>3. DataTypes' /\ PlaceOK(r)'
      BY <1>5, <3>1, <3>2 DEF IInv, DataTypes, Moves, PlaceOK, RowHonest, budget, GuardCancel
    <3>4. QED
      BY <1>5, <3>2, <3>3, AssembleLocal DEF GuardCancel
  <2>4. QED
    BY <1>5, <2>1, <2>2, <2>3 DEF GuardCancel
<1>6. QED
  BY <1>1, <1>2, <1>3, <1>4, <1>5

\* The steps of a worker that do not write the row.
LEMMA WorkerLocalStep ==
  ASSUME IInv, NEW w \in Workers,
         Advance(w) \/ CheckFlagFirst(w) \/ Refresh(w) \/ DriveRaises(w)
           \/ ReloadForFail(w) \/ WorkerLost(w) \/ Redeliver(w)
           \/ LoadFails(w) \/ Escapes(w)
  PROVE  IInv'
<1>1. CASE Advance(w)
  <2>1. DataTypes /\ RowHonest(job) /\ PlaceOK(w) /\ UNCHANGED <<job, done>>
    BY <1>1 DEF IInv, Advance
  <2>2. CASE UNCHANGED proc
    <3>1. Moves(w) /\ PlaceOK(w)'
      BY <2>1, <2>2 DEF DataTypes, Moves, PlaceOK, RowHonest
    <3>2. DataTypes'
      BY <1>1, <2>1, <2>2 DEF DataTypes, Advance, budget
    <3>3. QED
      BY <2>1, <3>1, <3>2, AssembleLocal
  <2>3. CASE proc' = [proc EXCEPT ![w] =
                        [pc |-> "loaded", op |-> "task", row |-> job, step |-> 0]]
    <3>1. [pc |-> "loaded", op |-> "task", row |-> job, step |-> 0] \in ProcType
      BY <2>1 DEF DataTypes, ProcType, WorkerPCs
    <3>2. /\ Moves(w) /\ proc'[w].pc = "loaded" /\ proc'[w].row = job
          /\ proc'[w].step = 0
      BY <2>1, <2>3, <3>1 DEF DataTypes, Moves
    <3>3. PlaceOK(w)'
      BY <2>1, <3>2 DEF PlaceOK, RowHonest
    <3>4. DataTypes'
      BY <1>1, <2>1, <3>2 DEF DataTypes, Advance, budget, Moves
    <3>5. QED
      BY <2>1, <3>2, <3>3, <3>4, AssembleLocal
  <2>4. QED
    BY <1>1, <2>2, <2>3 DEF Advance
<1>2. CASE CheckFlagFirst(w)
  <2>1. PICK pc \in {"cancelling", "loop", "begin"} : Goto(w, pc)
    BY <1>2 DEF CheckFlagFirst
  <2>2. /\ Moves(w) /\ proc'[w].pc = pc /\ proc'[w].row = proc[w].row
        /\ proc'[w].step = proc[w].step
    BY <2>1, GotoMoves DEF IInv, WorkerPCs
  <2>3. DataTypes' /\ UNCHANGED <<job, done>>
    BY <1>2, <2>2 DEF IInv, DataTypes, Moves, budget, CheckFlagFirst
  <2>4. PlaceOK(w)'
    BY <1>2, <2>1, <2>2, <2>3 DEF IInv, DataTypes, PlaceOK, RowHonest, CheckFlagFirst, At
  <2>5. QED
    BY <2>2, <2>3, <2>4, AssembleLocal
<1>3. CASE Refresh(w)
  <2>1. /\ UNCHANGED <<job, done, lock, queue, sheet, order, late, budget>>
        /\ 1..proc[w].step \subseteq done /\ RowHonest(proc[w].row)
    BY <1>3 DEF IInv, PlaceOK, Refresh, At
  <2>2. CASE Release(w)
    <3>1. Moves(w) /\ proc'[w].pc = "idle" /\ proc'[w].row.progress = 0
      BY <2>2, ReleaseMoves DEF IInv
    <3>2. DataTypes' /\ PlaceOK(w)'
      BY <2>1, <3>1 DEF IInv, DataTypes, Moves, PlaceOK, RowHonest, Finished, budget
    <3>3. QED
      BY <2>1, <3>1, <3>2, AssembleLocal
  <2>3. ASSUME NEW i \in 1..NSteps + 1, NextStep(w, i),
               proc' = [proc EXCEPT ![w].pc = "flag", ![w].row = job, ![w].step = i]
        PROVE  IInv'
    <3>1. /\ Moves(w) /\ proc'[w].pc = "flag" /\ proc'[w].row = job
          /\ proc'[w].step = i
      <4>1. /\ job \in Rows /\ proc \in [Procs -> ProcType] /\ i \in 0..NSteps + 1
            /\ "flag" \in WorkerPCs \cup RequestPCs
        BY DEF IInv, DataTypes, WorkerPCs
      <4>2. QED
        BY <2>3, <4>1, ZenonT(30) DEF Moves, ProcType
    <3>2. ASSUME NEW k \in 1..(i - 1) PROVE k \in done
      <4>1. k \in Steps
        OBVIOUS
      <4>2. proc[w].step \in 0..NSteps + 1
        BY DEF IInv, DataTypes, ProcType
      <4>3. CASE k <= proc[w].step
        BY <2>1, <4>1, <4>2, <4>3
      <4>4. CASE proc[w].step < k
        <5>1. proc[w].row.progress >= Finished(k)
          BY <2>3, <4>1, <4>4 DEF NextStep
        <5>2. QED
          BY <2>1, <4>1, <5>1 DEF RowHonest
      <4>5. QED
        BY <4>2, <4>3, <4>4
    <3>3. DataTypes'
      BY <2>1, <3>1 DEF IInv, DataTypes, Moves, budget
    <3>4. PlaceOK(w)'
      BY <2>1, <3>1, <3>2 DEF IInv, PlaceOK, RowHonest
    <3>5. QED
      BY <2>1, <3>1, <3>3, <3>4, AssembleLocal
  <2>4. QED
    BY <1>3, <2>2, <2>3 DEF Refresh
<1>4. CASE DriveRaises(w)
  <2>1. Goto(w, "rolledback") /\ lock' \in {lock, NoOne} /\ faults' \in 0..MaxFaults
    BY <1>4 DEF DriveRaises, Fault, IInv, DataTypes
  <2>2. Moves(w) /\ proc'[w].pc = "rolledback" /\ proc'[w].row = proc[w].row
    BY <2>1, GotoMoves DEF IInv, WorkerPCs
  <2>3. sheet' \in {sheet, "completed"}
    BY <1>4 DEF DriveRaises, InDrive, At
  <2>4. UNCHANGED <<job, queue, done, order, late, calls>>
    BY <1>4 DEF DriveRaises, Fault
  <2>5. DataTypes' /\ PlaceOK(w)'
    BY <2>1, <2>2, <2>3, <2>4 DEF IInv, DataTypes, Moves, PlaceOK, RowHonest
  <2>6. QED
    BY <2>2, <2>4, <2>5, AssembleLocal
<1>5. CASE ReloadForFail(w)
  <2>1. Moves(w) /\ proc'[w].pc = "failing" /\ proc'[w].row = job
    BY <1>5, HoldingMoves DEF IInv, DataTypes, WorkerPCs, ReloadForFail
  <2>2. DataTypes' /\ PlaceOK(w)' /\ UNCHANGED <<job, done>>
    BY <1>5, <2>1 DEF IInv, DataTypes, Moves, PlaceOK, RowHonest, ReloadForFail, budget
  <2>3. QED
    BY <2>1, <2>2, AssembleLocal
<1>6. CASE WorkerLost(w)
  <2>1. Moves(w) /\ proc'[w].pc = "idle" /\ proc'[w].row.progress = 0
    BY <1>6, ReleaseMoves DEF IInv, WorkerLost
  <2>2. /\ UNCHANGED <<job, done, sheet, order, late, calls>>
        /\ lock' \in {lock, NoOne} /\ faults' \in 0..MaxFaults /\ queue' = queue + 1
    BY <1>6 DEF WorkerLost, Fault, IInv, DataTypes
  <2>3. DataTypes' /\ PlaceOK(w)'
    BY <2>1, <2>2 DEF IInv, DataTypes, Moves, PlaceOK, RowHonest, Finished
  <2>4. QED
    BY <2>1, <2>2, <2>3, AssembleLocal
<1>7. CASE Redeliver(w)
  <2>1. Moves(w) /\ PlaceOK(w)' /\ UNCHANGED <<job, done>>
    BY <1>7 DEF IInv, DataTypes, Moves, PlaceOK, RowHonest, Redeliver
  <2>2. DataTypes'
    BY <1>7 DEF IInv, DataTypes, Redeliver, Fault
  <2>3. QED
    BY <2>1, <2>2, AssembleLocal
<1>8. CASE LoadFails(w)
  <2>1. Moves(w) /\ PlaceOK(w)' /\ UNCHANGED <<job, done>>
    BY <1>8 DEF IInv, DataTypes, Moves, PlaceOK, RowHonest, LoadFails
  <2>2. DataTypes'
    BY <1>8 DEF IInv, DataTypes, LoadFails, Fault
  <2>3. QED
    BY <2>1, <2>2, AssembleLocal
<1>9. CASE Escapes(w)
  <2>1. Moves(w) /\ proc'[w].pc = "idle" /\ proc'[w].row.progress = 0
    BY <1>9, ReleaseMoves DEF IInv, Escapes
  <2>2. /\ UNCHANGED <<job, lock, queue, done, sheet, order, late, calls>>
        /\ faults' \in 0..MaxFaults
    BY <1>9 DEF Escapes, Fault, IInv, DataTypes
  <2>3. DataTypes' /\ PlaceOK(w)'
    BY <2>1, <2>2 DEF IInv, DataTypes, Moves, PlaceOK, RowHonest, Finished
  <2>4. QED
    BY <2>1, <2>2, <2>3, AssembleLocal
<1>10. QED
  BY <1>1, <1>2, <1>3, <1>4, <1>5, <1>6, <1>7, <1>8, <1>9

\* The steps of both runners that do not write the row.
LEMMA RunnerLocalStep ==
  ASSUME IInv, NEW p \in Procs, CheckFlag(p) \/ EnterStage(p) \/ SafeSync(p)
  PROVE  IInv'
<1>1. CASE CheckFlag(p)
  <2>1. proc[p].step \in 0..NSteps + 1 /\ 1..(proc[p].step - 1) \subseteq done
    BY <1>1 DEF IInv, DataTypes, ProcType, PlaceOK, CheckFlag, At
  <2>2. PICK pc \in {"cancelling", "enter", "complete"} :
          /\ Goto(p, pc)
          /\ pc = "enter" => proc[p].step \in Steps
          /\ pc = "complete" => proc[p].step \notin Steps
    BY <1>1 DEF CheckFlag
  <2>3. /\ Moves(p) /\ proc'[p].pc = pc /\ proc'[p].row = proc[p].row
        /\ proc'[p].step = proc[p].step
    BY <2>2, GotoMoves DEF IInv, WorkerPCs
  <2>4. DataTypes' /\ UNCHANGED <<job, done>>
    BY <1>1, <2>3 DEF IInv, DataTypes, Moves, budget, CheckFlag
  <2>5. PlaceOK(p)'
    <3>1. CASE pc = "cancelling"
      BY <2>3, <2>4, <3>1 DEF IInv, PlaceOK, RowHonest
    <3>2. CASE pc = "enter"
      BY <2>1, <2>2, <2>3, <2>4, <3>2 DEF IInv, PlaceOK, RowHonest
    <3>3. CASE pc = "complete"
      <4>1. proc[p].step = NSteps + 1 \/ proc[p].step = 0
        BY <2>1, <2>2, <3>3
      <4>2. proc[p].step # 0
        BY <1>1 DEF IInv, PlaceOK, CheckFlag, At
      <4>3. done = Steps
        <5>1. done \subseteq Steps
          BY DEF IInv, DataTypes
        <5>2. proc[p].step - 1 = NSteps
          BY <4>1, <4>2
        <5>3. QED
          BY <2>1, <5>1, <5>2
      <4>4. RowHonest(proc[p].row) /\ done' = Steps /\ proc'[p].row = proc[p].row
            /\ proc'[p].pc = "complete"
        BY <2>3, <2>4, <3>3, <4>3 DEF IInv, PlaceOK
      <4>5. RowHonest(proc[p].row)'
        BY <2>4, <4>4 DEF RowHonest
      <4>6. QED
        BY <4>4, <4>5 DEF PlaceOK
    <3>4. QED
      BY <3>1, <3>2, <3>3
  <2>6. QED
    BY <2>3, <2>4, <2>5, AssembleLocal
<1>2. CASE EnterStage(p)
  <2>1. /\ Moves(p) /\ proc'[p].pc = "body" /\ proc'[p].row = proc[p].row
        /\ proc'[p].step = proc[p].step
    BY <1>2, GotoMoves DEF IInv, WorkerPCs, EnterStage
  <2>2. lock' \in {lock, p} /\ late' \subseteq Procs
    BY <1>2 DEF IInv, DataTypes, EnterStage
  <2>3. DataTypes' /\ UNCHANGED <<job, done>>
    BY <1>2, <2>1, <2>2 DEF IInv, DataTypes, Moves, budget, EnterStage
  <2>4. PlaceOK(p)'
    BY <1>2, <2>1, <2>3 DEF IInv, PlaceOK, RowHonest, EnterStage, At
  <2>5. QED
    BY <2>1, <2>3, <2>4, AssembleLocal
<1>3. CASE SafeSync(p)
  <2>1. Moves(p) /\ proc'[p].pc = "idle" /\ proc'[p].row.progress = 0
    BY <1>3, ReleaseMoves DEF IInv, SafeSync
  <2>2. sheet' \in {"draft", "completed", "failed"} /\ faults' \in 0..MaxFaults
    BY <1>3 DEF IInv, DataTypes, SafeSync, PlaceOK, At, Fault, budget
  <2>3. UNCHANGED <<job, lock, queue, done, order, late, calls>>
    BY <1>3 DEF SafeSync, Fault, budget
  <2>4. DataTypes' /\ PlaceOK(p)'
    BY <2>1, <2>2, <2>3 DEF IInv, DataTypes, Moves, PlaceOK, RowHonest, Finished
  <2>5. QED
    BY <2>1, <2>3, <2>4, AssembleLocal
<1>4. QED
  BY <1>1, <1>2, <1>3

-----------------------------------------------------------------------------
(* The steps that write the row                                             *)

\* A flush keeps the row honest when the object claims only committed steps.
LEMMA RowWritten ==
  ASSUME IInv, NEW seen \in Rows, NEW new \in Rows, job' = Flushed(seen, new),
         done \subseteq done', done' \subseteq Steps,
         \A i \in Steps : new.progress >= Finished(i) => 1..i \subseteq done',
         new.status = "completed" /\ seen.status # "completed" => done' = Steps
  PROVE  /\ job' \in Rows /\ RowHonest(job)'
         /\ (job.status = "completed" => done = Steps)'
<1>1. job' \in Rows
  BY FlushedType DEF IInv, DataTypes
<1>2. job'.progress \in {job.progress, new.progress}
  BY DEF Flushed
<1>3. job'.status = "completed" => done' = Steps
  BY DEF Flushed, IInv
<1>4. RowHonest(job)'
  <2> SUFFICES ASSUME NEW i \in Steps, job'.progress >= Finished(i)
               PROVE  1..i \subseteq done'
    BY DEF RowHonest, Finished
  <2>1. CASE job'.progress = job.progress
    BY <2>1 DEF IInv, RowHonest
  <2>2. CASE job'.progress = new.progress
    BY <2>2
  <2>3. QED
    BY <1>2, <2>1, <2>2
<1>5. QED
  BY <1>1, <1>3, <1>4

\* A short transaction: the row is written and no step is committed.
LEMMA ShortTransaction ==
  ASSUME IInv, NEW p \in Procs, NEW new \in Rows, Commit(p, new),
         UNCHANGED <<lock, done>>, RowHonest(new),
         new.status = "completed" => done = Steps,
         Moves(p), PlaceOK(p)',
         queue' \in Nat, sheet' = sheet, order' \in {"none", "pause", "cancel"},
         late' \subseteq Procs, calls' = calls, faults' \in 0..MaxFaults
  PROVE  IInv'
<1>1. proc[p].row \in Rows
  BY DEF IInv, DataTypes, ProcType
<1>2. \A i \in Steps : new.progress >= Finished(i) => 1..i \subseteq done'
  BY DEF RowHonest
<1>3. job' \in Rows /\ RowHonest(job)' /\ (job.status = "completed" => done = Steps)'
  BY <1>1, <1>2, RowWritten DEF Commit, IInv, DataTypes
<1>4. DataTypes'
  BY <1>3 DEF IInv, DataTypes, Moves
<1>5. QED
  BY <1>3, <1>4, Assemble

\* The writes of the API and of the worker that set another status.
LEMMA MarkStep ==
  ASSUME IInv, NEW p \in Procs,
         \/ StartJob(p) \/ PauseJob(p) \/ CancelJob(p) \/ CancelSeen(p)
         \/ Fail(p)
  PROVE  IInv'
<1> DEFINE Marked(s) == [status |-> s, progress |-> proc[p].row.progress]
<1>1. proc[p].row \in Rows /\ RowHonest(proc[p].row)
  BY DEF IInv, DataTypes, ProcType, PlaceOK
<1>2. ASSUME NEW s \in Statuses
      PROVE  /\ [proc[p].row EXCEPT !.status = s] = Marked(s)
             /\ Marked(s) \in Rows /\ RowHonest(Marked(s))
  BY <1>1 DEF Rows, RowHonest
<1>3. late \subseteq Procs /\ queue \in Nat /\ faults \in 0..MaxFaults
      /\ order \in {"none", "pause", "cancel"}
  BY DEF IInv, DataTypes
<1> HIDE DEF Marked
<1>4. CASE StartJob(p)
  <2>1. PICK pc \in {"enqueue", "inline"} : Goto(p, pc)
    BY <1>4 DEF StartJob
  <2>2. Moves(p) /\ proc'[p].pc = pc /\ proc'[p].row = proc[p].row
    BY <2>1, GotoMoves DEF IInv, RequestPCs
  <2>3. UNCHANGED <<lock, done, queue, sheet, order, late, calls, faults>>
    BY <1>4 DEF StartJob, budget
  <2>4. PlaceOK(p)'
    BY <1>1, <2>1, <2>2, <2>3 DEF PlaceOK, RowHonest
  <2>5. Commit(p, Marked("queued"))
    BY <1>2, <1>4 DEF StartJob, Statuses
  <2>6. Marked("queued").status # "completed"
    BY DEF Marked
  <2>7. QED
    BY <1>2, <1>3, <2>2, <2>3, <2>4, <2>5, <2>6, ShortTransaction DEF Statuses
<1>5. CASE PauseJob(p) \/ CancelJob(p) \/ CancelSeen(p)
  <2>1. PICK s \in {"paused", "cancelled"} : Commit(p, [proc[p].row EXCEPT !.status = s])
    BY <1>5 DEF PauseJob, CancelJob, CancelSeen
  <2>2. Moves(p) /\ proc'[p].pc = "idle" /\ proc'[p].row.progress = 0
    BY <1>5, ReleaseMoves DEF IInv, PauseJob, CancelJob, CancelSeen
  <2>3. /\ UNCHANGED <<lock, done, queue, sheet, calls, faults>>
        /\ order' \in {"none", "pause", "cancel"} /\ late' \subseteq Procs
    BY <1>3, <1>5 DEF PauseJob, CancelJob, CancelSeen, budget
  <2>4. PlaceOK(p)'
    BY <2>2 DEF PlaceOK, RowHonest, Finished
  <2>5. Commit(p, Marked(s)) /\ Marked(s).status # "completed"
    BY <1>2, <2>1 DEF Statuses, Marked
  <2>6. QED
    BY <1>2, <1>3, <2>2, <2>3, <2>4, <2>5, ShortTransaction DEF Statuses
<1>6. CASE Fail(p)
  <2>1. Commit(p, Marked("failed")) /\ Holding(p, "sync", Marked("failed"))
    BY <1>2, <1>6 DEF Fail, Statuses
  <2>2. Marked("failed") \in Rows /\ RowHonest(Marked("failed"))
        /\ Marked("failed").status = "failed"
    BY <1>2 DEF Statuses, Marked
  <2>3. Moves(p) /\ proc'[p].pc = "sync" /\ proc'[p].row = Marked("failed")
    BY <2>1, <2>2, HoldingMoves DEF IInv, WorkerPCs
  <2>4. /\ UNCHANGED <<lock, done, sheet, order, late, calls>>
        /\ queue' \in Nat /\ faults' \in 0..MaxFaults
    BY <1>3, <1>6 DEF Fail, Fault, budget
  <2>5. PlaceOK(p)'
    BY <2>2, <2>3, <2>4 DEF PlaceOK, RowHonest
  <2>6. QED
    BY <1>3, <2>1, <2>2, <2>3, <2>4, <2>5, ShortTransaction
<1>7. QED
  BY <1>4, <1>5, <1>6

\* _begin_running and _complete.
LEMMA BeginOrCompleteStep ==
  ASSUME IInv, NEW p \in Procs, BeginRunning(p) \/ Complete(p)
  PROVE  IInv'
<1>1. proc[p].row \in Rows /\ RowHonest(proc[p].row)
  BY DEF IInv, DataTypes, ProcType, PlaceOK
<1>2. late \subseteq Procs /\ queue \in Nat /\ faults \in 0..MaxFaults
      /\ order \in {"none", "pause", "cancel"}
  BY DEF IInv, DataTypes
<1>3. CASE BeginRunning(p)
  <2> DEFINE new == [status |-> "running",
                     progress |-> Larger(proc[p].row.progress, Begun)]
  <2>1. new \in Rows /\ new.status # "completed" /\ RowHonest(new)
    BY <1>1 DEF Rows, Statuses, Larger, Begun, Hundred, RowHonest, Finished
  <2>2. /\ Commit(p, new)
        /\ UNCHANGED <<lock, done, queue, sheet, order, late, calls, faults>>
    BY <1>3 DEF BeginRunning, budget
  <2>3. Moves(p) /\ PlaceOK(p)'
    <3>1. CASE p \in Workers
      <4>1. 1..proc[p].step \subseteq done
        BY <1>3, <3>1 DEF IInv, PlaceOK, BeginRunning, At
      <4>2. Holding(p, "loop", new)
        BY <1>3, <3>1 DEF BeginRunning
      <4> HIDE DEF new
      <4>3. Moves(p) /\ proc'[p].pc = "loop" /\ proc'[p].row = new
            /\ proc'[p].step = proc[p].step
        BY <2>1, <4>2, HoldingMoves DEF IInv, WorkerPCs
      <4>4. PlaceOK(p)'
        BY <2>1, <2>2, <4>1, <4>3 DEF PlaceOK, RowHonest
      <4>5. QED
        BY <4>3, <4>4
    <3>2. CASE p \notin Workers
      <4>1. proc' = [proc EXCEPT ![p].pc = "enter", ![p].row = new, ![p].step = 1]
        BY <1>3, <3>2 DEF BeginRunning
      <4> HIDE DEF new
      <4>2. /\ proc \in [Procs -> ProcType] /\ 1 \in 0..NSteps + 1
            /\ "enter" \in WorkerPCs \cup RequestPCs
        BY DEF IInv, DataTypes, WorkerPCs
      <4>3. Moves(p) /\ proc'[p].pc = "enter" /\ proc'[p].row = new
            /\ proc'[p].step = 1
        BY <2>1, <4>1, <4>2 DEF Moves, ProcType
      <4>4. PlaceOK(p)'
        BY <2>1, <2>2, <4>3 DEF PlaceOK, RowHonest
      <4>5. QED
        BY <4>3, <4>4
    <3>3. QED
      BY <3>1, <3>2
  <2>4. QED
    BY <1>2, <2>1, <2>2, <2>3, ShortTransaction
<1>4. CASE Complete(p)
  <2> DEFINE new == [status |-> "completed", progress |-> Hundred]
  <2>1. done = Steps
    BY <1>4 DEF IInv, PlaceOK, Complete, At
  <2>2. new \in Rows /\ new.status = "completed" /\ RowHonest(new)
    BY <2>1 DEF Rows, Statuses, Hundred, RowHonest, Finished
  <2>3. /\ Commit(p, new) /\ Holding(p, "sync", new)
        /\ UNCHANGED <<lock, done, queue, sheet, order, late, calls, faults>>
    BY <1>4 DEF Complete, budget
  <2> HIDE DEF new
  <2>4. Moves(p) /\ proc'[p].pc = "sync" /\ proc'[p].row = new
    BY <2>2, <2>3, HoldingMoves DEF IInv, WorkerPCs
  <2>5. PlaceOK(p)'
    BY <2>2, <2>3, <2>4 DEF PlaceOK, RowHonest
  <2>6. QED
    BY <1>2, <2>1, <2>2, <2>3, <2>4, <2>5, ShortTransaction
<1>5. QED
  BY <1>3, <1>4

\* The commit of a stage: the one step that adds to the committed steps.
LEMMA FinishStageStep ==
  ASSUME IInv, NEW p \in Procs, FinishStage(p)
  PROVE  IInv'
<1> DEFINE i == proc[p].step
           new == [status |-> proc[p].row.status, progress |-> StepProgress(p, i)]
           pc == IF p \in Workers THEN "loop"
                 ELSE IF i = NSteps THEN "complete" ELSE "guard"
<1>1. /\ proc[p].row \in Rows /\ RowHonest(proc[p].row)
      /\ i \in Steps /\ 1..(i - 1) \subseteq done /\ done \subseteq Steps
  BY DEF IInv, DataTypes, ProcType, PlaceOK, FinishStage, At
<1>2. /\ job' = Flushed(proc[p].row, new) /\ Holding(p, pc, new)
      /\ done' = done \cup {i}
      /\ lock' \in {lock, NoOne}
      /\ UNCHANGED <<queue, sheet, order, late, calls, faults>>
  <2>1. [proc[p].row EXCEPT !.progress = StepProgress(p, i)] = new
    BY <1>1 DEF Rows
  <2>2. QED
    BY <2>1 DEF FinishStage, budget
<1>3. 1..i \subseteq done' /\ done' \subseteq Steps
  <2>1. 1..i = 1..(i - 1) \cup {i}
    BY <1>1
  <2>2. QED
    BY <1>1, <1>2, <2>1
<1>4. /\ StepProgress(p, i) \in {proc[p].row.progress, Entered(i), Finished(i)}
      /\ StepProgress(p, i) \in 0..Hundred
  BY <1>1 DEF StepProgress, Larger, Entered, Finished, Hundred, Rows
<1>5. new \in Rows
  BY <1>1, <1>4 DEF Rows
<1>6. ASSUME NEW k \in Steps, StepProgress(p, i) >= Finished(k)
      PROVE  1..k \subseteq done'
  <2>1. CASE StepProgress(p, i) = proc[p].row.progress
    BY <1>1, <1>2, <1>6, <2>1 DEF RowHonest
  <2>2. CASE StepProgress(p, i) \in {Entered(i), Finished(i)}
    <3>1. k <= i
      BY <1>1, <1>6, <2>2 DEF Entered, Finished
    <3>2. QED
      BY <1>1, <1>3, <3>1
  <2>3. QED
    BY <1>4, <2>1, <2>2
<1>7. pc \in {"loop", "complete", "guard"}
      /\ (pc = "complete" => i = NSteps)
  OBVIOUS
<1> HIDE DEF pc
<1>8. Moves(p) /\ proc'[p].pc = pc /\ proc'[p].row = new /\ proc'[p].step = i
  BY <1>2, <1>5, <1>7, HoldingMoves DEF IInv, WorkerPCs, RequestPCs
<1>9. job' \in Rows /\ RowHonest(job)' /\ (job.status = "completed" => done = Steps)'
  <2>1. \A k \in Steps : new.progress >= Finished(k) => 1..k \subseteq done'
    BY <1>6
  <2>2. QED
    BY <1>1, <1>2, <1>3, <1>5, <2>1, RowWritten
<1>10. DataTypes'
  BY <1>2, <1>3, <1>8, <1>9 DEF IInv, DataTypes, Moves
<1>11. PlaceOK(p)'
  <2>1. RowHonest(proc[p].row)'
    BY <1>6, <1>8 DEF RowHonest, Finished
  <2>2. pc = "complete" => done' = Steps
    BY <1>3, <1>7
  <2>3. QED
    BY <1>1, <1>3, <1>7, <1>8, <2>1, <2>2 DEF PlaceOK
<1>12. QED
  BY <1>2, <1>8, <1>9, <1>10, <1>11, Assemble

\* The invariant is inductive.
LEMMA StepIInv == IInv /\ [Next]_vars => IInv'
<1> SUFFICES ASSUME IInv, [Next]_vars PROVE IInv'
  OBVIOUS
<1>1. CASE UNCHANGED vars
  BY <1>1 DEF vars, IInv, DataTypes, RowHonest, PlaceOK, Moves
<1>2. ASSUME NEW r \in Requests,
             (\E op \in Ops : Call(r, op)) \/ RequestStep(r) \/ ApiAbort(r)
      PROVE  IInv'
  <2>1. r \in Procs
    OBVIOUS
  <2>2. QED
    BY <1>2, <2>1, CallStep, RequestLocalStep, MarkStep DEF RequestStep
<1>3. ASSUME NEW w \in Workers,
             WorkerStep(w) \/ DriveRaises(w) \/ WorkerLost(w) \/ Redeliver(w)
               \/ LoadFails(w) \/ Escapes(w)
      PROVE  IInv'
  <2>1. w \in Procs
    OBVIOUS
  <2>2. QED
    BY <1>3, <2>1, WorkerLocalStep, MarkStep DEF WorkerStep
<1>4. ASSUME NEW p \in Procs, RunnerStep(p) PROVE IInv'
  BY <1>4, BeginOrCompleteStep, RunnerLocalStep, FinishStageStep, MarkStep DEF RunnerStep
<1>5. QED
  BY <1>1, <1>2, <1>3, <1>4 DEF Next, Rest

-----------------------------------------------------------------------------
(* The theorems                                                             *)

\* Every reachable state satisfies the inductive invariant.
THEOREM Invariance == Spec => []IInv
<1>1. QED
  BY InitIInv, StepIInv, PTL DEF Spec

\* The two Booleans of the state, apart from the rest (see FlagTypes).
LEMMA FlagsTyped == Spec => []FlagTypes
<1>1. Init => FlagTypes
  BY DEF Init, FlagTypes
<1>2. FlagTypes /\ [Next]_vars => FlagTypes'
  <2> SUFFICES ASSUME FlagTypes, [Next]_vars PROVE FlagTypes'
    OBVIOUS
  <2>1. CASE UNCHANGED vars
    BY <2>1 DEF vars, FlagTypes
  <2>2. ASSUME NEW r \in Requests, NEW op \in Ops, Call(r, op) PROVE FlagTypes'
    BY <2>2 DEF Call, FlagTypes
  <2>3. ASSUME NEW r \in Requests, RequestStep(r) PROVE FlagTypes'
    BY <2>3 DEF RequestStep, ClearFlag, RaiseFlag, StartJob, Enqueue, PauseJob,
                CancelJob, RunInline, GuardCancel, FlagTypes
  <2>4. ASSUME NEW r \in Requests, ApiAbort(r) PROVE FlagTypes'
    <3>1. cancelled' = cancelled /\ cut' \in BOOLEAN
      BY <2>4, Zenon DEF ApiAbort
    <3>2. QED
      BY <3>1 DEF FlagTypes
  <2>5. ASSUME NEW w \in Workers,
               WorkerStep(w) \/ DriveRaises(w) \/ WorkerLost(w) \/ Redeliver(w)
                 \/ LoadFails(w) \/ Escapes(w)
        PROVE  FlagTypes'
    BY <2>5 DEF WorkerStep, Advance, CheckFlagFirst, Refresh, ReloadForFail, Fail,
                DriveRaises, WorkerLost, Redeliver, LoadFails, Escapes, FlagTypes
  <2>6. ASSUME NEW p \in Procs, RunnerStep(p) PROVE FlagTypes'
    BY <2>6 DEF RunnerStep, BeginRunning, CheckFlag, EnterStage, FinishStage,
                Complete, CancelSeen, SafeSync, FlagTypes
  <2>7. QED
    BY <2>1, <2>2, <2>3, <2>4, <2>5, <2>6 DEF Next, Rest
<1>3. QED
  BY <1>1, <1>2, PTL DEF Spec

\* TypeOK: every variable of the job model keeps its type, for any number of
\* workers, requests, steps, calls and faults.
THEOREM TypeCorrect == Spec => []TypeOK
<1>1. IInv /\ FlagTypes => TypeOK
  BY DEF IInv, DataTypes, FlagTypes, TypeOK
<1>2. QED
  BY <1>1, Invariance, FlagsTyped, PTL

\* ProgressHonest: progress_percent and COMPLETED never claim a step whose
\* results are not committed, whatever runners, users and crashes do.
THEOREM ProgressIsHonest == Spec => []ProgressHonest
<1>1. IInv => ProgressHonest
  BY DEF IInv, RowHonest, ProgressHonest
<1>2. QED
  BY <1>1, Invariance, PTL

-----------------------------------------------------------------------------
(* The job implements its ledger                                            *)

\* A transaction that sets another status and commits no step is a Mark, or a
\* stutter when the object it wrote already had that status.
LEMMA CommitMarks ==
  ASSUME NEW p \in Procs, NEW s \in {"queued", "running", "paused", "failed", "cancelled"},
         NEW new, new.status = s, Commit(p, new), done' = done
  PROVE  Ledger!Next \/ UNCHANGED <<job.status, done>>
  BY DEF Commit, Flushed, Ledger!Next, Ledger!Mark

\* Every step of the job is a step of JobLedger or leaves it alone.
LEMMA LedgerStep ==
  IInv /\ [Next]_vars => Ledger!Next \/ UNCHANGED <<job.status, done>>
<1> SUFFICES ASSUME IInv, [Next]_vars
             PROVE  Ledger!Next \/ UNCHANGED <<job.status, done>>
  OBVIOUS
<1>1. CASE UNCHANGED vars
  BY <1>1 DEF vars
<1>2. ASSUME NEW r \in Requests, NEW op \in Ops, Call(r, op)
      PROVE  UNCHANGED <<job.status, done>>
  BY <1>2 DEF Call
<1>3. ASSUME NEW r \in Requests, RequestStep(r)
      PROVE  Ledger!Next \/ UNCHANGED <<job.status, done>>
  <2>1. CASE ClearFlag(r) \/ RaiseFlag(r) \/ Enqueue(r) \/ RunInline(r) \/ GuardCancel(r)
    BY <2>1 DEF ClearFlag, RaiseFlag, Enqueue, RunInline, GuardCancel
  <2>2. CASE StartJob(r) \/ PauseJob(r) \/ CancelJob(r)
    <3>1. PICK s \in {"queued", "paused", "cancelled"} :
            Commit(r, [proc[r].row EXCEPT !.status = s]) /\ done' = done
      BY <2>2 DEF StartJob, PauseJob, CancelJob
    <3>2. [proc[r].row EXCEPT !.status = s].status = s
      BY DEF IInv, DataTypes, ProcType, Rows
    <3>3. QED
      BY <3>1, <3>2, CommitMarks
  <2>3. QED
    BY <1>3, <2>1, <2>2 DEF RequestStep
<1>4. ASSUME NEW r \in Requests, ApiAbort(r)
      PROVE  UNCHANGED <<job.status, done>>
  BY <1>4 DEF ApiAbort
<1>5. ASSUME NEW w \in Workers,
             WorkerStep(w) \/ DriveRaises(w) \/ WorkerLost(w) \/ Redeliver(w)
               \/ LoadFails(w) \/ Escapes(w)
      PROVE  Ledger!Next \/ UNCHANGED <<job.status, done>>
  <2>1. CASE Fail(w)
    <3>1. Commit(w, [proc[w].row EXCEPT !.status = "failed"]) /\ done' = done
      BY <2>1 DEF Fail
    <3>2. [proc[w].row EXCEPT !.status = "failed"].status = "failed"
      BY DEF IInv, DataTypes, ProcType, Rows
    <3>3. QED
      BY <3>1, <3>2, CommitMarks
  <2>2. CASE ~Fail(w)
    BY <1>5, <2>2 DEF WorkerStep, Advance, CheckFlagFirst, Refresh, ReloadForFail,
                      DriveRaises, WorkerLost, Redeliver, LoadFails, Escapes
  <2>3. QED
    BY <2>1, <2>2
<1>6. ASSUME NEW p \in Procs, RunnerStep(p)
      PROVE  Ledger!Next \/ UNCHANGED <<job.status, done>>
  <2>1. CASE CheckFlag(p) \/ EnterStage(p) \/ SafeSync(p)
    BY <2>1 DEF CheckFlag, EnterStage, SafeSync
  <2>2. CASE BeginRunning(p)
    <3> DEFINE new == [status |-> "running",
                       progress |-> Larger(proc[p].row.progress, Begun)]
    <3>1. Commit(p, new) /\ done' = done
      BY <2>2 DEF BeginRunning
    <3>2. new.status = "running"
      OBVIOUS
    <3> HIDE DEF new
    <3>3. QED
      BY <3>1, <3>2, CommitMarks
  <2>3. CASE CancelSeen(p)
    <3>1. Commit(p, [proc[p].row EXCEPT !.status = "cancelled"]) /\ done' = done
      BY <2>3 DEF CancelSeen
    <3>2. [proc[p].row EXCEPT !.status = "cancelled"].status = "cancelled"
      BY DEF IInv, DataTypes, ProcType, Rows
    <3>3. QED
      BY <3>1, <3>2, CommitMarks
  <2>4. CASE Complete(p)
    <3>1. done = Steps /\ done' = done
      BY <2>4 DEF IInv, PlaceOK, Complete, At
    <3>2. job'.status \in {job.status, "completed"}
      BY <2>4 DEF Complete, Commit, Flushed
    <3>3. QED
      BY <3>1, <3>2 DEF Ledger!Next, Ledger!Finish
  <2>5. CASE FinishStage(p)
    <3>1. /\ proc[p].row \in Rows /\ proc[p].step \in Steps
          /\ 1..(proc[p].step - 1) \subseteq done
      BY <2>5 DEF IInv, DataTypes, ProcType, PlaceOK, FinishStage, At
    <3>2. /\ done' = done \cup {proc[p].step}
          /\ job' = Flushed(proc[p].row,
                     [proc[p].row EXCEPT !.progress = StepProgress(p, proc[p].step)])
      BY <2>5 DEF FinishStage
    <3>3. [proc[p].row EXCEPT !.progress = StepProgress(p, proc[p].step)].status
            = proc[p].row.status
      BY <3>1 DEF Rows
    <3>4. job'.status = job.status
      BY <3>2, <3>3 DEF Flushed
    <3>5. Ledger!CarryOut(proc[p].step)
      BY <3>1, <3>2, <3>4 DEF Ledger!CarryOut
    <3>6. QED
      BY <3>1, <3>5 DEF Ledger!Next
  <2>6. QED
    BY <1>6, <2>1, <2>2, <2>3, <2>4, <2>5 DEF RunnerStep
<1>7. QED
  BY <1>1, <1>2, <1>3, <1>4, <1>5, <1>6 DEF Next, Rest

\* ImplementsLedger: with any number of runners, steps are carried out in order
\* on committed results, and the job is COMPLETED only after all of them.
THEOREM RefinesLedger == Spec => ImplementsLedger
<1>1. Init => Ledger!Init
  BY DEF Init, Ledger!Init
<1>2. IInv /\ [Next]_vars => [Ledger!Next]_<<job.status, done>>
  BY LedgerStep
<1>3. QED
  BY <1>1, <1>2, Invariance, PTL DEF Spec, ImplementsLedger, Ledger!Spec

-----------------------------------------------------------------------------
(* A job in progress is in somebody's hands                                 *)

\* The three ways a step of p leaves the job in somebody's hands: p takes it over
\* or a message does, it is no longer in progress, or p lets go of nothing.
LEMMA TakenOver ==
  ASSUME NEW p \in Procs, Responsible(p)' \/ queue' > 0 \/ job'.status \notin Active
  PROVE  NoStrandedJob'
  BY DEF NoStrandedJob, Responsible

LEMMA LetGoOfNothing ==
  ASSUME IInv, NoStrandedJob, NEW p \in Procs, Moves(p), job'.status = job.status,
         queue' \in Nat, queue' >= queue, cut => cut', Responsible(p) => Responsible(p)'
  PROVE  NoStrandedJob'
<1>1. CASE cut
  <2>1. cut'
    BY <1>1
  <2>2. QED
    BY <2>1, Zenon DEF NoStrandedJob
<1>2. CASE ~cut
  <2> SUFFICES ASSUME job'.status \in Active
               PROVE  queue' > 0 \/ \E q \in Procs : Responsible(q)'
    BY Zenon DEF NoStrandedJob
  <2>1. job.status \in Active
    OBVIOUS
  <2>2. queue > 0 \/ \E q \in Procs : Responsible(q)
    BY <1>2, <2>1, Zenon DEF NoStrandedJob
  <2>3. CASE queue > 0
    BY <2>3 DEF IInv, DataTypes
  <2>4. CASE \E q \in Procs : Responsible(q)
    <3>1. PICK q \in Procs : Responsible(q)
      BY <2>4
    <3>2. CASE q = p
      BY <3>1, <3>2
    <3>3. CASE q # p
      <4>1. proc'[q] = proc[q]
        BY <3>3 DEF Moves
      <4>2. Responsible(q)'
        BY <3>1, <4>1 DEF Responsible, At
      <4>3. QED
        BY <4>2
    <3>4. QED
      BY <3>2, <3>3
  <2>5. QED
    BY <2>2, <2>3, <2>4
<1>3. QED
  BY <1>1, <1>2

\* A short transaction that sets a status out of progress: the process that
\* makes it is responsible only while its write will change the status.
LEMMA OutOfProgress ==
  ASSUME IInv, NoStrandedJob, NEW p \in Procs, Moves(p), NEW new,
         Commit(p, new), new.status \notin Active,
         queue' \in Nat, queue' >= queue, cut => cut',
         Responsible(p) => proc[p].row.status # new.status
  PROVE  NoStrandedJob'
<1>1. CASE new.status = proc[p].row.status
  <2>1. job'.status = job.status /\ ~Responsible(p)
    BY <1>1 DEF Commit, Flushed
  <2>2. QED
    BY <2>1, LetGoOfNothing
<1>2. CASE new.status # proc[p].row.status
  <2>1. job'.status = new.status
    BY <1>2 DEF Commit, Flushed
  <2>2. QED
    BY <2>1, TakenOver
<1>3. QED
  BY <1>1, <1>2

\* The steps of a request.
LEMMA RequestKeepsHands ==
  ASSUME IInv, NoStrandedJob, NEW r \in Requests,
         (\E op \in Ops : Call(r, op)) \/ RequestStep(r) \/ ApiAbort(r)
  PROVE  NoStrandedJob'
<1>1. ASSUME NEW op \in Ops, Call(r, op) PROVE NoStrandedJob'
  <2>1. ~Responsible(r) /\ UNCHANGED <<job, queue, cut>>
    BY <1>1 DEF Call, Responsible, At
  <2>2. proc' \in [Procs -> ProcType] /\ \A q \in Procs : q # r => proc'[q] = proc[q]
    <3>1. IInv'
      BY <1>1, CallStep
    <3>2. QED
      BY <1>1, <3>1 DEF IInv, DataTypes, Call
  <2>3. QED
    BY <2>1, <2>2, LetGoOfNothing DEF IInv, DataTypes, Moves
<1>2. CASE ClearFlag(r) \/ RaiseFlag(r)
  <2>1. /\ ~Responsible(r) /\ UNCHANGED <<job, queue, cut>> /\ Goto(r, "write")
    BY <1>2 DEF ClearFlag, RaiseFlag, Responsible, At
  <2>2. Moves(r)
    BY <2>1, GotoMoves DEF IInv, RequestPCs
  <2>3. QED
    BY <2>1, <2>2, LetGoOfNothing DEF IInv, DataTypes
<1>3. CASE Enqueue(r)
  <2>1. queue' > 0
    BY <1>3 DEF Enqueue, IInv, DataTypes
  <2>2. QED
    BY <2>1, TakenOver
<1>4. CASE RunInline(r)
  <2>1. proc'[r].pc = "begin"
    BY <1>4, HoldingMoves DEF RunInline, IInv, DataTypes, WorkerPCs
  <2>2. QED
    BY <2>1, TakenOver DEF Responsible
<1>5. CASE StartJob(r)
  <2>1. PICK pc \in {"enqueue", "inline"} : Goto(r, pc)
    BY <1>5 DEF StartJob
  <2>2. proc'[r].pc = pc
    BY <2>1, GotoMoves DEF IInv, RequestPCs
  <2>3. QED
    BY <2>2, TakenOver DEF Responsible
<1>6. CASE PauseJob(r) \/ CancelJob(r)
  <2>1. PICK s \in {"paused", "cancelled"} : Commit(r, [proc[r].row EXCEPT !.status = s])
    BY <1>6 DEF PauseJob, CancelJob
  <2>2. /\ Moves(r) /\ ~Responsible(r) /\ UNCHANGED <<queue, cut>>
    BY <1>6, ReleaseMoves DEF IInv, PauseJob, CancelJob, Responsible, At
  <2>3. [proc[r].row EXCEPT !.status = s].status \notin Active
    BY DEF IInv, DataTypes, ProcType, Rows, Active
  <2>4. queue' \in Nat /\ queue' >= queue /\ (cut => cut')
    BY <2>2 DEF IInv, DataTypes
  <2>5. QED
    BY <2>1, <2>2, <2>3, <2>4, OutOfProgress
<1>7. CASE GuardCancel(r)
  <2>1. CASE job.status \in Stopped
    <3>1. job'.status \notin Active
      BY <1>7, <2>1 DEF GuardCancel, Stopped, Active
    <3>2. QED
      BY <3>1, TakenOver
  <2>2. CASE job.status \notin Stopped
    <3>1. proc' = [proc EXCEPT ![r].pc = "flag", ![r].row = job, ![r].step = @ + 1]
          /\ job' = job
      BY <1>7, <2>2 DEF GuardCancel, Stopped
    <3>2. proc'[r].pc = "flag" /\ proc'[r].row = job
      BY <3>1 DEF IInv, DataTypes, ProcType
    <3>3. QED
      BY <3>1, <3>2, TakenOver DEF Responsible, Active
  <2>3. QED
    BY <2>1, <2>2
<1>8. CASE ApiAbort(r)
  <2>1. CASE proc[r].pc \notin {"unflag", "setflag", "write", "sync"}
    <3>1. cut'
      BY <1>8, <2>1, Zenon DEF ApiAbort
    <3>2. QED
      BY <3>1, Zenon DEF NoStrandedJob
  <2>2. CASE proc[r].pc \in {"unflag", "setflag", "write", "sync"}
    <3>1. ~Responsible(r) /\ UNCHANGED <<job, queue>>
      BY <1>8, <2>2 DEF ApiAbort, Responsible, At
    <3>2. cut => cut'
      BY <1>8, Zenon DEF ApiAbort
    <3>3. Moves(r)
      BY <1>8, ReleaseMoves DEF IInv, ApiAbort
    <3>4. QED
      BY <3>1, <3>2, <3>3, LetGoOfNothing DEF IInv, DataTypes
  <2>3. QED
    BY <2>1, <2>2
<1>9. QED
  BY <1>1, <1>2, <1>3, <1>4, <1>5, <1>6, <1>7, <1>8 DEF RequestStep

\* The steps of a worker alone.
LEMMA WorkerKeepsHands ==
  ASSUME IInv, NoStrandedJob, NEW w \in Workers,
         WorkerStep(w) \/ DriveRaises(w) \/ WorkerLost(w) \/ Redeliver(w)
           \/ LoadFails(w) \/ Escapes(w)
  PROVE  NoStrandedJob'
<1> USE DEF IInv, DataTypes
<1>1. CASE Advance(w)
  <2>1. CASE job.status \in {"paused", "cancelled", "completed", "failed"}
    <3>1. job'.status \notin Active
      BY <1>1, <2>1 DEF Advance, Active
    <3>2. QED
      BY <3>1, TakenOver
  <2>2. CASE job.status \notin {"paused", "cancelled", "completed", "failed"}
    <3>1. proc' = [proc EXCEPT ![w] =
                     [pc |-> "loaded", op |-> "task", row |-> job, step |-> 0]]
      BY <1>1, <2>2 DEF Advance
    <3>2. proc'[w].pc = "loaded" /\ proc'[w].row = job
      BY <3>1
    <3>3. QED
      BY <2>2, <3>2, TakenOver DEF Responsible
  <2>3. QED
    BY <2>1, <2>2
<1>2. CASE CheckFlagFirst(w)
  <2>1. PICK pc \in {"cancelling", "loop", "begin"} :
          Goto(w, pc) /\ At(w, "loaded") /\ UNCHANGED <<job, queue, cut>>
    BY <1>2 DEF CheckFlagFirst
  <2>2. Moves(w) /\ proc'[w].pc = pc /\ proc'[w].row = proc[w].row
    BY <2>1, GotoMoves DEF WorkerPCs
  <2>3. Responsible(w) => Responsible(w)'
    BY <2>1, <2>2 DEF Responsible, At
  <2>4. QED
    BY <2>1, <2>2, <2>3, LetGoOfNothing
<1>3. CASE Refresh(w)
  <2>1. CASE job.status \in Stopped
    <3>1. job'.status \notin Active
      BY <1>3, <2>1 DEF Refresh, Stopped, Active
    <3>2. QED
      BY <3>1, TakenOver
  <2>2. CASE job.status \notin Stopped
    <3>1. PICK i \in 1..NSteps + 1 :
            proc' = [proc EXCEPT ![w].pc = "flag", ![w].row = job, ![w].step = i]
      BY <1>3, <2>2 DEF Refresh
    <3>2. proc'[w].pc = "flag" /\ proc'[w].row = job
      <4>1. proc \in [Procs -> ProcType]
        OBVIOUS
      <4> HIDE DEF IInv, DataTypes
      <4>2. QED
        BY <3>1, <4>1 DEF ProcType
    <3>3. job' = job
      BY <1>3 DEF Refresh
    <3>4. QED
      BY <3>2, <3>3, TakenOver DEF Responsible, Active
  <2>3. QED
    BY <2>1, <2>2
<1>4. CASE DriveRaises(w)
  <2>1. proc'[w].pc = "rolledback"
    BY <1>4, GotoMoves DEF DriveRaises, WorkerPCs
  <2>2. QED
    BY <2>1, TakenOver DEF Responsible
<1>5. CASE ReloadForFail(w)
  <2>1. proc'[w].pc = "failing" /\ proc'[w].row = job /\ job' = job
    BY <1>5, HoldingMoves DEF ReloadForFail, WorkerPCs
  <2>2. QED
    BY <2>1, TakenOver DEF Responsible, At, Active
<1>6. CASE Fail(w)
  <2> DEFINE new == [status |-> "failed", progress |-> proc[w].row.progress]
  <2>1. /\ [proc[w].row EXCEPT !.status = "failed"] = new
        /\ new \in Rows
    BY DEF ProcType, Rows, Statuses
  <2>2. new.status = "failed"
    OBVIOUS
  <2>3. Commit(w, new) /\ Holding(w, "sync", new) /\ At(w, "failing")
    BY <1>6, <2>1 DEF Fail
  <2>4. queue' \in Nat /\ queue' >= queue /\ (cut => cut')
    BY <1>6 DEF Fail
  <2> HIDE DEF new
  <2>5. Moves(w)
    BY <2>1, <2>3, HoldingMoves DEF WorkerPCs
  <2>6. Responsible(w) => proc[w].row.status # new.status
    BY <2>2, <2>3 DEF Responsible, At
  <2>7. new.status \notin Active
    BY <2>2 DEF Active
  <2>8. QED
    BY <2>3, <2>4, <2>5, <2>6, <2>7, OutOfProgress
<1>7. CASE WorkerLost(w) \/ Redeliver(w)
  <2>1. queue' > 0
    BY <1>7 DEF WorkerLost, Redeliver
  <2>2. QED
    BY <2>1, TakenOver
<1>8. CASE LoadFails(w) \/ Escapes(w)
  <2>1. cut' = TRUE
    BY <1>8, Zenon DEF LoadFails, Escapes
  <2>2. QED
    BY <2>1, Zenon DEF NoStrandedJob
<1>9. QED
  BY <1>1, <1>2, <1>3, <1>4, <1>5, <1>6, <1>7, <1>8 DEF WorkerStep

\* The steps of both runners.
LEMMA RunnerKeepsHands ==
  ASSUME IInv, NoStrandedJob, NEW p \in Procs, RunnerStep(p)
  PROVE  NoStrandedJob'
<1> USE DEF IInv, DataTypes
<1>1. CASE BeginRunning(p)
  <2> DEFINE new == [status |-> "running",
                     progress |-> Larger(proc[p].row.progress, Begun)]
  <2>1. \/ Holding(p, "loop", new)
        \/ proc' = [proc EXCEPT ![p].pc = "enter", ![p].row = new, ![p].step = 1]
    BY <1>1 DEF BeginRunning
  <2>2. proc'[p].row = new /\ proc'[p].pc \in {"loop", "enter"}
    BY <2>1 DEF Holding, ProcType
  <2>3. proc'[p].row.status = "running"
    BY <2>2
  <2>4. Responsible(p)'
    BY <2>2, <2>3 DEF Responsible
  <2>5. QED
    BY <2>4, TakenOver
<1>2. CASE CheckFlag(p)
  <2>1. PICK pc \in {"cancelling", "enter", "complete"} :
          Goto(p, pc) /\ At(p, "flag") /\ UNCHANGED <<job, queue, cut>>
    BY <1>2 DEF CheckFlag
  <2>2. Moves(p) /\ proc'[p].pc = pc /\ proc'[p].row = proc[p].row
    BY <2>1, GotoMoves DEF WorkerPCs
  <2>3. Responsible(p) => Responsible(p)'
    BY <2>1, <2>2 DEF Responsible, At
  <2>4. QED
    BY <2>1, <2>2, <2>3, LetGoOfNothing
<1>3. CASE EnterStage(p)
  <2>1. Goto(p, "body") /\ At(p, "enter") /\ UNCHANGED <<job, queue, cut>>
    BY <1>3 DEF EnterStage
  <2>2. Moves(p) /\ proc'[p].pc = "body" /\ proc'[p].row = proc[p].row
    BY <2>1, GotoMoves DEF WorkerPCs
  <2>3. Responsible(p) => Responsible(p)'
    BY <2>1, <2>2 DEF Responsible, At
  <2>4. QED
    BY <2>1, <2>2, <2>3, LetGoOfNothing
<1>4. CASE FinishStage(p)
  <2> DEFINE new == [proc[p].row EXCEPT !.progress = StepProgress(p, proc[p].step)]
  <2>1. PICK pc \in {"loop", "complete", "guard"} :
          /\ Holding(p, pc, new) /\ At(p, "body") /\ UNCHANGED <<queue, cut>>
          /\ job' = Flushed(proc[p].row, new)
    BY <1>4 DEF FinishStage
  <2>2. new.status = proc[p].row.status
    BY DEF ProcType, Rows
  <2> HIDE DEF new
  <2>3. proc'[p].pc = pc /\ proc'[p].row = new
    BY <2>1 DEF Holding, ProcType
  <2>4. Moves(p)
    <3>1. IInv'
      BY <1>4, FinishStageStep
    <3>2. QED
      BY <2>1, <3>1 DEF Moves, Holding
  <2>5. job'.status = job.status
    BY <2>1, <2>2 DEF Flushed
  <2>6. Responsible(p) => Responsible(p)'
    BY <2>1, <2>2, <2>3 DEF Responsible, At
  <2>7. QED
    BY <2>1, <2>4, <2>5, <2>6, LetGoOfNothing
<1>5. CASE Complete(p)
  <2> DEFINE new == [status |-> "completed", progress |-> Hundred]
  <2>1. new \in Rows /\ new.status = "completed"
    BY DEF Rows, Statuses, Hundred
  <2>2. Commit(p, new) /\ Holding(p, "sync", new) /\ At(p, "complete")
    BY <1>5 DEF Complete
  <2>3. queue' \in Nat /\ queue' >= queue /\ (cut => cut')
    BY <1>5 DEF Complete
  <2> HIDE DEF new
  <2>4. Moves(p)
    BY <2>1, <2>2, HoldingMoves DEF WorkerPCs
  <2>5. Responsible(p) => proc[p].row.status # new.status
    BY <2>1, <2>2 DEF Responsible, At
  <2>6. new.status \notin Active
    BY <2>1 DEF Active
  <2>7. QED
    BY <2>2, <2>3, <2>4, <2>5, <2>6, OutOfProgress
<1>6. CASE CancelSeen(p)
  <2> DEFINE new == [proc[p].row EXCEPT !.status = "cancelled"]
  <2>1. new.status = "cancelled"
    BY DEF ProcType, Rows
  <2>2. Commit(p, new) /\ Release(p) /\ At(p, "cancelling")
    BY <1>6 DEF CancelSeen
  <2>3. queue' \in Nat /\ queue' >= queue /\ (cut => cut')
    BY <1>6 DEF CancelSeen
  <2> HIDE DEF new
  <2>4. Moves(p)
    BY <2>2, ReleaseMoves
  <2>5. Responsible(p) => proc[p].row.status # new.status
    BY <2>1, <2>2 DEF Responsible, At
  <2>6. new.status \notin Active
    BY <2>1 DEF Active
  <2>7. QED
    BY <2>2, <2>3, <2>4, <2>5, <2>6, OutOfProgress
<1>7. CASE SafeSync(p)
  <2>1. ~Responsible(p) /\ UNCHANGED <<job, queue, cut>> /\ Release(p)
    BY <1>7 DEF SafeSync, Responsible, At
  <2>2. Moves(p)
    BY <2>1, ReleaseMoves
  <2>3. QED
    BY <2>1, <2>2, LetGoOfNothing
<1>8. QED
  BY <1>1, <1>2, <1>3, <1>4, <1>5, <1>6, <1>7 DEF RunnerStep

\* NoStrandedJob: a job shown as queued or running is always in the hands of a
\* message, a request or a runner, whatever crashes and stale writes happen.
THEOREM NeverStranded == Spec => []NoStrandedJob
<1>1. Init => NoStrandedJob
  BY DEF Init, NoStrandedJob, Active
<1>2. IInv /\ NoStrandedJob /\ [Next]_vars => NoStrandedJob'
  <2> SUFFICES ASSUME IInv, NoStrandedJob, [Next]_vars PROVE NoStrandedJob'
    OBVIOUS
  <2>1. CASE UNCHANGED vars
    BY <2>1, Zenon DEF vars, NoStrandedJob, Responsible, At
  <2>2. QED
    BY <2>1, RequestKeepsHands, WorkerKeepsHands, RunnerKeepsHands DEF Next, Rest
<1>3. QED
  BY <1>1, <1>2, Invariance, PTL DEF Spec

-----------------------------------------------------------------------------
(* What the moves do to the caller's own fields                             *)

LEMMA GotoKeeps ==
  ASSUME IInv, NEW p \in Procs, NEW pc \in WorkerPCs \cup RequestPCs, Goto(p, pc)
  PROVE  proc'[p].op = proc[p].op
<1>1. proc \in [Procs -> ProcType]
  BY DEF IInv, DataTypes
<1>2. QED
  BY <1>1 DEF Goto, ProcType

LEMMA ReleaseIdles ==
  ASSUME IInv, NEW p \in Procs, Release(p)
  PROVE  Moves(p) /\ proc'[p] = Idle /\ Idle.pc = "idle" /\ Idle.op = "none"
<1>1. Idle.pc = "idle" /\ Idle.op = "none"
  BY DEF Idle
<1>2. proc \in [Procs -> ProcType] /\ Moves(p)
  BY ReleaseMoves DEF IInv, DataTypes
<1>3. QED
  BY <1>1, <1>2 DEF Release

LEMMA Types ==
  ASSUME IInv, NEW p \in Procs
  PROVE  /\ proc[p] \in ProcType /\ proc[p].row \in Rows /\ job \in Rows
         /\ proc[p].row.progress \in Nat /\ job.progress \in Nat
         /\ proc[p].step \in 0 .. NSteps + 1 /\ done \subseteq Steps /\ faults \in Nat
  BY DEF IInv, DataTypes, ProcType, Rows, Hundred

\* The moves that write more of a process than its place and its row.
LEMMA SeatMoves ==
  ASSUME IInv, NEW p \in Procs, NEW pc \in WorkerPCs, NEW row \in Rows,
         NEW i \in 0 .. NSteps + 1,
         proc' = [proc EXCEPT ![p].pc = pc, ![p].row = row, ![p].step = i]
  PROVE  Moves(p) /\ proc'[p].pc = pc /\ proc'[p].row = row /\ proc'[p].step = i
<1>1. proc \in [Procs -> ProcType]
  BY DEF IInv, DataTypes
<1>2. /\ \A q \in Procs : q # p => proc'[q] = proc[q]
      /\ proc'[p] = [proc[p] EXCEPT !.pc = pc, !.row = row, !.step = i]
  BY <1>1
<1>3. PICK s \in ProcType : s = proc[p]
  BY <1>1
<1>4. PICK x : x = [s EXCEPT !.pc = pc, !.row = row, !.step = i]
  OBVIOUS
<1>5. x \in ProcType
  BY <1>4, Zenon DEF ProcType
<1>6. x.pc = pc /\ x.row = row /\ x.step = i
  BY <1>3, <1>4 DEF ProcType
<1>7. proc' \in [Procs -> ProcType]
  BY <1>1, <1>2, <1>3, <1>4, <1>5
<1>8. QED
  BY <1>2, <1>3, <1>4, <1>6, <1>7 DEF Moves

LEMMA FlagMoves ==
  ASSUME IInv, NEW p \in Procs, NEW i \in 0 .. NSteps + 1,
         proc' = [proc EXCEPT ![p].pc = "flag", ![p].row = job, ![p].step = i]
  PROVE  Moves(p) /\ proc'[p].pc = "flag" /\ proc'[p].row = job /\ proc'[p].step = i
<1>1. proc \in [Procs -> ProcType] /\ job \in Rows /\ "flag" \in WorkerPCs
  BY DEF IInv, DataTypes, WorkerPCs
<1>2. QED
  BY <1>1, ZenonT(30) DEF Moves, ProcType

LEMMA CallMoves ==
  ASSUME IInv, NEW r \in Requests, NEW op \in Ops, Call(r, op)
  PROVE  /\ Moves(r) /\ proc'[r].pc = FirstPlace(op) /\ proc'[r].op = op
         /\ op \in {"start", "pause", "cancel", "startinline"}
         /\ op = "startinline" => InlineAllowed
<1>1. /\ op \in {"start", "pause", "cancel", "startinline"}
      /\ op = "startinline" => InlineAllowed
  BY DEF Ops
<1>2. PICK x : x = [pc |-> FirstPlace(op), op |-> op, row |-> job, step |-> 0]
  OBVIOUS
<1>3. proc' = [proc EXCEPT ![r] = x] /\ x.pc = FirstPlace(op) /\ x.op = op
  BY <1>2 DEF Call
<1>4. IInv'
  BY CallStep
<1>5. QED
  BY <1>1, <1>3, <1>4 DEF IInv, DataTypes, Moves

LEMMA GuardMoves ==
  ASSUME IInv, NEW r \in Requests, GuardCancel(r)
  PROVE  Moves(r) /\ proc'[r].pc \in {"idle", "cancelling", "flag"}
<1>1. CASE Release(r)
  BY <1>1, ReleaseMoves DEF IInv
<1>2. CASE Holding(r, "cancelling", job)
  BY <1>2, HoldingMoves DEF IInv, DataTypes, WorkerPCs
<1>3. CASE proc' = [proc EXCEPT ![r].pc = "flag", ![r].row = job, ![r].step = @ + 1]
  <2>1. proc[r].step \in Steps
    BY DEF IInv, PlaceOK, GuardCancel, At
  <2>2. PICK i \in 0 .. NSteps + 1 : i = proc[r].step + 1
    BY <2>1
  <2>3. proc' = [proc EXCEPT ![r].pc = "flag", ![r].row = job, ![r].step = i]
    BY <1>3, <2>2
  <2>4. QED
    BY <2>3, FlagMoves
<1>4. QED
  BY <1>1, <1>2, <1>3 DEF GuardCancel

LEMMA WorkerMoves ==
  ASSUME IInv, NEW w \in Workers,
         WorkerStep(w) \/ DriveRaises(w) \/ WorkerLost(w) \/ Redeliver(w)
           \/ LoadFails(w) \/ Escapes(w)
  PROVE  /\ Moves(w)
         /\ proc' = proc \/ proc'[w].pc # "enter"
         /\ Advance(w) => proc'[w].pc \in {"idle", "loaded"}
         /\ CheckFlagFirst(w) => proc'[w].pc \in {"cancelling", "loop", "begin"}
         /\ Refresh(w) => proc'[w].pc \in {"idle", "flag"}
<1>1. CASE Advance(w)
  <2>1. IInv' /\ proc[w].pc = "idle"
    BY <1>1, WorkerLocalStep DEF Advance, At
  <2>2. proc \in [Procs -> ProcType] /\ proc' \in [Procs -> ProcType]
    BY <2>1 DEF IInv, DataTypes
  <2>3. CASE UNCHANGED proc
    BY <1>1, <2>1, <2>2, <2>3 DEF Moves, Advance, CheckFlagFirst, Refresh, At
  <2>4. CASE proc' = [proc EXCEPT ![w] = [pc |-> "loaded", op |-> "task", row |-> job, step |-> 0]]
    BY <1>1, <2>1, <2>2, <2>4 DEF Moves, CheckFlagFirst, Refresh, At
  <2>5. QED
    BY <1>1, <2>3, <2>4 DEF Advance
<1>2. CASE CheckFlagFirst(w)
  <2>1. PICK pc \in {"cancelling", "loop", "begin"} : Goto(w, pc)
    BY <1>2 DEF CheckFlagFirst
  <2>2. Moves(w) /\ proc'[w].pc = pc
    BY <2>1, GotoMoves DEF IInv, WorkerPCs
  <2>3. QED
    BY <1>2, <2>2 DEF Advance, CheckFlagFirst, Refresh, At
<1>3. CASE Refresh(w)
  <2>1. CASE Release(w)
    BY <1>3, <2>1, ReleaseMoves DEF IInv, Advance, CheckFlagFirst, Refresh, At
  <2>2. ASSUME NEW i \in 1 .. NSteps + 1,
               proc' = [proc EXCEPT ![w].pc = "flag", ![w].row = job, ![w].step = i]
        PROVE  Moves(w) /\ proc'[w].pc = "flag"
    <3>1. i \in 0 .. NSteps + 1
      OBVIOUS
    <3>2. QED
      BY <2>2, <3>1, FlagMoves
  <2>3. Moves(w) /\ proc'[w].pc \in {"idle", "flag"}
    BY <1>3, <2>1, <2>2, ReleaseMoves DEF Refresh, IInv
  <2>4. QED
    BY <1>3, <2>3 DEF Advance, CheckFlagFirst, Refresh, At
<1>4. CASE ReloadForFail(w) \/ Fail(w)
  <2>1. PICK pc \in {"failing", "sync"}, new \in Rows : Holding(w, pc, new)
    <3>1. job \in Rows /\ [proc[w].row EXCEPT !.status = "failed"] \in Rows
      BY Types DEF Rows, Statuses
    <3>2. QED
      BY <1>4, <3>1 DEF ReloadForFail, Fail
  <2>2. Moves(w) /\ proc'[w].pc = pc
    BY <2>1, HoldingMoves DEF IInv, WorkerPCs
  <2>3. QED
    BY <1>4, <2>2 DEF Advance, CheckFlagFirst, Refresh, ReloadForFail, Fail, At
<1>5. CASE DriveRaises(w)
  <2>1. Moves(w) /\ proc'[w].pc = "rolledback"
    BY <1>5, GotoMoves DEF DriveRaises, IInv, WorkerPCs
  <2>2. faults' # faults
    BY <1>5, Types DEF DriveRaises, Fault
  <2>3. QED
    BY <2>1, <2>2 DEF Advance, CheckFlagFirst, Refresh, budget
<1>6. CASE WorkerLost(w)
  <2>1. Moves(w) /\ proc'[w].pc = "idle"
    BY <1>6, ReleaseMoves DEF WorkerLost, IInv
  <2>2. faults' # faults
    BY <1>6, Types DEF WorkerLost, Fault
  <2>3. QED
    BY <2>1, <2>2 DEF Advance, CheckFlagFirst, Refresh, budget
<1>7. CASE Redeliver(w)
  <2>1. Moves(w) /\ proc' = proc
    BY <1>7 DEF Redeliver, Moves, IInv, DataTypes
  <2>2. faults' # faults
    BY <1>7, Types DEF Redeliver, Fault
  <2>3. QED
    BY <2>1, <2>2 DEF Advance, CheckFlagFirst, Refresh, budget
<1>8. CASE LoadFails(w)
  <2>1. Moves(w) /\ proc' = proc
    BY <1>8 DEF LoadFails, Moves, IInv, DataTypes
  <2>2. faults' # faults
    BY <1>8, Types DEF LoadFails, Fault
  <2>3. QED
    BY <2>1, <2>2 DEF Advance, CheckFlagFirst, Refresh, budget
<1>9. CASE Escapes(w)
  <2>1. Moves(w) /\ proc'[w].pc = "idle"
    BY <1>9, ReleaseMoves DEF Escapes, IInv
  <2>2. faults' # faults
    BY <1>9, Types DEF Escapes, Fault
  <2>3. QED
    BY <2>1, <2>2 DEF Advance, CheckFlagFirst, Refresh, budget
<1>10. QED
  BY <1>1, <1>2, <1>3, <1>4, <1>5, <1>6, <1>7, <1>8, <1>9 DEF WorkerStep

\* The rows that begin and finish write.
LEMMA RunnerRows ==
  ASSUME IInv, NEW p \in Procs
  PROVE  /\ [status |-> "running", progress |-> Larger(proc[p].row.progress, Begun)] \in Rows
         /\ proc[p].pc = "body" =>
              [proc[p].row EXCEPT !.progress = StepProgress(p, proc[p].step)] \in Rows
<1>1. [status |-> "running", progress |-> Larger(proc[p].row.progress, Begun)] \in Rows
  BY Types DEF Rows, Statuses, Larger, Begun, Hundred
<1>2. ASSUME proc[p].pc = "body"
      PROVE  [proc[p].row EXCEPT !.progress = StepProgress(p, proc[p].step)] \in Rows
  <2>1. proc[p].step \in Steps
    BY <1>2 DEF IInv, PlaceOK
  <2>2. StepProgress(p, proc[p].step) \in 0 .. Hundred
    BY <2>1, Types DEF StepProgress, Larger, Entered, Finished, Rows, Hundred
  <2>3. QED
    BY <2>2, Types DEF Rows
<1>3. QED
  BY <1>1, <1>2

LEMMA RunnerMoves ==
  ASSUME IInv, NEW p \in Procs, RunnerStep(p)
  PROVE  /\ Moves(p)
         /\ proc[p].pc \in {"begin", "flag", "enter", "body", "complete", "cancelling", "sync"}
         /\ proc'[p].pc \in {"loop", "enter", "cancelling", "complete", "body", "guard", "sync", "idle"}
         /\ p \in Workers /\ cancelled => proc'[p].pc # "enter"
<1>1. CASE BeginRunning(p)
  <2>1. PICK new : new = [status |-> "running", progress |-> Larger(proc[p].row.progress, Begun)]
    OBVIOUS
  <2>2. new \in Rows
    BY <2>1, RunnerRows
  <2>3. CASE p \in Workers
    <3>1. Holding(p, "loop", new)
      BY <1>1, <2>1, <2>3 DEF BeginRunning
    <3>2. Moves(p) /\ proc'[p].pc = "loop"
      BY <2>2, <3>1, HoldingMoves DEF IInv, WorkerPCs
    <3>3. QED
      BY <1>1, <3>2 DEF BeginRunning, At
  <2>4. CASE p \notin Workers
    <3>1. proc' = [proc EXCEPT ![p].pc = "enter", ![p].row = new, ![p].step = 1]
      BY <1>1, <2>1, <2>4 DEF BeginRunning
    <3>2. PICK i \in 0 .. NSteps + 1 : i = 1
      OBVIOUS
    <3>3. Moves(p) /\ proc'[p].pc = "enter"
      <4>1. proc' = [proc EXCEPT ![p].pc = "enter", ![p].row = new, ![p].step = i]
        BY <3>1, <3>2
      <4>2. "enter" \in WorkerPCs
        BY DEF WorkerPCs
      <4>3. QED
        BY <2>2, <4>1, <4>2, SeatMoves
    <3>4. QED
      BY <1>1, <2>4, <3>3 DEF BeginRunning, At
  <2>5. QED
    BY <2>3, <2>4
<1>2. CASE CheckFlag(p)
  <2>1. PICK pc \in {"cancelling", "enter", "complete"} : Goto(p, pc) /\ (cancelled => pc = "cancelling")
    <3>1. CASE cancelled
      <4>1. Goto(p, "cancelling")
        BY <1>2, <3>1, Zenon DEF CheckFlag
      <4>2. QED
        BY <4>1
    <3>2. CASE ~ cancelled
      <4>1. Goto(p, IF proc[p].step \in Steps THEN "enter" ELSE "complete")
        BY <1>2, <3>2, Zenon DEF CheckFlag
      <4>2. QED
        BY <3>2, <4>1
    <3>3. QED
      BY <3>1, <3>2
  <2>2. Moves(p) /\ proc'[p].pc = pc
    BY <2>1, GotoMoves DEF IInv, WorkerPCs
  <2>3. QED
    BY <1>2, <2>1, <2>2 DEF CheckFlag, At
<1>3. CASE EnterStage(p)
  <2>1. Moves(p) /\ proc'[p].pc = "body"
    BY <1>3, GotoMoves DEF EnterStage, IInv, WorkerPCs
  <2>2. QED
    BY <1>3, <2>1 DEF EnterStage, At
<1>4. CASE FinishStage(p)
  <2>1. PICK new : new = [proc[p].row EXCEPT !.progress = StepProgress(p, proc[p].step)]
    OBVIOUS
  <2>2. new \in Rows
    BY <1>4, <2>1, RunnerRows DEF FinishStage, At
  <2>3. PICK pc \in {"loop", "complete", "guard"} : Holding(p, pc, new)
    BY <1>4, <2>1 DEF FinishStage
  <2>4. Moves(p) /\ proc'[p].pc = pc
    BY <2>2, <2>3, HoldingMoves DEF IInv, WorkerPCs, RequestPCs
  <2>5. QED
    BY <1>4, <2>4 DEF FinishStage, At
<1>5. CASE Complete(p)
  <2>1. PICK new : new = [status |-> "completed", progress |-> Hundred]
    OBVIOUS
  <2>2. new \in Rows /\ Holding(p, "sync", new)
    BY <1>5, <2>1 DEF Complete, Rows, Statuses, Hundred
  <2>3. Moves(p) /\ proc'[p].pc = "sync"
    BY <2>2, HoldingMoves DEF IInv, WorkerPCs
  <2>4. QED
    BY <1>5, <2>3 DEF Complete, At
<1>6. CASE CancelSeen(p) \/ SafeSync(p)
  <2>1. Moves(p) /\ proc'[p].pc = "idle"
    BY <1>6, ReleaseMoves DEF CancelSeen, SafeSync, IInv
  <2>2. QED
    BY <1>6, <2>1 DEF CancelSeen, SafeSync, At
<1>7. QED
  BY <1>1, <1>2, <1>3, <1>4, <1>5, <1>6 DEF RunnerStep

-----------------------------------------------------------------------------
(* The sheet                                                                *)

\* While nothing has failed, COMPLETED is the only outcome, and it is in the sheet or
\* in the hands of the process that will put it there.
Unfailed ==
  faults = 0 =>
    /\ job.status # "failed"
    /\ \A p \in Procs : /\ proc[p].pc \notin {"rolledback", "failing"}
                        /\ proc[p].pc = "sync" => proc[p].row.status = "completed"
    /\ job.status = "completed" =>
         sheet = "completed" \/ \E p \in Procs : proc[p].pc = "sync"

\* A step that neither makes nor shows an outcome.
LEMMA NoOutcome ==
  ASSUME IInv, Unfailed, NEW p \in Procs, Moves(p), faults' = faults, sheet' = sheet,
         job'.status = job.status \/ job'.status \notin {"completed", "failed"},
         proc[p].pc # "sync", proc'[p].pc \notin {"rolledback", "failing", "sync"}
  PROVE  Unfailed'
<1> SUFFICES ASSUME faults = 0
             PROVE  /\ job'.status # "failed"
                    /\ \A q \in Procs : /\ proc'[q].pc \notin {"rolledback", "failing"}
                                        /\ proc'[q].pc = "sync" => proc'[q].row.status = "completed"
                    /\ job'.status = "completed" =>
                         sheet' = "completed" \/ \E q \in Procs : proc'[q].pc = "sync"
  BY DEF Unfailed
<1>1. \A q \in Procs : q # p => proc'[q] = proc[q]
  BY DEF Moves
<1>2. \A q \in Procs : /\ proc'[q].pc \notin {"rolledback", "failing"}
                       /\ proc'[q].pc = "sync" => proc'[q].row.status = "completed"
  BY <1>1 DEF Unfailed
<1>3. ASSUME job'.status = "completed", sheet' # "completed"
      PROVE  \E q \in Procs : proc'[q].pc = "sync"
  <2>1. PICK q \in Procs : proc[q].pc = "sync"
    BY <1>3 DEF Unfailed
  <2>2. q # p
    BY <2>1
  <2>3. QED
    BY <1>1, <2>1, <2>2
<1>4. QED
  BY <1>2, <1>3 DEF Unfailed

LEMMA FaultSeen == ASSUME IInv, Fault PROVE Unfailed'
  BY DEF Fault, Unfailed, IInv, DataTypes

LEMMA RequestUnfailed ==
  ASSUME IInv, Unfailed, NEW r \in Requests, RequestStep(r) \/ \E op \in Ops : Call(r, op)
  PROVE  Unfailed'
<1>1. ASSUME NEW op \in Ops, Call(r, op) PROVE Unfailed'
  <2>1. /\ proc[r].pc = "idle" /\ UNCHANGED <<job, sheet, faults>>
        /\ FirstPlace(op) \in {"setflag", "write", "unflag"}
    BY <1>1 DEF Call, At, FirstPlace
  <2>2. QED
    BY <1>1, <2>1, CallMoves, NoOutcome
<1>2. CASE ClearFlag(r) \/ RaiseFlag(r)
  <2>1. Goto(r, "write") /\ UNCHANGED <<job, sheet, faults>> /\ proc[r].pc # "sync"
    BY <1>2 DEF ClearFlag, RaiseFlag, budget, At
  <2>2. Moves(r) /\ proc'[r].pc = "write"
    BY <2>1, GotoMoves DEF IInv, RequestPCs
  <2>3. QED
    BY <2>1, <2>2, NoOutcome
<1>3. CASE StartJob(r)
  <2>1. PICK pc \in {"enqueue", "inline"} : Goto(r, pc)
    BY <1>3 DEF StartJob
  <2>2. Moves(r) /\ proc'[r].pc = pc
    BY <2>1, GotoMoves DEF IInv, RequestPCs
  <2>3. UNCHANGED <<sheet, faults>> /\ proc[r].pc # "sync"
    BY <1>3 DEF StartJob, budget, At
  <2>4. job'.status = job.status \/ job'.status = "queued"
    <3>1. [proc[r].row EXCEPT !.status = "queued"].status = "queued"
      BY Types DEF Rows
    <3>2. QED
      BY <1>3, <3>1 DEF StartJob, Commit, Flushed
  <2>5. QED
    BY <2>1, <2>2, <2>3, <2>4, NoOutcome
<1>4. CASE Enqueue(r) \/ PauseJob(r) \/ CancelJob(r)
  <2>1. Release(r) /\ UNCHANGED <<sheet, faults>> /\ proc[r].pc # "sync"
    BY <1>4 DEF Enqueue, PauseJob, CancelJob, budget, At
  <2>2. Moves(r) /\ proc'[r].pc = "idle"
    BY <2>1, ReleaseMoves DEF IInv
  <2>3. job'.status = job.status \/ job'.status \in {"paused", "cancelled"}
    <3>1. \A s \in {"paused", "cancelled"} : [proc[r].row EXCEPT !.status = s].status = s
      BY Types DEF Rows
    <3>2. QED
      BY <1>4, <3>1 DEF Enqueue, PauseJob, CancelJob, Commit, Flushed
  <2>4. QED
    BY <2>1, <2>2, <2>3, NoOutcome
<1>5. CASE RunInline(r)
  <2>1. Holding(r, "begin", job) /\ UNCHANGED <<job, sheet, faults>> /\ proc[r].pc # "sync"
    BY <1>5 DEF RunInline, budget, At
  <2>2. Moves(r) /\ proc'[r].pc = "begin"
    BY <2>1, HoldingMoves DEF IInv, DataTypes, WorkerPCs
  <2>3. QED
    BY <2>1, <2>2, NoOutcome
<1>6. CASE GuardCancel(r)
  <2>1. UNCHANGED <<job, sheet, faults>> /\ proc[r].pc = "guard"
    BY <1>6 DEF GuardCancel, budget, At
  <2>2. Moves(r) /\ proc'[r].pc \in {"idle", "cancelling", "flag"}
    <3>1. CASE Release(r)
      BY <3>1, ReleaseMoves DEF IInv
    <3>2. CASE Holding(r, "cancelling", job)
      BY <3>2, HoldingMoves DEF IInv, DataTypes, WorkerPCs
    <3>3. CASE proc' = [proc EXCEPT ![r].pc = "flag", ![r].row = job, ![r].step = @ + 1]
      <4>1. proc[r].step \in Steps
        BY <2>1 DEF IInv, PlaceOK
      <4>2. PICK i \in 0 .. NSteps + 1 : i = proc[r].step + 1
        BY <4>1
      <4>3. proc' = [proc EXCEPT ![r].pc = "flag", ![r].row = job, ![r].step = i]
        BY <3>3, <4>2
      <4>4. QED
        BY <4>3, FlagMoves
    <3>4. QED
      BY <1>6, <3>1, <3>2, <3>3 DEF GuardCancel
  <2>3. QED
    BY <2>1, <2>2, NoOutcome
<1>7. QED
  BY <1>1, <1>2, <1>3, <1>4, <1>5, <1>6 DEF RequestStep

LEMMA WorkerUnfailed ==
  ASSUME IInv, Unfailed, NEW w \in Workers, WorkerStep(w)
  PROVE  Unfailed'
<1>1. CASE Advance(w)
  <2>1. UNCHANGED <<job, sheet, faults>> /\ proc[w].pc = "idle"
    BY <1>1 DEF Advance, budget, At
  <2>2. Moves(w) /\ proc'[w].pc \in {"idle", "loaded"}
    <3>1. IInv'
      BY <1>1, WorkerLocalStep
    <3>2. proc \in [Procs -> ProcType] /\ proc' \in [Procs -> ProcType]
      BY <3>1 DEF IInv, DataTypes
    <3>3. CASE UNCHANGED proc
      BY <2>1, <3>2, <3>3 DEF Moves
    <3>4. CASE proc' = [proc EXCEPT ![w] = [pc |-> "loaded", op |-> "task", row |-> job, step |-> 0]]
      BY <3>2, <3>4 DEF Moves
    <3>5. QED
      BY <1>1, <3>3, <3>4 DEF Advance
  <2>3. QED
    BY <2>1, <2>2, NoOutcome
<1>2. CASE CheckFlagFirst(w)
  <2>1. PICK pc \in {"cancelling", "loop", "begin"} : Goto(w, pc)
    BY <1>2 DEF CheckFlagFirst
  <2>2. Moves(w) /\ proc'[w].pc = pc
    BY <2>1, GotoMoves DEF IInv, WorkerPCs
  <2>3. UNCHANGED <<job, sheet, faults>> /\ proc[w].pc = "loaded"
    BY <1>2 DEF CheckFlagFirst, budget, At
  <2>4. QED
    BY <2>2, <2>3, NoOutcome
<1>3. CASE Refresh(w)
  <2>1. UNCHANGED <<job, sheet, faults>> /\ proc[w].pc = "loop"
    BY <1>3 DEF Refresh, budget, At
  <2>2. Moves(w) /\ proc'[w].pc \in {"idle", "flag"}
    <3>1. CASE Release(w)
      BY <3>1, ReleaseMoves DEF IInv
    <3>2. ASSUME NEW i \in 1 .. NSteps + 1,
                 proc' = [proc EXCEPT ![w].pc = "flag", ![w].row = job, ![w].step = i]
          PROVE  Moves(w) /\ proc'[w].pc = "flag"
      <4>1. i \in 0 .. NSteps + 1
        OBVIOUS
      <4>2. QED
        BY <3>2, <4>1, FlagMoves
    <3>3. QED
      BY <1>3, <3>1, <3>2 DEF Refresh
  <2>3. QED
    BY <2>1, <2>2, NoOutcome
<1>4. CASE ReloadForFail(w) \/ Fail(w)
  <2>1. proc[w].pc \in {"rolledback", "failing"} /\ (faults' = faults \/ faults' = faults + 1)
    BY <1>4 DEF ReloadForFail, Fail, Fault, budget, At
  <2>2. faults # 0 /\ faults \in Nat
    BY <2>1, Types DEF Unfailed
  <2>3. faults' # 0
    BY <2>1, <2>2
  <2>4. QED
    BY <2>3 DEF Unfailed
<1>5. QED
  BY <1>1, <1>2, <1>3, <1>4 DEF WorkerStep

LEMMA RunnerUnfailed ==
  ASSUME IInv, Unfailed, NEW p \in Procs, RunnerStep(p)
  PROVE  Unfailed'
<1>1. CASE BeginRunning(p)
  <2>1. PICK new : /\ new = [status |-> "running", progress |-> Larger(proc[p].row.progress, Begun)]
                   /\ Commit(p, new)
                   /\ \/ Holding(p, "loop", new)
                      \/ proc' = [proc EXCEPT ![p].pc = "enter", ![p].row = new, ![p].step = 1]
    BY <1>1 DEF BeginRunning
  <2>2. UNCHANGED <<sheet, faults>> /\ proc[p].pc = "begin"
    BY <1>1 DEF BeginRunning, budget, At
  <2>3. job'.status = job.status \/ job'.status = "running"
    BY <2>1 DEF Commit, Flushed
  <2>4. IInv'
    BY <1>1, BeginOrCompleteStep
  <2>5. Moves(p) /\ proc'[p].pc \in {"loop", "enter"}
    <3>1. proc \in [Procs -> ProcType] /\ proc' \in [Procs -> ProcType]
      BY <2>4 DEF IInv, DataTypes
    <3>2. CASE Holding(p, "loop", new)
      BY <3>1, <3>2 DEF Moves, Holding, ProcType
    <3>3. CASE proc' = [proc EXCEPT ![p].pc = "enter", ![p].row = new, ![p].step = 1]
      BY <3>1, <3>3, ZenonT(30) DEF Moves, ProcType
    <3>4. QED
      BY <2>1, <3>2, <3>3
  <2>6. QED
    BY <2>2, <2>3, <2>5, NoOutcome
<1>2. CASE CheckFlag(p)
  <2>1. PICK pc \in {"cancelling", "enter", "complete"} : Goto(p, pc)
    BY <1>2 DEF CheckFlag
  <2>2. Moves(p) /\ proc'[p].pc = pc
    BY <2>1, GotoMoves DEF IInv, WorkerPCs
  <2>3. UNCHANGED <<job, sheet, faults>> /\ proc[p].pc = "flag"
    BY <1>2 DEF CheckFlag, budget, At
  <2>4. QED
    BY <2>2, <2>3, NoOutcome
<1>3. CASE EnterStage(p)
  <2>1. Moves(p) /\ proc'[p].pc = "body"
    BY <1>3, GotoMoves DEF IInv, WorkerPCs, EnterStage
  <2>2. UNCHANGED <<job, sheet, faults>> /\ proc[p].pc = "enter"
    BY <1>3 DEF EnterStage, budget, At
  <2>3. QED
    BY <2>1, <2>2, NoOutcome
<1>4. CASE FinishStage(p)
  <2>1. PICK new : /\ new = [proc[p].row EXCEPT !.progress = StepProgress(p, proc[p].step)]
                   /\ job' = Flushed(proc[p].row, new)
                   /\ \E pc \in {"loop", "complete", "guard"} : Holding(p, pc, new)
    BY <1>4 DEF FinishStage
  <2>2. new.status = proc[p].row.status
    BY <2>1, Types DEF Rows
  <2>3. job'.status = job.status
    BY <2>1, <2>2 DEF Flushed
  <2>4. UNCHANGED <<sheet, faults>> /\ proc[p].pc = "body"
    BY <1>4 DEF FinishStage, budget, At
  <2>5. IInv'
    BY <1>4, FinishStageStep
  <2>6. Moves(p) /\ proc'[p].pc \in {"loop", "complete", "guard"}
    <3>1. proc \in [Procs -> ProcType] /\ proc' \in [Procs -> ProcType]
      BY <2>5 DEF IInv, DataTypes
    <3>2. QED
      BY <2>1, <3>1 DEF Moves, Holding, ProcType
  <2>7. QED
    BY <2>3, <2>4, <2>6, NoOutcome
<1>5. CASE Complete(p)
  <2>1. PICK new \in Rows : new.status = "completed" /\ Commit(p, new) /\ Holding(p, "sync", new)
    BY <1>5 DEF Complete, Rows, Statuses, Hundred
  <2>2. faults' = faults /\ job'.status \in {job.status, "completed"}
    BY <1>5, <2>1 DEF Complete, budget, Commit, Flushed
  <2>3. Moves(p) /\ proc'[p].pc = "sync" /\ proc'[p].row.status = "completed"
    BY <2>1, HoldingMoves DEF IInv, WorkerPCs
  <2>4. QED
    BY <2>2, <2>3 DEF Unfailed, Moves
<1>6. CASE CancelSeen(p)
  <2>1. Moves(p) /\ proc'[p].pc = "idle"
    BY <1>6, ReleaseMoves DEF IInv, CancelSeen
  <2>2. UNCHANGED <<sheet, faults>> /\ proc[p].pc = "cancelling"
    BY <1>6 DEF CancelSeen, budget, At
  <2>3. job'.status = job.status \/ job'.status = "cancelled"
    <3>1. [proc[p].row EXCEPT !.status = "cancelled"].status = "cancelled"
      BY Types DEF Rows
    <3>2. QED
      BY <1>6, <3>1 DEF CancelSeen, Commit, Flushed
  <2>4. QED
    BY <2>1, <2>2, <2>3, NoOutcome
<1>7. CASE SafeSync(p)
  <2>1. CASE Fault
    BY <2>1, FaultSeen
  <2>2. CASE ~ Fault
    <3>1. /\ sheet' = proc[p].row.status /\ UNCHANGED <<job, faults>> /\ proc[p].pc = "sync"
          /\ Moves(p) /\ proc'[p].pc = "idle"
      BY <1>7, <2>2, ReleaseMoves DEF SafeSync, budget, At, IInv
    <3>2. faults = 0 => sheet' = "completed"
      BY <3>1 DEF Unfailed
    <3>3. QED
      BY <3>1, <3>2 DEF Unfailed, Moves
  <2>3. QED
    BY <2>1, <2>2
<1>8. QED
  BY <1>1, <1>2, <1>3, <1>4, <1>5, <1>6, <1>7 DEF RunnerStep

\* SheetShowsOutcome: for any number of runners and users, an outcome that nothing
\* interfered with is in the Mining_Jobs tab once everything is quiet.
THEOREM SheetShows == Spec => []SheetShowsOutcome
<1>1. Init => Unfailed
  BY DEF Init, Unfailed, Idle
<1>2. IInv /\ Unfailed /\ [Next]_vars => Unfailed'
  <2> SUFFICES ASSUME IInv, Unfailed, [Next]_vars PROVE Unfailed'
    OBVIOUS
  <2>1. CASE UNCHANGED vars
    BY <2>1 DEF vars, Unfailed
  <2>2. ASSUME NEW r \in Requests, ApiAbort(r) PROVE Unfailed'
    BY <2>2, FaultSeen DEF ApiAbort
  <2>3. ASSUME NEW w \in Workers,
               DriveRaises(w) \/ WorkerLost(w) \/ Redeliver(w) \/ LoadFails(w) \/ Escapes(w)
        PROVE  Unfailed'
    BY <2>3, FaultSeen DEF DriveRaises, WorkerLost, Redeliver, LoadFails, Escapes
  <2>4. QED
    BY <2>1, <2>2, <2>3, RequestUnfailed, WorkerUnfailed, RunnerUnfailed DEF Next, Rest
<1>3. Unfailed => SheetShowsOutcome
  BY DEF Unfailed, SheetShowsOutcome, Quiet, At
<1>4. QED
  BY <1>1, <1>2, <1>3, Invariance, PTL DEF Spec

-----------------------------------------------------------------------------
(* One runner                                                               *)

\* The deployment that repeats nothing: one worker slot, and no inline runs.
OneRunner == ~ InlineAllowed /\ \E w : Workers = {w}

\* The ledger is then exact, the runner's copy of it is up to date, and the step it is
\* about to run has not been committed.
Alone ==
  /\ \A i \in done : job.progress >= Finished(i)
  /\ \A r \in Requests : /\ proc[r].op # "startinline"
                         /\ proc[r].pc \in {"idle", "unflag", "setflag", "write", "enqueue"}
  /\ \A w \in Workers : /\ proc[w].pc # "idle" => proc[w].row.progress = job.progress
                        /\ proc[w].pc \in {"flag", "enter", "body"} => proc[w].step \notin done

\* A step of a request: the status is all it writes of the row.
LEMMA RequestAlone ==
  ASSUME Alone, NEW r \in Requests, Moves(r), UNCHANGED done, job'.progress = job.progress,
         proc'[r].op # "startinline",
         proc'[r].pc \in {"idle", "unflag", "setflag", "write", "enqueue"}
  PROVE  Alone'
<1>1. \A q \in Procs : q # r => proc'[q] = proc[q]
  BY DEF Moves
<1>2. \A w \in Workers : w # r
  OBVIOUS
<1>3. QED
  BY <1>1, <1>2 DEF Alone, Finished

\* A step of the worker: what it writes of the ledger is what it has at hand.
LEMMA WorkerAlone ==
  ASSUME OneRunner, Alone, NEW w \in Workers, Moves(w),
         \A i \in done' : job'.progress >= Finished(i),
         proc'[w].pc # "idle" => proc'[w].row.progress = job'.progress,
         proc'[w].pc \in {"flag", "enter", "body"} => proc'[w].step \notin done'
  PROVE  Alone'
<1>1. \A q \in Procs : q # w => proc'[q] = proc[q]
  BY DEF Moves
<1>2. \A v \in Workers : v = w
  BY DEF OneRunner
<1>3. \A r \in Requests : r # w
  OBVIOUS
<1>4. QED
  BY <1>1, <1>2, <1>3 DEF Alone, Finished

LEMMA RequestStepAlone ==
  ASSUME OneRunner, IInv, Alone, NEW r \in Requests,
         (\E op \in Ops : Call(r, op)) \/ RequestStep(r) \/ ApiAbort(r)
  PROVE  Alone'
<1>1. /\ proc[r].op # "startinline"
      /\ proc[r].pc \in {"idle", "unflag", "setflag", "write", "enqueue"}
  BY DEF Alone
<1>2. ASSUME NEW op \in Ops, Call(r, op) PROVE Alone'
  <2>1. op # "startinline" /\ FirstPlace(op) \in {"setflag", "write", "unflag"}
    BY <1>2, CallMoves DEF OneRunner, FirstPlace
  <2>2. UNCHANGED <<job, done>>
    BY <1>2 DEF Call
  <2>3. QED
    BY <1>2, <2>1, <2>2, CallMoves, RequestAlone
<1>3. CASE ClearFlag(r) \/ RaiseFlag(r)
  <2>1. Goto(r, "write") /\ UNCHANGED <<job, done>>
    BY <1>3 DEF ClearFlag, RaiseFlag
  <2>2. Moves(r) /\ proc'[r].pc = "write" /\ proc'[r].op = proc[r].op
    BY <2>1, GotoMoves, GotoKeeps DEF IInv, RequestPCs
  <2>3. QED
    BY <1>1, <2>1, <2>2, RequestAlone
<1>4. CASE StartJob(r)
  <2>1. proc[r].op = "start" /\ Goto(r, "enqueue") /\ UNCHANGED done
    BY <1>1, <1>4 DEF StartJob
  <2>2. Moves(r) /\ proc'[r].pc = "enqueue" /\ proc'[r].op = proc[r].op
    BY <2>1, GotoMoves, GotoKeeps DEF IInv, RequestPCs
  <2>3. job'.progress = job.progress
    <3>1. [proc[r].row EXCEPT !.status = "queued"].progress = proc[r].row.progress
      BY Types DEF Rows
    <3>2. QED
      BY <1>4, <3>1 DEF StartJob, Commit, Flushed
  <2>4. QED
    BY <2>1, <2>2, <2>3, RequestAlone
<1>5. CASE Enqueue(r) \/ PauseJob(r) \/ CancelJob(r) \/ ApiAbort(r)
  <2>1. Release(r) /\ UNCHANGED done
    BY <1>5 DEF Enqueue, PauseJob, CancelJob, ApiAbort
  <2>2. Moves(r) /\ proc'[r].pc = "idle" /\ proc'[r].op = "none"
    BY <2>1, ReleaseIdles
  <2>3. job'.progress = job.progress
    <3>1. \A s \in {"paused", "cancelled"} :
            [proc[r].row EXCEPT !.status = s].progress = proc[r].row.progress
      BY Types DEF Rows
    <3>2. QED
      BY <1>5, <3>1 DEF Enqueue, PauseJob, CancelJob, ApiAbort, Commit, Flushed
  <2>4. QED
    BY <2>1, <2>2, <2>3, RequestAlone
<1>6. ~ RunInline(r) /\ ~ GuardCancel(r)
  BY <1>1 DEF RunInline, GuardCancel, At
<1>7. QED
  BY <1>2, <1>3, <1>4, <1>5, <1>6 DEF RequestStep

LEMMA WorkerStepAlone ==
  ASSUME OneRunner, IInv, Alone, NEW w \in Workers,
         WorkerStep(w) \/ DriveRaises(w) \/ WorkerLost(w) \/ Redeliver(w)
           \/ LoadFails(w) \/ Escapes(w)
  PROVE  Alone'
<1>1. \A i \in done : job.progress >= Finished(i)
  BY DEF Alone
<1>2. CASE Advance(w)
  <2>1. UNCHANGED <<job, done>> /\ proc[w].pc = "idle" /\ proc \in [Procs -> ProcType]
    BY <1>2 DEF Advance, At, IInv, DataTypes
  <2>2. CASE UNCHANGED proc
    BY <2>1, <2>2 DEF Alone
  <2>3. CASE proc' = [proc EXCEPT ![w] = [pc |-> "loaded", op |-> "task", row |-> job, step |-> 0]]
    <3>1. IInv'
      BY <1>2, WorkerLocalStep
    <3>2. Moves(w) /\ proc'[w].pc = "loaded" /\ proc'[w].row = job
      BY <2>1, <2>3, <3>1 DEF Moves, IInv, DataTypes
    <3>3. QED
      BY <1>1, <2>1, <3>2, WorkerAlone
  <2>4. QED
    BY <1>2, <2>2, <2>3 DEF Advance
<1>3. CASE CheckFlagFirst(w)
  <2>1. PICK pc \in {"cancelling", "loop", "begin"} : Goto(w, pc)
    BY <1>3 DEF CheckFlagFirst
  <2>2. Moves(w) /\ proc'[w].pc = pc /\ proc'[w].row = proc[w].row
    BY <2>1, GotoMoves DEF IInv, WorkerPCs
  <2>3. UNCHANGED <<job, done>> /\ proc[w].row.progress = job.progress
    BY <1>3 DEF CheckFlagFirst, At, Alone
  <2>4. QED
    BY <1>1, <2>2, <2>3, WorkerAlone
<1>4. CASE Refresh(w)
  <2>1. UNCHANGED <<job, done>> /\ proc[w].row.progress = job.progress
    BY <1>4 DEF Refresh, At, Alone
  <2>2. CASE Release(w)
    BY <1>1, <2>1, <2>2, ReleaseIdles, WorkerAlone
  <2>3. ASSUME NEW i \in 1 .. NSteps + 1, NextStep(w, i),
               proc' = [proc EXCEPT ![w].pc = "flag", ![w].row = job, ![w].step = i]
        PROVE  Alone'
    <3>1. i \in 0 .. NSteps + 1
      OBVIOUS
    <3>2. Moves(w) /\ proc'[w].pc = "flag" /\ proc'[w].row = job /\ proc'[w].step = i
      BY <2>3, <3>1, FlagMoves
    <3>3. i \notin done
      <4>1. i \in done => i \in Steps /\ job.progress < Finished(i)
        BY <2>1, <2>3, Types DEF NextStep
      <4>2. job.progress \in Nat /\ Finished(i) \in Nat
        BY <3>1, Types DEF Finished
      <4>3. i \in done => job.progress >= Finished(i)
        BY <1>1
      <4>4. QED
        BY <4>1, <4>2, <4>3
    <3>4. QED
      BY <1>1, <2>1, <3>2, <3>3, WorkerAlone
  <2>4. QED
    BY <1>4, <2>2, <2>3 DEF Refresh
<1>5. CASE ReloadForFail(w)
  <2>1. Moves(w) /\ proc'[w].pc = "failing" /\ proc'[w].row = job /\ UNCHANGED <<job, done>>
    BY <1>5, HoldingMoves DEF ReloadForFail, IInv, DataTypes, WorkerPCs
  <2>2. QED
    BY <1>1, <2>1, WorkerAlone
<1>6. CASE Fail(w)
  <2>1. PICK new : /\ new = [proc[w].row EXCEPT !.status = "failed"]
                   /\ Commit(w, new) /\ Holding(w, "sync", new)
    BY <1>6 DEF Fail
  <2>2. new \in Rows /\ new.progress = proc[w].row.progress
    BY <2>1, Types DEF Rows, Statuses
  <2>3. proc[w].row.progress = job.progress /\ UNCHANGED done
    BY <1>6 DEF Fail, At, Alone
  <2>4. job'.progress = job.progress
    BY <2>1, <2>2 DEF Commit, Flushed
  <2>5. Moves(w) /\ proc'[w].pc = "sync" /\ proc'[w].row = new
    <3>1. DataTypes /\ w \in Procs /\ "sync" \in WorkerPCs
      BY DEF IInv, WorkerPCs
    <3>2. QED
      BY <2>1, <2>2, <3>1, HoldingMoves
  <2>6. QED
    BY <1>1, <2>2, <2>3, <2>4, <2>5, WorkerAlone
<1>7. CASE DriveRaises(w)
  <2>1. Moves(w) /\ proc'[w].pc = "rolledback" /\ proc'[w].row = proc[w].row
    BY <1>7, GotoMoves DEF DriveRaises, IInv, WorkerPCs
  <2>2. UNCHANGED <<job, done>> /\ proc[w].row.progress = job.progress
    BY <1>7 DEF DriveRaises, InDrive, At, Alone
  <2>3. QED
    BY <1>1, <2>1, <2>2, WorkerAlone
<1>8. CASE WorkerLost(w)
  <2>1. Release(w) /\ UNCHANGED <<job, done>>
    BY <1>8 DEF WorkerLost
  <2>2. QED
    BY <1>1, <2>1, ReleaseIdles, WorkerAlone
<1>9. CASE Redeliver(w) \/ LoadFails(w)
  BY <1>9 DEF Redeliver, LoadFails, Alone
<1>10. CASE Escapes(w)
  <2>1. Release(w) /\ UNCHANGED <<job, done>>
    BY <1>10 DEF Escapes
  <2>2. QED
    BY <1>1, <2>1, ReleaseIdles, WorkerAlone
<1>11. QED
  BY <1>2, <1>3, <1>4, <1>5, <1>6, <1>7, <1>8, <1>9, <1>10 DEF WorkerStep

LEMMA RunnerStepAlone ==
  ASSUME OneRunner, IInv, Alone, NEW w \in Workers, RunnerStep(w)
  PROVE  Alone'
<1>1. \A i \in done : job.progress >= Finished(i)
  BY DEF Alone
<1>2. job.progress \in Nat /\ proc[w].row.progress \in Nat /\ done \subseteq Steps
  BY Types
<1>3. CASE BeginRunning(w)
  <2>1. PICK new : /\ new = [status |-> "running", progress |-> Larger(proc[w].row.progress, Begun)]
                   /\ Commit(w, new) /\ Holding(w, "loop", new)
    BY <1>3 DEF BeginRunning
  <2>2. proc[w].row.progress = job.progress /\ UNCHANGED done
    BY <1>3 DEF BeginRunning, At, Alone
  <2>3. new.progress \in Nat /\ new.progress >= job.progress
    BY <1>2, <2>1, <2>2 DEF Larger, Begun
  <2>4. job'.progress = new.progress
    BY <2>1, <2>2 DEF Commit, Flushed
  <2>5. Moves(w) /\ proc'[w].pc = "loop" /\ proc'[w].row = new
    <3>1. new \in Rows
      BY <1>3, <2>1, RunnerRows DEF BeginRunning, At
    <3>2. QED
      BY <2>1, <3>1, HoldingMoves DEF IInv, WorkerPCs
  <2>6. \A i \in done : new.progress >= Finished(i)
    <3>1. \A i \in done : Finished(i) \in Nat
      BY <1>2 DEF Finished
    <3>2. QED
      BY <1>1, <1>2, <2>3, <3>1
  <2>7. QED
    BY <2>2, <2>4, <2>5, <2>6, WorkerAlone
<1>4. CASE CheckFlag(w) \/ EnterStage(w)
  <2>1. PICK pc \in {"cancelling", "enter", "complete", "body"} : Goto(w, pc)
    BY <1>4 DEF CheckFlag, EnterStage
  <2>2. /\ Moves(w) /\ proc'[w].pc = pc /\ proc'[w].row = proc[w].row
        /\ proc'[w].step = proc[w].step
    BY <2>1, GotoMoves DEF IInv, WorkerPCs
  <2>3. UNCHANGED <<job, done>> /\ proc[w].row.progress = job.progress /\ proc[w].step \notin done
    BY <1>4 DEF CheckFlag, EnterStage, At, Alone
  <2>4. QED
    BY <1>1, <2>2, <2>3, WorkerAlone
<1>5. CASE FinishStage(w)
  <2>1. PICK new : /\ new = [proc[w].row EXCEPT !.progress = StepProgress(w, proc[w].step)]
                   /\ job' = Flushed(proc[w].row, new) /\ Holding(w, "loop", new)
    BY <1>5 DEF FinishStage
  <2>2. /\ proc[w].row.progress = job.progress /\ done' = done \cup {proc[w].step}
        /\ proc[w].step \in Steps
    BY <1>5 DEF FinishStage, At, Alone, IInv, PlaceOK
  <2>3. w \notin Requests
    OBVIOUS
  <2>4. new.progress = StepProgress(w, proc[w].step)
    BY <2>1, Types DEF Rows
  <2>5. new.progress = Larger(job.progress, Finished(proc[w].step))
    BY <2>2, <2>3, <2>4 DEF StepProgress
  <2>6. Finished(proc[w].step) \in Nat
    BY <2>2 DEF Finished
  <2>7. /\ new.progress \in Nat /\ new.progress >= job.progress
        /\ new.progress >= Finished(proc[w].step)
    BY <1>2, <2>5, <2>6 DEF Larger
  <2>8. job'.progress = new.progress
    BY <2>1, <2>2 DEF Flushed
  <2>9. Moves(w) /\ proc'[w].pc = "loop" /\ proc'[w].row = new
    <3>1. new \in Rows
      BY <1>5, <2>1, RunnerRows DEF FinishStage, At
    <3>2. DataTypes /\ w \in Procs /\ "loop" \in WorkerPCs \cup RequestPCs /\ Holding(w, "loop", new)
      BY <2>1 DEF IInv, WorkerPCs
    <3>3. QED
      BY <3>1, <3>2, HoldingMoves
  <2>10. \A i \in done' : new.progress >= Finished(i)
    <3>1. \A i \in done : Finished(i) \in Nat
      BY <1>2 DEF Finished
    <3>2. QED
      BY <1>1, <1>2, <2>2, <2>7, <3>1
  <2>11. QED
    BY <2>8, <2>9, <2>10, WorkerAlone
<1>6. CASE Complete(w)
  <2>1. PICK new \in Rows : /\ new = [status |-> "completed", progress |-> Hundred]
                            /\ Commit(w, new) /\ Holding(w, "sync", new)
    BY <1>6 DEF Complete, Rows, Statuses, Hundred
  <2>2. proc[w].row.progress = job.progress /\ UNCHANGED done
    BY <1>6 DEF Complete, At, Alone
  <2>3. job'.progress = Hundred /\ new.progress = Hundred
    BY <2>1, <2>2 DEF Commit, Flushed
  <2>4. Moves(w) /\ proc'[w].pc = "sync" /\ proc'[w].row = new
    BY <2>1, HoldingMoves DEF IInv, WorkerPCs
  <2>5. \A i \in done : Hundred >= Finished(i)
    BY <1>2 DEF Hundred, Finished
  <2>6. QED
    BY <2>2, <2>3, <2>4, <2>5, WorkerAlone
<1>7. CASE CancelSeen(w)
  <2>1. Release(w) /\ UNCHANGED done
    BY <1>7 DEF CancelSeen
  <2>2. job'.progress = job.progress
    <3>1. [proc[w].row EXCEPT !.status = "cancelled"].progress = proc[w].row.progress
      BY Types DEF Rows
    <3>2. QED
      BY <1>7, <3>1 DEF CancelSeen, Commit, Flushed
  <2>3. QED
    BY <1>1, <2>1, <2>2, ReleaseIdles, WorkerAlone
<1>8. CASE SafeSync(w)
  <2>1. Release(w) /\ UNCHANGED <<job, done>>
    BY <1>8 DEF SafeSync
  <2>2. QED
    BY <1>1, <2>1, ReleaseIdles, WorkerAlone
<1>9. QED
  BY <1>3, <1>4, <1>5, <1>6, <1>7, <1>8 DEF RunnerStep

LEMMA NoInlineRunner ==
  ASSUME Alone, NEW r \in Requests
  PROVE  ~ RunnerStep(r)
  BY DEF Alone, RunnerStep, BeginRunning, CheckFlag, EnterStage, FinishStage, Complete,
         CancelSeen, SafeSync, At

LEMMA OneRunnerAlone ==
  ASSUME OneRunner
  PROVE  Spec => []Alone
<1>1. Init => Alone
  BY DEF Init, Alone, Idle
<1>2. IInv /\ Alone /\ [Next]_vars => Alone'
  <2> SUFFICES ASSUME IInv, Alone, [Next]_vars PROVE Alone'
    OBVIOUS
  <2>1. CASE UNCHANGED vars
    BY <2>1 DEF vars, Alone
  <2>2. ASSUME NEW p \in Procs, RunnerStep(p) PROVE Alone'
    BY <2>2, NoInlineRunner, RunnerStepAlone
  <2>3. QED
    BY <2>1, <2>2, RequestStepAlone, WorkerStepAlone DEF Next, Rest
<1>3. QED
  BY <1>1, <1>2, Invariance, PTL DEF Spec

\* NoStepRedone: one runner at a time never repeats a committed step, through crashes,
\* redeliveries, retries, pauses and restarts.
THEOREM NothingRedone ==
  ASSUME OneRunner
  PROVE  Spec => NoStepRedone
<1>1. Alone /\ [Next]_vars => [\A p \in Procs : FinishStage(p) => proc[p].step \notin done]_vars
  <2>1. ASSUME Alone, NEW p \in Procs, FinishStage(p) PROVE proc[p].step \notin done
    BY <2>1 DEF Alone, FinishStage, At
  <2>2. QED
    BY <2>1
<1>2. QED
  BY <1>1, OneRunnerAlone, PTL DEF Spec, NoStepRedone

-----------------------------------------------------------------------------
(* A cancel that was acknowledged                                           *)

\* One call of the endpoints at a time: a start does not overlap a cancel.
OneRequestSlot == \E r : Requests = {r}

\* From the acknowledgement to the next start the flag stays raised, nobody runs in a
\* request's thread, and who has entered a stage since is past the door.
Halted ==
  /\ \A r \in Requests : /\ proc[r].pc = "unflag" => proc[r].op \in {"start", "startinline"}
                         /\ proc[r].pc = "write" /\ proc[r].op = "cancel" => cancelled
  /\ order = "cancel" =>
       /\ cancelled
       /\ \A r \in Requests : /\ proc[r].pc \in {"idle", "setflag", "write"}
                              /\ proc[r].op \notin {"start", "startinline"}
       /\ \A p \in late : proc[p].pc # "enter"

\* A step that leaves the order alone, or a process that is not under a cancel.
LEMMA NoOrder ==
  ASSUME OneRequestSlot, Halted, NEW r \in Requests, Moves(r), order' # "cancel",
         proc'[r].pc = "unflag" => proc'[r].op \in {"start", "startinline"},
         proc'[r].pc = "write" /\ proc'[r].op = "cancel" => cancelled'
  PROVE  Halted'
<1>1. \A q \in Requests : q = r
  BY DEF OneRequestSlot
<1>2. \A q \in Requests : /\ proc'[q].pc = "unflag" => proc'[q].op \in {"start", "startinline"}
                          /\ proc'[q].pc = "write" /\ proc'[q].op = "cancel" => cancelled'
  BY <1>1
<1>3. QED
  BY <1>2, Zenon DEF Halted

\* A step of a worker: what it does not do is to enter a stage again.
LEMMA WorkerHalted ==
  ASSUME IInv, Halted, NEW w \in Workers, Moves(w), cancelled' = cancelled, order' = order,
         late' \in {late, late \cup {w}},
         order = "cancel" => proc'[w].pc # "enter"
  PROVE  Halted'
<1>1. \A r \in Requests : proc'[r] = proc[r]
  <2>1. \A r \in Requests : r # w /\ r \in Procs
    OBVIOUS
  <2>2. QED
    BY <2>1 DEF Moves
<1>2. \A p \in late' : order = "cancel" => proc'[p].pc # "enter"
  <2>1. ASSUME NEW p \in late', order = "cancel" PROVE proc'[p].pc # "enter"
    <3>1. CASE p = w
      BY <2>1, <3>1
    <3>2. CASE p # w
      <4>1. p \in late
        BY <3>2
      <4>2. proc[p].pc # "enter"
        BY <2>1, <4>1, Zenon DEF Halted
      <4>3. p \in Procs
        BY <4>1 DEF IInv, DataTypes
      <4>4. QED
        BY <3>2, <4>2, <4>3 DEF Moves
    <3>3. QED
      BY <3>1, <3>2
  <2>2. QED
    BY <2>1
<1>3. QED
  BY <1>1, <1>2, Zenon DEF Halted

LEMMA RequestStepHalted ==
  ASSUME OneRequestSlot, IInv, Halted, NEW r \in Requests,
         (\E op \in Ops : Call(r, op)) \/ RequestStep(r) \/ ApiAbort(r)
  PROVE  Halted'
<1>1. \A q \in Requests : q = r
  BY DEF OneRequestSlot
<1>2. ASSUME proc[r].pc \notin {"idle", "setflag", "write"} PROVE order # "cancel"
  BY <1>2, Zenon DEF Halted
<1>3. ASSUME NEW op \in Ops, Call(r, op) PROVE Halted'
  <2>1. /\ Moves(r) /\ proc'[r].pc = FirstPlace(op) /\ proc'[r].op = op
        /\ op \in {"start", "pause", "cancel", "startinline"}
    BY <1>3, CallMoves
  <2>2. CASE op \in {"start", "startinline"}
    <3>1. order' = "none" /\ FirstPlace(op) = "unflag"
      BY <1>3, <2>2 DEF Call, FirstPlace
    <3>2. QED
      BY <2>1, <2>2, <3>1, NoOrder
  <2>3. CASE op \in {"pause", "cancel"}
    <3>1. /\ UNCHANGED <<order, late>> /\ FirstPlace(op) \in {"write", "setflag"}
          /\ FirstPlace(op) = "write" => op = "pause"
      BY <1>3, <2>3 DEF Call, FirstPlace
    <3>2. cancelled' = cancelled
      BY <1>3 DEF Call
    <3>3. \A p \in late : p \in Procs /\ (order = "cancel" => proc'[p].pc # "enter")
      <4>1. late \subseteq Procs
        BY DEF IInv, DataTypes
      <4>2. ASSUME NEW p \in late, order = "cancel" PROVE proc'[p].pc # "enter"
        <5>1. proc[p].pc # "enter"
          BY <4>2, Zenon DEF Halted
        <5>2. CASE p = r
          BY <2>1, <3>1, <5>2
        <5>3. CASE p # r
          BY <2>1, <4>1, <5>1, <5>3 DEF Moves
        <5>4. QED
          BY <5>2, <5>3
      <4>3. QED
        BY <4>1, <4>2
    <3>4. \A q \in Requests : /\ proc'[q].pc \in {"write", "setflag"} /\ proc'[q].op \in {"pause", "cancel"}
                              /\ proc'[q].pc = "write" => proc'[q].op = "pause"
      BY <1>1, <2>1, <2>3, <3>1
    <3>5. /\ \A q \in Requests : /\ proc'[q].pc # "unflag" /\ ~ (proc'[q].pc = "write" /\ proc'[q].op = "cancel")
                                 /\ proc'[q].pc \in {"idle", "setflag", "write"}
                                 /\ proc'[q].op \notin {"start", "startinline"}
      BY <3>4
    <3>6. QED
      BY <3>1, <3>2, <3>3, <3>5, Zenon DEF Halted
  <2>4. QED
    BY <2>1, <2>2, <2>3
<1>4. CASE ClearFlag(r)
  <2>1. proc[r].pc = "unflag" /\ Goto(r, "write") /\ order' = order
    BY <1>4 DEF ClearFlag, At
  <2>2. Moves(r) /\ proc'[r].pc = "write" /\ proc'[r].op = proc[r].op
    BY <2>1, GotoMoves, GotoKeeps DEF IInv, RequestPCs
  <2>3. proc[r].op \in {"start", "startinline"}
    BY <2>1, Zenon DEF Halted
  <2>4. order' # "cancel"
    BY <1>2, <2>1
  <2>5. QED
    BY <2>2, <2>3, <2>4, NoOrder
<1>5. CASE RaiseFlag(r)
  <2>1. Goto(r, "write") /\ UNCHANGED <<order, late>> /\ cancelled'
    BY <1>5 DEF RaiseFlag
  <2>2. Moves(r) /\ proc'[r].pc = "write" /\ proc'[r].op = proc[r].op
    BY <2>1, GotoMoves, GotoKeeps DEF IInv, RequestPCs
  <2>3. CASE order # "cancel"
    BY <2>1, <2>2, <2>3, NoOrder
  <2>4. CASE order = "cancel"
    <3>1. \A q \in Requests : /\ proc'[q].pc = "write"
                              /\ proc'[q].op \notin {"start", "startinline"}
      <4>1. proc[r].op \notin {"start", "startinline"}
        BY <2>4, Zenon DEF Halted
      <4>2. QED
        BY <1>1, <2>2, <4>1
    <3>2. \A q \in Requests : proc'[q].pc # "unflag" /\ proc'[q].pc \in {"idle", "setflag", "write"}
      BY <3>1
    <3>3. \A p \in late : proc'[p].pc # "enter"
      <4>1. late \subseteq Procs
        BY DEF IInv, DataTypes
      <4>2. \A p \in late : proc[p].pc # "enter"
        BY <2>4, Zenon DEF Halted
      <4>3. QED
        BY <2>2, <4>1, <4>2 DEF Moves
    <3>4. QED
      BY <2>1, <3>1, <3>2, <3>3, Zenon DEF Halted
  <2>5. QED
    BY <2>3, <2>4
<1>6. CASE StartJob(r)
  <2>1. /\ proc[r].op \in {"start", "startinline"} /\ order' = order
        /\ \E pc \in {"enqueue", "inline"} : Goto(r, pc)
    BY <1>6 DEF StartJob
  <2>2. Moves(r) /\ proc'[r].pc \in {"enqueue", "inline"}
    BY <2>1, GotoMoves DEF IInv, RequestPCs
  <2>3. order # "cancel"
    BY <2>1, Zenon DEF Halted
  <2>4. QED
    BY <2>1, <2>2, <2>3, NoOrder
<1>7. CASE Enqueue(r) \/ RunInline(r)
  <2>1. proc[r].pc \in {"enqueue", "inline"} /\ order' = order
    BY <1>7 DEF Enqueue, RunInline, At
  <2>2. Moves(r) /\ proc'[r].pc \in {"idle", "begin"}
    BY <1>7, ReleaseMoves, HoldingMoves DEF Enqueue, RunInline, IInv, DataTypes, WorkerPCs
  <2>3. order' # "cancel"
    BY <1>2, <2>1
  <2>4. QED
    BY <2>2, <2>3, NoOrder
<1>8. CASE PauseJob(r)
  <2>1. order' = "pause" /\ Release(r)
    BY <1>8 DEF PauseJob
  <2>2. QED
    BY <2>1, ReleaseIdles, NoOrder
<1>9. CASE CancelJob(r)
  <2>1. /\ proc[r].pc = "write" /\ proc[r].op = "cancel" /\ late' = {} /\ Release(r)
        /\ cancelled' = cancelled
    BY <1>9 DEF CancelJob, At
  <2>2. cancelled
    BY <2>1, Zenon DEF Halted
  <2>3. \A q \in Requests : proc'[q].pc = "idle" /\ proc'[q].op = "none"
    BY <1>1, <2>1, ReleaseIdles
  <2>4. \A q \in Requests : /\ proc'[q].pc # "unflag" /\ proc'[q].pc # "write"
                            /\ proc'[q].pc \in {"idle", "setflag", "write"}
                            /\ proc'[q].op \notin {"start", "startinline"}
    BY <2>3
  <2>5. \A p \in late' : FALSE
    BY <2>1
  <2>6. QED
    BY <2>1, <2>2, <2>4, <2>5, Zenon DEF Halted
<1>10. CASE GuardCancel(r)
  <2>1. proc[r].pc = "guard" /\ order' = order
    BY <1>10 DEF GuardCancel, At
  <2>2. order' # "cancel"
    BY <1>2, <2>1
  <2>3. Moves(r) /\ proc'[r].pc \in {"idle", "cancelling", "flag"}
    BY <1>10, GuardMoves
  <2>4. QED
    BY <2>2, <2>3, NoOrder
<1>11. CASE ApiAbort(r)
  <2>1. Release(r) /\ UNCHANGED <<order, late>> /\ cancelled' = cancelled
    BY <1>11 DEF ApiAbort
  <2>2. Moves(r) /\ proc'[r].pc = "idle" /\ proc'[r].op = "none"
    BY <2>1, ReleaseIdles
  <2>3. CASE order # "cancel"
    BY <2>1, <2>2, <2>3, NoOrder
  <2>4. CASE order = "cancel"
    <3>1. \A q \in Requests : /\ proc'[q].pc # "unflag" /\ proc'[q].pc # "write"
                              /\ proc'[q].pc \in {"idle", "setflag", "write"}
                              /\ proc'[q].op \notin {"start", "startinline"}
      BY <1>1, <2>2
    <3>2. \A p \in late : proc'[p].pc # "enter"
      <4>1. late \subseteq Procs
        BY DEF IInv, DataTypes
      <4>2. \A p \in late : proc[p].pc # "enter"
        BY <2>4, Zenon DEF Halted
      <4>3. QED
        BY <2>2, <4>1, <4>2 DEF Moves
    <3>3. cancelled
      BY <2>4, Zenon DEF Halted
    <3>4. QED
      BY <2>1, <3>1, <3>2, <3>3, Zenon DEF Halted
  <2>5. QED
    BY <2>3, <2>4
<1>12. QED
  BY <1>3, <1>4, <1>5, <1>6, <1>7, <1>8, <1>9, <1>10, <1>11 DEF RequestStep

LEMMA WorkerStepHalted ==
  ASSUME IInv, Halted, NEW w \in Workers,
         WorkerStep(w) \/ DriveRaises(w) \/ WorkerLost(w) \/ Redeliver(w)
           \/ LoadFails(w) \/ Escapes(w)
  PROVE  Halted'
<1>1. UNCHANGED <<order, late>> /\ cancelled' = cancelled
  BY DEF WorkerStep, Advance, CheckFlagFirst, Refresh, ReloadForFail, Fail, DriveRaises,
         WorkerLost, Redeliver, LoadFails, Escapes
<1>2. CASE UNCHANGED proc
  BY <1>1, <1>2, Zenon DEF Halted
<1>3. CASE ~ UNCHANGED proc
  <2>1. Moves(w) /\ proc'[w].pc # "enter"
    BY <1>3, WorkerMoves
  <2>2. QED
    BY <1>1, <2>1, WorkerHalted
<1>4. QED
  BY <1>2, <1>3

LEMMA RunnerStepHalted ==
  ASSUME OneRequestSlot, IInv, Halted, NEW p \in Procs, RunnerStep(p)
  PROVE  Halted'
<1>1. /\ Moves(p) /\ cancelled' = cancelled /\ order' = order /\ late' \in {late, late \cup {p}}
      /\ proc[p].pc \in {"begin", "flag", "enter", "body", "complete", "cancelling", "sync"}
      /\ proc'[p].pc \in {"loop", "enter", "cancelling", "complete", "body", "guard", "sync", "idle"}
  BY RunnerMoves DEF RunnerStep, BeginRunning, CheckFlag, EnterStage, FinishStage, Complete,
       CancelSeen, SafeSync, At
<1>2. CASE p \in Requests
  <2>1. order # "cancel"
    BY <1>1, <1>2, Zenon DEF Halted
  <2>2. QED
    BY <1>1, <1>2, <2>1, NoOrder
<1>3. CASE p \in Workers
  <2>1. order = "cancel" => proc'[p].pc # "enter"
    <3>1. order = "cancel" => cancelled
      BY Zenon DEF Halted
    <3>2. QED
      BY <1>3, <3>1, RunnerMoves
  <2>2. QED
    BY <1>1, <1>3, <2>1, WorkerHalted
<1>4. QED
  BY <1>2, <1>3

\* CancelBoundsWork: with one call of the endpoints at a time, a runner enters at most
\* one stage after a cancel was acknowledged, however many runners there are.
THEOREM CancelBounds ==
  ASSUME OneRequestSlot
  PROVE  Spec => CancelBoundsWork
<1>1. Init => Halted
  BY DEF Init, Halted, Idle
<1>2. IInv /\ Halted /\ [Next]_vars => Halted'
  <2> SUFFICES ASSUME IInv, Halted, [Next]_vars PROVE Halted'
    OBVIOUS
  <2>1. CASE UNCHANGED vars
    BY <2>1, Zenon DEF vars, Halted
  <2>2. QED
    BY <2>1, RequestStepHalted, WorkerStepHalted, RunnerStepHalted DEF Next, Rest
<1>3. Halted /\ [Next]_vars =>
        [\A p \in Procs : EnterStage(p) /\ order = "cancel" => p \notin late]_vars
  <2>1. ASSUME Halted, NEW p \in Procs, EnterStage(p), order = "cancel" PROVE p \notin late
    <3>1. proc[p].pc = "enter"
      BY <2>1 DEF EnterStage, At
    <3>2. \A q \in late : proc[q].pc # "enter"
      BY <2>1, Zenon DEF Halted
    <3>3. QED
      BY <3>1, <3>2
  <2>2. QED
    BY <2>1
<1>4. QED
  BY <1>1, <1>2, <1>3, Invariance, PTL DEF Spec, CancelBoundsWork
=============================================================================
