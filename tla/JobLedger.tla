------------------------------ MODULE JobLedger ------------------------------
(***************************************************************************)
(* What a mining job promises whatever the schedule: the pipeline's steps  *)
(* are carried out in order, each on top of committed results of all the   *)
(* steps before it, and the job is COMPLETED only when every one of them   *)
(* has been.  Every other status is an order of a user or an outcome that  *)
(* may come at any moment.                                                 *)
(***************************************************************************)
EXTENDS Integers

CONSTANT NSteps

VARIABLES
  status, \* what the API shows
  done    \* the steps whose results are committed

Init == status = "draft" /\ done = {}

\* A step is carried out once all the steps before it have been.
CarryOut(i) ==
  /\ 1..(i - 1) \subseteq done
  /\ done' = done \cup {i}
  /\ UNCHANGED status

Finish ==
  /\ done = 1..NSteps
  /\ status' = "completed"
  /\ UNCHANGED done

Mark(s) ==
  /\ status' = s
  /\ UNCHANGED done

Next ==
  \/ \E i \in 1..NSteps : CarryOut(i)
  \/ Finish
  \/ \E s \in {"queued", "running", "paused", "failed", "cancelled"} : Mark(s)

Spec == Init /\ [][Next]_<<status, done>>
=============================================================================
