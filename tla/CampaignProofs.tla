---------------------------- MODULE CampaignProofs ----------------------------
(***************************************************************************)
(* What holds of a campaign for any number of contacts, calls, faults and  *)
(* copies of a task.                                                       *)
(***************************************************************************)
EXTENDS Campaign, TLAPS

\* Calls of the campaign's endpoints do not overlap.  Nothing in the code sees to
\* that, and without it OneMessagePerAddress fails (run MCCampaignTwoLaunches).
OneRequestSlot == \A r, s \in Requests : r = s

\* w has flushed its message and holds the row until it commits.
Holds(w) == worker[w].pc \in {"check", "commit", "finish"}

\* w has sent the email of message id and has not recorded it yet.
Recording(w, id) == (worker[w].pc = "flush" \/ Holds(w)) /\ worker[w].id = id

\* A request at work on a launch.
Launching(r) == request[r].pc \in {"load", "delete", "wait", "rebuild"}

-----------------------------------------------------------------------------
(* The inductive invariants, one part per property                          *)

\* A worker at work has a message, and a request about to write the status is
\* a pause, a resume or a cancel.
Places ==
  /\ \A w \in Workers : worker[w].pc # "idle" => worker[w].id \in Ids
  /\ \A r \in Requests : request[r].pc = "write"
                           => request[r].op \in {"pause", "resume", "cancel"}

\* TypeOK is not inductive without it.
TypeInv == TypeOK /\ Places

\* A worker that has flushed holds the lock of a row that is there.
HeldRows ==
  \A w \in Workers : Holds(w) => lock[worker[w].id] = w /\ worker[w].id \in Rows

\* A launch that has no rival deletes every row there is, and has not seen
\* the campaign SENDING.
SoleLaunch ==
  \A r \in Requests :
    /\ request[r].pc = "load" => status # "sending"
    /\ request[r].pc \in {"delete", "wait", "rebuild"} => request[r].seen # "sending"
    /\ request[r].pc = "wait" => request[r].doomed = Rows
    /\ request[r].pc = "rebuild" => \A id \in Rows : lock[id] = r

\* Who is about to complete the campaign has the last message left.
LastOne ==
  \A w \in Workers : worker[w].pc = "finish" => Pending \subseteq {worker[w].id}

\* A contact with a hard bounce is suppressed and not VERIFIED, but for what users and
\* validations have done since, and until both have it has no message to send.
BouncedOut ==
  /\ bounced \cap verified \subseteq restored
  /\ bounced \subseteq suppressed \cup pardoned
  /\ \A id \in Pending : To(id) \in bounced => To(id) \in pardoned \cap restored

\* After a pause or cancel the campaign does not send, and nobody who has sent
\* since is on the way to Gmail again.
Stopped ==
  /\ late # {} => stopped
  /\ stopped => status # "sending"
  /\ stopped => \A w \in late : worker[w].pc # "gmail"
  /\ \A r \in Requests : Launching(r) \/ request[r].op = "resume" => ~stopped

\* A message that has not been shared is in the hands of one worker at most.
OneHand ==
  \A v, w \in Workers : worker[v].id = worker[w].id /\ worker[v].id \in Ids \ shared => v = w

\* What has been sent of a message that was not shared: one email per fault, and one
\* more only if the message is no longer to be sent.
SentOnce ==
  /\ \A id \in Ids \ shared : mailed[id] <= 1 + faults
  /\ \A id \in Pending \ shared :
       (\A w \in Workers : ~Recording(w, id)) => mailed[id] <= faults
  /\ \A w \in Workers : worker[w].pc \in {"campaign", "gmail"} /\ worker[w].id \notin shared
                          => mailed[worker[w].id] <= faults

\* No message of launch g has ever existed.
Fresh(g) ==
  \A c \in Contacts : /\ msgs[<<c, g>>] = "absent" /\ mailed[<<c, g>>] = 0
                      /\ \A w \in Workers : worker[w].pc # "idle" => worker[w].id # <<c, g>>

\* Launches to come, and the ones under way, have no message yet; no two have
\* the same number.
FreshLaunches ==
  /\ \A g \in 1..MaxCalls : g > calls => Fresh(g)
  /\ \A r \in Requests : Launching(r) => request[r].gen \in 1..calls /\ Fresh(request[r].gen)
  /\ \A r, s \in Requests :
       Launching(r) /\ Launching(s) /\ request[r].gen = request[s].gen => r = s

OneRequestInv == HeldRows /\ SoleLaunch /\ LastOne /\ CompletedDrained
                 /\ OneMessagePerAddress /\ BouncedOut /\ Stopped
SendsInv == HeldRows /\ FreshLaunches /\ OneHand /\ SentOnce

-----------------------------------------------------------------------------
(* Types                                                                    *)

USE CampaignAssumption

LEMMA TypeInit == Init => TypeOK
<1> SUFFICES ASSUME Init PROVE TypeOK
  OBVIOUS
<1>1. Free \in WorkerType /\ NoCall \in RequestType
  BY DEF Free, NoCall, WorkerType, RequestType, Statuses
<1>2. worker \in [Workers -> WorkerType] /\ request \in [Requests -> RequestType]
  BY <1>1 DEF Init
<1>3. /\ {verified, suppressed, checking, answered, bounced, pardoned, restored}
           \subseteq SUBSET Contacts
      /\ late \subseteq Workers /\ shared \subseteq Ids
  BY DEF Init
<1>4. stopped \in BOOLEAN
  BY DEF Init
<1>5. /\ calls \in 0..MaxCalls /\ faults \in 0..MaxFaults /\ edits \in 0..MaxEdits
      /\ status \in Statuses
  BY DEF Init, Statuses
<1>6. /\ msgs \in [Ids -> {"absent", "queued", "sent", "replied", "bounced"}]
      /\ lock \in [Ids -> Workers \cup Requests \cup {NoOne}]
      /\ tasks \in [Ids -> Nat] /\ mailed \in [Ids -> Nat]
  BY DEF Init
<1>7. QED
  BY <1>2, <1>3, <1>4, <1>5, <1>6 DEF TypeOK


\* Only r moves, to a well-typed place.
RequestMoves(r, x) ==
  /\ request' \in [Requests -> RequestType]
  /\ Places'
  /\ \A s \in Requests : s # r => request'[s] = request[s]
  /\ request'[r] = x

LEMMA RequestPlace ==
  ASSUME TypeInv, NEW r \in Requests, NEW x \in RequestType,
         x.pc = "write" => x.op \in {"pause", "resume", "cancel"},
         request' = [request EXCEPT ![r] = x], UNCHANGED worker
  PROVE  RequestMoves(r, x)
  BY DEF TypeInv, TypeOK, Places, RequestMoves

LEMMA CallMoves ==
  ASSUME TypeInv, NEW r \in Requests, NEW op \in {"launch", "pause", "resume", "cancel"},
         Call(r, op)
  PROVE  /\ RequestMoves(r, request'[r]) /\ calls + 1 \in 0..MaxCalls
         /\ request'[r].pc = IF op = "launch" THEN "load" ELSE "write"
         /\ request'[r].op = op /\ request'[r].gen = calls + 1
<1> DEFINE y == IF op = "launch" THEN "load" ELSE "write"
           x == [NoCall EXCEPT !.pc = y, !.op = op, !.gen = calls + 1]
<1>1. calls + 1 \in 0..MaxCalls
  BY DEF Call, TypeInv, TypeOK
<1>2. /\ x \in RequestType /\ x.pc = y /\ x.op = op /\ x.gen = calls + 1
      /\ x.pc = "write" => x.op \in {"pause", "resume", "cancel"}
  <2>1. y \in {"load", "write"} /\ (y = "write" => op \in {"pause", "resume", "cancel"})
    OBVIOUS
  <2> HIDE DEF y
  <2>2. QED
    BY <1>1, <2>1 DEF RequestType, NoCall, Statuses
<1>3. request' = [request EXCEPT ![r] = x] /\ UNCHANGED worker
  BY DEF Call
<1> HIDE DEF x
<1>4. RequestMoves(r, x)
  BY <1>2, <1>3, RequestPlace
<1>5. QED
  BY <1>1, <1>2, <1>4 DEF RequestMoves

\* The steps of a launch that only move the request on.
LEMMA LaunchMoves ==
  ASSUME TypeInv, NEW r \in Requests,
         LoadCampaign(r) \/ DeleteRows(r) \/ RowsLocked(r)
  PROVE  /\ RequestMoves(r, request'[r])
         /\ request'[r].op = request[r].op /\ request'[r].gen = request[r].gen
         /\ LoadCampaign(r) => request'[r].pc = "delete" /\ request'[r].seen = status
         /\ DeleteRows(r) => /\ request'[r].pc = "wait" /\ request'[r].doomed = Rows
                             /\ request'[r].seen = request[r].seen
         /\ RowsLocked(r) => /\ request'[r].pc = "rebuild"
                             /\ request'[r].seen = request[r].seen
<1>1. /\ request[r] \in RequestType /\ status \in Statuses /\ Rows \subseteq Ids
      /\ request \in [Requests -> RequestType]
  BY DEF TypeInv, TypeOK, Rows
<1>2. CASE LoadCampaign(r)
  <2> DEFINE x == [request[r] EXCEPT !.pc = "delete", !.seen = status]
  <2>1. /\ x \in RequestType /\ x.pc = "delete" /\ x.seen = status
        /\ x.op = request[r].op /\ x.gen = request[r].gen
    BY <1>1 DEF RequestType
  <2>2. request' = [request EXCEPT ![r] = x] /\ UNCHANGED worker
    BY <1>2 DEF LoadCampaign
  <2> HIDE DEF x
  <2>3. RequestMoves(r, x)
    BY <2>1, <2>2, RequestPlace
  <2>4. ~DeleteRows(r) /\ ~RowsLocked(r)
    BY <1>2 DEF LoadCampaign, DeleteRows, RowsLocked
  <2>5. QED
    BY <1>2, <2>1, <2>3, <2>4 DEF RequestMoves
<1>3. CASE DeleteRows(r)
  <2> DEFINE x == [request[r] EXCEPT !.pc = "wait", !.doomed = Rows]
  <2>1. /\ x \in RequestType /\ x.pc = "wait" /\ x.doomed = Rows
        /\ x.op = request[r].op /\ x.gen = request[r].gen /\ x.seen = request[r].seen
    BY <1>1 DEF RequestType
  <2>2. request' = [request EXCEPT ![r] = x] /\ UNCHANGED worker
    BY <1>3 DEF DeleteRows
  <2> HIDE DEF x
  <2>3. RequestMoves(r, x)
    BY <2>1, <2>2, RequestPlace
  <2>4. ~LoadCampaign(r) /\ ~RowsLocked(r)
    BY <1>3 DEF LoadCampaign, DeleteRows, RowsLocked
  <2>5. QED
    BY <1>3, <2>1, <2>3, <2>4 DEF RequestMoves
<1>4. CASE RowsLocked(r)
  <2> DEFINE x == [request[r] EXCEPT !.pc = "rebuild", !.doomed = {}]
  <2>1. /\ x \in RequestType /\ x.pc = "rebuild"
        /\ x.op = request[r].op /\ x.gen = request[r].gen /\ x.seen = request[r].seen
    BY <1>1 DEF RequestType
  <2>2. request' = [request EXCEPT ![r] = x] /\ UNCHANGED worker
    BY <1>4 DEF RowsLocked
  <2> HIDE DEF x
  <2>3. RequestMoves(r, x)
    BY <2>1, <2>2, RequestPlace
  <2>4. ~LoadCampaign(r) /\ ~DeleteRows(r)
    BY <1>4 DEF LoadCampaign, DeleteRows, RowsLocked
  <2>5. QED
    BY <1>4, <2>1, <2>3, <2>4 DEF RequestMoves
<1>5. QED
  BY <1>2, <1>3, <1>4

LEMMA CallEnds ==
  ASSUME TypeInv, NEW r \in Requests, Transition(r) \/ Rebuild(r) \/ Abort(r)
  PROVE  RequestMoves(r, NoCall)
<1>1. NoCall \in RequestType /\ NoCall.pc # "write"
  BY DEF NoCall, Statuses, RequestType
<1>2. request' = [request EXCEPT ![r] = NoCall] /\ UNCHANGED worker
  BY DEF Transition, Rebuild, Abort
<1>3. QED
  BY <1>1, <1>2, RequestPlace

LEMMA RequestTypes ==
  ASSUME TypeInv, NEW r \in Requests,
         \/ \E op \in {"launch", "pause", "resume", "cancel"} : Call(r, op)
         \/ RequestStep(r) \/ Abort(r)
  PROVE  TypeInv'
<1> USE DEF TypeOK, RequestMoves
<1>0. TypeOK
  BY DEF TypeInv
<1>1. ASSUME NEW op \in {"launch", "pause", "resume", "cancel"}, Call(r, op) PROVE TypeInv'
  <2>1. stopped' \in BOOLEAN /\ late' \subseteq Workers
    BY <1>0, <1>1 DEF Call, word
  <2>2. QED
    BY <1>0, <1>1, <2>1, CallMoves DEF Call, outcomes, TypeInv
<1>2. CASE Transition(r)
  <2>1. request[r].op \in {"pause", "resume", "cancel"}
    BY <1>2 DEF Transition, TypeInv, Places
  <2>2. status' \in Statuses
    BY <1>2, <2>1 DEF Transition, Statuses
  <2>3. stopped' \in BOOLEAN /\ late' \subseteq Workers
    BY <1>0, <1>2 DEF Transition, word
  <2>4. QED
    BY <1>0, <1>2, <2>2, <2>3, CallEnds DEF Transition, outcomes, budget, TypeInv
<1>3. CASE LoadCampaign(r)
  BY <1>0, <1>3, LaunchMoves DEF LoadCampaign, outcomes, word, budget, TypeInv
<1>4. CASE DeleteRows(r)
  BY <1>0, <1>4, LaunchMoves DEF DeleteRows, outcomes, word, budget, TypeInv
<1>5. CASE RowsLocked(r)
  <2>1. lock' \in [Ids -> Workers \cup Requests \cup {NoOne}]
    BY <1>0, <1>5 DEF RowsLocked
  <2>2. QED
    BY <1>0, <1>5, <2>1, LaunchMoves DEF RowsLocked, outcomes, word, budget, TypeInv
<1>6. CASE Rebuild(r)
  <2>1. /\ lock' \in [Ids -> Workers \cup Requests \cup {NoOne}]
        /\ msgs' \in [Ids -> {"absent", "queued", "sent", "replied", "bounced"}]
        /\ status' \in Statuses
    BY <1>0, <1>6 DEF Rebuild, Unlocked, Statuses
  <2>2. QED
    BY <1>0, <1>6, <2>1, CallEnds DEF Rebuild, outcomes, word, budget, TypeInv
<1>7. CASE Abort(r)
  <2>1. lock' \in [Ids -> Workers \cup Requests \cup {NoOne}]
    BY <1>0, <1>7 DEF Abort, Unlocked
  <2>2. calls' \in 0..MaxCalls /\ faults' \in 0..MaxFaults /\ edits' \in 0..MaxEdits
    BY <1>0, <1>7 DEF Abort, Fault
  <2>3. QED
    BY <1>0, <1>7, <2>1, <2>2, CallEnds DEF Abort, outcomes, word, TypeInv
<1>8. QED
  BY <1>1, <1>2, <1>3, <1>4, <1>5, <1>6, <1>7 DEF RequestStep

\* Only w moves, to a well-typed place.
WorkerMoves(w) ==
  /\ worker' \in [Workers -> WorkerType]
  /\ Places'
  /\ \A v \in Workers : v # w => worker'[v] = worker[v]

LEMMA WorkerPlace ==
  ASSUME TypeInv, NEW w \in Workers, NEW x \in WorkerType,
         x.pc # "idle" => x.id \in Ids,
         worker' = [worker EXCEPT ![w] = x], UNCHANGED request
  PROVE  WorkerMoves(w) /\ worker'[w] = x
  BY DEF TypeInv, TypeOK, Places, WorkerMoves

\* Where each step of send_message takes the worker.
Advance(w) ==
  \/ worker'[w] = Free
  \/ \E id \in Ids : /\ Take(w, id) /\ msgs[id] = "queued" /\ worker[w].pc = "idle"
                     /\ worker'[w] = [pc |-> "campaign", id |-> id]
  \/ /\ worker'[w].id = worker[w].id /\ worker[w].id \in Ids
     /\ \/ CheckCampaign(w) /\ status = "sending" /\ worker'[w].pc = "gmail"
        \/ Send(w) /\ worker'[w].pc = "flush"
        \/ /\ Flush(w) /\ worker'[w].pc = "check" /\ msgs[worker[w].id] # "absent"
           /\ lock' = [lock EXCEPT ![worker[w].id] = w]
        \/ MaybeComplete(w) /\ worker'[w].pc = "commit"
        \/ MaybeComplete(w) /\ worker'[w].pc = "finish" /\ Pending \subseteq {worker[w].id}

AtWork(w) ==
  \/ \E id \in Ids : Take(w, id)
  \/ CheckCampaign(w) \/ Refused(w) \/ NotSent(w) \/ Revoked(w) \/ Send(w) \/ Flush(w)
  \/ MaybeComplete(w) \/ Sent(w) \/ WorkerLost(w)

LEMMA WorkerAdvances ==
  ASSUME TypeInv, NEW w \in Workers, AtWork(w)
  PROVE  WorkerMoves(w) /\ Advance(w)
<1>1. /\ worker \in [Workers -> WorkerType] /\ Free \in WorkerType /\ Free.pc = "idle"
      /\ worker[w].pc # "idle" => worker[w].id \in Ids
  BY DEF TypeInv, TypeOK, Places, Free, WorkerType
<1>2. UNCHANGED request
  BY DEF AtWork, Take, CheckCampaign, Refused, NotSent, Revoked, Send, Flush, MaybeComplete, Sent, WorkerLost
<1>3. ASSUME worker' = [worker EXCEPT ![w] = Free] PROVE WorkerMoves(w) /\ Advance(w)
  BY <1>1, <1>2, <1>3, WorkerPlace DEF Advance
<1>4. ASSUME NEW id \in Ids, Take(w, id) PROVE WorkerMoves(w) /\ Advance(w)
  <2>1. CASE msgs[id] = "queued"
    <3> DEFINE x == [pc |-> "campaign", id |-> id]
    <3>1. x \in WorkerType /\ x.id \in Ids
      BY DEF WorkerType
    <3>2. worker' = [worker EXCEPT ![w] = x] /\ worker[w].pc = "idle"
      BY <1>4, <2>1 DEF Take
    <3>3. WorkerMoves(w) /\ worker'[w] = x
      BY <1>2, <3>1, <3>2, WorkerPlace
    <3>4. QED
      BY <1>4, <2>1, <3>2, <3>3 DEF Advance
  <2>2. QED
    BY <1>3, <1>4, <2>1 DEF Take
<1>5. ASSUME NEW y \in {"gmail", "flush", "check", "finish", "commit"}, worker[w].pc # "idle",
             worker' = [worker EXCEPT ![w].pc = y]
      PROVE  WorkerMoves(w) /\ worker'[w].pc = y /\ worker'[w].id = worker[w].id
  <2> DEFINE x == [worker[w] EXCEPT !.pc = y]
  <2>1. x \in WorkerType /\ x.pc = y /\ x.id = worker[w].id
    <3>1. worker[w] \in WorkerType
      BY <1>1
    <3>2. QED
      BY <3>1 DEF WorkerType
  <2>2. worker' = [worker EXCEPT ![w] = x]
    BY <1>5
  <2> HIDE DEF x
  <2>3. QED
    BY <1>1, <1>2, <1>5, <2>1, <2>2, WorkerPlace
<1>6. CASE CheckCampaign(w)
  BY <1>1, <1>3, <1>5, <1>6 DEF CheckCampaign, Advance
<1>7. CASE Send(w)
  BY <1>1, <1>3, <1>5, <1>7 DEF Send, Advance
<1>8. CASE Flush(w)
  BY <1>1, <1>3, <1>5, <1>8 DEF Flush, Advance
<1>9. CASE MaybeComplete(w)
  BY <1>1, <1>3, <1>5, <1>9 DEF MaybeComplete, Advance
<1>10. QED
  BY <1>3, <1>4, <1>6, <1>7, <1>8, <1>9 DEF AtWork, Refused, NotSent, Revoked, Sent, WorkerLost

\* A worker that is past the campaign check came there step by step.
LEMMA PastCheck ==
  ASSUME NEW w \in Workers, Advance(w), worker'[w].pc \notin {"idle", "campaign"}
  PROVE  /\ worker'[w].id = worker[w].id /\ worker[w].id \in Ids
         /\ \/ CheckCampaign(w) /\ status = "sending" /\ worker'[w].pc = "gmail"
            \/ Send(w) /\ worker'[w].pc = "flush"
            \/ /\ Flush(w) /\ worker'[w].pc = "check" /\ msgs[worker[w].id] # "absent"
               /\ lock' = [lock EXCEPT ![worker[w].id] = w]
            \/ MaybeComplete(w) /\ worker'[w].pc = "commit"
            \/ MaybeComplete(w) /\ worker'[w].pc = "finish" /\ Pending \subseteq {worker[w].id}
<1>1. worker'[w] # Free
  BY DEF Free
<1>2. ASSUME NEW id \in Ids, worker'[w] = [pc |-> "campaign", id |-> id] PROVE FALSE
  BY <1>2
<1>3. QED
  BY <1>1, <1>2 DEF Advance

LEMMA WorkerTypes ==
  ASSUME TypeInv, NEW w \in Workers, AtWork(w)
  PROVE  TypeInv'
<1> USE DEF TypeOK
<1>0. TypeOK /\ worker' \in [Workers -> WorkerType] /\ Places'
  BY WorkerAdvances DEF TypeInv, WorkerMoves
<1>1. ASSUME NEW id \in Ids, Take(w, id) PROVE TypeInv'
  BY <1>0, <1>1 DEF Take, word, outcomes, budget, TypeInv
<1>2. CASE CheckCampaign(w) \/ Refused(w)
  BY <1>0, <1>2 DEF CheckCampaign, Refused, outcomes, word, budget, TypeInv
<1>3. CASE NotSent(w)
  <2>1. worker[w].id \in Ids
    BY <1>3 DEF NotSent, TypeInv, Places
  <2>2. tasks' \in [Ids -> Nat]
    BY <1>0, <1>3, <2>1 DEF NotSent
  <2>3. QED
    BY <1>0, <1>3, <2>2 DEF NotSent, outcomes, word, Fault, TypeInv
<1>4. CASE Revoked(w)
  BY <1>0, <1>4 DEF Revoked, outcomes, word, Fault, Statuses, TypeInv
<1>5. CASE Send(w)
  <2>1. worker[w].id \in Ids
    BY <1>5 DEF Send, TypeInv, Places
  <2>2. mailed' \in [Ids -> Nat]
    BY <1>0, <1>5, <2>1 DEF Send
  <2>3. late' \subseteq Workers
    BY <1>0, <1>5 DEF Send
  <2>4. calls' \in 0..MaxCalls /\ faults' \in 0..MaxFaults /\ edits' \in 0..MaxEdits
    BY <1>0, <1>5 DEF Send, budget, Fault
  <2>5. QED
    BY <1>0, <1>5, <2>2, <2>3, <2>4 DEF Send, outcomes, TypeInv
<1>6. CASE Flush(w)
  BY <1>0, <1>6 DEF Flush, outcomes, word, budget, TypeInv
<1>7. CASE MaybeComplete(w)
  BY <1>0, <1>7 DEF MaybeComplete, outcomes, word, budget, TypeInv
<1>8. CASE Sent(w)
  BY <1>0, <1>8 DEF Sent, outcomes, word, budget, Unlocked, Statuses, TypeInv
<1>9. CASE WorkerLost(w)
  <2>1. worker[w].id \in Ids
    BY <1>9 DEF WorkerLost, TypeInv, Places
  <2>2. tasks' \in [Ids -> Nat]
    BY <1>0, <1>9, <2>1 DEF WorkerLost
  <2>3. lock' \in [Ids -> Workers \cup Requests \cup {NoOne}]
    BY <1>0, <1>9 DEF WorkerLost, Unlocked
  <2>4. QED
    BY <1>0, <1>9, <2>2, <2>3 DEF WorkerLost, Fault, outcomes, word, TypeInv
<1>10. QED
  BY <1>1, <1>2, <1>3, <1>4, <1>5, <1>6, <1>7, <1>8, <1>9 DEF AtWork

\* What neither a request nor a worker does.
Outside ==
  \/ \E id \in Ids : Dispatch(id) \/ Reply(id) \/ HardBounce(id)
  \/ \E c \in Contacts : Suppress(c) \/ Unsuppress(c) \/ Verify(c) \/ Validated(c)
  \/ UNCHANGED vars

LEMMA OutsideTypes ==
  ASSUME TypeInv, Outside
  PROVE  TypeInv'
<1> USE DEF TypeOK
<1>0. TypeOK /\ UNCHANGED <<worker, request>> /\ Places'
  BY DEF Outside, Dispatch, Reply, HardBounce, Suppress, Unsuppress, Verify, Validated, vars,
         TypeInv, Places
<1>1. ASSUME NEW id \in Ids, Dispatch(id) PROVE TypeInv'
  BY <1>0, <1>1 DEF Dispatch, outcomes, word, budget, TypeInv
<1>2. ASSUME NEW id \in Ids, Reply(id) PROVE TypeInv'
  BY <1>0, <1>2 DEF Reply, word, budget, Ids, To, TypeInv
<1>3. ASSUME NEW id \in Ids, HardBounce(id) PROVE TypeInv'
  BY <1>0, <1>3 DEF HardBounce, word, budget, Ids, To, TypeInv
<1>4. ASSUME NEW c \in Contacts, Suppress(c) PROVE TypeInv'
  BY <1>0, <1>4 DEF Suppress, word, Edit, TypeInv
<1>5. ASSUME NEW c \in Contacts, Unsuppress(c) PROVE TypeInv'
  BY <1>0, <1>5 DEF Unsuppress, word, Edit, TypeInv
<1>6. ASSUME NEW c \in Contacts, Verify(c) PROVE TypeInv'
  BY <1>0, <1>6 DEF Verify, word, Edit, TypeInv
<1>7. ASSUME NEW c \in Contacts, Validated(c) PROVE TypeInv'
  BY <1>0, <1>7 DEF Validated, word, budget, TypeInv
<1>8. CASE UNCHANGED vars
  BY <1>0, <1>8 DEF vars, outcomes, word, budget, TypeInv
<1>9. QED
  BY <1>1, <1>2, <1>3, <1>4, <1>5, <1>6, <1>7, <1>8 DEF Outside

\* Every step is a request's, a worker's, or neither's.
LEMMA WhoActs ==
  ASSUME [Next]_vars
  PROVE  \/ \E r \in Requests : \/ \E op \in {"launch", "pause", "resume", "cancel"} : Call(r, op)
                                \/ RequestStep(r) \/ Abort(r)
         \/ \E w \in Workers : AtWork(w)
         \/ Outside
  BY DEF Next, Rest, WorkerStep, AtWork, Outside

LEMMA TypeInvariant == Spec => []TypeInv
<1>1. Init => TypeInv
  BY TypeInit DEF TypeInv, Places, Init, Free, NoCall
<1>2. TypeInv /\ [Next]_vars => TypeInv'
  BY WhoActs, RequestTypes, WorkerTypes, OutsideTypes
<1>3. QED
  BY <1>1, <1>2, PTL DEF Spec

\* Every column, queue, place and history keeps its type.
THEOREM TypeCorrect == Spec => []TypeOK
<1>1. TypeInv => TypeOK
  BY DEF TypeInv
<1>2. QED
  BY <1>1, TypeInvariant, PTL

-----------------------------------------------------------------------------
(* Who may change what                                                      *)

AtCall(r) == \/ \E op \in {"launch", "pause", "resume", "cancel"} : Call(r, op)
             \/ RequestStep(r) \/ Abort(r)

\* A request leaves the workers alone and touches no lock but those it takes or
\* gives back; only the commit of a launch changes messages.
LEMMA RequestFrame ==
  ASSUME TypeInv, NEW r \in Requests, AtCall(r)
  PROVE  /\ UNCHANGED <<worker, mailed, shared, outcomes>>
         /\ faults <= faults'
         /\ \A id \in Ids : \/ lock'[id] = lock[id]
                            \/ lock[id] = r /\ lock'[id] = NoOne
                            \/ lock[id] = NoOne /\ lock'[id] = r
         /\ Rebuild(r) \/ UNCHANGED msgs
         /\ \A id \in Rows : lock[id] # r => msgs'[id] # "absent"
<1>1. ASSUME NEW op \in {"launch", "pause", "resume", "cancel"}, Call(r, op)
      PROVE  UNCHANGED <<worker, mailed, shared, outcomes, faults, lock, msgs>>
  BY <1>1 DEF Call
<1>2. CASE Transition(r) \/ LoadCampaign(r) \/ DeleteRows(r)
  BY <1>2 DEF Transition, LoadCampaign, DeleteRows, budget, Rows, TypeInv, TypeOK
<1>3. CASE RowsLocked(r)
  BY <1>3 DEF RowsLocked, budget, Rows, TypeInv, TypeOK
<1>4. CASE Rebuild(r)
  BY <1>4 DEF Rebuild, budget, Unlocked, Rows, TypeInv, TypeOK
<1>5. CASE Abort(r)
  BY <1>5 DEF Abort, Fault, Unlocked, Rows, TypeInv, TypeOK
<1>6. faults <= faults /\ \A id \in Rows : msgs[id] # "absent"
  BY DEF TypeInv, TypeOK, Rows
<1>7. QED
  BY <1>1, <1>2, <1>3, <1>4, <1>5, <1>6 DEF AtCall, RequestStep, Rows

\* A worker leaves the requests alone, takes or gives back its own locks, turns a
\* row it holds into a sent one, and pauses or completes the campaign.
LEMMA WorkerFrame ==
  ASSUME TypeInv, HeldRows, NEW w \in Workers, AtWork(w)
  PROVE  /\ UNCHANGED <<request, outcomes, stopped, calls>>
         /\ faults <= faults'
         /\ Rows' = Rows /\ Pending' \subseteq Pending
         /\ \A id \in Ids : \/ lock'[id] = lock[id]
                            \/ lock[id] = w /\ lock'[id] = NoOne
                            \/ lock[id] = NoOne /\ lock'[id] = w
         /\ \/ UNCHANGED status
            \/ status' = "paused"
            \/ Sent(w) /\ worker[w].pc = "finish" /\ status' = "completed"
<1> USE DEF TypeInv, TypeOK, Rows, Pending
<1>1. ASSUME NEW id \in Ids, Take(w, id)
      PROVE UNCHANGED <<request, outcomes, stopped, calls, faults, lock, msgs, status>>
  BY <1>1 DEF Take, word, budget
<1>2. CASE CheckCampaign(w) \/ Refused(w) \/ NotSent(w) \/ Revoked(w) \/ Send(w)
             \/ MaybeComplete(w)
  BY <1>2 DEF CheckCampaign, Refused, NotSent, Revoked, Send, MaybeComplete, word, budget, Fault
<1>3. CASE Flush(w)
  BY <1>3 DEF Flush, word, budget
<1>4. CASE Sent(w)
  <2>1. worker[w].id \in Ids /\ msgs[worker[w].id] # "absent"
    BY <1>4 DEF Sent, HeldRows, Holds
  <2>2. Rows' = Rows /\ Pending' \subseteq Pending
    BY <1>4, <2>1 DEF Sent
  <2>3. QED
    BY <1>4, <2>2 DEF Sent, word, budget, Unlocked
<1>5. CASE WorkerLost(w)
  BY <1>5 DEF WorkerLost, Fault, word, Unlocked
<1>6. faults <= faults
  OBVIOUS
<1>7. QED
  BY <1>1, <1>2, <1>3, <1>4, <1>5, <1>6 DEF AtWork

\* What is known of contacts that have bounced, apart from the messages.
BouncedKnown ==
  bounced \cap verified \subseteq restored /\ bounced \subseteq suppressed \cup pardoned

\* Replies, bounces, suppressions, validations and the beat move nobody and add no row.
LEMMA OutsideFrame ==
  ASSUME TypeInv, Outside
  PROVE  /\ UNCHANGED <<status, lock, worker, request, mailed, shared, stopped, late, calls, faults>>
         /\ Rows' = Rows /\ Pending' \subseteq Pending
<1> USE DEF TypeInv, TypeOK, Rows, Pending
<1>1. ASSUME NEW id \in Ids, Dispatch(id) \/ Reply(id) \/ HardBounce(id)
      PROVE /\ UNCHANGED <<status, lock, worker, request, mailed, shared, stopped, late, calls, faults>>
            /\ Rows' = Rows /\ Pending' \subseteq Pending
  BY <1>1 DEF Dispatch, Reply, HardBounce, word, budget
<1>2. ASSUME NEW c \in Contacts, Suppress(c) \/ Unsuppress(c) \/ Verify(c) \/ Validated(c)
      PROVE UNCHANGED <<status, lock, worker, request, mailed, shared, stopped, late, calls, faults,
                        msgs>>
  BY <1>2 DEF Suppress, Unsuppress, Verify, Validated, Edit, word, budget
<1>3. CASE UNCHANGED vars
  BY <1>3 DEF vars, word, budget
<1>4. QED
  BY <1>1, <1>2, <1>3 DEF Outside

\* What they do to the contacts: they forgive no bounce but by `pardoned` and
\* `restored`, and a new bounce leaves the contact no message of its own.
LEMMA OutsideBounces ==
  ASSUME TypeInv, BouncedKnown, Outside
  PROVE  /\ BouncedKnown'
         /\ \/ /\ bounced' = bounced
               /\ pardoned \subseteq pardoned' /\ restored \subseteq restored'
            \/ \E id \in Rows : /\ bounced' = bounced \cup {To(id)} /\ id \notin Pending'
                                /\ pardoned' = pardoned \ {To(id)}
                                /\ restored' = restored \ {To(id)}
<1> USE DEF BouncedKnown
<1>1. ASSUME NEW id \in Ids, Dispatch(id) \/ Reply(id)
      PROVE UNCHANGED <<verified, suppressed, bounced, pardoned, restored>>
  BY <1>1 DEF Dispatch, Reply, outcomes
<1>2. ASSUME NEW id \in Ids, HardBounce(id)
      PROVE /\ id \in Rows /\ id \notin Pending' /\ BouncedKnown'
            /\ bounced' = bounced \cup {To(id)}
            /\ pardoned' = pardoned \ {To(id)} /\ restored' = restored \ {To(id)}
  BY <1>2 DEF HardBounce, Rows, Pending, TypeInv, TypeOK
<1>3. ASSUME NEW c \in Contacts, Suppress(c) \/ Unsuppress(c) \/ Verify(c) \/ Validated(c)
      PROVE /\ BouncedKnown' /\ bounced' = bounced
            /\ pardoned \subseteq pardoned' /\ restored \subseteq restored'
  BY <1>3 DEF Suppress, Unsuppress, Verify, Validated
<1>4. CASE UNCHANGED vars
  BY <1>4 DEF vars, outcomes
<1>5. QED
  BY <1>1, <1>2, <1>3, <1>4 DEF Outside

-----------------------------------------------------------------------------
(* The row locks                                                            *)

LEMMA HeldRowsStep ==
  ASSUME TypeInv, HeldRows, [Next]_vars
  PROVE  HeldRows'
<1> USE DEF HeldRows, Holds
<1>1. ASSUME NEW r \in Requests, AtCall(r) PROVE HeldRows'
  <2>1. \A w \in Workers : w # r /\ w # NoOne
    BY DEF CampaignAssumption
  <2>2. \A id \in Rows : lock[id] # r => id \in Rows'
    BY <1>1, RequestFrame DEF Rows
  <2>3. QED
    BY <1>1, <2>1, <2>2, RequestFrame DEF Rows
<1>2. ASSUME NEW w \in Workers, AtWork(w) PROVE HeldRows'
  <2>1. ASSUME NEW v \in Workers, v # w, Holds(v)'
        PROVE  lock'[worker'[v].id] = v /\ worker'[v].id \in Rows'
    BY <1>2, <2>1, WorkerAdvances, WorkerFrame DEF WorkerMoves, CampaignAssumption, Rows
  <2>2. ASSUME Holds(w)' PROVE lock'[worker'[w].id] = w /\ worker'[w].id \in Rows'
    <3>0. Advance(w) /\ worker'[w].pc \in {"check", "commit", "finish"}
      BY <1>2, <2>2, WorkerAdvances
    <3>1. \/ Flush(w) /\ msgs[worker[w].id] # "absent" /\ lock' = [lock EXCEPT ![worker[w].id] = w]
          \/ MaybeComplete(w)
      BY <3>0, PastCheck
    <3>2. worker'[w].id = worker[w].id /\ worker[w].id \in Ids
      BY <3>0, PastCheck
    <3>3. CASE Flush(w) /\ lock' = [lock EXCEPT ![worker[w].id] = w]
      BY <1>2, <3>1, <3>2, <3>3, WorkerFrame DEF Rows, TypeInv, TypeOK, Flush
    <3>4. CASE MaybeComplete(w)
      BY <1>2, <3>2, <3>4, WorkerFrame DEF MaybeComplete
    <3>5. QED
      BY <3>1, <3>3, <3>4
  <2>3. QED
    BY <2>1, <2>2
<1>3. CASE Outside
  BY <1>3, OutsideFrame
<1>4. QED
  BY <1>1, <1>2, <1>3, WhoActs DEF AtCall
-----------------------------------------------------------------------------
(* One request at a time                                                    *)

\* Whoever acts on the campaign's endpoints is the only one.
LEMMA SoleLaunchStep ==
  ASSUME OneRequestSlot, TypeInv, HeldRows, SoleLaunch, [Next]_vars
  PROVE  SoleLaunch'
<1> USE DEF SoleLaunch, OneRequestSlot
<1>1. ASSUME NEW r \in Requests, AtCall(r) PROVE SoleLaunch'
  <2>1. \A s \in Requests : s = r
    OBVIOUS
  <2>2. ASSUME NEW op \in {"launch", "pause", "resume", "cancel"}, Call(r, op)
        PROVE  SoleLaunch'
    BY <2>1, <2>2, CallMoves DEF Call, AllowedFrom
  <2>3. CASE LoadCampaign(r)
    BY <2>1, <2>3, LaunchMoves, ZenonT(30) DEF LoadCampaign
  <2>4. CASE DeleteRows(r)
    <3>1. /\ request'[r].pc = "wait" /\ request'[r].seen # "sending"
          /\ request'[r].doomed = Rows /\ Rows' = Rows
      BY <2>4, LaunchMoves DEF DeleteRows, Rows
    <3>2. QED
      BY <2>1, <3>1
  <2>5. CASE RowsLocked(r)
    <3>1. /\ request'[r].pc = "rebuild" /\ request'[r].seen # "sending"
          /\ request[r].doomed = Rows /\ Rows' = Rows
      BY <2>5, LaunchMoves DEF RowsLocked, Rows
    <3>2. \A id \in Rows : lock'[id] = r
      BY <2>5, <3>1 DEF RowsLocked, Rows
    <3>3. QED
      BY <2>1, <3>1, <3>2
  <2>6. CASE Transition(r) \/ Rebuild(r) \/ Abort(r)
    BY <2>1, <2>6, CallEnds DEF RequestMoves, NoCall
  <2>7. QED
    BY <1>1, <2>2, <2>3, <2>4, <2>5, <2>6 DEF AtCall, RequestStep
<1>2. ASSUME NEW w \in Workers, AtWork(w) PROVE SoleLaunch'
  <2>1. \A r \in Requests : r # w /\ r # NoOne
    BY DEF CampaignAssumption
  <2>2. \A id \in Rows : id \in Ids
    BY DEF Rows
  <2>3. QED
    BY <1>2, <2>1, <2>2, WorkerFrame
<1>3. CASE Outside
  BY <1>3, OutsideFrame
<1>4. QED
  BY <1>1, <1>2, <1>3, WhoActs DEF AtCall

\* While a launch commits, nobody holds a row.
LEMMA NobodyHolds ==
  ASSUME TypeInv, HeldRows, SoleLaunch, NEW r \in Requests, Rebuild(r)
  PROVE  \A w \in Workers : ~Holds(w)
<1>1. \A id \in Rows : lock[id] = r
  BY DEF SoleLaunch, Rebuild
<1>2. \A w \in Workers : w # r
  BY DEF CampaignAssumption
<1>3. QED
  BY <1>1, <1>2 DEF HeldRows

\* What a launch without a rival commits: the rows of this launch and no other.
LEMMA Rebuilt ==
  ASSUME TypeInv, SoleLaunch, NEW r \in Requests, Rebuild(r)
  PROVE  \/ UNCHANGED <<msgs, status>>
         \/ /\ status' = "sending"
            /\ Rows' \subseteq (verified \ suppressed) \X {request[r].gen}
            /\ Pending' \subseteq (verified \ suppressed) \X {request[r].gen}
<1>1. \A id \in Rows : lock[id] = r
  BY DEF SoleLaunch, Rebuild
<1>2. CASE Eligible(r) = {}
  BY <1>2 DEF Rebuild
<1>3. CASE Eligible(r) # {}
  <2>1. Eligible(r) \subseteq verified \ suppressed
    BY DEF Eligible
  <2>2. msgs' = [id \in Ids |-> IF id \in Eligible(r) \X {request[r].gen} THEN "queued"
                                ELSE IF lock[id] = r THEN "absent" ELSE msgs[id]]
    BY <1>3 DEF Rebuild
  <2>3. \A id \in Ids : msgs'[id] # "absent" => id \in Eligible(r) \X {request[r].gen}
    BY <1>1, <2>2 DEF Rows
  <2>4. status' = "sending"
    BY <1>3 DEF Rebuild, SoleLaunch
  <2>5. QED
    BY <2>1, <2>3, <2>4 DEF Rows, Pending
<1>4. QED
  BY <1>2, <1>3

LEMMA DrainedStep ==
  ASSUME TypeInv, HeldRows, SoleLaunch, LastOne, CompletedDrained, [Next]_vars
  PROVE  LastOne' /\ CompletedDrained'
<1> USE DEF LastOne, CompletedDrained
<1>1. ASSUME NEW r \in Requests, AtCall(r) PROVE LastOne' /\ CompletedDrained'
  <2>1. CASE Rebuild(r)
    <3>1. LastOne'
      BY <1>1, <2>1, NobodyHolds, RequestFrame DEF Holds
    <3>2. CompletedDrained'
      BY <2>1, Rebuilt DEF Pending
    <3>3. QED
      BY <3>1, <3>2
  <2>2. CASE UNCHANGED msgs
    <3>1. status' = "completed" => status = "completed"
      BY <1>1, <2>2 DEF AtCall, RequestStep, Call, Transition, LoadCampaign, DeleteRows, RowsLocked,
                        Rebuild, Abort, TypeInv, Places, SoleLaunch
    <3>2. QED
      BY <1>1, <2>2, <3>1, RequestFrame DEF Pending
  <2>3. QED
    BY <1>1, <2>1, <2>2, RequestFrame
<1>2. ASSUME NEW w \in Workers, AtWork(w) PROVE LastOne' /\ CompletedDrained'
  <2>1. LastOne'
    <3>1. ASSUME NEW v \in Workers, worker'[v].pc = "finish", v # w PROVE Pending' \subseteq {worker'[v].id}
      BY <1>2, <3>1, WorkerFrame, WorkerAdvances DEF WorkerMoves
    <3>2. ASSUME worker'[w].pc = "finish" PROVE Pending' \subseteq {worker'[w].id}
      BY <1>2, <3>2, WorkerFrame, WorkerAdvances, PastCheck
    <3>3. QED
      BY <3>1, <3>2
  <2>2. CASE Sent(w) /\ worker[w].pc = "finish"
    <3>1. Pending \subseteq {worker[w].id} /\ msgs' = [msgs EXCEPT ![worker[w].id] = "sent"]
      BY <2>2 DEF Sent
    <3>2. Pending' = {}
      BY <3>1 DEF Pending, TypeInv, TypeOK
    <3>3. QED
      BY <2>1, <3>2
  <2>3. CASE ~(Sent(w) /\ worker[w].pc = "finish")
    BY <1>2, <2>1, <2>3, WorkerFrame
  <2>4. QED
    BY <2>2, <2>3
<1>3. CASE Outside
  BY <1>3, OutsideFrame
<1>4. QED
  BY <1>1, <1>2, <1>3, WhoActs DEF AtCall
LEMMA OneMessageStep ==
  ASSUME TypeInv, HeldRows, SoleLaunch, OneMessagePerAddress, [Next]_vars
  PROVE  OneMessagePerAddress'
<1>1. ASSUME Rows' \subseteq Rows PROVE OneMessagePerAddress'
  BY <1>1 DEF OneMessagePerAddress, To
<1>2. ASSUME NEW r \in Requests, AtCall(r) PROVE OneMessagePerAddress'
  <2>1. CASE Rebuild(r) /\ Rows' \subseteq (verified \ suppressed) \X {request[r].gen}
    BY <2>1 DEF OneMessagePerAddress, To
  <2>2. CASE UNCHANGED msgs
    BY <1>1, <2>2 DEF Rows
  <2>3. QED
    BY <1>2, <2>1, <2>2, Rebuilt, RequestFrame
<1>3. QED
  BY <1>1, <1>2, WorkerFrame, OutsideFrame, WhoActs DEF AtCall

LEMMA BouncedOutStep ==
  ASSUME TypeInv, HeldRows, SoleLaunch, OneMessagePerAddress, BouncedOut, [Next]_vars
  PROVE  BouncedOut'
<1> USE DEF BouncedOut
<1>1. ASSUME NEW r \in Requests, AtCall(r) PROVE BouncedOut'
  <2>1. UNCHANGED <<verified, suppressed, bounced, pardoned, restored>>
    BY <1>1, RequestFrame DEF outcomes
  <2>2. CASE Rebuild(r) /\ Pending' \subseteq (verified \ suppressed) \X {request[r].gen}
    BY <2>1, <2>2 DEF To
  <2>3. CASE UNCHANGED msgs
    BY <2>1, <2>3 DEF Pending
  <2>4. QED
    BY <1>1, <2>2, <2>3, Rebuilt, RequestFrame
<1>2. ASSUME NEW w \in Workers, AtWork(w) PROVE BouncedOut'
  <2>1. UNCHANGED <<verified, suppressed, bounced, pardoned, restored>> /\ Pending' \subseteq Pending
    BY <1>2, WorkerFrame DEF outcomes
  <2>2. QED
    BY <2>1
<1>3. CASE Outside
  <2>1. BouncedKnown' /\ Pending' \subseteq Pending
    BY <1>3, OutsideFrame, OutsideBounces DEF BouncedKnown
  <2>2. CASE bounced' = bounced /\ pardoned \subseteq pardoned' /\ restored \subseteq restored'
    BY <2>1, <2>2 DEF BouncedKnown
  <2>3. ASSUME NEW id \in Rows, bounced' = bounced \cup {To(id)}, id \notin Pending',
               pardoned' = pardoned \ {To(id)}, restored' = restored \ {To(id)}
        PROVE  BouncedOut'
    <3>1. \A i \in Pending' : i \in Pending /\ i \in Rows /\ i # id
      BY <2>1, <2>3 DEF Pending, Rows
    <3>2. \A i \in Pending' : To(i) # To(id)
      BY <2>3, <3>1 DEF OneMessagePerAddress
    <3>3. QED
      BY <2>1, <2>3, <3>1, <3>2 DEF BouncedKnown
  <2>4. QED
    BY <1>3, <2>2, <2>3, OutsideBounces DEF BouncedKnown
<1>4. QED
  BY <1>1, <1>2, <1>3, WhoActs DEF AtCall

LEMMA StoppedStep ==
  ASSUME OneRequestSlot, TypeInv, HeldRows, SoleLaunch, Stopped, [Next]_vars
  PROVE  Stopped'
<1> USE DEF Stopped, Launching
<1>1. ASSUME NEW r \in Requests, AtCall(r) PROVE Stopped'
  <2>1. \A s \in Requests : s = r
    BY DEF OneRequestSlot
  <2>2. ASSUME NEW op \in {"launch", "pause", "resume", "cancel"}, Call(r, op) PROVE Stopped'
    BY <2>1, <2>2, CallMoves DEF Call, word
  <2>3. CASE Transition(r)
    BY <2>1, <2>3, CallEnds DEF Transition, RequestMoves, NoCall, word, TypeInv, Places
  <2>4. CASE LoadCampaign(r) \/ DeleteRows(r) \/ RowsLocked(r)
    <3>1. Launching(r) /\ UNCHANGED <<status, worker, stopped, late>>
      BY <2>4 DEF LoadCampaign, DeleteRows, RowsLocked, word
    <3>2. ~stopped
      BY <3>1
    <3>3. QED
      BY <2>1, <3>1, <3>2
  <2>5. CASE Rebuild(r)
    BY <2>1, <2>5, CallEnds, Rebuilt DEF Rebuild, RequestMoves, NoCall, word
  <2>6. CASE Abort(r)
    BY <2>1, <2>6, CallEnds DEF Abort, RequestMoves, NoCall, word
  <2>7. QED
    BY <1>1, <2>2, <2>3, <2>4, <2>5, <2>6 DEF AtCall, RequestStep
<1>2. ASSUME NEW w \in Workers, AtWork(w) PROVE Stopped'
  <2>1. /\ late' = late \/ (Send(w) /\ late' = late \cup {w} /\ stopped)
    BY <1>2 DEF AtWork, Take, CheckCampaign, Refused, NotSent, Revoked, Send, Flush, MaybeComplete, Sent,
                WorkerLost, word
  <2>2. ASSUME NEW v \in Workers, v # w, stopped, v \in late PROVE worker'[v].pc # "gmail"
    BY <1>2, <2>2, WorkerAdvances DEF WorkerMoves
  <2>3. ASSUME stopped, worker'[w].pc = "gmail" PROVE FALSE
    BY <1>2, <2>3, WorkerAdvances, PastCheck
  <2>4. QED
    BY <1>2, <2>1, <2>2, <2>3, WorkerFrame, WorkerAdvances DEF WorkerMoves, TypeInv, TypeOK
<1>3. CASE Outside
  BY <1>3, OutsideFrame
<1>4. QED
  BY <1>1, <1>2, <1>3, WhoActs DEF AtCall
LEMMA OneRequestInvariant ==
  ASSUME OneRequestSlot
  PROVE  Spec => [](TypeInv /\ OneRequestInv)
<1>1. Init => OneRequestInv
  <2> SUFFICES ASSUME Init PROVE OneRequestInv
    OBVIOUS
  <2>1. \A id \in Ids : msgs[id] = "absent"
    BY DEF Init
  <2>2. Rows = {} /\ Pending = {}
    BY <2>1 DEF Rows, Pending
  <2>3. \A w \in Workers : worker[w].pc = "idle"
    BY DEF Init, Free
  <2>4. \A r \in Requests : request[r].pc = "idle" /\ request[r].op = "none"
    BY DEF Init, NoCall
  <2>5. /\ status = "draft" /\ bounced = {} /\ late = {} /\ stopped = FALSE
    BY DEF Init
  <2>6. HeldRows /\ LastOne
    BY <2>2, <2>3 DEF HeldRows, Holds, LastOne
  <2>7. SoleLaunch
    BY <2>4 DEF SoleLaunch
  <2>8. CompletedDrained /\ OneMessagePerAddress /\ BouncedOut
    BY <2>2, <2>5 DEF CompletedDrained, OneMessagePerAddress, BouncedOut
  <2>9. Stopped
    BY <2>4, <2>5 DEF Stopped, Launching
  <2>10. QED
    BY <2>6, <2>7, <2>8, <2>9 DEF OneRequestInv
<1>2. TypeInv /\ OneRequestInv /\ [Next]_vars => OneRequestInv'
  BY HeldRowsStep, SoleLaunchStep, DrainedStep, OneMessageStep, BouncedOutStep, StoppedStep
     DEF OneRequestInv
<1>3. QED
  BY <1>1, <1>2, TypeInvariant, PTL DEF Spec

\* However launches, pauses, dispatches, crashes and sends interleave, a campaign
\* is COMPLETED only when no message is left to send.
THEOREM Drained ==
  ASSUME OneRequestSlot
  PROVE  Spec => []CompletedDrained
<1>1. OneRequestInv => CompletedDrained
  BY DEF OneRequestInv
<1>2. QED
  BY <1>1, OneRequestInvariant, PTL

\* A campaign has one message per address, however often it is launched again.
THEOREM OnePerAddress ==
  ASSUME OneRequestSlot
  PROVE  Spec => []OneMessagePerAddress
<1>1. OneRequestInv => OneMessagePerAddress
  BY DEF OneRequestInv
<1>2. QED
  BY <1>1, OneRequestInvariant, PTL

\* After a pause or cancel each worker sends one email more at most.
THEOREM StopIsHeard ==
  ASSUME OneRequestSlot
  PROVE  Spec => StopBoundsSends
<1>1. OneRequestInv => \A w \in Workers : Send(w) /\ stopped => w \notin late
  BY DEF OneRequestInv, Stopped, Send
<1>2. QED
  BY <1>1, OneRequestInvariant, PTL DEF StopBoundsSends

\* The contact of the message that w has just taken up may be mailed.
Admissible(w) == \/ To(worker'[w].id) \notin bounced
                 \/ To(worker'[w].id) \in pardoned \cap restored

\* No worker takes up a message to a contact that has bounced, unless a user has
\* deleted its suppression and a validation has found it VERIFIED since.
THEOREM BouncedStaysOut ==
  ASSUME OneRequestSlot
  PROVE  Spec => BouncedNotTakenUp
<1>1. ASSUME TypeInv, OneRequestInv, [Next]_vars, NEW w \in Workers,
             worker[w].pc = "idle", worker'[w].pc = "campaign"
      PROVE  Admissible(w)
  <2>1. ASSUME NEW v \in Workers, AtWork(v) PROVE Admissible(w)
    <3>1. v = w
      BY <1>1, <2>1, WorkerAdvances DEF WorkerMoves
    <3>2. \E id \in Pending : worker'[w].id = id
      <4>1. Advance(w) /\ worker'[w] # Free
        BY <1>1, <2>1, <3>1, WorkerAdvances DEF Free
      <4>2. ASSUME NEW id \in Ids, msgs[id] = "queued", worker'[w] = [pc |-> "campaign", id |-> id]
            PROVE  id \in Pending /\ worker'[w].id = id
        BY <4>2 DEF Pending
      <4>3. QED
        BY <1>1, <4>1, <4>2 DEF Advance
    <3>3. QED
      BY <1>1, <3>2 DEF OneRequestInv, BouncedOut, Admissible
  <2>2. QED
    BY <1>1, <2>1, WhoActs, RequestFrame, OutsideFrame DEF AtCall
<1>2. TypeInv /\ OneRequestInv /\ [Next]_vars
        => [\A w \in Workers : worker[w].pc = "idle" /\ worker'[w].pc = "campaign"
              => To(worker'[w].id) \notin bounced \/ To(worker'[w].id) \in pardoned \cap restored]_vars
  BY <1>1 DEF Admissible
<1>3. QED
  BY <1>2, OneRequestInvariant, PTL DEF BouncedNotTakenUp, Spec
-----------------------------------------------------------------------------
(* Sends                                                                    *)

\* The bookkeeping of launch numbers.
LEMMA FreshStep ==
  ASSUME TypeInv, HeldRows, FreshLaunches, [Next]_vars
  PROVE  FreshLaunches'
<1> USE DEF Launching
<1>1. ASSUME NEW r \in Requests, AtCall(r) PROVE FreshLaunches'
  <2>1. UNCHANGED <<mailed, worker>> /\ (Rebuild(r) \/ UNCHANGED msgs)
    BY <1>1, RequestFrame
  <2>2. ASSUME NEW op \in {"launch", "pause", "resume", "cancel"}, Call(r, op) PROVE FreshLaunches'
    <3>1. /\ calls' = calls + 1 /\ calls + 1 \in 1..MaxCalls /\ UNCHANGED msgs
          /\ request'[r].gen = calls + 1
          /\ \A s \in Requests : s # r => request'[s] = request[s]
      BY <2>2, CallMoves DEF Call, RequestMoves, TypeInv, TypeOK
    <3>2. \A g \in 1..MaxCalls : Fresh(g) => Fresh(g)'
      BY <2>1, <3>1 DEF Fresh
    <3>3. \A s \in Requests : s # r /\ Launching(s) => request[s].gen # calls + 1 /\ request[s].gen \in 1..calls'
      BY <3>1 DEF FreshLaunches, TypeInv, TypeOK
    <3>4. calls + 1 \in 1..calls' /\ Fresh(calls + 1)
      BY <3>1 DEF FreshLaunches, TypeInv, TypeOK
    <3>5. calls' \in Nat /\ calls \in Nat /\ 1..calls' \subseteq 1..MaxCalls
      BY <3>1 DEF TypeInv, TypeOK, CampaignAssumption
    <3>6. QED
      BY <3>1, <3>2, <3>3, <3>4, <3>5 DEF FreshLaunches
  <2>3. CASE LoadCampaign(r) \/ DeleteRows(r) \/ RowsLocked(r)
    <3>1. Launching(r) /\ UNCHANGED <<msgs, calls>>
      BY <2>3 DEF LoadCampaign, DeleteRows, RowsLocked, budget
    <3>2. \A s \in Requests : (Launching(s)' => Launching(s)) /\ request'[s].gen = request[s].gen
      BY <2>3, <3>1, LaunchMoves DEF RequestMoves
    <3>3. \A g : Fresh(g) => Fresh(g)'
      BY <2>1, <3>1 DEF Fresh
    <3>4. QED
      BY <3>1, <3>2, <3>3 DEF FreshLaunches
  <2>4. CASE Transition(r) \/ Abort(r) \/ Rebuild(r)
    <3>1. UNCHANGED calls
      BY <2>4 DEF Transition, Abort, Rebuild, budget, Fault
    <3>2. \A s \in Requests : Launching(s)' => s # r /\ Launching(s) /\ request'[s].gen = request[s].gen
      BY <2>4, CallEnds DEF RequestMoves, NoCall
    <3>3. ASSUME NEW g \in 1..MaxCalls, Fresh(g), ~(Rebuild(r) /\ g = request[r].gen) PROVE Fresh(g)'
      <4>1. CASE UNCHANGED msgs
        BY <2>1, <3>3, <4>1 DEF Fresh
      <4>2. CASE Rebuild(r) /\ ~UNCHANGED msgs
        <5>1. msgs' = [id \in Ids |-> IF id \in Eligible(r) \X {request[r].gen} THEN "queued"
                                      ELSE IF lock[id] = r THEN "absent" ELSE msgs[id]]
          BY <4>2 DEF Rebuild
        <5>2. ASSUME NEW c \in Contacts
              PROVE  <<c, g>> \in Ids /\ <<c, g>> \notin Eligible(r) \X {request[r].gen}
          BY <3>3, <4>2 DEF Ids
        <5>3. QED
          BY <2>1, <3>3, <5>1, <5>2 DEF Fresh
      <4>3. QED
        BY <2>1, <4>1, <4>2
    <3>4. Rebuild(r) => Launching(r)
      BY DEF Rebuild
    <3>5. calls \in 0..MaxCalls /\ MaxCalls \in Nat
      BY DEF TypeInv, TypeOK, CampaignAssumption
    <3>6. \A g \in 1..MaxCalls : g > calls => Fresh(g)'
      BY <3>3, <3>4, <3>5 DEF FreshLaunches
    <3>7. \A s \in Requests : Launching(s)' => request[s].gen \in 1..MaxCalls /\ Fresh(request[s].gen)'
      BY <3>2, <3>3, <3>4, <3>5 DEF FreshLaunches
    <3>8. QED
      BY <3>1, <3>2, <3>6, <3>7 DEF FreshLaunches
  <2>5. QED
    BY <1>1, <2>2, <2>3, <2>4 DEF AtCall, RequestStep
<1>2. ASSUME UNCHANGED <<request, calls>>, \A g \in 1..MaxCalls : Fresh(g) => Fresh(g)'
      PROVE  FreshLaunches'
  <2>1. 1..calls \subseteq 1..MaxCalls
    BY DEF TypeInv, TypeOK, CampaignAssumption
  <2>2. QED
    BY <1>2, <2>1 DEF FreshLaunches
<1>3. ASSUME NEW w \in Workers, AtWork(w) PROVE FreshLaunches'
  <2>1. ASSUME NEW g \in 1..MaxCalls, Fresh(g), NEW c \in Contacts
        PROVE  /\ msgs'[<<c, g>>] = "absent" /\ mailed'[<<c, g>>] = 0
               /\ \A v \in Workers : worker'[v].pc # "idle" => worker'[v].id # <<c, g>>
    <3>1. /\ <<c, g>> \in Ids /\ msgs[<<c, g>>] = "absent" /\ mailed[<<c, g>>] = 0
          /\ \A v \in Workers : worker[v].pc # "idle" => worker[v].id # <<c, g>>
      BY <2>1 DEF Ids, Fresh
    <3>2. msgs'[<<c, g>>] = "absent"
      BY <1>3, <3>1, WorkerFrame DEF Rows
    <3>3. mailed'[<<c, g>>] = 0
      <4>1. UNCHANGED mailed \/ (Send(w) /\ worker[w].pc # "idle")
        BY <1>3 DEF AtWork, Take, CheckCampaign, Refused, NotSent, Revoked, Send, Flush, MaybeComplete, Sent,
                    WorkerLost
      <4>2. CASE Send(w) /\ worker[w].pc # "idle"
        BY <3>1, <4>2 DEF Send, TypeInv, TypeOK
      <4>3. QED
        BY <3>1, <4>1, <4>2
    <3>4. ASSUME worker'[w].pc # "idle" PROVE worker'[w].id # <<c, g>>
      <4>1. Advance(w) /\ worker'[w] # Free
        BY <1>3, <3>4, WorkerAdvances DEF Free
      <4>2. ASSUME NEW id \in Ids, msgs[id] = "queued", worker'[w] = [pc |-> "campaign", id |-> id]
            PROVE  worker'[w].id # <<c, g>>
        BY <3>1, <4>2
      <4>3. CASE worker'[w].id = worker[w].id /\ worker[w].pc # "idle"
        BY <3>1, <4>3
      <4>4. QED
        BY <4>1, <4>2, <4>3 DEF Advance, CheckCampaign, Send, Flush, MaybeComplete
    <3>5. QED
      BY <1>3, <3>1, <3>2, <3>3, <3>4, WorkerAdvances DEF WorkerMoves
  <2>2. \A g \in 1..MaxCalls : Fresh(g) => Fresh(g)'
    BY <2>1 DEF Fresh
  <2>3. QED
    BY <1>2, <1>3, <2>2, WorkerFrame
<1>4. CASE Outside
  <2>1. ASSUME NEW g \in 1..MaxCalls, Fresh(g) PROVE Fresh(g)'
    <3>1. \A c \in Contacts : <<c, g>> \in Ids
      BY DEF Ids
    <3>2. QED
      BY <1>4, <2>1, <3>1, OutsideFrame DEF Fresh, Rows
  <2>2. QED
    BY <1>2, <1>4, <2>1, OutsideFrame
<1>5. QED
  BY <1>1, <1>3, <1>4, WhoActs DEF AtCall

\* Taking a message that another worker has makes it a shared one.
LEMMA OneHandStep ==
  ASSUME TypeInv, OneHand, [Next]_vars
  PROVE  OneHand' /\ shared \subseteq shared'
<1> USE DEF OneHand
<1>1. ASSUME NEW r \in Requests, AtCall(r) PROVE OneHand' /\ shared \subseteq shared'
  <2>1. UNCHANGED <<worker, shared>>
    BY <1>1, RequestFrame
  <2>2. QED
    BY <2>1
<1>2. ASSUME NEW w \in Workers, AtWork(w) PROVE OneHand' /\ shared \subseteq shared'
  <2>1. /\ WorkerMoves(w) /\ Advance(w) /\ Free.id \notin Ids
        /\ shared \subseteq Ids /\ worker \in [Workers -> WorkerType]
    BY <1>2, WorkerAdvances DEF Free, Ids, TypeInv, TypeOK
  <2>2. shared \subseteq shared'
    BY <1>2 DEF AtWork, Take, CheckCampaign, Refused, NotSent, Revoked, Send, Flush, MaybeComplete,
                Sent, WorkerLost
  <2>3. ASSUME NEW v \in Workers, v # w, worker'[v].id = worker'[w].id,
               worker'[w].id \in Ids \ shared'
        PROVE  FALSE
    <3>1. worker'[v] = worker[v]
      BY <2>1, <2>3 DEF WorkerMoves
    <3>2. ASSUME NEW id \in Ids, Take(w, id), worker'[w] = [pc |-> "campaign", id |-> id] PROVE FALSE
      BY <2>3, <3>1, <3>2 DEF Take, HasIt
    <3>3. CASE worker'[w].id = worker[w].id
      BY <2>2, <2>3, <3>1, <3>3
    <3>4. QED
      BY <2>1, <2>3, <3>2, <3>3 DEF Advance
  <2>4. QED
    BY <2>1, <2>2, <2>3 DEF WorkerMoves
<1>3. CASE Outside
  <2>1. UNCHANGED <<worker, shared>>
    BY <1>3, OutsideFrame
  <2>2. QED
    BY <2>1
<1>4. QED
  BY <1>1, <1>2, <1>3, WhoActs DEF AtCall

LEMMA SentOnceStep ==
  ASSUME TypeInv, HeldRows, FreshLaunches, OneHand, SentOnce, [Next]_vars
  PROVE  SentOnce'
<1> USE DEF SentOnce, Recording, Holds
<1>0. /\ faults \in Nat /\ mailed \in [Ids -> Nat] /\ Pending \subseteq Ids
      /\ \A w \in Workers : worker[w].pc # "idle" => worker[w].id \in Ids
      /\ shared \subseteq shared'
  BY OneHandStep DEF TypeInv, TypeOK, Places, Pending, CampaignAssumption
<1>1. ASSUME NEW r \in Requests, AtCall(r) PROVE SentOnce'
  <2>1. UNCHANGED <<mailed, worker, shared>> /\ faults <= faults' /\ faults' \in Nat
    BY <1>0, <1>1, RequestFrame, RequestTypes DEF AtCall, TypeInv, TypeOK
  <2>2. ASSUME NEW id \in Pending', id \notin Pending PROVE mailed[id] = 0
    <3>1. Rebuild(r)
      BY <1>1, <2>2, RequestFrame DEF Pending
    <3>2. id \in Eligible(r) \X {request[r].gen} /\ Launching(r)
      BY <2>2, <3>1 DEF Rebuild, Pending, Launching, TypeInv, TypeOK
    <3>3. Fresh(request[r].gen) /\ \E c \in Contacts : id = <<c, request[r].gen>>
      BY <3>2 DEF FreshLaunches, Eligible, TypeInv, TypeOK
    <3>4. QED
      BY <3>3 DEF Fresh
  <2>3. QED
    BY <1>0, <2>1, <2>2 DEF Pending
<1>2. ASSUME NEW w \in Workers, AtWork(w) PROVE SentOnce'
  <2>1. /\ faults <= faults' /\ faults' \in Nat /\ Pending' \subseteq Pending /\ Advance(w)
        /\ \A v \in Workers : v # w => worker'[v] = worker[v]
    BY <1>0, <1>2, WorkerFrame, WorkerTypes, WorkerAdvances DEF TypeInv, TypeOK, WorkerMoves
  <2>2. CASE Send(w)
    <3>1. /\ worker[w].pc = "gmail" /\ worker[w].id \in Ids /\ UNCHANGED shared
          /\ mailed' = [mailed EXCEPT ![worker[w].id] = @ + 1]
          /\ worker[w].id \notin shared => mailed[worker[w].id] <= faults
      BY <1>0, <2>2 DEF Send
    <3>2. \A id \in Ids : id # worker[w].id => mailed'[id] = mailed[id]
      BY <1>0, <3>1
    <3>3. mailed'[worker[w].id] = mailed[worker[w].id] + 1
      BY <1>0, <3>1
    <3>4. \/ worker'[w].pc = "flush" /\ worker'[w].id = worker[w].id /\ faults' = faults
          \/ worker'[w].pc = "idle" /\ faults' = faults + 1
      <4>1. CASE worker' = [worker EXCEPT ![w] = Free] /\ Fault
        BY <4>1 DEF Fault, Free, TypeInv, TypeOK
      <4>2. CASE worker' = [worker EXCEPT ![w].pc = "flush"] /\ UNCHANGED budget
        BY <4>2 DEF budget, TypeInv, TypeOK, WorkerType
      <4>3. QED
        BY <2>2, <4>1, <4>2 DEF Send
    <3>5. \A id \in Ids \ shared : mailed'[id] <= 1 + faults'
      BY <1>0, <2>1, <3>1, <3>2, <3>3
    <3>6. ASSUME NEW id \in Pending' \ shared, \A v \in Workers : ~Recording(v, id)'
          PROVE  mailed'[id] <= faults'
      <4>1. CASE id = worker[w].id
        BY <1>0, <2>1, <3>1, <3>3, <3>4, <3>6, <4>1
      <4>2. CASE id # worker[w].id
        <5>1. \A v \in Workers : ~Recording(v, id)
          BY <2>1, <3>1, <3>6, <4>2
        <5>2. QED
          BY <1>0, <2>1, <3>2, <3>6, <4>2, <5>1
      <4>3. QED
        BY <4>1, <4>2
    <3>7. ASSUME NEW v \in Workers, worker'[v].pc \in {"campaign", "gmail"},
                 worker'[v].id \notin shared
          PROVE  mailed'[worker'[v].id] <= faults'
      <4>1. v # w /\ worker'[v] = worker[v] /\ worker[v].id \in Ids
        BY <1>0, <2>1, <3>4, <3>7
      <4>2. worker[v].id # worker[w].id
        BY <3>7, <4>1 DEF OneHand
      <4>3. QED
        BY <1>0, <2>1, <3>2, <3>7, <4>1, <4>2
    <3>8. QED
      BY <3>1, <3>5, <3>6, <3>7
  <2>3. CASE ~Send(w)
    <3>1. UNCHANGED mailed
      BY <1>2, <2>3 DEF AtWork, Take, CheckCampaign, Refused, NotSent, Revoked, Flush, MaybeComplete,
                        Sent, WorkerLost
    <3>2. \A id \in Ids \ shared' : mailed'[id] <= 1 + faults'
      BY <1>0, <2>1, <3>1
    <3>3. ASSUME NEW id \in Pending' \ shared', \A v \in Workers : ~Recording(v, id)'
          PROVE  mailed'[id] <= faults'
      <4>1. CASE ~Recording(w, id)
        <5>1. \A v \in Workers : ~Recording(v, id)
          BY <2>1, <3>3, <4>1
        <5>2. QED
          BY <1>0, <2>1, <3>1, <3>3, <5>1
      <4>2. CASE Recording(w, id)
        <5>1. Sent(w) \/ WorkerLost(w) \/ Flush(w)
          BY <1>2, <2>3, <3>3, <4>2, <2>1, WorkerAdvances
             DEF AtWork, Take, CheckCampaign, Refused, NotSent, Revoked, MaybeComplete, WorkerMoves,
                 TypeInv, TypeOK, WorkerType
        <5>2. CASE Sent(w)
          BY <3>3, <4>2, <5>2 DEF Sent, Pending, TypeInv, TypeOK
        <5>3. CASE WorkerLost(w)
          BY <1>0, <2>1, <3>1, <3>3, <4>2, <5>3 DEF WorkerLost, Fault
        <5>4. CASE Flush(w)
          BY <3>3, <4>2, <5>4 DEF Flush, Pending, TypeInv, TypeOK, WorkerType
        <5>5. QED
          BY <5>1, <5>2, <5>3, <5>4
      <4>3. QED
        BY <4>1, <4>2
    <3>4. ASSUME NEW v \in Workers, worker'[v].pc \in {"campaign", "gmail"},
                 worker'[v].id \notin shared'
          PROVE  mailed'[worker'[v].id] <= faults'
      <4>1. CASE v # w
        BY <1>0, <2>1, <3>1, <3>4, <4>1
      <4>2. ASSUME v = w, NEW id \in Ids, msgs[id] = "queued", Take(w, id),
                   worker'[w] = [pc |-> "campaign", id |-> id]
            PROVE  mailed'[worker'[v].id] <= faults'
        <5>1. id \in Pending /\ id \notin shared /\ ~ HasIt(id)
          BY <1>0, <3>4, <4>2 DEF Pending, Take
        <5>2. \A u \in Workers : ~Recording(u, id)
          BY <5>1 DEF HasIt
        <5>3. QED
          BY <1>0, <2>1, <3>1, <4>2, <5>1, <5>2
      <4>3. CASE v = w /\ worker[w].pc = "campaign" /\ worker'[w].id = worker[w].id
        BY <1>0, <2>1, <3>1, <3>4, <4>3
      <4>4. worker'[v] # Free
        BY <3>4 DEF Free
      <4>5. QED
        BY <2>1, <2>3, <3>4, <4>1, <4>2, <4>3, <4>4 DEF Advance, CheckCampaign
    <3>5. QED
      BY <3>2, <3>3, <3>4
  <2>4. QED
    BY <2>2, <2>3
<1>3. CASE Outside
  BY <1>3, OutsideFrame
<1>4. QED
  BY <1>1, <1>2, <1>3, WhoActs DEF AtCall

LEMMA SendsInvariant == Spec => [](TypeInv /\ SendsInv)
<1>1. Init => SendsInv
  <2> SUFFICES ASSUME Init PROVE SendsInv
    OBVIOUS
  <2>1. /\ \A id \in Ids : msgs[id] = "absent" /\ mailed[id] = 0
        /\ faults = 0 /\ calls = 0
    BY DEF Init
  <2>2. \A w \in Workers : worker[w].pc = "idle" /\ worker[w].id \notin Ids
    BY DEF Init, Free, Ids
  <2>3. \A r \in Requests : request[r].pc = "idle"
    BY DEF Init, NoCall
  <2>4. Pending = {}
    BY <2>1 DEF Pending
  <2>5. \A g \in 1..MaxCalls : Fresh(g)
    BY <2>1, <2>2 DEF Fresh, Ids
  <2>6. FreshLaunches
    BY <2>3, <2>5 DEF FreshLaunches, Launching
  <2>7. SentOnce /\ OneHand
    BY <2>1, <2>2, <2>4 DEF SentOnce, OneHand
  <2>8. QED
    BY <2>2, <2>6, <2>7 DEF SendsInv, HeldRows, Holds
<1>2. TypeInv /\ SendsInv /\ [Next]_vars => SendsInv'
  BY HeldRowsStep, FreshStep, OneHandStep, SentOnceStep DEF SendsInv
<1>3. QED
  BY <1>1, <1>2, TypeInvariant, PTL DEF Spec

\* A message that no two workers had at once is mailed once, and once more for every
\* crash or lost answer at most, for any number of workers and of requests that launch
\* and pause the campaign.
THEOREM MailedOnce == Spec => []EachMessageOnce
<1>1. SendsInv => EachMessageOnce
  BY DEF SendsInv, SentOnce, EachMessageOnce
<1>2. QED
  BY <1>1, SendsInvariant, PTL
=============================================================================
