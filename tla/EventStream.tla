------------------------------ MODULE EventStream ------------------------------
(***************************************************************************)
(* The event log of one job, from the sessions that write it to the page   *)
(* that follows it.  A writer draws a sequence number when it flushes,     *)
(* publishes to Redis, and commits later, or rolls back; the endpoint      *)
(* subscribes, replays the committed rows and then forwards the channel;   *)
(* the page keeps a log, reconnects with its cursor and falls back to      *)
(* polling.  Events are their sequence numbers; Final ends the job.        *)
(***************************************************************************)
EXTENDS Integers, Sequences, FiniteSets

CONSTANTS
  Writers,    \* sessions that publish: drivers, request handlers
  MaxSeq,     \* bound: events of the job
  ErrorLimit  \* sseErrors at which the page gives up on the stream

EventAssumption == MaxSeq \in Nat \ {0} /\ ErrorLimit \in Nat \ {0}

VARIABLES
  drawn,      \* the last sequence number taken
  rows,       \* rows[w]: flushed by w, not committed
  unsent,     \* unsent[w]: flushed, not yet published; 0 when there is none
  committed,
  conn,       \* the endpoint's stream: "closed", "subscribed", "replayed", "live"
  inbox,      \* messages the subscription holds
  last_seq,   \* the endpoint's cursor
  frames,     \* what this connection has sent
  log,        \* the page's event log; sorted by seq and deduplicated, so a set
  lastSeq,    \* the page's cursor
  errors,     \* sseErrors
  timer,      \* the pending setTimeout: "none", "connect", "poll"
  pollTimer,  \* the variable pollTimer is set; it is never set back to null
  closed,
  raced       \* history: numbers the order of commit and publication can hide

writing  == <<drawn, rows, unsent, committed>>
serving  == <<conn, inbox, last_seq, frames>>
page     == <<log, lastSeq, errors, timer, pollTimer, closed>>
vars     == <<writing, serving, page, raced>>

Final == MaxSeq
Seqs  == 1 .. MaxSeq

\* Numbers taken and not yet committed.
Open == UNION {rows[w] : w \in Writers}

Init ==
  /\ drawn = 0 /\ rows = [w \in Writers |-> {}] /\ unsent = [w \in Writers |-> 0]
  /\ committed = {}
  /\ conn = "closed" /\ inbox = <<>> /\ last_seq = 0 /\ frames = <<>>
  /\ log = {} /\ lastSeq = 0 /\ errors = 0 /\ timer = "connect" /\ pollTimer = FALSE
  /\ closed = FALSE /\ raced = {}

-----------------------------------------------------------------------------
(* Writers                                                                  *)

\* session.add and flush: the row and its number, inside the transaction.
Flush(w) ==
  /\ drawn < MaxSeq /\ unsent[w] = 0
  /\ drawn' = drawn + 1
  /\ rows' = [rows EXCEPT ![w] = @ \cup {drawn + 1}]
  /\ unsent' = [unsent EXCEPT ![w] = drawn + 1]
  /\ UNCHANGED <<committed, serving, page, raced>>

\* Mutant of Subscribed: the subscription is made after the replay.
SubscribedLate == conn = "live"

Subscribed == conn # "closed"

\* client.publish: only a subscription that exists hears it.  A smaller number that is
\* not out yet has been overtaken.
Publish(w) ==
  /\ unsent[w] # 0
  /\ inbox' = IF Subscribed THEN Append(inbox, unsent[w]) ELSE inbox
  /\ raced' = raced \cup {unsent[v] : v \in {u \in Writers : unsent[u] \in 1 .. unsent[w] - 1}}
  /\ unsent' = [unsent EXCEPT ![w] = 0]
  /\ UNCHANGED <<drawn, rows, committed, conn, last_seq, frames, page>>

Commit(w) ==
  /\ rows[w] # {} /\ unsent[w] = 0
  /\ committed' = committed \cup rows[w]
  /\ rows' = [rows EXCEPT ![w] = {}]
  /\ UNCHANGED <<drawn, unsent, serving, page, raced>>

Rollback(w) ==
  /\ rows[w] # {}
  /\ rows' = [rows EXCEPT ![w] = {}]
  /\ unsent' = [unsent EXCEPT ![w] = 0]
  /\ UNCHANGED <<drawn, committed, serving, page, raced>>

-----------------------------------------------------------------------------
(* The page handles an event: handle, applyEvent, finishIfTerminal          *)

MaxOf(S) == CHOOSE x \in S \cup {0} : \A y \in S : x >= y

Handle(S) ==
  /\ log' = log \cup S
  /\ lastSeq' = MaxOf(S \cup {lastSeq})
  /\ closed' = (Final \in S)
  /\ timer' = IF Final \in S THEN "none" ELSE timer

\* _replay_rows
After(cursor) == {s \in committed : s > cursor}

-----------------------------------------------------------------------------
(* The stream                                                               *)

\* connect: a new EventSource; the endpoint resolves the cursor and subscribes.
Connect ==
  /\ timer = "connect" /\ ~ closed
  /\ timer' = "none"
  /\ conn' = "subscribed" /\ inbox' = <<>> /\ frames' = <<>>
  /\ last_seq' = lastSeq
  /\ UNCHANGED <<writing, log, lastSeq, errors, pollTimer, closed, raced>>

\* The rows after the cursor, in order, then the channel.  The query sees what is
\* committed; a number that is still open may commit behind the cursor.
Replay ==
  LET new == After(last_seq)
      Nth(i) == CHOOSE s \in new : Cardinality({t \in new : t <= s}) = i
  IN  /\ conn = "subscribed"
      /\ frames' = [i \in 1 .. Cardinality(new) |-> Nth(i)]
      /\ last_seq' = MaxOf(new \cup {last_seq})
      /\ Handle(new)
      /\ errors' = IF new = {} THEN errors ELSE 0
      /\ conn' = IF Final \in new THEN "closed" ELSE "replayed"
      /\ raced' = raced \cup Open
      /\ UNCHANGED <<writing, inbox, pollTimer>>

\* The replayed rows are sent; the loop over the channel begins.
Listen ==
  /\ conn = "replayed" /\ conn' = "live"
  /\ UNCHANGED <<writing, inbox, last_seq, frames, page, raced>>

\* Mutant of Fresh: everything on the channel is forwarded.
Anything(s) == TRUE

Fresh(s) == s > last_seq

Forward ==
  LET s == Head(inbox)
  IN  /\ conn = "live" /\ inbox # <<>>
      /\ inbox' = Tail(inbox)
      /\ IF Fresh(s)
         THEN /\ last_seq' = s /\ frames' = Append(frames, s)
              /\ Handle({s}) /\ errors' = 0
              /\ conn' = IF s = Final THEN "closed" ELSE "live"
         ELSE UNCHANGED <<last_seq, frames, log, lastSeq, errors, timer, closed, conn>>
      /\ UNCHANGED <<writing, pollTimer, raced>>

\* The connection fails: reconnect after a delay, or give up and start polling, which
\* happens only while pollTimer is null.
StreamError ==
  /\ conn # "closed"
  /\ conn' = "closed" /\ inbox' = <<>>
  /\ errors' = errors + 1
  /\ IF errors + 1 >= ErrorLimit
     THEN /\ timer' = IF pollTimer THEN "none" ELSE "poll"
          /\ UNCHANGED pollTimer
     ELSE timer' = "connect" /\ pollTimer' = TRUE
  /\ UNCHANGED <<writing, last_seq, frames, log, lastSeq, closed, raced>>

\* One JSON poll and the timer of the next; a poll sees only what is committed.
Poll ==
  LET new == After(lastSeq)
  IN  /\ timer = "poll" /\ ~ closed
      /\ log' = log \cup new
      /\ lastSeq' = MaxOf(new \cup {lastSeq})
      /\ closed' = (Final \in new)
      /\ timer' = IF Final \in new THEN "none" ELSE "poll"
      /\ pollTimer' = TRUE
      /\ raced' = raced \cup Open
      /\ UNCHANGED <<writing, serving, errors>>

\* The page is left and opened again: the cache stays, the stored events after its
\* last one are fetched, and the stream starts from zero.
Remount ==
  /\ conn' = "closed" /\ inbox' = <<>>
  /\ log' = log \cup After(MaxOf(log))
  /\ lastSeq' = 0 /\ errors' = 0 /\ timer' = "connect" /\ pollTimer' = FALSE
  /\ closed' = FALSE
  /\ UNCHANGED <<writing, last_seq, frames, raced>>

-----------------------------------------------------------------------------
Next ==
  \/ \E w \in Writers : Flush(w) \/ Publish(w) \/ Commit(w) \/ Rollback(w)
  \/ Connect \/ Replay \/ Listen \/ Forward \/ StreamError \/ Poll \/ Remount

Spec == Init /\ [][Next]_vars

-----------------------------------------------------------------------------
(* Properties                                                               *)

\* One connection sends every event at most once and in order, although the replay
\* and the channel overlap.
ServedOnceInOrder == \A i, j \in DOMAIN frames : i < j => frames[i] < frames[j]

CaughtUp == conn = "live" /\ inbox = <<>>

\* A page that is connected and has read its channel shows every committed event,
\* through errors and reconnects, but for those that were open during a replay or
\* overtaken on the channel.
ShowsCommitted == CaughtUp => committed \ raced \subseteq log

\* api/events.py: "Subscribe BEFORE replaying so no event falls in the replay/live
\* gap".  An event published before the subscription and committed after the replay
\* does.
NoGap == CaughtUp => committed \subseteq log

\* sse.ts: "After repeated EventSource failures, falls back to JSON polling".  A page
\* that has not finished is connected or has a timer that will act.
StillFollowing == closed \/ conn # "closed" \/ timer # "none"
=============================================================================
