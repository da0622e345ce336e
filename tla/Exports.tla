-------------------------------- MODULE Exports --------------------------------
(***************************************************************************)
(* One export: the request that creates it, the task that reads the tabs   *)
(* one query after the other, writes the file at its final name and marks  *)
(* the row, and the downloads.  A worker that dies has its message         *)
(* delivered again, also when the row was already committed.               *)
(*                                                                         *)
(* The pipeline keeps committing while tabs are read: a tab's contents are *)
(* the number of commits it was read after.  The database does not fail.   *)
(***************************************************************************)
EXTENDS Integers, Sequences

CONSTANTS
  RawTabs,    \* how many tabs scope "raw" has
  MaxCommits, \* bound: commits of the pipeline
  MaxDeaths   \* bound: deaths of a worker

ExportsAssumption == RawTabs \in Nat \ {0} /\ {MaxCommits, MaxDeaths} \subseteq Nat

VARIABLES
  db,       \* commits so far
  row,      \* ExportJob: [status, target, scope, asked], asked: db when it was made
  file,     \* [state, tabs]: "none", "part" or "whole", and what is in it
  messages, \* build_export messages in the broker
  api,      \* create_export: "idle", "committed" or "done"
  worker,   \* [at, tabs]: "idle", "read", "write", "commit" or "ack", and what it read
  deaths,
  served    \* has a download been served half a file

vars == <<db, row, file, messages, api, worker, deaths, served>>

NoRow  == [status |-> "none", target |-> "file", scope |-> "raw", asked |-> 0]
Idle   == [at |-> "idle", tabs |-> <<>>, ok |-> TRUE]

TabsFor(scope) == IF scope = "sales_ready" THEN 1 ELSE RawTabs

Init ==
  /\ db = 0 /\ row = NoRow /\ file = [state |-> "none", tabs |-> <<>>] /\ messages = 0
  /\ api = "idle" /\ worker = Idle /\ deaths = 0 /\ served = FALSE

-----------------------------------------------------------------------------
(* The request                                                              *)

Create ==
  /\ api = "idle" /\ api' = "committed"
  /\ \E target \in {"file", "google_sheets"}, scope \in {"raw", "sales_ready"} :
       row' = [status |-> "QUEUED", target |-> target, scope |-> scope, asked |-> db]
  /\ UNCHANGED <<db, file, messages, worker, deaths, served>>

\* The message follows the commit; the process may have died between the two.
Enqueue ==
  /\ api = "committed" /\ api' \in {"done", "dead"}
  /\ messages' = IF api' = "done" THEN messages + 1 ELSE messages
  /\ UNCHANGED <<db, row, file, worker, deaths, served>>

\* The pipeline commits rows.
Commit ==
  /\ db < MaxCommits /\ db' = db + 1
  /\ UNCHANGED <<row, file, messages, api, worker, deaths, served>>

-----------------------------------------------------------------------------
(* The task                                                                 *)

\* Mutant of Taken: the message is acknowledged when it is received.
TakenAcked == messages - 1

\* acks_late: the message stays until the task has ended.
Taken == messages

Take ==
  /\ worker = Idle /\ messages > 0
  /\ messages' = Taken
  /\ worker' = [Idle EXCEPT !.at = "read"]
  /\ UNCHANGED <<db, row, file, api, deaths, served>>

\* materialize_tabs, a query per tab; the sheet target has its rows synced instead.
Read ==
  /\ worker.at = "read"
  /\ IF row.target = "google_sheets" THEN worker' = [worker EXCEPT !.at = "commit"]
     ELSE LET tabs == Append(worker.tabs, db)
          IN  worker' = [worker EXCEPT !.tabs = tabs,
                                       !.at = IF Len(tabs) = TabsFor(row.scope) THEN "open" ELSE "read"]
  /\ UNCHANGED <<db, row, file, messages, api, deaths, served>>

\* The writers open the file at its final name, which empties it, and fill it.
Open ==
  /\ worker.at = "open"
  /\ file' = [state |-> "part", tabs |-> <<>>]
  /\ worker' = [worker EXCEPT !.at = "write"]
  /\ UNCHANGED <<db, row, messages, api, deaths, served>>

Write ==
  /\ worker.at = "write"
  /\ file' = [state |-> "whole", tabs |-> worker.tabs]
  /\ worker' = [worker EXCEPT !.at = "commit"]
  /\ UNCHANGED <<db, row, messages, api, deaths, served>>

\* An exception on the way: the row will say so, the file stays as it is.
Raise ==
  /\ worker.at \in {"read", "open", "write"}
  /\ worker' = [worker EXCEPT !.at = "commit", !.ok = FALSE]
  /\ UNCHANGED <<db, row, file, messages, api, deaths, served>>

\* Mutant of Outcome: the handler of the exception does not reset the status.
OutcomeKept(ok) == "COMPLETED"

Outcome(ok) == IF ok THEN "COMPLETED" ELSE "FAILED"

Finish ==
  /\ worker.at = "commit"
  /\ row' = [row EXCEPT !.status = Outcome(worker.ok)]
  /\ worker' = [worker EXCEPT !.at = "ack"]
  /\ UNCHANGED <<db, file, messages, api, deaths, served>>

Ack ==
  /\ worker.at = "ack" /\ worker' = Idle
  /\ messages' = messages - 1
  /\ UNCHANGED <<db, row, file, api, deaths, served>>

\* The message it held is delivered again.
Die ==
  /\ worker # Idle /\ deaths < MaxDeaths
  /\ worker' = Idle /\ deaths' = deaths + 1
  /\ UNCHANGED <<db, row, file, messages, api, served>>

\* download_export: the row is asked, then the file is read.
Download ==
  /\ row.status = "COMPLETED" /\ row.target = "file" /\ file.state # "none"
  /\ served' = (served \/ file.state = "part")
  /\ UNCHANGED <<db, row, file, messages, api, worker, deaths>>

Next == \/ Create \/ Enqueue \/ Commit \/ Take \/ Read \/ Open \/ Write \/ Raise
        \/ Finish \/ Ack \/ Die \/ Download

Spec == Init /\ [][Next]_vars

-----------------------------------------------------------------------------
(* Properties                                                               *)

Redelivered == deaths > 0 /\ messages > 0

\* What a COMPLETED export offers is a whole file with every row that was committed
\* before it was asked for, whatever failed or died on the way; only a build that was
\* delivered again may be rewriting it.
CompletedIsWhole ==
  /\ (row.status = "COMPLETED" /\ row.target = "file" /\ ~ Redelivered) =>
       /\ file.state = "whole" /\ Len(file.tabs) = TabsFor(row.scope)
       /\ \A i \in DOMAIN file.tabs : file.tabs[i] >= row.asked
  /\ served => deaths > 0

\* An export that reads QUEUED is not forgotten: a worker is on it, a message for it is
\* in the broker, or the request is about to send it, unless the API died in between.
QueuedIsQueued ==
  row.status = "QUEUED" => worker # Idle \/ messages > 0 \/ api \in {"committed", "dead"}
=============================================================================
