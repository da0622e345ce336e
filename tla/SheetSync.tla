------------------------------- MODULE SheetSync -------------------------------
(***************************************************************************)
(* The engine that mirrors one tab of a tenant's rows into a spreadsheet:  *)
(* flush_tab as a transaction with remote writes in the middle.  The sheet *)
(* has no transaction: what was written stays when the flush dies, while   *)
(* the row map (key -> row number and hash) it belongs to is rolled back.  *)
(* Row n of the model is sheet row n + 1, below the header.                *)
(***************************************************************************)
EXTENDS Integers, Sequences, SequencesExt, FiniteSets

CONSTANTS
  Tabs,       \* tabs to choose from
  Keys,       \* values of the tab's key column
  NoNote,
  Flushers,   \* processes that may flush: a job's driver, a poll, the API
  MaxDeaths,  \* bound: flushes that die or are refused by Google
  MaxWrites,  \* bound: changes of the tenant's rows
  MaxNotes    \* bound: edits of sales people

SheetAssumption ==
  /\ {MaxDeaths, MaxWrites, MaxNotes} \subseteq Nat
  /\ IsFiniteSet(Keys) /\ NoNote \notin Keys

VARIABLES
  tab,
  db,       \* version of each key's row; 0 when the source does not list it
  sheet,    \* rows [key, val, note]; note is the key sales people wrote it for
  map,      \* committed SheetRowMap: key -> [row, hash]
  events,   \* keys with a pending SpreadsheetSyncEvent
  pc, plan, \* what each flusher is doing, and with what it read
  torn,     \* history: a flush died after it had written beside an existing map, or
            \* one was begun while another was under way
  writes, notes, deaths

vars == <<tab, db, sheet, map, events, pc, plan, torn, writes, notes, deaths>>

\* Tabs with columns the engine never writes.
Editable(t) == t \in {"Contacts", "Sales_Ready_Leads"}

\* Tabs whose source leaves out rows that exist: tombstoned or unverified leads.
Filtered(t) == t = "Sales_Ready_Leads"

Empty == [k \in {} |-> 0]

Init ==
  /\ tab \in Tabs
  /\ db = [k \in Keys |-> 0] /\ sheet = <<>> /\ map = Empty /\ events = {}
  /\ pc = [w \in Flushers |-> "idle"] /\ plan = [w \in Flushers |-> <<>>]
  /\ torn = FALSE /\ writes = 0 /\ notes = 0 /\ deaths = 0

-----------------------------------------------------------------------------
(* The tenant's rows and the sales people                                   *)

\* A row is inserted or changed; the event is committed with it.
Change(k) ==
  /\ writes < MaxWrites
  /\ db' = [db EXCEPT ![k] = writes + 1]
  /\ events' = events \cup {k}
  /\ writes' = writes + 1
  /\ UNCHANGED <<tab, sheet, map, pc, plan, torn, notes, deaths>>

\* A lead leaves the source.
Leave(k) ==
  /\ writes < MaxWrites /\ db[k] # 0 /\ Filtered(tab)
  /\ db' = [db EXCEPT ![k] = 0]
  /\ events' = events \cup {k}
  /\ writes' = writes + 1
  /\ UNCHANGED <<tab, sheet, map, pc, plan, torn, notes, deaths>>

SalesNote(i) ==
  /\ notes < MaxNotes /\ Editable(tab) /\ sheet[i].note = NoNote
  /\ sheet' = [sheet EXCEPT ![i].note = sheet[i].key]
  /\ notes' = notes + 1
  /\ UNCHANGED <<tab, db, map, events, pc, plan, torn, writes, deaths>>

-----------------------------------------------------------------------------
(* flush_tab                                                                *)

\* read_key_column: the last row with the key.
RowOf(k) == CHOOSE i \in DOMAIN sheet :
              sheet[i].key = k /\ \A o \in DOMAIN sheet : sheet[o].key = k => o <= i

\* Mutant of Seeds: an empty map is taken as an empty sheet.
NoSeeds == Empty

\* Mutant of Seeds: the header row is counted among the rows.
SeedsBelowHeader ==
  IF map # Empty THEN Empty
  ELSE [k \in {sheet[i].key : i \in DOMAIN sheet} |-> [row |-> RowOf(k) + 1, hash |-> 0]]

\* Rows found in the sheet when the map is empty; the hash forces a write.
Seeds == IF map # Empty THEN Empty
         ELSE [k \in {sheet[i].key : i \in DOMAIN sheet} |-> [row |-> RowOf(k), hash |-> 0]]

Listed(rows) == {k \in Keys : rows[k] # 0}

\* The diff: by hash for the keys that are known, appends in some order, and the
\* mapped keys (not the seeded ones) the source no longer lists.
Diff(rows, known, old) ==
  [rows   |-> rows, known |-> known, seeded |-> known # old, drained |-> events,
   wrote  |-> FALSE,
   update |-> {k \in Listed(rows) \cap DOMAIN known : known[k].hash # rows[k]},
   delete |-> DOMAIN old \ Listed(rows),
   append |-> Listed(rows) \ DOMAIN known]

\* Nothing keeps a second flusher out of a tab.
Read(w) ==
  /\ pc[w] = "idle"
  /\ torn' = (torn \/ \E v \in Flushers : pc[v] # "idle")
  /\ pc' = [pc EXCEPT ![w] = "update"]
  /\ plan' = [plan EXCEPT ![w] = Diff(db, IF map = Empty THEN Seeds ELSE map, map)]
  /\ UNCHANGED <<tab, db, sheet, map, events, writes, notes, deaths>>

\* update_ranges: the system columns of the mapped rows, the key's among them.  The
\* hash is refreshed for the keys of the map, not for seeded ones.
Update(w) ==
  LET p == plan[w]
      At(i) == {k \in p.update : p.known[k].row = i}
      hash  == [k \in DOMAIN p.known |->
                  IF k \in p.update /\ ~ p.seeded THEN p.rows[k] ELSE p.known[k].hash]
  IN  /\ pc[w] = "update"
      /\ \A k \in p.update : p.known[k].row \in DOMAIN sheet
      /\ sheet' = [i \in DOMAIN sheet |->
                     IF At(i) = {} THEN sheet[i]
                     ELSE LET k == CHOOSE k \in At(i) : TRUE
                          IN  [sheet[i] EXCEPT !.key = k, !.val = p.rows[k]]]
      /\ plan' = [plan EXCEPT
           ![w].known = [k \in DOMAIN @ |-> [row |-> @[k].row, hash |-> hash[k]]],
           ![w].wrote = @ \/ p.update # {}]
      /\ pc' = [pc EXCEPT ![w] = "delete"]
      /\ UNCHANGED <<tab, db, map, events, torn, writes, notes, deaths>>

\* The rows above the deleted ones stay, those below move up.
Remap(row, gone) == row - Cardinality({g \in gone : g < row})

Without(rows, gone) ==
  LET kept == DOMAIN rows \ gone
      Kept(i) == CHOOSE n \in kept : Cardinality({m \in kept : m <= n}) = i
  IN  [i \in 1 .. Cardinality(kept) |-> rows[Kept(i)]]

Delete(w) ==
  LET p    == plan[w]
      gone == {p.known[k].row : k \in p.delete}
      left == DOMAIN p.known \ p.delete
      last == Len(sheet)
  IN  /\ pc[w] = "delete"
      /\ sheet' = Without(sheet, gone)
      /\ plan' = [plan EXCEPT
           ![w].known = [k \in left |->
                           [p.known[k] EXCEPT !.row = IF @ <= last THEN Remap(@, gone) ELSE @]],
           ![w].wrote = @ \/ gone # {}]
      /\ pc' = [pc EXCEPT ![w] = "append"]
      /\ UNCHANGED <<tab, db, map, events, torn, writes, notes, deaths>>

\* append_rows: below the table; the numbers come from the answer.
AppendRows(w) ==
  LET p    == plan[w]
      news == SetToSeq(p.append)
      rows == [i \in DOMAIN news |-> [key |-> news[i], val |-> p.rows[news[i]], note |-> NoNote]]
      new  == [k \in p.append |->
                 [row |-> Len(sheet) + (CHOOSE i \in DOMAIN news : news[i] = k),
                  hash |-> p.rows[k]]]
  IN  /\ pc[w] = "append"
      /\ sheet' = sheet \o rows
      /\ plan' = [plan EXCEPT
           ![w].known = [k \in DOMAIN @ \cup p.append |-> IF k \in p.append THEN new[k] ELSE @[k]],
           ![w].wrote = @ \/ news # <<>>]
      /\ pc' = [pc EXCEPT ![w] = "commit"]
      /\ UNCHANGED <<tab, db, map, events, torn, writes, notes, deaths>>

\* The map is written row by row; keys another flush has mapped meanwhile violate
\* the unique constraint, so this one is rolled back (Die).
Commit(w) ==
  /\ pc[w] = "commit"
  /\ plan[w].append \cap DOMAIN map = {}
  /\ map' = plan[w].known
  /\ events' = events \ plan[w].drained
  /\ pc' = [pc EXCEPT ![w] = "idle"] /\ plan' = [plan EXCEPT ![w] = <<>>]
  /\ UNCHANGED <<tab, db, sheet, torn, writes, notes, deaths>>

\* The process dies, Google refuses, or the commit fails: all but the sheet is
\* rolled back.
Die(w) ==
  /\ deaths < MaxDeaths /\ pc[w] # "idle"
  /\ deaths' = deaths + 1
  /\ torn' = (torn \/ (plan[w].wrote /\ map # Empty))
  /\ pc' = [pc EXCEPT ![w] = "idle"] /\ plan' = [plan EXCEPT ![w] = <<>>]
  /\ UNCHANGED <<tab, db, sheet, map, events, writes, notes>>

-----------------------------------------------------------------------------
Flush(w) == Read(w) \/ Update(w) \/ Delete(w) \/ AppendRows(w) \/ Commit(w) \/ Die(w)

Next ==
  \/ \E k \in Keys : Change(k) \/ Leave(k)
  \/ \E i \in DOMAIN sheet : SalesNote(i)
  \/ \E w \in Flushers : Flush(w)

Spec == Init /\ [][Next]_vars

-----------------------------------------------------------------------------
(* Properties                                                               *)

\* What the engine promises without reserve: a note stays in its lead's row.
NotesStayWithLead == \A i \in DOMAIN sheet : sheet[i].note \in {NoNote, sheet[i].key}

\* It holds as long as no flush died beside an existing map and no two were under way at
\* once, through rows that leave, come back and move up, and through a first flush that
\* died half-way.
NotesStayUntorn == ~ torn => NotesStayWithLead

\* When a flush is about to commit the sheet shows what it read: every listed key
\* once, with its values, and nothing else (unless it has just found its rows again, or
\* the tab is torn: two flushes at once both append the rows that are new).
SheetMirrors ==
  \A w \in Flushers :
    pc[w] = "commit" /\ ~ plan[w].seeded /\ ~ torn =>
      /\ {<<sheet[i].key, sheet[i].val>> : i \in DOMAIN sheet}
           = {<<k, plan[w].rows[k]>> : k \in Listed(plan[w].rows)}
      /\ Len(sheet) = Cardinality(Listed(plan[w].rows))
=============================================================================
