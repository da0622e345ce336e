------------------------------ MODULE LeadsProofs ------------------------------
(***************************************************************************)
(* What becomes of addresses, for any number of contacts, aliases, workers *)
(* and requests, and any bounds.                                           *)
(*                                                                         *)
(* The argument: a transaction decides on what it has read; as long as no  *)
(* other one has written to an address (it is not in clash), what each     *)
(* transaction in flight has read of it is what is committed.              *)
(***************************************************************************)
EXTENDS Leads, TLAPS

Statuses    == Decision!FinalStatuses
MsgStatuses == {"absent", "queued", "sent", "delivered", "replied", "soft_bounce"} \cup Terminal
Places      == {"idle", "store", "surface", "mark", "silence", "deliver", "reply", "insert"}
EditKinds   == {"none", "new", "live", "tombstoned"}

\* A transaction's own variables.
Typed(t) ==
  /\ t.pc \in Places
  /\ t.pc = "store" => t.contact \in Contacts /\ t.status \in Statuses
  /\ t.pc = "surface" =>
       /\ t.contact \in Contacts \cup {NoOne}
       /\ t.contact # NoOne => t.status \in Statuses
       /\ \A c \in Contacts : t.plan[c].to \in EditKinds
  /\ t.pc \in {"mark", "silence"} => t.msg \in Messages /\ t.notice \in NoticeType
  /\ t.pc \in {"deliver", "reply"} => t.msg \in Messages
  /\ t.pc = "insert" => t.address \in Addresses

TypeInv ==
  /\ final \in [Contacts -> Statuses \cup {"none"}]
  /\ checks \in [Contacts -> Seq(CheckType)] /\ leads \in [Contacts -> Seq(LeadStates)]
  /\ supp \in [Addresses -> Nat] /\ softs \in [Addresses -> Nat]
  /\ msgs \in [Messages -> [status : MsgStatuses, bounced : BOOLEAN, replied : BOOLEAN]]
  /\ mailbox \subseteq NoticeType /\ answered \subseteq Messages
  /\ lock \in [Contacts \cup Messages -> Procs \cup {NoOne}]
  /\ DOMAIN proc = Procs /\ \A p \in Procs : Typed(proc[p])
  /\ out \subseteq Contacts /\ clash \subseteq Addresses /\ seen \subseteq NoticeType

\* What a transaction read of addresses nobody else has written to since still holds.
Fresh(t) ==
  /\ t.pc \in {"store", "surface"} /\ t.contact \in Contacts \ clash =>
       t.read = final[t.contact] /\ (t.contact \in out => t.status = "SUPPRESSED")
  /\ t.pc = "surface" =>
       \A c \in Contacts \ clash : t.plan[c] \in LeadEdits(c, Sees(t, c))
  /\ t.pc \in {"mark", "silence"} /\ t.msg[1] \notin clash => msgs[t.msg].status \notin Terminal
  /\ t.pc = "silence" /\ t.notice.to \notin clash => (t.missing <=> supp[t.notice.to] = 0)
  /\ t.pc = "deliver" /\ t.msg[1] \notin clash => Undelivered(t.msg)
  /\ t.pc = "insert" /\ t.address \notin clash => supp[t.address] = 0

\* A bounced contact is suppressed, by a row and in its status, and not listed; no
\* contact is listed twice.
Right(c) ==
  /\ c \in out => supp[c] > 0 /\ final[c] = "SUPPRESSED" /\ Live(c) = {}
  /\ Len(leads[c]) <= 1

\* The outcome of a message and its flags agree.
Settles(m) ==
  /\ msgs[m].replied \/ msgs[m].bounced =>
       msgs[m].status \in {"replied", "soft_bounce"} \cup Terminal
  /\ msgs[m].status \in Terminal => msgs[m].bounced

IInv ==
  /\ TypeInv
  /\ \A p \in Procs : Fresh(proc[p])
  /\ \A c \in Contacts \ clash : Right(c)
  /\ \A a \in Addresses \ clash : supp[a] <= 1
  /\ \A m \in Messages : m[1] \notin clash => Settles(m)

-----------------------------------------------------------------------------
(* The decision                                                             *)

\* The gates of a sound address: only the suppression list can turn it down, and it does.
LEMMA Verdicts1 ==
  ASSUME NEW mv, NEW listed \in BOOLEAN
  PROVE  /\ VerdictOf(mv, listed) \in Statuses
         /\ listed => VerdictOf(mv, listed) = "SUPPRESSED"
<1> DEFINE rules == Decision!RulesFrom(Decision!DefaultRules)
           sig   == Decision!Signals(Sound, [llm |-> -1, mv |-> mv], {}, listed, rules)
           g     == Decision!Gates(sig, rules)
<1>1. rules.llm_mode = "advisory"
  BY DEF Decision!RulesFrom, Decision!DefaultRules, Decision!OneOf
<1> HIDE DEF rules
<1>2. /\ sig.suppressed = listed /\ sig.syntax_ok /\ sig.disposable_ok /\ ~ sig.role_based
      /\ sig.mx = "pass"
  BY DEF Decision!Signals, Sound
<1> HIDE DEF sig
<1>3. /\ DOMAIN g = 1 .. 6
      /\ g[1].fails = listed /\ g[1].status = "SUPPRESSED"
      /\ ~ g[2].fails /\ ~ g[3].fails /\ ~ g[4].fails /\ ~ g[5].fails /\ ~ g[6].fails
  <2>1. DOMAIN g = 1 .. 6
    BY DEF Decision!Gates
  <2>2. g[1].fails = sig.suppressed /\ g[1].status = "SUPPRESSED"
    BY DEF Decision!Gates
  <2>3. g[2].fails = ~ sig.syntax_ok /\ g[3].fails = ~ sig.disposable_ok
    BY DEF Decision!Gates
  <2>4. g[4].fails = (sig.role_based /\ ~ rules.allow_role_based) /\ g[5].fails = (sig.mx = "fail")
    BY DEF Decision!Gates
  <2>5. g[6].fails = (rules.llm_mode = "hard" /\ sig.llm \in 0 .. (rules.llm_threshold - 1))
    BY DEF Decision!Gates
  <2> HIDE DEF g
  <2>6. QED
    BY <1>1, <1>2, <2>1, <2>2, <2>3, <2>4, <2>5
<1>4. VerdictOf(mv, listed) = Decision!Decide(sig, rules)
  BY DEF VerdictOf, sig, rules
<1> HIDE DEF g
<1>5. CASE listed
  <2>1. \A i \in DOMAIN g : (g[i].fails /\ \A j \in 1 .. (i - 1) : ~ g[j].fails) <=> i = 1
    <3>1. g[1].fails /\ \A j \in 1 .. (1 - 1) : ~ g[j].fails
      BY <1>3, <1>5
    <3>2. ASSUME NEW i \in DOMAIN g, g[i].fails PROVE i = 1
      BY <1>3, <3>2
    <3>3. QED
      BY <1>3, <3>1, <3>2
  <2>2. Decision!FirstFailure(g) = 1
    BY <1>3, <2>1 DEF Decision!FirstFailure
  <2>3. Decision!Decide(sig, rules) = g[1].status
    <3>1. \E i \in DOMAIN g : g[i].fails
      <4>1. 1 \in DOMAIN g /\ g[1].fails
        BY <1>3, <1>5
      <4>2. QED
        BY <4>1
    <3>2. Decision!Decide(sig, rules) = g[Decision!FirstFailure(g)].status
      BY <3>1 DEF Decision!Decide, g
    <3>3. QED
      BY <2>2, <3>2
  <2>4. QED
    BY <1>3, <1>4, <1>5, <2>3 DEF Statuses, Decision!FinalStatuses
<1>6. CASE ~ listed
  <2>1. \A i \in DOMAIN g : ~ g[i].fails
    BY <1>3, <1>6
  <2>2. Decision!Decide(sig, rules) = Decision!VerifierVerdict(sig.mv, rules)
    BY <2>1 DEF Decision!Decide, g
  <2>3. Decision!VerifierVerdict(sig.mv, rules) \in Statuses
    BY DEF Decision!VerifierVerdict, Statuses, Decision!FinalStatuses
  <2>4. QED
    BY <1>4, <1>6, <2>2, <2>3
<1>7. QED
  BY <1>5, <1>6

\* The verdict of a contact.
LEMMA VerdictIs ==
  ASSUME TypeInv, NEW c \in Contacts, NEW mv
  PROVE  /\ Verdict(c, mv) \in Statuses
         /\ supp[c] > 0 => Verdict(c, mv) = "SUPPRESSED"
<1>1. Suppressed(c) \in BOOLEAN /\ (supp[c] > 0 => Suppressed(c))
  BY DEF Suppressed
<1>2. QED
  BY <1>1, Verdicts1 DEF Verdict

LEMMA Bounces ==
  ASSUME LeadsAssumption, NEW kind \in Kinds
  PROVE  BounceStatus(kind) \in {"soft_bounce"} \cup Terminal
<1>1. kind \in {"hard", "soft", "mailbox_full", "invalid_domain", "spam_rejected", "blocked",
                "rate_limited", "unknown"}
  BY DEF LeadsAssumption
<1>2. QED
  BY <1>1 DEF BounceStatus, Terminal

\* What is done about a contact's lead.
LEMMA EditsAre ==
  ASSUME NEW c \in Contacts, NEW status, NEW edit \in LeadEdits(c, status)
  PROVE  /\ edit.to \in EditKinds
         /\ edit.to \in {"new", "live"} => status = "VERIFIED"
         /\ edit.to = "new" => DOMAIN leads[c] = {}
  BY DEF LeadEdits, EditKinds, Decision!IsSalesReady

LEMMA PlansAre ==
  ASSUME NEW t, NEW plan \in Plans(t), NEW c \in Contacts
  PROVE  plan[c] \in LeadEdits(c, Sees(t, c))
  BY DEF Plans

\* An edit of a list of leads.
LEMMA EditedList ==
  ASSUME NEW list \in Seq(LeadStates), NEW edit, edit.to \in EditKinds
  PROVE  /\ Edited(list, edit) \in Seq(LeadStates)
         /\ edit.to # "new" => Len(Edited(list, edit)) = Len(list)
         /\ edit.to = "new" => Len(Edited(list, edit)) = Len(list) + 1
         /\ edit.to = "none" => Edited(list, edit) = list
         /\ edit.to \in {"none", "tombstoned"} => \A i \in DOMAIN Edited(list, edit) :
              i \in DOMAIN list /\ (Edited(list, edit)[i] = "live" => list[i] = "live")
<1> DEFINE new == Edited(list, edit)
<1>1. CASE edit.to = "none"
  BY <1>1 DEF Edited
<1>2. CASE edit.to = "new"
  BY <1>2 DEF Edited, LeadStates
<1>3. CASE edit.to \in {"live", "tombstoned"}
  <2>1. new = [list EXCEPT ![edit.row] = edit.to]
    BY <1>3 DEF Edited
  <2>2. edit.to \in LeadStates
    BY <1>3 DEF LeadStates
  <2> HIDE DEF new
  <2>3. DOMAIN new = DOMAIN list
        /\ \A i \in DOMAIN list : new[i] = IF i = edit.row THEN edit.to ELSE list[i]
    BY <2>1
  <2>4. new \in Seq(LeadStates) /\ Len(new) = Len(list)
    <3>1. DOMAIN list = 1 .. Len(list) /\ Len(list) \in Nat
      OBVIOUS
    <3>2. new = [i \in 1 .. Len(list) |-> new[i]]
      BY <2>1, <3>1
    <3>3. \A i \in 1 .. Len(list) : new[i] \in LeadStates
      <4>1. \A i \in 1 .. Len(list) : list[i] \in LeadStates
        BY <3>1
      <4>2. QED
        BY <2>2, <2>3, <3>1, <4>1
    <3>4. new \in [1 .. Len(list) -> LeadStates]
      BY <3>2, <3>3
    <3>5. QED
      BY <3>1, <3>4
  <2>5. QED
    BY <1>3, <2>2, <2>3, <2>4 DEF new
<1>4. QED
  BY <1>1, <1>2, <1>3 DEF EditKinds

-----------------------------------------------------------------------------
(* What a step must not disturb                                             *)

\* A message stays as it is, or is queued or sent.
Moves(m) ==
  \/ msgs'[m] = msgs[m]
  \/ /\ msgs[m].status \in {"absent", "queued"} /\ msgs'[m].status \in {"queued", "sent"}
     /\ msgs'[m].bounced = msgs[m].bounced /\ msgs'[m].replied = msgs[m].replied

\* A step leaves the rows of an address alone.
Same(a) ==
  /\ supp'[a] = supp[a]
  /\ a \in Contacts =>
       /\ final'[a] = final[a] /\ leads'[a] = leads[a] /\ (a \in out' => a \in out)
       /\ \A m \in Messages : m[1] = a => Moves(m)

LEMMA FreshStays ==
  ASSUME TypeInv, NEW q \in Procs, proc'[q] = proc[q], Fresh(proc[q]),
         clash \subseteq clash', \A a \in Touches(q) : a \notin clash' => Same(a)
  PROVE  Fresh(proc[q])'
<1> DEFINE t == proc[q]
<1>1. Typed(t)
  BY DEF TypeInv
<1>2. \A c \in Contacts : leads'[c] = leads[c] => \A s : LeadEdits(c, s)' = LeadEdits(c, s)
  BY DEF LeadEdits
<1>3. t.pc \in {"store", "surface"} /\ t.contact \in Contacts \ clash' =>
        t.read = final'[t.contact] /\ (t.contact \in out' => t.status = "SUPPRESSED")
  <2>1. SUFFICES ASSUME t.pc \in {"store", "surface"}, t.contact \in Contacts \ clash'
                 PROVE  t.read = final'[t.contact] /\ (t.contact \in out' => t.status = "SUPPRESSED")
    OBVIOUS
  <2>2. t.contact \in Touches(q)
    BY <2>1 DEF Touches
  <2>3. Same(t.contact) /\ t.contact \in Contacts \ clash
    BY <2>1, <2>2
  <2>4. QED
    BY <2>1, <2>3 DEF Same, Fresh
<1>4. t.pc = "surface" =>
        \A c \in Contacts \ clash' : t.plan[c] \in LeadEdits(c, Sees(t, c))'
  <2>1. SUFFICES ASSUME t.pc = "surface", NEW c \in Contacts \ clash'
                 PROVE  t.plan[c] \in LeadEdits(c, Sees(t, c))'
    OBVIOUS
  <2>2. c \in Touches(q)
    BY <2>1 DEF Touches
  <2>3. final'[c] = final[c] /\ leads'[c] = leads[c] /\ c \in Contacts \ clash
    BY <2>2 DEF Same
  <2>4. Sees(t, c)' = Sees(t, c)
    BY <2>3 DEF Sees
  <2>5. LeadEdits(c, Sees(t, c))' = LeadEdits(c, Sees(t, c))
    BY <1>2, <2>3, <2>4
  <2>6. QED
    BY <2>1, <2>3, <2>5 DEF Fresh
<1>5. t.pc \in {"mark", "silence"} /\ t.msg[1] \notin clash' => msgs'[t.msg].status \notin Terminal
  <2>1. SUFFICES ASSUME t.pc \in {"mark", "silence"}, t.msg[1] \notin clash'
                 PROVE  msgs'[t.msg].status \notin Terminal
    OBVIOUS
  <2>2. t.msg \in Messages /\ t.msg[1] \in Contacts /\ t.msg[1] \in Touches(q)
    BY <1>1, <2>1 DEF Typed, Touches, Messages
  <2>3. msgs[t.msg].status \notin Terminal /\ Moves(t.msg)
    BY <2>1, <2>2 DEF Same, Fresh
  <2>4. QED
    BY <2>3 DEF Moves, Terminal
<1>6. t.pc = "silence" /\ t.notice.to \notin clash' => (t.missing <=> supp'[t.notice.to] = 0)
  <2>1. SUFFICES ASSUME t.pc = "silence", t.notice.to \notin clash'
                 PROVE  t.missing <=> supp'[t.notice.to] = 0
    OBVIOUS
  <2>2. t.notice.to \in Touches(q)
    BY <2>1 DEF Touches
  <2>3. QED
    BY <2>1, <2>2 DEF Same, Fresh
<1>7. t.pc = "deliver" /\ t.msg[1] \notin clash' => Undelivered(t.msg)'
  <2>1. SUFFICES ASSUME t.pc = "deliver", t.msg[1] \notin clash' PROVE Undelivered(t.msg)'
    OBVIOUS
  <2>2. t.msg \in Messages /\ t.msg[1] \in Contacts /\ t.msg[1] \in Touches(q)
    BY <1>1, <2>1 DEF Typed, Touches, Messages
  <2>3. Undelivered(t.msg) /\ Moves(t.msg)
    BY <2>1, <2>2 DEF Same, Fresh
  <2>4. QED
    BY <2>3 DEF Moves, Undelivered
<1>8. t.pc = "insert" /\ t.address \notin clash' => supp'[t.address] = 0
  <2>1. SUFFICES ASSUME t.pc = "insert", t.address \notin clash' PROVE supp'[t.address] = 0
    OBVIOUS
  <2>2. t.address \in Touches(q)
    BY <2>1 DEF Touches
  <2>3. QED
    BY <2>1, <2>2 DEF Same, Fresh
<1>9. QED
  BY <1>3, <1>4, <1>5, <1>6, <1>7, <1>8 DEF Fresh

\* A step that writes to the addresses W, by transaction p (or from outside): what is left
\* to show of it.
Writes(p, W) ==
  /\ clash' = Clashing(p, W) /\ \A q \in Procs \ {p} : proc'[q] = proc[q]
  /\ \A a \in Addresses \ W : Same(a)

LEMMA StepKeeps ==
  ASSUME IInv, TypeInv', NEW p, NEW W, Writes(p, W),
         p \in Procs => Fresh(proc[p])',
         \A c \in Contacts \cap W : c \notin clash' => Right(c)',
         \A a \in Addresses \cap W : a \notin clash' => supp'[a] <= 1,
         \A m \in Messages : m[1] \in W /\ m[1] \notin clash' => Settles(m)'
  PROVE  IInv'
<1>1. clash \subseteq clash'
  BY DEF Writes, Clashing
<1>2. Contacts \subseteq Addresses /\ \A m \in Messages : m[1] \in Contacts
  BY DEF Addresses, Messages
<1>3. \A q \in Procs : Fresh(proc[q])'
  <2>1. SUFFICES ASSUME NEW q \in Procs, q # p PROVE Fresh(proc[q])'
    OBVIOUS
  <2>2. ASSUME NEW a \in Touches(q), a \notin clash' PROVE Same(a)
    <3>1. a \notin W
      BY <2>1, <2>2 DEF Writes, Clashing
    <3>2. a \in Addresses
      <4>1. Typed(proc[q])
        BY DEF IInv, TypeInv
      <4>2. QED
        BY <1>2, <2>2, <4>1 DEF Touches, Typed, Places, Messages, NoticeType, Addresses
    <3>3. QED
      BY <3>1, <3>2 DEF Writes
  <2>3. proc'[q] = proc[q] /\ Fresh(proc[q])
    BY <2>1 DEF Writes, IInv
  <2>4. QED
    BY <1>1, <2>2, <2>3, FreshStays DEF IInv
<1>4. \A c \in Contacts \ clash' : Right(c)'
  <2>1. SUFFICES ASSUME NEW c \in Contacts \ clash', c \notin W PROVE Right(c)'
    OBVIOUS
  <2>2. Same(c) /\ Right(c)
    BY <1>1, <1>2, <2>1 DEF Writes, IInv
  <2>3. QED
    BY <2>2 DEF Same, Right, Live
<1>5. \A a \in Addresses \ clash' : supp'[a] <= 1
  BY <1>1 DEF Writes, Same, IInv
<1>6. \A m \in Messages : m[1] \notin clash' => Settles(m)'
  <2>1. SUFFICES ASSUME NEW m \in Messages, m[1] \notin clash', m[1] \notin W PROVE Settles(m)'
    OBVIOUS
  <2>2. Moves(m) /\ Settles(m)
    BY <1>1, <1>2, <2>1 DEF Writes, Same, IInv
  <2>3. msgs[m].bounced \in BOOLEAN /\ msgs[m].replied \in BOOLEAN
    BY DEF IInv, TypeInv
  <2>4. QED
    BY <2>2, <2>3 DEF Moves, Settles, Terminal
<1>7. QED
  BY <1>3, <1>4, <1>5, <1>6 DEF IInv

\* A step that writes nothing another transaction may have read.
LEMMA ReadsOnly ==
  ASSUME IInv, TypeInv', NEW p, clash' = clash, UNCHANGED <<final, leads, supp, out>>,
         \A q \in Procs \ {p} : proc'[q] = proc[q], \A m \in Messages : Moves(m),
         p \in Procs => Fresh(proc[p])'
  PROVE  IInv'
<1>1. Writes(p, {})
  <2>1. \A a \in Addresses : Same(a)
    BY DEF Same
  <2>2. Clashing(p, {}) = clash
    BY DEF Clashing
  <2>3. QED
    BY <2>1, <2>2 DEF Writes
<1>2. QED
  BY <1>1, StepKeeps

-----------------------------------------------------------------------------
(* The steps                                                                *)

LEMMA InitIInv ==
  ASSUME LeadsAssumption, Init
  PROVE  IInv
<1>1. TypeInv
  <2>1. <<>> \in Seq(CheckType) /\ <<>> \in Seq(LeadStates)
    OBVIOUS
  <2>2. /\ checks \in [Contacts -> Seq(CheckType)] /\ leads \in [Contacts -> Seq(LeadStates)]
        /\ final \in [Contacts -> Statuses \cup {"none"}]
        /\ supp \in [Addresses -> Nat] /\ softs \in [Addresses -> Nat]
    BY <2>1 DEF Init
  <2>3. msgs \in [Messages -> [status : MsgStatuses, bounced : BOOLEAN, replied : BOOLEAN]]
    BY DEF Init, NoMsg, MsgStatuses
  <2>4. lock \in [Contacts \cup Messages -> Procs \cup {NoOne}]
    BY DEF Init
  <2>5. DOMAIN proc = Procs /\ \A p \in Procs : Typed(proc[p])
    BY DEF Init, Idle, Typed, Places
  <2>6. QED
    BY <2>2, <2>3, <2>4, <2>5 DEF Init, TypeInv
<1>2. \A p \in Procs : Fresh(proc[p])
  BY DEF Init, Idle, Fresh
<1>3. \A c \in Contacts : Right(c)
  BY DEF Init, Right
<1>4. \A a \in Addresses : supp[a] <= 1
  BY DEF Init
<1>5. \A m \in Messages : Settles(m)
  BY DEF Init, NoMsg, Settles, Terminal
<1>6. QED
  BY <1>1, <1>2, <1>3, <1>4, <1>5 DEF IInv

\* Transaction p goes on as t.
LEMMA ProcIs ==
  ASSUME TypeInv, NEW p \in Procs, NEW t, Typed(t), proc' = [proc EXCEPT ![p] = t]
  PROVE  /\ DOMAIN proc' = Procs /\ \A q \in Procs : Typed(proc'[q])
         /\ proc'[p] = t /\ \A q \in Procs \ {p} : proc'[q] = proc[q]
  BY DEF TypeInv

LEMMA IdleIs == Typed(Idle) /\ Idle.pc = "idle"
  BY DEF Typed, Idle, Places

\* What the outside does to messages: they are queued and sent.
LEMMA MailMoves ==
  ASSUME IInv, Outside
  PROVE  /\ UNCHANGED <<final, checks, leads, supp, softs, lock, proc, out, clash, seen>>
         /\ msgs' \in [Messages -> [status : MsgStatuses, bounced : BOOLEAN, replied : BOOLEAN]]
         /\ \A m \in Messages : Moves(m)
<1>1. /\ UNCHANGED <<final, checks, leads, supp, softs, lock, proc, out, clash, seen>>
      /\ \/ UNCHANGED msgs
         \/ \E c \in Contacts, n \in Mails : QueueMail(c, n)
         \/ \E m \in Messages : SendMail(m)
  <2>1. CASE \E n \in NoticeType : NoticeArrives(n)
    BY <2>1 DEF NoticeArrives, rows, history
  <2>2. CASE \E n \in mailbox : NoticeExpires(n)
    BY <2>2 DEF NoticeExpires, rows, history
  <2>3. CASE \E m \in Messages : Answer(m)
    BY <2>3 DEF Answer, rows, history
  <2>4. CASE \E c \in Contacts, n \in Mails : QueueMail(c, n)
    BY <2>4 DEF QueueMail, history
  <2>5. CASE \E m \in Messages : SendMail(m)
    <3>1. PICK m \in Messages : SendMail(m)
      BY <2>5
    <3>2. UNCHANGED <<final, checks, leads, supp, softs, lock, proc, out, clash, seen>>
      BY <3>1 DEF SendMail, history
    <3>3. QED
      BY <2>5, <3>2
  <2>6. QED
    BY <2>1, <2>2, <2>3, <2>4, <2>5 DEF Outside
<1>2. /\ msgs' \in [Messages -> [status : MsgStatuses, bounced : BOOLEAN, replied : BOOLEAN]]
      /\ \A m \in Messages : Moves(m)
  <2>1. ASSUME NEW o \in Messages, NEW s \in {"queued", "sent"},
               msgs[o].status \in {"absent", "queued"}, msgs' = [msgs EXCEPT ![o].status = s]
        PROVE  /\ msgs' \in [Messages -> [status : MsgStatuses, bounced : BOOLEAN, replied : BOOLEAN]]
               /\ \A m \in Messages : Moves(m)
    <3>1. msgs[o] \in [status : MsgStatuses, bounced : BOOLEAN, replied : BOOLEAN]
          /\ s \in MsgStatuses
      BY DEF IInv, TypeInv, MsgStatuses
    <3>2. \A m \in Messages : msgs'[m] = IF m = o THEN [msgs[o] EXCEPT !.status = s] ELSE msgs[m]
      BY <2>1 DEF IInv, TypeInv
    <3>3. [msgs[o] EXCEPT !.status = s] \in [status : MsgStatuses, bounced : BOOLEAN, replied : BOOLEAN]
      BY <3>1
    <3>4. msgs' \in [Messages -> [status : MsgStatuses, bounced : BOOLEAN, replied : BOOLEAN]]
      BY <2>1, <3>3 DEF IInv, TypeInv
    <3>5. QED
      BY <2>1, <3>1, <3>2, <3>4 DEF Moves
  <2>2. CASE UNCHANGED msgs
    BY <2>2 DEF Moves, IInv, TypeInv
  <2>3. CASE \E c \in Contacts, n \in Mails : QueueMail(c, n)
    <3>1. PICK c \in Contacts, n \in Mails : QueueMail(c, n)
      BY <2>3
    <3>2. <<c, n>> \in Messages
      BY DEF Messages
    <3>3. QED
      BY <2>1, <3>1, <3>2 DEF QueueMail
  <2>4. CASE \E m \in Messages : SendMail(m)
    BY <2>1, <2>4 DEF SendMail
  <2>5. QED
    BY <1>1, <2>2, <2>3, <2>4
<1>3. QED
  BY <1>1, <1>2

LEMMA MailStep ==
  ASSUME IInv, Outside
  PROVE  IInv'
<1>1. UNCHANGED <<final, checks, leads, supp, softs, lock, proc, out, clash, seen>>
  BY MailMoves
<1>2. /\ msgs' \in [Messages -> [status : MsgStatuses, bounced : BOOLEAN, replied : BOOLEAN]]
      /\ \A m \in Messages : Moves(m)
  BY MailMoves
<1>3. mailbox' \subseteq NoticeType /\ answered' \subseteq Messages
  <2>1. CASE \E n \in NoticeType : NoticeArrives(n)
    BY <2>1 DEF NoticeArrives, rows, history, IInv, TypeInv
  <2>2. CASE \E n \in mailbox : NoticeExpires(n)
    BY <2>2 DEF NoticeExpires, rows, history, IInv, TypeInv
  <2>3. CASE \E m \in Messages : Answer(m)
    BY <2>3 DEF Answer, rows, history, IInv, TypeInv
  <2>4. CASE (\E c \in Contacts, n \in Mails : QueueMail(c, n)) \/ \E m \in Messages : SendMail(m)
    BY <2>4 DEF QueueMail, SendMail, world, IInv, TypeInv
  <2>5. QED
    BY <2>1, <2>2, <2>3, <2>4 DEF Outside
<1>4. TypeInv'
  BY <1>1, <1>2, <1>3 DEF IInv, TypeInv
<1>5. NoOne \in Procs => Fresh(proc[NoOne])'
  <2>1. SUFFICES ASSUME NoOne \in Procs PROVE Fresh(proc[NoOne])'
    OBVIOUS
  <2>2. \A a \in Addresses : Same(a)
    BY <1>1, <1>2 DEF Same
  <2>3. \A a \in Touches(NoOne) : a \in Addresses
    BY <2>1 DEF Touches, IInv, TypeInv, Typed, Places, Messages, NoticeType, Addresses
  <2>4. QED
    BY <1>1, <2>1, <2>2, <2>3, FreshStays DEF IInv
<1>6. QED
  BY <1>1, <1>2, <1>4, <1>5, ReadsOnly

\* A transaction begins or goes on, and nothing of it is committed.
LEMMA BeginStep ==
  ASSUME IInv, NEW p \in Procs, NEW t, Typed(t), Fresh(t), proc' = [proc EXCEPT ![p] = t],
         lock' \in [Contacts \cup Messages -> Procs \cup {NoOne}],
         UNCHANGED <<final, checks, leads, supp, msgs, softs, mailbox, answered, out, clash, seen>>
  PROVE  IInv'
<1>1. /\ DOMAIN proc' = Procs /\ \A q \in Procs : Typed(proc'[q])
      /\ proc'[p] = t /\ \A q \in Procs \ {p} : proc'[q] = proc[q]
  BY ProcIs DEF IInv
<1>2. TypeInv'
  BY <1>1 DEF IInv, TypeInv
<1>3. Fresh(t)'
  BY ZenonT(30) DEF Fresh, LeadEdits, Sees, Undelivered
<1>4. Fresh(proc[p])'
  BY <1>1, <1>3
<1>5. QED
  BY <1>1, <1>2, <1>4, ReadsOnly DEF Moves

LEMMA AskStep ==
  ASSUME IInv, NEW p \in Procs, NEW c \in Contacts, NEW how, NEW k, Ask(p, c, how, k)
  PROVE  IInv'
<1>1. PICK mv \in Verdicts :
        proc' = [proc EXCEPT ![p] = [pc |-> "store", contact |-> c, how |-> how, check |-> k,
                                     read |-> final[c], status |-> Verdict(c, mv)]]
  BY DEF Ask
<1>2. PICK t : t = [pc |-> "store", contact |-> c, how |-> how, check |-> k,
                    read |-> final[c], status |-> Verdict(c, mv)]
  OBVIOUS
<1>3. /\ Verdict(c, mv) \in Statuses
      /\ supp[c] > 0 => Verdict(c, mv) = "SUPPRESSED"
  BY VerdictIs DEF IInv
<1>4. Typed(t)
  BY <1>2, <1>3 DEF Typed, Places
<1>5. Fresh(t)
  BY <1>2, <1>3 DEF Fresh, IInv, Right
<1>6. /\ UNCHANGED <<final, checks, leads, supp, msgs, softs, mailbox, answered, out, clash, seen>>
      /\ lock' = lock
  BY DEF Ask, rows, world, history
<1>7. QED
  BY <1>1, <1>2, <1>4, <1>5, <1>6, BeginStep DEF IInv, TypeInv

LEMMA StoreStep ==
  ASSUME IInv, NEW p \in Procs, Store(p)
  PROVE  IInv'
<1> DEFINE o == proc[p]
<1>1. PICK plan \in Plans(o) :
        proc' = [proc EXCEPT ![p] = [pc |-> "surface", plan |-> plan, contact |-> o.contact,
                                     how |-> o.how, check |-> o.check,
                                     read |-> o.read, status |-> o.status]]
  BY DEF Store
<1>2. PICK t : t = [pc |-> "surface", plan |-> plan, contact |-> o.contact, how |-> o.how,
                    check |-> o.check, read |-> o.read, status |-> o.status]
  OBVIOUS
<1>3. o.pc = "store" /\ Typed(o) /\ Fresh(o) /\ o.contact \in Contacts /\ o.status \in Statuses
  BY DEF Store, IInv, TypeInv, Typed
<1>4. \A c \in Contacts : plan[c] \in LeadEdits(c, Sees(o, c)) /\ Sees(t, c) = Sees(o, c)
  BY <1>2, PlansAre DEF Sees
<1>5. Typed(t)
  BY <1>2, <1>3, <1>4, EditsAre DEF Typed, Places
<1>6. Fresh(t)
  BY <1>2, <1>3, <1>4 DEF Fresh
<1>7. /\ UNCHANGED <<final, checks, leads, supp, msgs, softs, mailbox, answered, out, clash, seen>>
      /\ lock' \in [Contacts \cup Messages -> Procs \cup {NoOne}]
  BY <1>3 DEF Store, rows, world, history, IInv, TypeInv
<1>8. QED
  BY <1>1, <1>2, <1>5, <1>6, <1>7, BeginStep

LEMMA SalesReadyStageStep ==
  ASSUME LeadsAssumption, IInv, NEW w \in Procs, SalesReadyStage(w)
  PROVE  IInv'
<1>1. PICK plan \in Plans([contact |-> NoOne]) :
        proc' = [proc EXCEPT ![w] = [pc |-> "surface", plan |-> plan, contact |-> NoOne,
                                     how |-> "stage"]]
  BY DEF SalesReadyStage
<1>2. PICK t : t = [pc |-> "surface", plan |-> plan, contact |-> NoOne, how |-> "stage"]
  OBVIOUS
<1>3. \A c \in Contacts : plan[c] \in LeadEdits(c, final[c]) /\ Sees(t, c) = final[c]
  BY <1>2, PlansAre DEF Sees, LeadsAssumption
<1>4. Typed(t)
  BY <1>2, <1>3, EditsAre DEF Typed, Places
<1>5. Fresh(t)
  BY <1>2, <1>3 DEF Fresh, LeadsAssumption
<1>6. /\ UNCHANGED <<final, checks, leads, supp, msgs, softs, mailbox, answered, out, clash, seen>>
      /\ lock' = lock
  BY DEF SalesReadyStage, rows, world, history
<1>7. QED
  BY <1>1, <1>2, <1>4, <1>5, <1>6, BeginStep DEF IInv, TypeInv

LEMMA LookNoticeStep ==
  ASSUME IInv, NEW w \in Procs, NEW n \in mailbox, LookNotice(w, n)
  PROVE  IInv'
<1>1. PICK m \in Match(n) :
        TakeUp(m) /\ proc' = [proc EXCEPT ![w] = [pc |-> "mark", msg |-> m, notice |-> n]]
  BY DEF LookNotice
<1>2. PICK t : t = [pc |-> "mark", msg |-> m, notice |-> n]
  OBVIOUS
<1>3. n \in NoticeType /\ m \in Messages /\ m[1] \in Contacts
  BY <1>1 DEF IInv, TypeInv, NoticeType, Match, Messages
<1>4. Typed(t)
  BY <1>2, <1>3 DEF Typed, Places
<1>5. m[1] \notin clash => msgs[m].status \notin Terminal
  BY <1>1, <1>3 DEF IInv, Settles, TakeUp
<1>6. Fresh(t)
  BY <1>2, <1>5 DEF Fresh
<1>7. /\ UNCHANGED <<final, checks, leads, supp, msgs, softs, mailbox, answered, out, clash, seen>>
      /\ lock' = lock
  BY DEF LookNotice, rows, world, history
<1>8. QED
  BY <1>1, <1>2, <1>4, <1>6, <1>7, BeginStep DEF IInv, TypeInv

LEMMA MarkStep ==
  ASSUME IInv, NEW w \in Procs, Mark(w)
  PROVE  IInv'
<1> DEFINE o == proc[w]
<1>1. PICK t : t = [pc |-> "silence", msg |-> o.msg, notice |-> o.notice,
                    silenced |-> Silences(o.notice, softs[o.notice.to] + SoftOf(o.notice)),
                    missing |-> supp[o.notice.to] = 0]
  OBVIOUS
<1>2. /\ t.pc = "silence" /\ t.msg = o.msg /\ t.notice = o.notice
      /\ t.missing = (supp[o.notice.to] = 0)
  BY <1>1
<1>3. o.pc = "mark" /\ o.msg \in Messages /\ o.notice \in NoticeType /\ Fresh(o)
  BY DEF Mark, IInv, TypeInv, Typed
<1>4. Typed(t) /\ Fresh(t)
  BY <1>2, <1>3 DEF Typed, Places, Fresh
<1>5. /\ UNCHANGED <<final, checks, leads, supp, msgs, softs, mailbox, answered, out, clash, seen>>
      /\ lock' \in [Contacts \cup Messages -> Procs \cup {NoOne}]
      /\ proc' = [proc EXCEPT ![w] = t]
  BY <1>1, <1>3 DEF Mark, rows, world, history, IInv, TypeInv
<1>6. QED
  BY <1>4, <1>5, BeginStep

LEMMA LookStep ==
  ASSUME IInv, NEW p \in Procs,
         (\E m \in Messages : Classify(p, m) \/ LookReply(p, m)) \/ (\E a \in Addresses : LookSuppression(p, a))
  PROVE  IInv'
<1>1. \E t : Typed(t) /\ Fresh(t) /\ proc' = [proc EXCEPT ![p] = t]
  <2>1. ASSUME NEW m \in Messages, Classify(p, m)
        PROVE  \E t : Typed(t) /\ Fresh(t) /\ proc' = [proc EXCEPT ![p] = t]
    <3>1. PICK t : t = [pc |-> "deliver", msg |-> m]
      OBVIOUS
    <3>2. Typed(t) /\ Fresh(t) /\ proc' = [proc EXCEPT ![p] = t]
      BY <2>1, <3>1 DEF Typed, Fresh, Places, Classify
    <3>3. QED
      BY <3>2
  <2>2. ASSUME NEW m \in Messages, LookReply(p, m)
        PROVE  \E t : Typed(t) /\ Fresh(t) /\ proc' = [proc EXCEPT ![p] = t]
    <3>1. PICK t : t = [pc |-> "reply", msg |-> m]
      OBVIOUS
    <3>2. Typed(t) /\ Fresh(t) /\ proc' = [proc EXCEPT ![p] = t]
      BY <2>2, <3>1 DEF Typed, Fresh, Places, LookReply
    <3>3. QED
      BY <3>2
  <2>3. ASSUME NEW a \in Addresses, LookSuppression(p, a)
        PROVE  \E t : Typed(t) /\ Fresh(t) /\ proc' = [proc EXCEPT ![p] = t]
    <3>1. PICK t : t = [pc |-> "insert", address |-> a]
      OBVIOUS
    <3>2. Typed(t) /\ Fresh(t) /\ proc' = [proc EXCEPT ![p] = t]
      BY <2>3, <3>1 DEF Typed, Fresh, Places, LookSuppression
    <3>3. QED
      BY <3>2
  <2>4. QED
    BY <2>1, <2>2, <2>3
<1>2. /\ UNCHANGED <<final, checks, leads, supp, msgs, softs, mailbox, answered, out, clash, seen>>
      /\ lock' = lock
  BY DEF Classify, LookReply, LookSuppression, rows, world, history
<1>3. QED
  BY <1>1, <1>2, BeginStep DEF IInv, TypeInv

LEMMA Unlocks ==
  ASSUME TypeInv, NEW p
  PROVE  Unlocked(p) \in [Contacts \cup Messages -> Procs \cup {NoOne}]
  BY DEF TypeInv, Unlocked

LEMMA WorkerLostStep ==
  ASSUME IInv, NEW w \in Procs, WorkerLost(w)
  PROVE  IInv'
<1>1. PICK t : t = Idle
  OBVIOUS
<1>2. Typed(t) /\ Fresh(t)
  BY <1>1, IdleIs DEF Fresh
<1>3. /\ UNCHANGED <<final, checks, leads, supp, msgs, softs, mailbox, answered, out, clash, seen>>
      /\ lock' \in [Contacts \cup Messages -> Procs \cup {NoOne}] /\ proc' = [proc EXCEPT ![w] = t]
  BY <1>1, Unlocks DEF WorkerLost, rows, world, history, IInv
<1>4. QED
  BY <1>2, <1>3, BeginStep

-----------------------------------------------------------------------------
(* The commits                                                              *)

\* What a validation stores: the contact's status, unless the row needs no write, and a
\* check.
LEMMA Stored ==
  ASSUME TypeInv, NEW t, t.pc \in {"store", "surface"}, Typed(t)
  PROVE  /\ Settled(t) \in [Contacts -> Statuses \cup {"none"}]
         /\ \A c \in Contacts : c # t.contact => Settled(t)[c] = final[c]
         /\ t.contact \in Contacts => Settled(t)[t.contact] \in {t.status, final[t.contact]}
         /\ t.contact \in Contacts /\ t.contact # NoOne /\ t.read = final[t.contact] =>
              Settled(t)[t.contact] = t.status
         /\ Checked(t) \in [Contacts -> Seq(CheckType)]
<1> DEFINE c == t.contact
<1>1. c # NoOne => c \in Contacts /\ t.status \in Statuses
  BY DEF Typed
<1>2. CASE c = NoOne
  BY <1>2 DEF Settled, WritesContact, Checked, TypeInv
<1>3. CASE c # NoOne
  <2>1. c \in Contacts /\ t.status \in Statuses
    BY <1>1, <1>3
  <2>2. Settled(t) \in [Contacts -> Statuses \cup {"none"}]
    BY <2>1 DEF Settled, TypeInv
  <2>3. \A d \in Contacts : Settled(t)[d] =
          IF d = c /\ WritesContact(t) /\ t.status # t.read THEN t.status ELSE final[d]
    BY <2>1 DEF Settled, TypeInv
  <2>4. t.read = final[c] => Settled(t)[c] = t.status
    BY <1>3, <2>1, <2>3 DEF WritesContact
  <2>5. Checked(t) \in [Contacts -> Seq(CheckType)]
    <3>1. checks[c] \in Seq(CheckType) /\ checks \in [Contacts -> Seq(CheckType)]
      BY <2>1 DEF TypeInv
    <3>2. CASE t.how = "retry"
      <4> DEFINE k   == t.check
                 new == [checks[c] EXCEPT ![k] = [final |-> t.status, retries |-> @.retries + 1]]
                 n   == Len(checks[c])
      <4>1. DOMAIN checks[c] = 1 .. n /\ n \in Nat /\ \A i \in 1 .. n : checks[c][i] \in CheckType
        BY <3>1
      <4>2. new = [i \in 1 .. n |-> new[i]]
        BY <4>1
      <4>3. \A i \in 1 .. n : new[i] \in CheckType
        <5>1. TAKE i \in 1 .. n
        <5>2. CASE i # k
          <6>1. new[i] = checks[c][i]
            BY <4>1, <5>2
          <6>2. QED
            BY <4>1, <6>1
        <5>3. CASE i = k
          <6>1. new[i] = [final |-> t.status, retries |-> checks[c][i].retries + 1]
            BY <4>1, <5>3
          <6>2. checks[c][i].retries \in Nat
            BY <4>1 DEF CheckType
          <6>3. QED
            BY <2>1, <6>1, <6>2 DEF CheckType, Statuses
        <5>4. QED
          BY <5>2, <5>3
      <4> HIDE DEF new
      <4>4. new \in [1 .. n -> CheckType]
        BY <4>2, <4>3
      <4>5. new \in Seq(CheckType)
        BY <4>1, <4>4
      <4>6. Checked(t) = [checks EXCEPT ![c] = new]
        BY <1>3, <2>1, <3>1, <3>2 DEF Checked, new
      <4>7. QED
        BY <2>1, <3>1, <4>5, <4>6
    <3>3. CASE t.how # "retry"
      <4> DEFINE new == Append(checks[c], [final |-> t.status, retries |-> 0])
      <4>1. [final |-> t.status, retries |-> 0] \in CheckType
        BY <2>1 DEF CheckType, Statuses
      <4>2. new \in Seq(CheckType)
        BY <3>1, <4>1
      <4>3. Checked(t) = [checks EXCEPT ![c] = new]
        BY <1>3, <2>1, <3>1, <3>3 DEF Checked
      <4> HIDE DEF new
      <4>4. QED
        BY <2>1, <3>1, <4>2, <4>3
    <3>4. QED
      BY <3>2, <3>3
  <2>6. QED
    BY <1>3, <2>1, <2>2, <2>3, <2>4, <2>5
<1>4. QED
  BY <1>2, <1>3

\* Transaction p is over; its writes were to the addresses W.
RowsTyped ==
  /\ final \in [Contacts -> Statuses \cup {"none"}]
  /\ checks \in [Contacts -> Seq(CheckType)] /\ leads \in [Contacts -> Seq(LeadStates)]
  /\ supp \in [Addresses -> Nat] /\ softs \in [Addresses -> Nat]
  /\ msgs \in [Messages -> [status : MsgStatuses, bounced : BOOLEAN, replied : BOOLEAN]]

Commits(p, W) ==
  /\ W \subseteq Addresses /\ proc' = [proc EXCEPT ![p] = Idle] /\ clash' = Clashing(p, W)
  /\ \A a \in Addresses \ W : Same(a)
  /\ UNCHANGED <<mailbox, answered>>
  /\ lock' \in [Contacts \cup Messages -> Procs \cup {NoOne}]
  /\ out' \subseteq Contacts /\ seen' \subseteq NoticeType
  /\ \A c \in Contacts \cap W : c \notin clash' => Right(c)'
  /\ \A a \in Addresses \cap W : a \notin clash' => supp'[a] <= 1
  /\ \A m \in Messages : m[1] \in W /\ m[1] \notin clash' => Settles(m)'

LEMMA OverStep ==
  ASSUME IInv, NEW p \in Procs, NEW W, Commits(p, W), RowsTyped'
  PROVE  IInv'
<1>1. Typed(Idle) /\ Idle.pc = "idle"
  BY IdleIs
<1>2. /\ DOMAIN proc' = Procs /\ (\A q \in Procs : Typed(proc'[q]))
      /\ proc'[p] = Idle /\ \A q \in Procs \ {p} : proc'[q] = proc[q]
  BY <1>1, ProcIs DEF IInv, Commits
<1>3. clash' \subseteq Addresses
  BY DEF Clashing, IInv, TypeInv, Commits
<1>4. TypeInv'
  BY <1>2, <1>3 DEF IInv, TypeInv, Commits, RowsTyped
<1>5. Fresh(proc[p])'
  BY <1>1, <1>2 DEF Fresh
<1>6. Writes(p, W)
  BY <1>2 DEF Writes, Commits
<1>7. QED
  BY <1>4, <1>5, <1>6, StepKeeps DEF Commits

LEMMA StageStoreStep ==
  ASSUME IInv, NEW w \in Procs, StageStore(w)
  PROVE  IInv'
<1> DEFINE t == proc[w]
<1>a. PICK c : c = t.contact
  OBVIOUS
<1>1. t.pc = "store" /\ Typed(t) /\ Fresh(t) /\ c \in Contacts /\ t.status \in Statuses
  BY <1>a DEF StageStore, IInv, TypeInv, Typed
<1>2. final' = Settled(t) /\ checks' = Checked(t) /\ clash' = Clashing(w, {c})
      /\ proc' = [proc EXCEPT ![w] = Idle]
      /\ UNCHANGED <<leads, supp, msgs, softs, mailbox, answered, lock, out, seen>>
  BY <1>a DEF StageStore, world
<1>3. /\ final' \in [Contacts -> Statuses \cup {"none"}]
      /\ \A d \in Contacts : d # c => final'[d] = final[d]
      /\ final'[c] \in {t.status, final[c]}
      /\ checks' \in [Contacts -> Seq(CheckType)]
  BY <1>a, <1>1, <1>2, Stored DEF IInv
<1>4. \A a \in Addresses \ {c} : Same(a)
  BY <1>2, <1>3 DEF Same, Moves
<1>5. c \notin clash' => c \notin clash
  BY <1>2 DEF Clashing
<1>6. c \notin clash' => Right(c)'
  <2>1. SUFFICES ASSUME c \notin clash PROVE Right(c)'
    BY <1>5
  <2>2. Right(c) /\ (c \in out => t.status = "SUPPRESSED")
    BY <1>a, <1>1, <2>1 DEF IInv, Fresh
  <2>3. Live(c)' = Live(c) /\ leads' = leads /\ supp' = supp /\ out' = out
    BY <1>2 DEF Live
  <2>4. c \in out => final'[c] = "SUPPRESSED"
    BY <1>3, <2>2 DEF Right
  <2>5. QED
    BY <2>2, <2>3, <2>4 DEF Right
<1>7. c \notin clash' => supp'[c] <= 1 /\ \A m \in Messages : m[1] = c => Settles(m)'
  BY <1>1, <1>2, <1>5 DEF IInv, Settles, Addresses
<1>8. {c} \in SUBSET Addresses
  BY <1>1 DEF Addresses
<1>9. RowsTyped'
  BY <1>2, <1>3 DEF IInv, TypeInv, RowsTyped
<1>10. /\ lock' \in [Contacts \cup Messages -> Procs \cup {NoOne}]
       /\ out' \subseteq Contacts /\ seen' \subseteq NoticeType
  BY <1>2 DEF IInv, TypeInv
<1> HIDE DEF t
<1>11. Commits(w, {c})
  BY <1>2, <1>4, <1>6, <1>7, <1>8, <1>10 DEF Commits
<1>12. QED
  BY <1>9, <1>11, OverStep

\* What a recomputation does to the leads and the status of a contact nobody else has
\* written to.
LEMMA Surfaced ==
  ASSUME LeadsAssumption, IInv, NEW p \in Procs, proc[p].pc = "surface", Surface(p),
         NEW c \in Contacts, c \notin clash
  PROVE  LET e == proc[p].plan[c] IN
         /\ leads'[c] = Edited(leads[c], e) /\ e.to \in EditKinds
         /\ e.to \in {"new", "live"} => final'[c] = "VERIFIED"
         /\ e.to = "new" => Len(leads[c]) = 0
         /\ c \in out => final'[c] = "SUPPRESSED"
<1> DEFINE t == proc[p]
           e == t.plan[c]
<1>1. Typed(t) /\ Fresh(t)
  BY DEF IInv, TypeInv
<1>2. final' = Settled(t) /\ leads'[c] = Edited(leads[c], e)
  BY DEF Surface
<1>3. e \in LeadEdits(c, Sees(t, c))
  BY <1>1 DEF Fresh
<1>4. /\ e.to \in EditKinds /\ (e.to \in {"new", "live"} => Sees(t, c) = "VERIFIED")
      /\ e.to = "new" => DOMAIN leads[c] = {}
  BY <1>3, EditsAre
<1>5. final'[c] = Sees(t, c)
  <2>1. CASE t.contact = c
    <3>1. t.read = final[c] /\ c # NoOne
      BY <1>1, <2>1 DEF Fresh, LeadsAssumption
    <3>2. QED
      BY <1>1, <1>2, <2>1, <3>1, Stored DEF Sees, IInv
  <2>2. CASE t.contact # c
    BY <1>1, <1>2, <2>2, Stored DEF Sees, IInv
  <2>3. QED
    BY <2>1, <2>2
<1>6. e.to = "new" => Len(leads[c]) = 0
  <2>1. leads[c] \in Seq(LeadStates)
    BY DEF IInv, TypeInv
  <2>2. DOMAIN leads[c] = 1 .. Len(leads[c]) /\ Len(leads[c]) \in Nat
    BY <2>1
  <2>3. Len(leads[c]) # 0 => 1 \in DOMAIN leads[c]
    BY <2>2
  <2>4. QED
    BY <1>4, <2>3
<1>7. c \in out => Sees(t, c) = "SUPPRESSED"
  BY <1>1 DEF Fresh, Sees, IInv, Right
<1>8. QED
  BY <1>2, <1>4, <1>5, <1>6, <1>7

LEMMA SurfaceStep ==
  ASSUME LeadsAssumption, IInv, NEW p \in Procs, proc[p].pc = "surface", Surface(p)
  PROVE  IInv'
<1> DEFINE t == proc[p]
           W == {c \in Contacts : t.plan[c].to # "none"} \cup ({t.contact} \ {NoOne})
<1>1. Typed(t) /\ Fresh(t)
  BY DEF IInv, TypeInv
<1>2. /\ leads' = [c \in Contacts |-> Edited(leads[c], t.plan[c])]
      /\ final' = Settled(t) /\ checks' = Checked(t) /\ clash' = Clashing(p, W)
      /\ lock' = Unlocked(p) /\ proc' = [proc EXCEPT ![p] = Idle]
      /\ UNCHANGED <<supp, msgs, softs, mailbox, answered, out, seen>>
  BY DEF Surface, world
<1>3. W \in SUBSET Addresses /\ W \subseteq Contacts
  BY <1>1 DEF Typed, Addresses
<1>4. /\ final' \in [Contacts -> Statuses \cup {"none"}]
      /\ checks' \in [Contacts -> Seq(CheckType)]
      /\ \A c \in Contacts : c # t.contact => final'[c] = final[c]
  BY <1>1, <1>2, Stored DEF IInv
<1>5. \A c \in Contacts : t.plan[c].to \in EditKinds /\ leads[c] \in Seq(LeadStates)
  BY <1>1 DEF Typed, IInv, TypeInv
<1>6. leads' \in [Contacts -> Seq(LeadStates)]
  BY <1>2, <1>5, EditedList
<1>7. ASSUME NEW a \in Addresses \ W PROVE Same(a)
  <2>1. ASSUME a \in Contacts PROVE final'[a] = final[a] /\ leads'[a] = leads[a]
    <3>1. t.plan[a].to = "none" /\ (a # t.contact \/ a = NoOne)
      BY <1>7, <2>1
    <3>2. a # t.contact
      BY <2>1, <3>1 DEF LeadsAssumption
    <3>3. QED
      BY <1>2, <1>4, <1>5, <2>1, <3>1, <3>2, EditedList
  <2>2. QED
    BY <1>2, <2>1 DEF Same, Moves
<1>8. clash \subseteq clash'
  BY <1>2 DEF Clashing
<1>9. ASSUME NEW c \in Contacts, c \notin clash' PROVE Right(c)'
  <2> DEFINE e == t.plan[c]
  <2>1. /\ leads'[c] = Edited(leads[c], e) /\ e.to \in EditKinds
        /\ e.to \in {"new", "live"} => final'[c] = "VERIFIED"
        /\ e.to = "new" => Len(leads[c]) = 0
        /\ c \in out => final'[c] = "SUPPRESSED"
    BY <1>8, <1>9, Surfaced
  <2>2. Right(c)
    BY <1>8, <1>9 DEF IInv
  <2>3. leads[c] \in Seq(LeadStates)
    BY <1>5
  <2> HIDE DEF e
  <2>4. Len(leads'[c]) <= 1
    BY <2>1, <2>2, <2>3, EditedList DEF Right
  <2>5. c \in out => Live(c)' = {}
    <3>1. SUFFICES ASSUME c \in out PROVE Live(c)' = {}
      OBVIOUS
    <3>2. e.to \in {"none", "tombstoned"}
      BY <2>1, <3>1 DEF EditKinds
    <3>3. \A i \in DOMAIN leads[c] : leads[c][i] # "live"
      BY <2>2, <3>1 DEF Right, Live
    <3>4. QED
      BY <2>1, <2>3, <3>2, <3>3, EditedList DEF Live
  <2>6. QED
    BY <1>2, <2>1, <2>2, <2>4, <2>5 DEF Right
<1>10. \A a \in Addresses \cap W : a \notin clash' => supp'[a] <= 1
  BY <1>2, <1>8 DEF IInv
<1>11. \A m \in Messages : m[1] \in W /\ m[1] \notin clash' => Settles(m)'
  BY <1>2, <1>8 DEF IInv, Settles
<1>12. RowsTyped'
  BY <1>2, <1>4, <1>6 DEF IInv, TypeInv, RowsTyped
<1>13. /\ lock' \in [Contacts \cup Messages -> Procs \cup {NoOne}]
       /\ out' \subseteq Contacts /\ seen' \subseteq NoticeType
  BY <1>2, Unlocks DEF IInv, TypeInv
<1> HIDE DEF t, W
<1>14. Commits(p, W)
  BY <1>2, <1>3, <1>7, <1>9, <1>10, <1>11, <1>13 DEF Commits
<1>15. QED
  BY <1>12, <1>14, OverStep

\* A notice is applied: the message, the suppression, the status and the leads at once.
LEMMA SilenceStep ==
  ASSUME LeadsAssumption, IInv, NEW w \in Procs, Silence(w)
  PROVE  IInv'
<1> DEFINE t == proc[w]
<1>1. PICK m, n, c, a : m = t.msg /\ n = t.notice /\ c = m[1] /\ a = n.to
  OBVIOUS
<1>2. /\ t.pc = "silence" /\ Fresh(t)
      /\ m \in Messages /\ n \in NoticeType /\ c \in Contacts /\ a \in Contacts \cup Aliases
  BY <1>1 DEF Silence, IInv, TypeInv, Typed, Messages, NoticeType
<1>3. PICK s : s = BounceStatus(n.kind)
  OBVIOUS
<1>4. s \in {"soft_bounce"} \cup Terminal
  BY <1>2, <1>3, Bounces DEF NoticeType
<1>5. PICK k : k = SoftOf(n)
  OBVIOUS
<1>6. k \in Nat
  BY <1>5 DEF SoftOf
<1>7. /\ msgs' = [msgs EXCEPT ![m].status = s, ![m].bounced = TRUE]
      /\ softs' = [softs EXCEPT ![a] = @ + k]
      /\ supp' = IF t.silenced /\ t.missing THEN [supp EXCEPT ![a] = @ + 1] ELSE supp
      /\ final' = IF t.silenced THEN [final EXCEPT ![c] = "SUPPRESSED"] ELSE final
      /\ leads' = IF t.silenced THEN TombstoneLeads(a) ELSE leads
      /\ out' = IF t.silenced /\ a = c THEN out \cup {c} ELSE out
      /\ seen' = seen \cup {n} /\ clash' = Clashing(w, {a, c})
      /\ lock' = Unlocked(w) /\ proc' = [proc EXCEPT ![w] = Idle]
      /\ UNCHANGED <<checks, mailbox, answered>>
  BY <1>1, <1>3, <1>5 DEF Silence, world
<1>8. PICK silenced, missing : silenced = t.silenced /\ missing = t.missing
  OBVIOUS
<1>9. clash \subseteq clash'
  BY <1>7 DEF Clashing
<1>10. a \notin clash' => (missing <=> supp[a] = 0)
  BY <1>1, <1>2, <1>8, <1>9 DEF Fresh
<1> HIDE DEF t
<1>11. /\ msgs' \in [Messages -> [status : MsgStatuses, bounced : BOOLEAN, replied : BOOLEAN]]
       /\ msgs'[m].status = s /\ msgs'[m].bounced = TRUE
       /\ \A o \in Messages : o # m => msgs'[o] = msgs[o]
  <2>1. s \in MsgStatuses
    BY <1>4 DEF MsgStatuses
  <2>2. msgs[m] \in [status : MsgStatuses, bounced : BOOLEAN, replied : BOOLEAN]
    BY <1>2 DEF IInv, TypeInv
  <2>3. PICK r : r = [msgs[m] EXCEPT !.status = s, !.bounced = TRUE]
    OBVIOUS
  <2>4. /\ r \in [status : MsgStatuses, bounced : BOOLEAN, replied : BOOLEAN]
        /\ r.status = s /\ r.bounced = TRUE
    BY <2>1, <2>2, <2>3
  <2>5. msgs' = [msgs EXCEPT ![m] = r]
    BY <1>2, <1>7, <2>3 DEF IInv, TypeInv
  <2>6. QED
    BY <1>2, <2>4, <2>5 DEF IInv, TypeInv
<1>12. /\ supp' \in [Addresses -> Nat] /\ softs' \in [Addresses -> Nat]
       /\ \A b \in Addresses : b # a => supp'[b] = supp[b]
       /\ silenced /\ missing => supp'[a] = supp[a] + 1
       /\ ~ (silenced /\ missing) => supp' = supp
  BY <1>2, <1>6, <1>7, <1>8 DEF IInv, TypeInv, Addresses
<1>13. /\ final' \in [Contacts -> Statuses \cup {"none"}]
       /\ silenced => final'[c] = "SUPPRESSED"
       /\ \A d \in Contacts : d # c => final'[d] = final[d]
       /\ ~ silenced => final' = final
  <2>1. "SUPPRESSED" \in Statuses
    BY DEF Statuses, Decision!FinalStatuses
  <2>2. QED
    BY <1>2, <1>7, <1>8, <2>1 DEF IInv, TypeInv
<1>14. /\ leads' \in [Contacts -> Seq(LeadStates)]
       /\ \A d \in Contacts : Len(leads'[d]) = Len(leads[d])
       /\ \A d \in Contacts : d # a => leads'[d] = leads[d]
       /\ silenced /\ a \in Contacts => \A i \in DOMAIN leads'[a] : leads'[a][i] = "tombstoned"
       /\ \A d \in Contacts : \A i \in DOMAIN leads'[d] :
            i \in DOMAIN leads[d] /\ (leads'[d][i] = "live" => leads[d][i] = "live")
  <2>1. CASE ~ silenced
    <3>1. leads' = leads
      BY <1>7, <1>8, <2>1
    <3>2. QED
      BY <2>1, <3>1 DEF IInv, TypeInv
  <2>2. CASE silenced
    <3>1. leads' = TombstoneLeads(a)
      BY <1>7, <1>8, <2>2
    <3>2. \A d \in Contacts : d # a => leads'[d] = leads[d]
      BY <3>1 DEF TombstoneLeads
    <3>3. \A d \in Contacts : leads[d] \in Seq(LeadStates)
      BY DEF IInv, TypeInv
    <3>4. ASSUME a \in Contacts
          PROVE  /\ leads'[a] \in Seq(LeadStates) /\ Len(leads'[a]) = Len(leads[a])
                 /\ DOMAIN leads'[a] = DOMAIN leads[a]
                 /\ \A i \in DOMAIN leads'[a] : leads'[a][i] = "tombstoned"
      <4>1. leads'[a] = [i \in DOMAIN leads[a] |-> "tombstoned"]
        BY <3>1, <3>4 DEF TombstoneLeads
      <4>2. DOMAIN leads[a] = 1 .. Len(leads[a]) /\ Len(leads[a]) \in Nat
        BY <3>3, <3>4
      <4>3. "tombstoned" \in LeadStates
        BY DEF LeadStates
      <4>4. [i \in 1 .. Len(leads[a]) |-> "tombstoned"] \in [1 .. Len(leads[a]) -> LeadStates]
        BY <4>3
      <4>5. QED
        BY <4>1, <4>2, <4>4
    <3>5. \A d \in Contacts : leads'[d] \in Seq(LeadStates) /\ Len(leads'[d]) = Len(leads[d])
      BY <3>2, <3>3, <3>4
    <3>6. DOMAIN leads' = Contacts /\ leads' = [d \in Contacts |-> leads'[d]]
      BY <3>1 DEF TombstoneLeads
    <3>7. leads' \in [Contacts -> Seq(LeadStates)]
      BY <3>5, <3>6
    <3>8. QED
      BY <2>2, <3>2, <3>4, <3>5, <3>7
  <2>3. QED
    BY <2>1, <2>2
<1>15. out' = IF silenced /\ a = c THEN out \cup {c} ELSE out
  BY <1>7, <1>8
<1>16. c # a => (a \in Contacts => final'[a] = final[a]) /\ (a \in out' => a \in out)
  BY <1>13, <1>15
<1>17. \A b \in Addresses \ {a, c} : Same(b)
  <2>1. TAKE b \in Addresses \ {a, c}
  <2>2. supp'[b] = supp[b]
    BY <1>12
  <2>3. b \in Contacts => final'[b] = final[b] /\ leads'[b] = leads[b] /\ (b \in out' => b \in out)
    BY <1>13, <1>14, <1>15
  <2>4. \A o \in Messages : o[1] = b => Moves(o)
    BY <1>1, <1>11 DEF Moves
  <2>5. QED
    BY <2>2, <2>3, <2>4 DEF Same
<1>18. ASSUME NEW d \in Contacts \cap {a, c}, d \notin clash' PROVE Right(d)'
  <2>1. Right(d) /\ (a = d => (missing <=> supp[d] = 0)) /\ supp[d] \in Nat
    BY <1>9, <1>10, <1>18 DEF IInv, TypeInv, Addresses
  <2>2. Len(leads'[d]) <= 1
    BY <1>14, <2>1 DEF Right
  <2>3. ASSUME d \in out' PROVE supp'[d] > 0 /\ final'[d] = "SUPPRESSED" /\ Live(d)' = {}
    <3>1. CASE d \in out
      <4>1. supp[d] > 0 /\ final[d] = "SUPPRESSED" /\ Live(d) = {}
        BY <2>1, <3>1 DEF Right
      <4>2. supp'[d] > 0
        BY <1>12, <2>1, <4>1 DEF Addresses
      <4>3. final'[d] = "SUPPRESSED"
        BY <1>13, <4>1
      <4>4. Live(d)' = {}
        BY <1>14, <4>1 DEF Live
      <4>5. QED
        BY <4>2, <4>3, <4>4
    <3>2. CASE d \notin out
      <4>1. silenced /\ a = c /\ d = c
        BY <1>15, <2>3, <3>2
      <4>2. supp'[d] > 0
        BY <1>12, <2>1, <4>1
      <4>3. final'[d] = "SUPPRESSED"
        BY <1>13, <4>1
      <4>4. Live(d)' = {}
        BY <1>14, <4>1 DEF Live
      <4>5. QED
        BY <4>2, <4>3, <4>4
    <3>3. QED
      BY <3>1, <3>2
  <2>4. QED
    BY <2>2, <2>3 DEF Right
<1>19. ASSUME NEW b \in Addresses \cap {a, c}, b \notin clash' PROVE supp'[b] <= 1
  <2>1. supp[b] <= 1 /\ (b = a => (missing <=> supp[b] = 0)) /\ supp[b] \in Nat
    BY <1>9, <1>10, <1>19 DEF IInv, TypeInv
  <2>2. QED
    BY <1>12, <1>19, <2>1
<1>20. ASSUME NEW o \in Messages, o[1] \in {a, c}, o[1] \notin clash' PROVE Settles(o)'
  <2>1. CASE o = m
    <3>1. msgs'[m].status \in {"replied", "soft_bounce"} \cup Terminal /\ msgs'[m].bounced = TRUE
      BY <1>4, <1>11
    <3>2. QED
      BY <2>1, <3>1 DEF Settles
  <2>2. CASE o # m
    BY <1>9, <1>11, <1>20, <2>2 DEF IInv, Settles
  <2>3. QED
    BY <2>1, <2>2
<1>21. RowsTyped'
  <2>1. checks' \in [Contacts -> Seq(CheckType)]
    BY <1>7 DEF IInv, TypeInv
  <2>2. QED
    BY <1>11, <1>12, <1>13, <1>14, <2>1 DEF RowsTyped
<1>22. /\ lock' \in [Contacts \cup Messages -> Procs \cup {NoOne}]
       /\ out' \subseteq Contacts /\ seen' \subseteq NoticeType /\ {a, c} \subseteq Addresses
  BY <1>2, <1>7, <1>15, Unlocks DEF IInv, TypeInv, Addresses
<1>23. Commits(w, {a, c})
  BY <1>7, <1>17, <1>18, <1>19, <1>20, <1>22 DEF Commits
<1>24. QED
  BY <1>21, <1>23, OverStep

\* A delivery or an answer is written over the message.
LEMMA MessageStep ==
  ASSUME IInv, NEW w \in Procs, Deliver(w) \/ ApplyReply(w)
  PROVE  IInv'
<1>1. PICK m : m = proc[w].msg
  OBVIOUS
<1>2. PICK c : c = m[1]
  OBVIOUS
<1>3. Typed(proc[w]) /\ Fresh(proc[w]) /\ proc[w].pc \in {"deliver", "reply"}
  BY DEF Deliver, ApplyReply, IInv, TypeInv
<1>4. m \in Messages /\ c \in Contacts /\ c \in Addresses
  BY <1>1, <1>2, <1>3 DEF Typed, Messages, Addresses
<1>5. /\ proc' = [proc EXCEPT ![w] = Idle] /\ clash' = Clashing(w, {c})
      /\ UNCHANGED <<final, checks, leads, supp, softs, mailbox, answered, lock, out, seen>>
  BY <1>1, <1>2 DEF Deliver, ApplyReply, world
<1>6. PICK r : r = msgs'[m]
  OBVIOUS
<1>7. msgs[m] \in [status : MsgStatuses, bounced : BOOLEAN, replied : BOOLEAN]
  BY <1>4 DEF IInv, TypeInv
<1>8. /\ msgs' = [msgs EXCEPT ![m] = r]
      /\ r \in [status : MsgStatuses, bounced : BOOLEAN, replied : BOOLEAN]
      /\ c \notin clash => Settles(m)'
  <2>1. CASE Deliver(w)
    <3>1. msgs' = [msgs EXCEPT ![m].status = "delivered"]
      BY <1>1, <2>1 DEF Deliver
    <3>2. r = [msgs[m] EXCEPT !.status = "delivered"]
      BY <1>4, <1>6, <3>1 DEF IInv, TypeInv
    <3>3. "delivered" \in MsgStatuses
      BY DEF MsgStatuses
    <3>4. r \in [status : MsgStatuses, bounced : BOOLEAN, replied : BOOLEAN]
      BY <1>7, <3>2, <3>3
    <3>5. ASSUME c \notin clash PROVE Settles(m)'
      <4>1. Undelivered(m) /\ Settles(m)
        BY <1>1, <1>2, <1>3, <1>4, <2>1, <3>5 DEF Fresh, Deliver, IInv
      <4>2. ~ r.bounced /\ ~ r.replied /\ r.status = "delivered"
        <5>1. ~ msgs[m].bounced /\ msgs[m].status = "sent"
          BY <4>1 DEF Undelivered
        <5>2. ~ msgs[m].replied
          BY <1>7, <4>1, <5>1 DEF Settles, Terminal
        <5>3. r.bounced = msgs[m].bounced /\ r.replied = msgs[m].replied /\ r.status = "delivered"
          BY <1>7, <3>2
        <5>4. QED
          BY <5>1, <5>2, <5>3
      <4>3. QED
        BY <1>6, <4>2 DEF Settles, Terminal
    <3>6. QED
      BY <1>4, <3>1, <3>2, <3>4, <3>5 DEF IInv, TypeInv
  <2>2. CASE ApplyReply(w)
    <3>1. PICK s : s = IF msgs[m].status \in Terminal THEN msgs[m].status ELSE "replied"
      OBVIOUS
    <3>2. msgs' = [msgs EXCEPT ![m].status = s, ![m].replied = TRUE]
      BY <1>1, <2>2, <3>1 DEF ApplyReply
    <3>3. r = [msgs[m] EXCEPT !.status = s, !.replied = TRUE]
      BY <1>4, <1>6, <3>2 DEF IInv, TypeInv
    <3>4. s \in MsgStatuses
      BY <1>7, <3>1 DEF MsgStatuses
    <3>5. r \in [status : MsgStatuses, bounced : BOOLEAN, replied : BOOLEAN]
      BY <1>7, <3>3, <3>4
    <3>6. r.status = s /\ r.bounced = msgs[m].bounced
      BY <1>7, <3>3
    <3>7. ASSUME c \notin clash PROVE Settles(m)'
      <4>1. Settles(m)
        BY <1>2, <1>4, <3>7 DEF IInv
      <4>2. s \in {"replied"} \cup Terminal /\ (s \in Terminal => msgs[m].status \in Terminal)
        BY <3>1 DEF Terminal
      <4>3. QED
        BY <1>6, <3>6, <4>1, <4>2 DEF Settles
    <3>8. QED
      BY <1>4, <3>2, <3>3, <3>5, <3>7 DEF IInv, TypeInv
  <2>3. QED
    BY <2>1, <2>2
<1>9. /\ msgs' \in [Messages -> [status : MsgStatuses, bounced : BOOLEAN, replied : BOOLEAN]]
      /\ \A o \in Messages : o # m => msgs'[o] = msgs[o]
  BY <1>4, <1>8 DEF IInv, TypeInv
<1>10. RowsTyped'
  BY <1>5, <1>9 DEF IInv, TypeInv, RowsTyped
<1>11. clash \subseteq clash'
  BY <1>5 DEF Clashing
<1>12. \A a \in Addresses \ {c} : Same(a)
  <2>1. \A o \in Messages : o[1] # c => Moves(o)
    BY <1>2, <1>9 DEF Moves
  <2>2. QED
    BY <1>5, <2>1 DEF Same
<1>13. c \notin clash' => Right(c)' /\ supp'[c] <= 1
  <2>1. Live(c)' = Live(c)
    BY <1>5 DEF Live
  <2>2. QED
    BY <1>4, <1>5, <1>11, <2>1 DEF IInv, Right
<1>14. ASSUME NEW o \in Messages, o[1] = c, c \notin clash' PROVE Settles(o)'
  <2>1. CASE o = m
    BY <1>8, <1>11, <1>14, <2>1
  <2>2. CASE o # m
    BY <1>9, <1>11, <1>14, <2>2 DEF IInv, Settles
  <2>3. QED
    BY <2>1, <2>2
<1>15. /\ lock' \in [Contacts \cup Messages -> Procs \cup {NoOne}]
       /\ out' \subseteq Contacts /\ seen' \subseteq NoticeType
  BY <1>5 DEF IInv, TypeInv
<1>16. Commits(w, {c})
  BY <1>4, <1>5, <1>12, <1>13, <1>14, <1>15 DEF Commits
<1>17. QED
  BY <1>10, <1>16, OverStep

LEMMA SuppressStep ==
  ASSUME LeadsAssumption, IInv, NEW r \in Procs, Suppress(r)
  PROVE  IInv'
<1>1. PICK a : a = proc[r].address
  OBVIOUS
<1>2. Typed(proc[r]) /\ Fresh(proc[r]) /\ proc[r].pc = "insert" /\ a \in Addresses
  BY <1>1 DEF Suppress, IInv, TypeInv, Typed
<1>3. /\ supp' = [supp EXCEPT ![a] = @ + 1] /\ clash' = Clashing(r, {a})
      /\ proc' = [proc EXCEPT ![r] = Idle]
      /\ UNCHANGED <<final, checks, leads, msgs, softs, mailbox, answered, lock, out, seen>>
  BY <1>1 DEF Suppress, world
<1>4. /\ supp' \in [Addresses -> Nat] /\ supp'[a] = supp[a] + 1
      /\ \A b \in Addresses : b # a => supp'[b] = supp[b]
  BY <1>2, <1>3 DEF IInv, TypeInv
<1>5. clash \subseteq clash'
  BY <1>3 DEF Clashing
<1>6. \A b \in Addresses \ {a} : Same(b)
  BY <1>3, <1>4 DEF Same, Moves
<1>7. a \notin clash' => supp'[a] <= 1
  BY <1>1, <1>2, <1>4, <1>5 DEF Fresh
<1>8. ASSUME a \in Contacts, a \notin clash' PROVE Right(a)'
  <2>1. Right(a) /\ supp[a] \in Nat
    BY <1>2, <1>5, <1>8 DEF IInv, TypeInv
  <2>2. Live(a)' = Live(a)
    BY <1>3 DEF Live
  <2>3. QED
    BY <1>3, <1>4, <2>1, <2>2 DEF Right
<1>9. \A m \in Messages : m[1] = a /\ a \notin clash' => Settles(m)'
  BY <1>3, <1>5 DEF IInv, Settles
<1>10. RowsTyped'
  BY <1>3, <1>4 DEF IInv, TypeInv, RowsTyped
<1>11. /\ lock' \in [Contacts \cup Messages -> Procs \cup {NoOne}]
       /\ out' \subseteq Contacts /\ seen' \subseteq NoticeType
  BY <1>3 DEF IInv, TypeInv
<1>12. Commits(r, {a})
  BY <1>2, <1>3, <1>6, <1>7, <1>8, <1>9, <1>11 DEF Commits
<1>13. QED
  BY <1>10, <1>12, OverStep

LEMMA UnsuppressStep ==
  ASSUME IInv, NEW r \in Procs, NEW a \in Addresses, Unsuppress(r, a)
  PROVE  IInv'
<1>1. /\ supp[a] > 0 /\ supp' = [supp EXCEPT ![a] = @ - 1] /\ out' = out \ {a}
      /\ clash' = Clashing(r, {a}) /\ proc[r].pc = "idle" /\ proc' = proc
      /\ UNCHANGED <<final, checks, leads, msgs, softs, mailbox, answered, lock, seen>>
  BY DEF Unsuppress, world
<1>2. /\ supp' \in [Addresses -> Nat] /\ supp'[a] <= supp[a]
      /\ \A b \in Addresses : b # a => supp'[b] = supp[b]
  BY <1>1 DEF IInv, TypeInv
<1>3. clash \subseteq clash' /\ clash' \subseteq Addresses
  BY <1>1 DEF Clashing, IInv, TypeInv
<1>4. TypeInv'
  BY <1>1, <1>2, <1>3 DEF IInv, TypeInv
<1>5. \A b \in Addresses \ {a} : Same(b)
  BY <1>1, <1>2 DEF Same, Moves
<1>6. Writes(r, {a})
  BY <1>1, <1>5 DEF Writes
<1>7. Fresh(proc[r])'
  BY <1>1 DEF Fresh
<1>8. a \notin clash' => supp'[a] <= 1
  <2>1. supp[a] \in Nat /\ supp'[a] \in Nat /\ (a \notin clash => supp[a] <= 1)
    BY <1>2 DEF IInv, TypeInv
  <2>2. QED
    BY <1>2, <1>3, <2>1
<1>9. ASSUME a \in Contacts, a \notin clash' PROVE Right(a)'
  BY <1>1, <1>3, <1>9 DEF IInv, Right
<1>10. \A m \in Messages : m[1] = a /\ a \notin clash' => Settles(m)'
  BY <1>1, <1>3 DEF IInv, Settles
<1>11. /\ \A c \in Contacts \cap {a} : c \notin clash' => Right(c)'
       /\ \A b \in Addresses \cap {a} : b \notin clash' => supp'[b] <= 1
       /\ \A m \in Messages : m[1] \in {a} /\ m[1] \notin clash' => Settles(m)'
  BY <1>8, <1>9, <1>10
<1>12. QED
  BY <1>4, <1>6, <1>7, <1>11, StepKeeps

LEMMA NextIInv ==
  ASSUME LeadsAssumption, IInv, [Next]_vars
  PROVE  IInv'
<1>1. Workers \subseteq Procs /\ Requests \subseteq Procs
  BY DEF Procs
<1>2. CASE Outside
  BY <1>2, MailStep
<1>3. CASE Validation
  BY <1>1, <1>3, AskStep, StageStoreStep, SalesReadyStageStep, StoreStep, SurfaceStep DEF Validation
<1>4. CASE Feedback
  BY <1>1, <1>4, LookNoticeStep, MarkStep, SilenceStep, LookStep, MessageStep DEF Feedback
<1>5. CASE Users
  BY <1>1, <1>5, LookStep, SuppressStep, UnsuppressStep DEF Users
<1>6. CASE \E w \in Workers : WorkerLost(w)
  BY <1>1, <1>6, WorkerLostStep
<1>7. CASE UNCHANGED vars
  <2>1. \A q \in Procs : Fresh(proc[q])' <=> Fresh(proc[q])
    BY <1>7 DEF vars, rows, world, history, Fresh, LeadEdits, Sees, Undelivered
  <2>2. TypeInv'
    BY <1>7 DEF vars, rows, world, history, IInv, TypeInv
  <2>3. \A c : Right(c)' <=> Right(c)
    BY <1>7 DEF vars, rows, world, history, Right, Live
  <2>4. \A m : Settles(m)' <=> Settles(m)
    BY <1>7 DEF vars, rows, world, history, Settles
  <2>5. QED
    BY <1>7, <2>1, <2>2, <2>3, <2>4 DEF vars, rows, history, IInv
<1>8. QED
  BY <1>2, <1>3, <1>4, <1>5, <1>6, <1>7 DEF Next

-----------------------------------------------------------------------------
(* What follows                                                             *)

LEMMA IInvLists ==
  ASSUME IInv
  PROVE  TypeOK /\ BouncedStaysOut /\ OneRowEach
<1>1. \A m \in Messages : msgs[m] \in [status : MsgStatuses, bounced : BOOLEAN, replied : BOOLEAN]
  BY DEF IInv, TypeInv
<1>2. \A p \in Procs : proc[p].pc \in Places
  BY DEF IInv, TypeInv, Typed
<1>3. TypeOK
  <2>1. \A m \in Messages : /\ msgs[m].status \in MsgStatuses
                            /\ msgs[m].bounced \in BOOLEAN /\ msgs[m].replied \in BOOLEAN
    BY <1>1
  <2>2. \A c \in Contacts : checks[c] \in Seq(CheckType) /\ leads[c] \in Seq(LeadStates)
    BY DEF IInv, TypeInv
  <2>3. QED
    BY <1>2, <2>1, <2>2 DEF IInv, TypeInv, TypeOK, MsgStatuses, Places, Statuses
<1>4. BouncedStaysOut
  BY DEF IInv, TypeInv, BouncedStaysOut, Right
<1>5. OneRowEach
  BY DEF IInv, OneRowEach, Right
<1>6. QED
  BY <1>3, <1>4, <1>5

\* No step but a recomputation adds to the list.
LEMMA NextSurfaces ==
  ASSUME LeadsAssumption, IInv, [Next]_vars
  PROVE  SurfacesVerified
<1>1. CASE \E p \in Procs : proc[p].pc = "surface" /\ Surface(p)
  <2>1. PICK p \in Procs : proc[p].pc = "surface" /\ Surface(p)
    BY <1>1
  <2>2. SUFFICES ASSUME NEW c \in Contacts, Live(c) = {}, Live(c)' # {}, c \notin clash'
                 PROVE  final'[c] = "VERIFIED"
    BY DEF SurfacesVerified
  <2>3. PICK e : e = proc[p].plan[c]
    OBVIOUS
  <2>4. c \notin clash
    BY <2>1, <2>2 DEF Surface, Clashing
  <2>5. /\ leads'[c] = Edited(leads[c], e) /\ e.to \in EditKinds
        /\ e.to \in {"new", "live"} => final'[c] = "VERIFIED"
    BY <2>1, <2>3, <2>4, Surfaced
  <2>6. leads[c] \in Seq(LeadStates)
    BY DEF IInv, TypeInv
  <2>7. e.to \notin {"none", "tombstoned"}
    BY <2>2, <2>5, <2>6, EditedList DEF Live
  <2>8. QED
    BY <2>5, <2>7 DEF EditKinds
<1>2. CASE \E w \in Workers : Silence(w)
  <2>1. PICK w \in Workers : Silence(w)
    BY <1>2
  <2>2. ASSUME NEW c \in Contacts, Live(c) = {} PROVE Live(c)' = {}
    <3>1. leads' = leads \/ \E a : leads' = TombstoneLeads(a)
      BY <2>1 DEF Silence
    <3>2. CASE leads' = leads
      BY <2>2, <3>2 DEF Live
    <3>3. CASE \E a : leads' = TombstoneLeads(a)
      <4>1. PICK a : leads' = TombstoneLeads(a)
        BY <3>3
      <4>2. leads'[c] = IF c = a THEN [i \in DOMAIN leads[c] |-> "tombstoned"] ELSE leads[c]
        BY <4>1 DEF TombstoneLeads
      <4>3. QED
        BY <2>2, <4>2 DEF Live
    <3>4. QED
      BY <3>1, <3>2, <3>3
  <2>3. QED
    BY <2>2 DEF SurfacesVerified
<1>3. CASE UNCHANGED leads
  BY <1>3 DEF SurfacesVerified, Live
<1>4. QED
  <2>1. CASE Outside
    <3>1. UNCHANGED leads
      <4>1. CASE \E c \in Contacts, n \in Mails : QueueMail(c, n)
        BY <4>1 DEF QueueMail
      <4>2. CASE \E m \in Messages : SendMail(m) \/ Answer(m)
        BY <4>2 DEF SendMail, Answer, rows
      <4>3. CASE \E n \in NoticeType : NoticeArrives(n)
        BY <4>3 DEF NoticeArrives, rows
      <4>4. CASE \E n \in mailbox : NoticeExpires(n)
        BY <4>4 DEF NoticeExpires, rows
      <4>5. QED
        BY <2>1, <4>1, <4>2, <4>3, <4>4 DEF Outside
    <3>2. QED
      BY <1>3, <3>1
  <2>2. CASE Validation
    BY <1>1, <1>3, <2>2 DEF Validation, Ask, StageStore, SalesReadyStage, Store, rows
  <2>3. CASE Feedback
    BY <1>2, <1>3, <2>3 DEF Feedback, LookNotice, Mark, Classify, LookReply, Deliver, ApplyReply, rows
  <2>4. CASE Users
    BY <1>3, <2>4 DEF Users, LookSuppression, Unsuppress, Suppress, rows
  <2>5. CASE \E w \in Workers : WorkerLost(w)
    BY <1>3, <2>5 DEF WorkerLost, rows
  <2>6. CASE UNCHANGED vars
    BY <1>3, <2>6 DEF vars, rows
  <2>7. QED
    BY <2>1, <2>2, <2>3, <2>4, <2>5, <2>6 DEF Next

\* An outcome is written only over what is none.
LEMMA NextOutcomes ==
  ASSUME LeadsAssumption, IInv, [Next]_vars
  PROVE  OutcomeStays
<1> DEFINE Stays(m) ==
      /\ msgs[m].status \in Terminal => msgs'[m].status = msgs[m].status
      /\ msgs[m].replied \/ msgs[m].bounced => msgs'[m].status # "delivered"
<1>1. ASSUME NEW m \in Messages, Settles(m), Moves(m) PROVE Stays(m)
  BY <1>1 DEF Settles, Moves, Terminal
<1> HIDE DEF Stays
<1>2. SUFFICES ASSUME NEW m \in Messages, m[1] \notin clash' PROVE Stays(m)
  BY DEF OutcomeStays, Stays
<1>3. CASE Moves(m) /\ clash \subseteq clash'
  BY <1>1, <1>2, <1>3 DEF IInv
<1>4. msgs[m] \in [status : MsgStatuses, bounced : BOOLEAN, replied : BOOLEAN] /\ DOMAIN msgs = Messages
  BY DEF IInv, TypeInv
<1>5. ASSUME NEW w \in Procs, Silence(w) PROVE Stays(m)
  <2>1. PICK o, n : o = proc[w].msg /\ n = proc[w].notice
    OBVIOUS
  <2>2. PICK s : s = BounceStatus(n.kind)
    OBVIOUS
  <2>3. /\ msgs' = [msgs EXCEPT ![o].status = s, ![o].bounced = TRUE]
        /\ clash \subseteq clash' /\ o \in Messages /\ n \in NoticeType
        /\ o[1] \notin clash => msgs[o].status \notin Terminal
    BY <1>5, <2>1, <2>2 DEF Silence, Clashing, IInv, TypeInv, Typed, Fresh
  <2>4. CASE o # m
    BY <1>3, <1>4, <2>3, <2>4 DEF Moves
  <2>5. CASE o = m
    <3>1. msgs[m].status \notin Terminal
      BY <1>2, <2>3, <2>5
    <3>2. msgs'[m].status = s
      BY <1>4, <2>3, <2>5
    <3>3. s \in {"soft_bounce"} \cup Terminal
      BY <2>2, <2>3, Bounces DEF NoticeType
    <3>4. QED
      BY <3>1, <3>2, <3>3 DEF Stays, Terminal
  <2>6. QED
    BY <2>4, <2>5
<1>6. ASSUME NEW w \in Procs, Deliver(w) PROVE Stays(m)
  <2>1. PICK o : o = proc[w].msg
    OBVIOUS
  <2>2. /\ msgs' = [msgs EXCEPT ![o].status = "delivered"]
        /\ clash \subseteq clash' /\ o \in Messages
        /\ o[1] \notin clash => Undelivered(o)
    BY <1>6, <2>1 DEF Deliver, Clashing, IInv, TypeInv, Typed, Fresh
  <2>3. CASE o # m
    BY <1>3, <1>4, <2>2, <2>3 DEF Moves
  <2>4. CASE o = m
    <3>1. Undelivered(m) /\ Settles(m)
      BY <1>2, <2>2, <2>4 DEF IInv
    <3>2. msgs[m].status \notin Terminal /\ ~ (msgs[m].replied \/ msgs[m].bounced)
      BY <3>1 DEF Undelivered, Settles, Terminal
    <3>3. QED
      BY <3>2 DEF Stays
  <2>5. QED
    BY <2>3, <2>4
<1>7. ASSUME NEW w \in Procs, ApplyReply(w) PROVE Stays(m)
  <2>1. PICK o : o = proc[w].msg
    OBVIOUS
  <2>2. PICK s : s = IF msgs[o].status \in Terminal THEN msgs[o].status ELSE "replied"
    OBVIOUS
  <2>3. /\ msgs' = [msgs EXCEPT ![o].status = s, ![o].replied = TRUE]
        /\ clash \subseteq clash' /\ o \in Messages
    BY <1>7, <2>1, <2>2 DEF ApplyReply, Clashing, IInv, TypeInv, Typed
  <2>4. CASE o # m
    BY <1>3, <1>4, <2>3, <2>4 DEF Moves
  <2>5. CASE o = m
    <3>1. msgs'[m].status = s
      BY <1>4, <2>3, <2>5
    <3>2. QED
      BY <2>2, <2>5, <3>1 DEF Stays, Terminal
  <2>6. QED
    BY <2>4, <2>5
<1>8. Workers \subseteq Procs
  BY DEF Procs
<1>9. ASSUME UNCHANGED msgs, clash \subseteq clash' PROVE Stays(m)
  BY <1>3, <1>9 DEF Moves
<1>10. CASE Outside
  BY <1>3, <1>10, MailMoves
<1>11. CASE Validation
  BY <1>9, <1>11 DEF Validation, Ask, StageStore, SalesReadyStage, Store, Surface, Clashing, rows, history
<1>12. CASE Feedback
  <2>1. CASE \E w \in Workers : Silence(w) \/ Deliver(w) \/ ApplyReply(w)
    BY <1>5, <1>6, <1>7, <1>8, <2>1
  <2>2. CASE \E w \in Workers : \/ Mark(w) \/ \E n \in mailbox : LookNotice(w, n)
                              \/ \E o \in Messages : Classify(w, o) \/ LookReply(w, o)
    BY <1>9, <2>2 DEF LookNotice, Mark, Classify, LookReply, rows, history
  <2>3. QED
    BY <1>12, <2>1, <2>2 DEF Feedback
<1>13. CASE Users
  BY <1>9, <1>13 DEF Users, LookSuppression, Unsuppress, Suppress, Clashing, rows, history
<1>14. CASE \E w \in Workers : WorkerLost(w)
  BY <1>9, <1>14 DEF WorkerLost, rows, history
<1>15. CASE UNCHANGED vars
  BY <1>9, <1>15 DEF vars, rows, history
<1>16. QED
  BY <1>10, <1>11, <1>12, <1>13, <1>14, <1>15 DEF Next
=============================================================================
