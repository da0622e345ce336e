--------------------------------- MODULE Leads ---------------------------------
(***************************************************************************)
(* What becomes of an address after extraction: its validation (the job's  *)
(* stage, the verify endpoint, the beat that retries unknown results), its *)
(* place on the sales-ready list, the mails it gets, and what comes back:  *)
(* bounce notices, replies, deliveries, and the suppressions they and the  *)
(* users write.                                                            *)
(*                                                                         *)
(* READ COMMITTED, as in Campaign: a transaction reads what is committed,  *)
(* locks a row when it is flushed, and its writes (of the columns it       *)
(* changed) appear when it commits.  A poll or a batch is one transaction  *)
(* per notice, reply or check here; all contacts are those of one job.     *)
(***************************************************************************)
EXTENDS Integers, Sequences, FiniteSets

CONSTANTS
  Contacts,   \* contacts with one email candidate each; also their addresses
  Aliases,    \* addresses mail is forwarded to, which no contact has
  MaxMails,   \* bound: mails to a contact, by as many campaigns
  Workers,    \* Celery worker slots of the bounce, campaign, validation queues
  Requests,   \* API request slots
  NoOne,
  Kinds,      \* the bounce types that occur
  Verdicts,   \* the answers of the verifier that occur
  SoftBudget, \* SOFT_BOUNCE_RETRY_BUDGET
  MaxRetries, \* UNKNOWN_MAX_RETRIES
  BatchSize,  \* UNKNOWN_RETRY_BATCH
  MaxRuns,    \* bound: validations
  MaxNotices, \* bound: bounce notices
  MaxPolls,   \* bound: notices looked at
  MaxEdits    \* bound: suppressions added or deleted by users

LeadsAssumption ==
  /\ Contacts \cap Aliases = {} /\ Workers \cap Requests = {}
  /\ NoOne \notin Contacts \cup Workers \cup Requests
  /\ Kinds \subseteq {"hard", "soft", "mailbox_full", "invalid_domain", "spam_rejected", "blocked",
                      "rate_limited", "unknown"}
  /\ {SoftBudget, MaxRetries, BatchSize} \subseteq Nat \ {0}
  /\ {MaxMails, MaxRuns, MaxNotices, MaxPolls, MaxEdits} \subseteq Nat

Decision == INSTANCE EmailDecision

Procs     == Workers \cup Requests
Domain    == "domain"                       \* a suppression of the whole domain
Addresses == Contacts \cup Aliases \cup {Domain}
Mails     == 1..MaxMails
Messages  == Contacts \X Mails
Terminal  == {"hard_bounce", "spam_complaint", "blocked"}

VARIABLES
  final,     \* Contact.final_email_status, "none" before the first validation
  checks,    \* the ValidationCheck rows of each contact's candidate, oldest first
  leads,     \* the SalesReadyLead rows of each contact
  supp,      \* how many Suppression rows each address, or the domain, has
  msgs,      \* the EmailMessage rows of mails that were sent
  softs,     \* soft BounceEvent rows of each address
  mailbox,   \* bounce notices in the sender's mailbox
  answered,  \* messages whose thread has a reply in it
  lock,      \* who has flushed a contact or message row and not committed
  proc,      \* the transaction of each worker and request
  out,       \* history: contacts taken out for a bounce of their own address
             \* and not freed by a user since
  clash,     \* history: addresses written to while another transaction that had
             \* read them was in flight
  seen,      \* history: the soft notices of each message that were applied
  runs, sentNotices, polls, edits   \* how much of each bound is used

rows    == <<final, checks, leads, supp, msgs, softs>>
world   == <<mailbox, answered>>
history == <<out, clash, seen>>
budget  == <<runs, sentNotices, polls, edits>>
vars    == <<rows, world, lock, proc, history, budget>>

NoMsg  == [status |-> "absent", bounced |-> FALSE, replied |-> FALSE]
Idle   == [pc |-> "idle"]

LeadStates == {"live", "tombstoned"}
NoticeType == [kind : Kinds, of : Messages, to : Contacts \cup Aliases, quoted : BOOLEAN]
CheckType  == [final : Decision!FinalStatuses, retries : Nat]

TypeOK ==
  /\ final \in [Contacts -> Decision!FinalStatuses \cup {"none"}]
  /\ \A c \in Contacts : /\ checks[c] \in Seq(CheckType)
                         /\ leads[c] \in Seq(LeadStates)
  /\ supp \in [Addresses -> Nat] /\ softs \in [Addresses -> Nat]
  /\ \A m \in Messages :
       /\ msgs[m].status \in {"absent", "queued", "sent", "delivered", "replied",
                              "soft_bounce"} \cup Terminal
       /\ msgs[m].bounced \in BOOLEAN /\ msgs[m].replied \in BOOLEAN
  /\ mailbox \subseteq NoticeType
  /\ answered \subseteq Messages
  /\ lock \in [Contacts \cup Messages -> Procs \cup {NoOne}]
  /\ \A p \in Procs : proc[p].pc \in {"idle", "store", "surface", "mark", "silence",
                                      "deliver", "reply", "insert"}
  /\ out \subseteq Contacts /\ clash \subseteq Addresses /\ seen \subseteq NoticeType

Init ==
  /\ final = [c \in Contacts |-> "none"]
  /\ checks = [c \in Contacts |-> <<>>]
  /\ leads = [c \in Contacts |-> <<>>]
  /\ supp = [a \in Addresses |-> 0] /\ softs = [a \in Addresses |-> 0]
  /\ msgs = [m \in Messages |-> NoMsg]
  /\ mailbox = {} /\ answered = {}
  /\ lock = [r \in Contacts \cup Messages |-> NoOne]
  /\ proc = [p \in Procs |-> Idle]
  /\ out = {} /\ clash = {} /\ seen = {}
  /\ runs = 0 /\ sentNotices = 0 /\ polls = 0 /\ edits = 0

Free(r, p)  == lock[r] \in {NoOne, p}
Unlocked(p) == [r \in DOMAIN lock |-> IF lock[r] = p THEN NoOne ELSE lock[r]]
Suppressed(c) == supp[c] > 0 \/ supp[Domain] > 0

\* The addresses a transaction in flight has read and may decide about.
Touches(p) ==
  CASE proc[p].pc \in {"mark", "silence"} -> {proc[p].msg[1], proc[p].notice.to}
    [] proc[p].pc \in {"deliver", "reply"} -> {proc[p].msg[1]}
    [] proc[p].pc = "insert"              -> {proc[p].address}
    [] proc[p].pc = "store"               -> {proc[p].contact}
    [] proc[p].pc = "surface"             -> Contacts
    [] proc[p].pc = "idle"                -> {}

\* p commits a change to the addresses in `written` while others have read them.
Clashing(p, written) ==
  clash \cup {a \in written : \E q \in Procs \ {p} : a \in Touches(q)}

-----------------------------------------------------------------------------
(* Validation                                                               *)

\* What the local gates say of these addresses: extraction and enrichment kept
\* them, so only the verifier tells them apart.
Sound == [syntax_ok |-> TRUE, disposable_ok |-> TRUE, role_based |-> FALSE,
          mx |-> "pass"]

\* The verdict of run_validation_for_candidate when the verifier answers mv and
\* `listed` says whether the address is on the suppression list.
VerdictOf(mv, listed) ==
  LET rules == Decision!RulesFrom(Decision!DefaultRules)
  IN  Decision!Decide(Decision!Signals(Sound, [llm |-> -1, mv |-> mv], {},
                                       listed, rules), rules)

\* Mutant of Verdict: the suppression list is not looked at.
VerdictUnlisted(c, mv) == VerdictOf(mv, FALSE)

Verdict(c, mv) == VerdictOf(mv, Suppressed(c))

\* The checks the beat selects: the oldest UNKNOWN_RETRY rows, exhausted ones
\* included, of the two tables' worth of rows of each contact.  Rows of different
\* contacts are in no particular order, so each contact gets a batch of its own.
Unknown(c) == {k \in DOMAIN checks[c] : checks[c][k].final = "UNKNOWN_RETRY"}
InBatch(c, k) ==
  /\ k \in Unknown(c)
  /\ Cardinality({j \in Unknown(c) : j < k}) < BatchSize

\* run_validation_for_candidate up to its decision: the job's stage, the verify
\* endpoint, or the beat that tries an unknown check again.
Ask(p, c, how, k) ==
  /\ proc[p].pc = "idle" /\ runs < MaxRuns
  /\ \/ how = "stage"  /\ p \in Workers /\ k = 0
     \/ how = "verify" /\ p \in Requests /\ k = 0
     \/ how = "retry"  /\ p \in Workers /\ InBatch(c, k) /\ checks[c][k].retries < MaxRetries
  /\ \E mv \in Verdicts :
       proc' = [proc EXCEPT ![p] = [pc |-> "store", contact |-> c, how |-> how, check |-> k,
                                    read |-> final[c], status |-> Verdict(c, mv)]]
  /\ runs' = runs + 1
  /\ UNCHANGED <<rows, world, lock, history, sentNotices, polls, edits>>

\* The contact's row is written only when its status changes, or its time of
\* verification does.
WritesContact(t) == t.contact # NoOne /\ (t.status # t.read \/ t.status = "VERIFIED")

Settled(t) == IF WritesContact(t) /\ t.status # t.read
              THEN [final EXCEPT ![t.contact] = t.status] ELSE final

\* A new check row, or the retried one overwritten and counted.
Checked(t) ==
  CASE t.contact = NoOne -> checks
    [] t.contact # NoOne /\ t.how = "retry" ->
         [checks EXCEPT ![t.contact][t.check] = [final |-> t.status, retries |-> @.retries + 1]]
    [] OTHER -> [checks EXCEPT ![t.contact] =
                   Append(@, [final |-> t.status, retries |-> 0])]

\* The job's stage commits with what the validation flushed.
StageStore(w) ==
  LET t == proc[w]
  IN  /\ t.pc = "store" /\ t.how = "stage"
      /\ WritesContact(t) => Free(t.contact, w)
      /\ final' = Settled(t) /\ checks' = Checked(t)
      /\ clash' = Clashing(w, {t.contact})
      /\ proc' = [proc EXCEPT ![w] = Idle]
      /\ UNCHANGED <<leads, supp, msgs, softs, world, lock, out, seen, budget>>

-----------------------------------------------------------------------------
(* The sales-ready list                                                     *)

\* The status a transaction sees: its own write, else the committed one.
Sees(t, c) == IF t.contact = c THEN t.status ELSE final[c]

\* Mutant of LeadEdits: the lead of the contact is not looked for.
LeadAlwaysNew(c, status) ==
  {[to |-> IF Decision!IsSalesReady(status, {}, FALSE) THEN "new" ELSE "none", row |-> 0]}

\* Mutant of LeadEdits: a contact with any status is listed.
LeadUnchecked(c, status) == {[to |-> IF leads[c] = <<>> THEN "new" ELSE "live", row |-> 1]}

\* recompute_sales_ready_for_job: what is done about one contact.  The lead row it
\* finds (any one, should there be several) is revived or tombstoned, a missing
\* one is inserted; a row that is as wanted already is not written.
LeadEdits(c, status) ==
  LET wanted == IF Decision!IsSalesReady(status, {}, FALSE) THEN "live" ELSE "tombstoned"
      found  == DOMAIN leads[c]
  IN  IF found = {} THEN {[to |-> IF wanted = "live" THEN "new" ELSE "none", row |-> 0]}
      ELSE {[to |-> IF leads[c][i] = wanted THEN "none" ELSE wanted, row |-> i] : i \in found}

Plans(t) == {f \in [Contacts -> UNION {LeadEdits(c, Sees(t, c)) : c \in Contacts}] :
               \A c \in Contacts : f[c] \in LeadEdits(c, Sees(t, c))}

\* The verify endpoint and the retry flush the contact, which locks it, and go on
\* to recompute the list.
Store(p) ==
  LET t == proc[p]
  IN  /\ t.pc = "store" /\ t.how # "stage"
      /\ WritesContact(t) => Free(t.contact, p)
      /\ lock' = IF WritesContact(t) THEN [lock EXCEPT ![t.contact] = p] ELSE lock
      /\ \E plan \in Plans(t) :
           proc' = [proc EXCEPT ![p] = [pc |-> "surface", plan |-> plan, contact |-> t.contact,
                                        how |-> t.how, check |-> t.check,
                                        read |-> t.read, status |-> t.status]]
      /\ UNCHANGED <<rows, world, history, budget>>

\* The SALES_READY stage of the job: the recomputation alone.
SalesReadyStage(w) ==
  /\ proc[w].pc = "idle" /\ runs < MaxRuns
  /\ \E plan \in Plans([contact |-> NoOne]) :
       proc' = [proc EXCEPT ![w] = [pc |-> "surface", plan |-> plan, contact |-> NoOne,
                                    how |-> "stage"]]
  /\ runs' = runs + 1
  /\ UNCHANGED <<rows, world, lock, history, sentNotices, polls, edits>>

Edited(list, edit) ==
  CASE edit.to = "none" -> list
    [] edit.to = "new"  -> Append(list, "live")
    [] OTHER            -> [list EXCEPT ![edit.row] = edit.to]

\* The leads are flushed with the sales_ready flags of their contacts, once the
\* contacts are not locked by others, and the transaction commits.
Surface(p) ==
  LET t       == proc[p]
      changed == {c \in Contacts : t.plan[c].to # "none"}
  IN  /\ \A c \in changed : Free(c, p)
      /\ leads' = [c \in Contacts |-> Edited(leads[c], t.plan[c])]
      /\ final' = Settled(t) /\ checks' = Checked(t)
      /\ clash' = Clashing(p, changed \cup ({t.contact} \ {NoOne}))
      /\ lock' = Unlocked(p)
      /\ proc' = [proc EXCEPT ![p] = Idle]
      /\ UNCHANGED <<supp, msgs, softs, world, out, seen, budget>>

-----------------------------------------------------------------------------
(* Mail and what comes back                                                 *)

\* plan_recipients, when a campaign is launched: verified, not suppressed, and no
\* earlier mail to the address bounced or was answered.
Eligible(c) ==
  /\ final[c] = "VERIFIED" /\ ~ Suppressed(c)
  /\ \A n \in Mails : msgs[<<c, n>>].status \in {"absent", "queued", "sent", "delivered"}

QueueMail(c, n) ==
  /\ msgs[<<c, n>>].status = "absent"
  /\ \A j \in 1..(n - 1) : msgs[<<c, j>>].status # "absent"
  /\ Eligible(c)
  /\ msgs' = [msgs EXCEPT ![<<c, n>>].status = "queued"]
  /\ UNCHANGED <<final, checks, leads, supp, softs, world, lock, proc, history, budget>>

\* send_message, hours later: the address is not looked at again.
SendMail(m) ==
  /\ msgs[m].status = "queued"
  /\ msgs' = [msgs EXCEPT ![m].status = "sent"]
  /\ UNCHANGED <<final, checks, leads, supp, softs, world, lock, proc, history, budget>>

IsSent(m) == msgs[m].status \notin {"absent", "queued"}

\* A mail server, near the recipient or behind an alias, sends a notice; most quote
\* the Message-ID.  It stays in the mailbox and the query's three days.
NoticeArrives(n) ==
  /\ IsSent(n.of) /\ n.to \in {n.of[1]} \cup Aliases
  /\ n \notin mailbox /\ sentNotices < MaxNotices
  /\ mailbox' = mailbox \cup {n} /\ sentNotices' = sentNotices + 1
  /\ UNCHANGED <<rows, answered, lock, proc, history, runs, polls, edits>>

NoticeExpires(n) ==
  /\ mailbox' = mailbox \ {n}
  /\ UNCHANGED <<rows, answered, lock, proc, history, budget>>

Answer(m) ==
  /\ IsSent(m) /\ m \notin answered
  /\ answered' = answered \cup {m}
  /\ UNCHANGED <<rows, mailbox, lock, proc, history, budget>>

\* match_message: the message the quoted Message-ID names, else the latest one sent
\* to the recipient the notice names.
Match(n) ==
  LET sentTo == {m \in Messages : m[1] = n.to /\ IsSent(m)}
  IN  IF n.quoted THEN {n.of}
      ELSE {m \in sentTo : \A o \in sentTo : o[2] <= m[2]}

\* Mutant of BounceStatus: the bounce type is stored as the status.
BounceTypeStored(kind) == kind

\* apply_bounce: the status a bounce type gives the message.
BounceStatus(kind) ==
  CASE kind \in {"hard", "invalid_domain", "mailbox_full"} -> "hard_bounce"
    [] kind = "spam_rejected" -> "spam_complaint"
    [] kind = "blocked"       -> "blocked"
    [] kind \in {"soft", "rate_limited", "unknown"} -> "soft_bounce"

\* poll_bounces takes up a notice, unless its message has a terminal bounce.
TakeUp(m) == ~ (msgs[m].bounced /\ msgs[m].status \in Terminal)

LookNotice(w, n) ==
  /\ proc[w].pc = "idle" /\ polls < MaxPolls
  /\ n \in mailbox
  /\ \E m \in Match(n) :
       /\ TakeUp(m)
       /\ proc' = [proc EXCEPT ![w] = [pc |-> "mark", msg |-> m, notice |-> n]]
  /\ polls' = polls + 1
  /\ UNCHANGED <<rows, world, lock, history, runs, sentNotices, edits>>

\* The message's status is flushed with the bounce event; then apply_bounce counts
\* the soft bounces and looks for the suppression.
Silences(n, soft) ==
  \/ BounceStatus(n.kind) \in Terminal
  \/ soft >= SoftBudget

SoftOf(n) == IF n.kind = "soft" THEN 1 ELSE 0

Mark(w) ==
  LET t == proc[w]
  IN  /\ t.pc = "mark"
      /\ Free(t.msg, w)
      /\ lock' = [lock EXCEPT ![t.msg] = w]
      /\ proc' = [proc EXCEPT ![w] =
                    [pc |-> "silence", msg |-> t.msg, notice |-> t.notice,
                     silenced |-> Silences(t.notice, softs[t.notice.to] + SoftOf(t.notice)),
                     missing |-> supp[t.notice.to] = 0]]
      /\ UNCHANGED <<rows, world, history, budget>>

\* The rest of apply_bounce and its commit: the suppression is inserted if none was
\* read, the contact of the message becomes SUPPRESSED, and the leads with the
\* bounced address are tombstoned.
TombstoneLeads(a) ==
  [c \in Contacts |-> IF c = a THEN [i \in DOMAIN leads[c] |-> "tombstoned"] ELSE leads[c]]

Silence(w) ==
  LET t == proc[w]
      c == t.msg[1]
      a == t.notice.to
  IN  /\ t.pc = "silence"
      /\ t.silenced /\ final[c] # "SUPPRESSED" => Free(c, w)
      /\ msgs' = [msgs EXCEPT ![t.msg].status = BounceStatus(t.notice.kind),
                              ![t.msg].bounced = TRUE]
      /\ softs' = [softs EXCEPT ![a] = @ + SoftOf(t.notice)]
      /\ supp' = IF t.silenced /\ t.missing THEN [supp EXCEPT ![a] = @ + 1] ELSE supp
      /\ final' = IF t.silenced THEN [final EXCEPT ![c] = "SUPPRESSED"] ELSE final
      /\ leads' = IF t.silenced THEN TombstoneLeads(a) ELSE leads
      /\ out' = IF t.silenced /\ a = c THEN out \cup {c} ELSE out
      /\ seen' = seen \cup {t.notice}
      /\ clash' = Clashing(w, {a, c})
      /\ lock' = Unlocked(w)
      /\ proc' = [proc EXCEPT ![w] = Idle]
      /\ UNCHANGED <<checks, world, budget>>

\* Mutant of Undelivered: any message that went out and did not bounce.
NotBounced(m) == IsSent(m) /\ ~ msgs[m].bounced

\* classify_deliveries reads the messages that are SENT and have not bounced, and
\* writes DELIVERED at its commit.
Undelivered(m) == msgs[m].status = "sent" /\ ~ msgs[m].bounced

Classify(w, m) ==
  /\ proc[w].pc = "idle"
  /\ Undelivered(m)
  /\ proc' = [proc EXCEPT ![w] = [pc |-> "deliver", msg |-> m]]
  /\ UNCHANGED <<rows, world, lock, history, budget>>

Deliver(w) ==
  LET m == proc[w].msg
  IN  /\ proc[w].pc = "deliver" /\ Free(m, w)
      /\ msgs' = [msgs EXCEPT ![m].status = "delivered"]
      /\ clash' = Clashing(w, {m[1]})
      /\ proc' = [proc EXCEPT ![w] = Idle]
      /\ UNCHANGED <<final, checks, leads, supp, softs, world, lock, out, seen, budget>>

\* detect_replies_for_campaign finds an answer to a message not known to be
\* answered and not terminal; apply_reply loads it again and writes over any other
\* status.
LookReply(w, m) ==
  /\ proc[w].pc = "idle"
  /\ m \in answered /\ ~ msgs[m].replied /\ msgs[m].status \notin Terminal \cup {"replied"}
  /\ proc' = [proc EXCEPT ![w] = [pc |-> "reply", msg |-> m]]
  /\ UNCHANGED <<rows, world, lock, history, budget>>

ApplyReply(w) ==
  LET m == proc[w].msg
  IN  /\ proc[w].pc = "reply" /\ Free(m, w)
      /\ msgs' = [msgs EXCEPT ![m].status = IF @ \in Terminal THEN @ ELSE "replied",
                              ![m].replied = TRUE]
      /\ clash' = Clashing(w, {m[1]})
      /\ proc' = [proc EXCEPT ![w] = Idle]
      /\ UNCHANGED <<final, checks, leads, supp, softs, world, lock, out, seen, budget>>

-----------------------------------------------------------------------------
(* Users' suppressions                                                      *)

\* create_suppression looks for the address or domain, and inserts it.
LookSuppression(r, a) ==
  /\ proc[r].pc = "idle" /\ edits < MaxEdits
  /\ supp[a] = 0
  /\ proc' = [proc EXCEPT ![r] = [pc |-> "insert", address |-> a]]
  /\ edits' = edits + 1
  /\ UNCHANGED <<rows, world, lock, history, runs, sentNotices, polls>>

Suppress(r) ==
  LET a == proc[r].address
  IN  /\ proc[r].pc = "insert"
      /\ supp' = [supp EXCEPT ![a] = @ + 1]
      /\ clash' = Clashing(r, {a})
      /\ proc' = [proc EXCEPT ![r] = Idle]
      /\ UNCHANGED <<final, checks, leads, msgs, softs, world, lock, out, seen, budget>>

\* delete_suppression, of any row, one a bounce wrote included.
Unsuppress(r, a) ==
  /\ proc[r].pc = "idle" /\ edits < MaxEdits
  /\ supp[a] > 0
  /\ supp' = [supp EXCEPT ![a] = @ - 1]
  /\ out' = out \ {a}
  /\ clash' = Clashing(r, {a})
  /\ edits' = edits + 1
  /\ UNCHANGED <<final, checks, leads, msgs, softs, world, lock, proc, seen, runs,
                 sentNotices, polls>>

-----------------------------------------------------------------------------
\* A worker is killed: its transaction rolls back, and the beat starts over later.
WorkerLost(w) ==
  /\ proc[w].pc # "idle"
  /\ lock' = Unlocked(w)
  /\ proc' = [proc EXCEPT ![w] = Idle]
  /\ UNCHANGED <<rows, world, history, budget>>

Outside ==
  \/ \E c \in Contacts, n \in Mails : QueueMail(c, n)
  \/ \E m \in Messages : SendMail(m) \/ Answer(m)
  \/ \E n \in NoticeType : NoticeArrives(n)
  \/ \E n \in mailbox : NoticeExpires(n)

Validation ==
  \/ \E p \in Procs, c \in Contacts, how \in {"stage", "verify"} : Ask(p, c, how, 0)
  \/ \E w \in Workers, c \in Contacts : \E k \in DOMAIN checks[c] : Ask(w, c, "retry", k)
  \/ \E w \in Workers : StageStore(w) \/ SalesReadyStage(w)
  \/ \E p \in Procs : Store(p)
  \/ \E p \in Procs : proc[p].pc = "surface" /\ Surface(p)

Feedback ==
  \E w \in Workers :
    \/ \E n \in mailbox : LookNotice(w, n)
    \/ Mark(w) \/ Silence(w)
    \/ \E m \in Messages : Classify(w, m) \/ LookReply(w, m)
    \/ Deliver(w) \/ ApplyReply(w)

Users == \E r \in Requests : \/ \E a \in Addresses : LookSuppression(r, a) \/ Unsuppress(r, a)
                             \/ Suppress(r)

Next == Outside \/ Validation \/ Feedback \/ Users \/ \E w \in Workers : WorkerLost(w)

Spec == Init /\ [][Next]_vars

-----------------------------------------------------------------------------
(* Properties                                                               *)

Live(c) == {i \in DOMAIN leads[c] : leads[c][i] = "live"}

\* A contact whose own address was silenced by a bounce stays off the sales-ready
\* list and SUPPRESSED, whatever is validated, retried or recomputed afterwards,
\* until a user deletes the suppression: apply_bounce, the suppression gate of
\* decide and recompute_sales_ready_for_job together, when no transaction on the
\* address overlapped another.
BouncedStaysOut ==
  \A c \in out \ clash : final[c] = "SUPPRESSED" /\ Live(c) = {}

\* The sales-ready list has a contact at most once, and one address at most one
\* suppression, although no unique index says so: lookups and inserts that did not
\* overlap find each other's rows.
OneRowEach ==
  /\ \A c \in Contacts \ clash : Len(leads[c]) <= 1
  /\ \A a \in Addresses \ clash : supp[a] <= 1

\* A lead is put (back) on the list only for a contact that is VERIFIED then,
\* unless the recomputation decided on a status another transaction was changing.
SurfacesVerified ==
  \A c \in Contacts : Live(c) = {} /\ Live(c)' # {} /\ c \notin clash'
                         => final'[c] = "VERIFIED"

\* What a bounce or an answer says of a message is not taken back by a later
\* delivery, answer or notice: a terminal status is final and an answered message
\* is never DELIVERED again, unless two transactions on the address overlapped.
OutcomeStays ==
  \A m \in Messages : m[1] \notin clash' =>
    /\ msgs[m].status \in Terminal => msgs'[m].status = msgs[m].status
    /\ msgs[m].replied \/ msgs[m].bounced => msgs'[m].status # "delivered"

\* An address no notice of a terminal kind came for, and no user edited, is
\* suppressed after SOFT_BOUNCE_RETRY_BUDGET soft bounces (suppression.py): that
\* many notices.  poll_bounces applies a soft notice again at every poll while it
\* is in the mailbox, so one notice is enough.
SoftBudgetKept ==
  \A c \in Contacts :
    c \in out => \/ \E n \in seen : n.to = c /\ BounceStatus(n.kind) \in Terminal
                 \/ Cardinality({n \in seen : n.to = c}) >= SoftBudget

\* "Latest check per candidate is the one whose final_status the candidate mirrors"
\* (tasks/validation.py): what is tried again is a candidate that is unknown.  The
\* query takes any old unknown check, also of a candidate validated anew since.
OnlyUnknownRetried ==
  [][\A w \in Workers : /\ proc[w].pc = "idle" /\ proc'[w].pc = "store"
                        /\ proc'[w].how = "retry"
                        => proc'[w].read = "UNKNOWN_RETRY"]_vars

=============================================================================
