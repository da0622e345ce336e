-------------------------------- MODULE Mailbox --------------------------------
(***************************************************************************)
(* The polls of the sending accounts' mailboxes: delivery notices are      *)
(* parsed, matched to the message they are about and recorded; replies are *)
(* found in the threads of sent messages.  One run of a poll goes through  *)
(* all accounts in one transaction.  An account without a credential is    *)
(* served by the demo mailbox, which makes up notices of its own.          *)
(*                                                                         *)
(* A notice is about the message `of`; `shape` says what its parts let one *)
(* recover.  Each account is its tenant's only one.  A re-launch deletes   *)
(* the rows of its campaign's messages, also of those sent.                *)
(***************************************************************************)
EXTENDS Integers, Sequences, SequencesExt, FiniteSetsExt

CONSTANTS
  Accounts,   \* a sequence: the order of the poll
  Msgs, Account, To,
  Shapes,     \* notices that may come: [report, prose, quotes, marked]
  DemoBounces, DemoReplies,   \* messages whose recipient the demo mailbox answers for
  PageSize,   \* max_results of a listing
  MaxNotices, \* bound: notices in a mailbox
  MaxFaults   \* bound: losses of a credential or of Gmail

MailboxAssumption ==
  /\ PageSize \in Nat \ {0} /\ {MaxNotices, MaxFaults} \subseteq Nat
  /\ DemoBounces \cap DemoReplies = {}
  /\ Accounts \in Seq(Range(Accounts))
  /\ \A m \in Msgs : Account[m] \in Range(Accounts) /\ To[m] # "none"

VARIABLES
  cred,     \* cred[a]: has the tenant an active Google credential
  gmail,    \* gmail[a]: "ok", "busy" (429, 5xx), "revoked" (invalid_grant)
  sent,     \* messages sent, in order
  box,      \* box[a][backend]: notices in the order they came
  answered, \* messages whose thread holds a reply
  msgs,     \* committed: [status, replied]; a row that was deleted is "DELETED"
  hits,     \* committed BounceEvents: notice -> how often, as far as twice
  poll,     \* the bounce poll: accounts to do and what it has written
  replies,  \* the reply poll: the statuses it read of the messages it found
  raced,    \* history: messages whose bounce the reply poll has not seen
  faults

vars == <<cred, gmail, sent, box, answered, msgs, hits, poll, replies, raced, faults>>

Nothing  == [x \in {} |-> x]
Idle     == [on |-> FALSE, todo |-> <<>>, status |-> Nothing, hits |-> Nothing]
Negative == {"HARD_BOUNCE", "SPAM_COMPLAINT", "BLOCKED"}
Servers  == Range(Accounts)
None     == "none"

Init ==
  /\ cred = [a \in Servers |-> TRUE] /\ gmail = [a \in Servers |-> "ok"]
  /\ sent = <<>> /\ box = [a \in Servers |-> [real |-> <<>>, demo |-> <<>>]] /\ answered = {}
  /\ msgs = [m \in Msgs |-> [status |-> "QUEUED", replied |-> FALSE]]
  /\ hits = Nothing /\ poll = Idle /\ replies = Nothing
  /\ raced = {} /\ faults = 0

\* get_gmail_client: the demo mailbox serves tenants without a credential.
Backend(a) == IF cred[a] THEN "real" ELSE "demo"

Up(a) == Backend(a) = "demo" \/ gmail[a] = "ok"

With(f, x, v) == [y \in DOMAIN f \cup {x} |-> IF y = x THEN v ELSE f[y]]

There(m) == msgs[m].status # "DELETED"

-----------------------------------------------------------------------------
(* What a notice says: bounce_parser                                        *)

\* _DIAGNOSTIC_RULES: the words of a diagnostic, most telling first, and their type.
Rules == << <<"full", "MAILBOX_FULL">>, <<"domain", "INVALID_DOMAIN">>,
            <<"spam", "SPAM_REJECTED">>, <<"blocked", "BLOCKED">>, <<"rate", "RATE_LIMITED">> >>

\* classify_bounce: the first rule whose words occur, else the class of the status.
Classify(status, words) ==
  LET told == {i \in DOMAIN Rules : Rules[i][1] \in words}
  IN  CASE told # {}                  -> Rules[Min(told)][2]
        [] told = {} /\ status = "5"  -> "HARD"
        [] told = {} /\ status = "4"  -> "SOFT"
        [] OTHER                      -> "UNKNOWN"

\* What one part of the notice gives; the quoted Message-ID is looked for in all parts.
Info(n, part) ==
  [rcpt |-> IF part.names THEN To[n.of] ELSE None, quotes |-> n.shape.quotes,
   of |-> n.of, kind |-> Classify(part.status, part.words)]

\* parse_dsn: the delivery-status part (none if its list is empty) unless only the
\* prose names the recipient.
Parse(n) ==
  LET report == n.shape.report
  IN  IF report # <<>> /\ (report[1].names \/ ~ n.shape.prose.names)
      THEN Info(n, report[1]) ELSE Info(n, n.shape.prose)

-----------------------------------------------------------------------------
(* The message it is about: match_message                                   *)

\* The newest message of the tenant to that recipient.
Newest(a, rcpt) ==
  LET at == {i \in DOMAIN sent : /\ Account[sent[i]] = a /\ To[sent[i]] = rcpt
                                 /\ There(sent[i])}
  IN  IF at = {} THEN {} ELSE {sent[Max(at)]}

\* Mutant of Match: the recipient is tried first.
MatchRecipient(a, info) ==
  IF Newest(a, info.rcpt) # {} THEN Newest(a, info.rcpt)
  ELSE IF info.quotes /\ There(info.of) THEN {info.of} ELSE {}

\* Our own id in the quoted Message-ID (of the tenant), or Gmail's, of a row that is
\* still there; else the recipient.
Match(a, info) ==
  IF info.quotes /\ Account[info.of] = a /\ There(info.of) THEN {info.of}
  ELSE Newest(a, info.rcpt)

BounceStatus(kind) ==
  CASE kind \in {"HARD", "INVALID_DOMAIN", "MAILBOX_FULL"} -> "HARD_BOUNCE"
    [] kind = "SPAM_REJECTED"                              -> "SPAM_COMPLAINT"
    [] kind = "BLOCKED"                                    -> "BLOCKED"
    [] OTHER                                               -> "SOFT_BOUNCE"

-----------------------------------------------------------------------------
(* Sending, the recipients' servers, faults                                 *)

Notice(m, shape, a, where) == [of |-> m, shape |-> shape, id |-> <<a, where, Len(box[a][where]) + 1>>]

\* _synthesize_dsn
DemoShape == [report |-> <<[names |-> TRUE, status |-> "5", words |-> {}]>>,
              prose |-> [names |-> TRUE, status |-> "none", words |-> {}],
              quotes |-> TRUE, marked |-> TRUE]

\* send: the demo mailbox answers at once for some recipients.
Send(m) ==
  LET a == Account[m]
  IN  /\ msgs[m].status = "QUEUED" /\ Up(a)
      /\ msgs' = [msgs EXCEPT ![m].status = "SENT"]
      /\ sent' = Append(sent, m)
      /\ box' = IF ~ cred[a] /\ m \in DemoBounces
                THEN [box EXCEPT ![a].demo = Append(@, Notice(m, DemoShape, a, "demo"))] ELSE box
      /\ answered' = IF ~ cred[a] /\ m \in DemoReplies THEN answered \cup {m} ELSE answered
      /\ UNCHANGED <<cred, gmail, hits, poll, replies, raced, faults>>

\* A notice or a reply comes in.
Deliver(m, shape) ==
  LET a == Account[m]
  IN  /\ msgs[m].status # "QUEUED" /\ Len(box[a].real) < MaxNotices
      /\ box' = [box EXCEPT ![a].real = Append(@, Notice(m, shape, a, "real"))]
      /\ UNCHANGED <<cred, gmail, sent, answered, msgs, hits, poll, replies, raced, faults>>

Answer(m) ==
  /\ msgs[m].status # "QUEUED" /\ answered' = answered \cup {m}
  /\ UNCHANGED <<cred, gmail, sent, box, msgs, hits, poll, replies, raced, faults>>

Fault(a) ==
  /\ faults < MaxFaults /\ faults' = faults + 1
  /\ \/ gmail' \in {[gmail EXCEPT ![a] = s] : s \in {"busy", "revoked"}} /\ UNCHANGED cred
     \/ cred' = [cred EXCEPT ![a] = FALSE] /\ UNCHANGED gmail
  /\ UNCHANGED <<sent, box, answered, msgs, hits, poll, replies, raced>>

\* hits without those of a message.
Without(hs, m) == [h \in {h \in DOMAIN hs : h[3] # m} |-> hs[h]]

\* schedule_campaign clears the campaign's messages; their BounceEvents go with them
\* (ON DELETE CASCADE).  It waits for a poll that has written one of them to commit.
Relaunch(m) ==
  /\ msgs[m].status \notin {"QUEUED", "DELETED"} /\ m \notin DOMAIN poll.status
  /\ msgs' = [msgs EXCEPT ![m].status = "DELETED"]
  /\ hits' = Without(hits, m) /\ poll' = [poll EXCEPT !.hits = Without(@, m)]
  /\ UNCHANGED <<cred, gmail, sent, box, answered, replies, raced, faults>>

Recover(a) ==
  /\ gmail[a] = "busy" /\ gmail' = [gmail EXCEPT ![a] = "ok"]
  /\ UNCHANGED <<cred, sent, box, answered, msgs, hits, poll, replies, raced, faults>>

-----------------------------------------------------------------------------
(* poll_bounces                                                             *)

StartPoll ==
  /\ ~ poll.on /\ sent # <<>>
  /\ poll' = [on |-> TRUE, todo |-> Accounts, status |-> Nothing, hits |-> hits]
  /\ UNCHANGED <<cred, gmail, sent, box, answered, msgs, hits, replies, raced, faults>>

\* DAEMON_QUERY: one page; Gmail lists the newest first, the demo mailbox the oldest.
Listed(a) ==
  LET all == box[a][Backend(a)]
      by  == IF Backend(a) = "real" THEN Reverse(all) ELSE all
  IN  SubSeq(by, 1, Min({PageSize, Len(by)}))

\* Mutant of Recorded: a bounce on record does not keep the next one out.
RecordedNever(status) == FALSE

Recorded(status) == status \in Negative

\* One notice, seen by a transaction that has written `p`: recorded unless it matches
\* nothing or the message has a permanent bounce already.
Record(a, p, n) ==
  LET info  == Parse(n)
      found == Match(a, info)
      m     == CHOOSE x \in found : TRUE
      now   == IF m \in DOMAIN p.status THEN p.status[m] ELSE msgs[m].status
      hit   == <<n.id, n.of, m, BounceStatus(info.kind)>>
  IN  IF found = {} \/ Recorded(now) THEN p
      ELSE [p EXCEPT !.status = With(@, m, BounceStatus(info.kind)),
                     !.hits = With(@, hit, IF hit \in DOMAIN @ THEN 2 ELSE 1)]

\* The notices of an account, one after the other.
RecordAll(a) ==
  LET listed == Listed(a)
      seen[i \in 0 .. Len(listed)] == IF i = 0 THEN poll ELSE Record(a, seen[i - 1], listed[i])
  IN  seen[Len(listed)]

PollAccount ==
  /\ poll.on /\ poll.todo # <<>> /\ Up(Head(poll.todo))
  /\ poll' = [RecordAll(Head(poll.todo)) EXCEPT !.todo = Tail(@)]
  /\ UNCHANGED <<cred, gmail, sent, box, answered, msgs, hits, replies, raced, faults>>

\* An account's mailbox raises: the transaction of all accounts is rolled back.
PollFails ==
  /\ poll.on /\ poll.todo # <<>> /\ ~ Up(Head(poll.todo))
  /\ poll' = Idle
  /\ UNCHANGED <<cred, gmail, sent, box, answered, msgs, hits, replies, raced, faults>>

PollCommits ==
  /\ poll.on /\ poll.todo = <<>>
  /\ msgs' = [m \in Msgs |-> IF m \in DOMAIN poll.status
                             THEN [msgs[m] EXCEPT !.status = poll.status[m]] ELSE msgs[m]]
  /\ hits' = poll.hits
  /\ poll' = Idle
  /\ UNCHANGED <<cred, gmail, sent, box, answered, replies, raced, faults>>

-----------------------------------------------------------------------------
(* poll_replies                                                             *)

\* thread_has_reply: an inbound message whose snippet does not look like a notice's.
\* Gmail files the notice in the thread of its message, the demo mailbox elsewhere.
Replied(m) ==
  \/ m \in answered
  \/ cred[Account[m]] /\ \E i \in DOMAIN box[Account[m]].real :
       LET n == box[Account[m]].real[i] IN n.of = m /\ ~ n.shape.marked

\* detect_replies_for_campaign: the messages that could be REPLIED; one whose mailbox
\* does not answer is skipped.
FindReplies ==
  /\ replies = Nothing
  /\ LET found == {m \in Msgs : /\ There(m) /\ ~ msgs[m].replied
                                /\ msgs[m].status \notin Negative \cup {"QUEUED", "REPLIED"}
                                /\ Up(Account[m]) /\ Replied(m)}
     IN  found # {} /\ replies' = [m \in found |-> msgs[m].status]
  /\ UNCHANGED <<cred, gmail, sent, box, answered, msgs, hits, poll, raced, faults>>

\* apply_reply, on the rows `again` (session.get reads the row once more; None if it is
\* gone) and on the others as they were read before: a bounce stays only if it was seen.
CommitReplies ==
  /\ replies # Nothing
  /\ \E again \in SUBSET DOMAIN replies :
       LET late   == {m \in DOMAIN replies \ again : msgs[m].status # replies[m]}
           keep   == {m \in again : msgs[m].status \in Negative}
           marked == {m \in DOMAIN replies : There(m)}
       IN  /\ \A m \in late : There(m)
           /\ msgs' = [m \in Msgs |->
                IF m \notin marked THEN msgs[m]
                ELSE [status |-> IF m \in keep THEN msgs[m].status ELSE "REPLIED",
                      replied |-> TRUE]]
           /\ raced' = raced \cup late
  /\ replies' = Nothing
  /\ UNCHANGED <<cred, gmail, sent, box, answered, hits, poll, faults>>

\* The ReplyEvent of a row that is gone violates its foreign key: all is rolled back.
RepliesFail ==
  /\ \E m \in DOMAIN replies : ~ There(m)
  /\ replies' = Nothing
  /\ UNCHANGED <<cred, gmail, sent, box, answered, msgs, hits, poll, raced, faults>>

-----------------------------------------------------------------------------
Next ==
  \/ \E m \in Msgs : Send(m) \/ Answer(m) \/ Relaunch(m) \/ \E shape \in Shapes : Deliver(m, shape)
  \/ \E a \in Servers : Fault(a) \/ Recover(a)
  \/ StartPoll \/ PollAccount \/ PollFails \/ PollCommits
  \/ FindReplies \/ CommitReplies \/ RepliesFail

Spec == Init /\ [][Next]_vars

\* The beat starts the poll again and again, and a busy Gmail recovers.
FairSpec ==
  /\ Spec
  /\ WF_vars(StartPoll) /\ WF_vars(PollAccount) /\ WF_vars(PollFails) /\ WF_vars(PollCommits)
  /\ \A a \in Servers : WF_vars(Recover(a))

-----------------------------------------------------------------------------
(* Properties                                                               *)

\* A notice that quotes its message is recorded against that message, though a newer
\* one went to the same recipient, whatever its parts lack.  Against another it is
\* recorded only once a re-launch has deleted the row it quotes, where
\* workers/tasks/bounce.py:6 says "match it back to the originating EmailMessage".
\* Every notice is recorded against a message to its recipient.
NoticeHitsItsMessage ==
  \A h \in DOMAIN hits :
    /\ To[h[3]] = To[h[2]]
    /\ (\E i \in DOMAIN box[h[1][1]][h[1][2]] :
          box[h[1][1]][h[1][2]][i].id = h[1] /\ box[h[1][1]][h[1][2]][i].shape.quotes)
         => h[3] = h[2] \/ msgs[h[2]].status = "DELETED"

\* A message has at most one permanent bounce on record, however many polls list its
\* notice, are rolled back and start again, and, while its row is there, it keeps it,
\* also when an answer comes in; but for the messages whose row the reply poll had read
\* before the bounce.  The record of a message that was deleted is gone with it: a
\* notice still listed is then the next message's to the recipient, and counted there
\* once.
BounceStands ==
  \A m \in Msgs \ raced :
    LET on == {h \in DOMAIN hits : h[3] = m /\ h[4] \in Negative}
    IN  on # {} => /\ Cardinality(on) = 1 /\ \A h \in on : hits[h] = 1
                   /\ msgs[m].status \in Negative

\* workers/tasks/bounce.py: "for each tenant with active sending, [...] apply the bounce
\* action set".  A notice in a mailbox that can be read is recorded, whatever the other
\* tenants' mailboxes do.
NoticeRecorded ==
  \A m \in Msgs :
    ((\E i \in DOMAIN box[Account[m]].real : box[Account[m]].real[i].of = m)
       ~> (msgs[m].status # "SENT" \/ ~ cred[Account[m]] \/ gmail[Account[m]] # "ok"))
=============================================================================
