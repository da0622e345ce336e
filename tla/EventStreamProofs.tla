--------------------------- MODULE EventStreamProofs ---------------------------
(***************************************************************************)
(* What a connection sends and what the page shows, for any number of      *)
(* writers and events.                                                     *)
(***************************************************************************)
EXTENDS EventStream, FiniteSetTheorems, TLAPS

TypeInv ==
  /\ drawn \in 0 .. MaxSeq /\ rows \in [Writers -> SUBSET Seqs]
  /\ unsent \in [Writers -> 0 .. MaxSeq] /\ committed \subseteq Seqs
  /\ conn \in {"closed", "subscribed", "replayed", "live"}
  /\ inbox \in Seq(Seqs) /\ last_seq \in 0 .. MaxSeq /\ frames \in Seq(Seqs)
  /\ log \subseteq Seqs /\ lastSeq \in 0 .. MaxSeq /\ errors \in Nat
  /\ timer \in {"none", "connect", "poll"} /\ pollTimer \in BOOLEAN
  /\ closed \in BOOLEAN /\ raced \subseteq Seqs

\* What a connection has sent is in order and behind its cursor.
Served ==
  /\ ServedOnceInOrder
  /\ \A i \in DOMAIN frames : frames[i] <= last_seq

\* Every number is taken once, by one writer, and published before it is committed.
Numbers ==
  /\ \A w \in Writers : \A s \in rows[w] : s <= drawn /\ s \notin committed
  /\ \A v, w \in Writers : v # w => rows[v] \cap rows[w] = {}
  /\ \A w \in Writers : unsent[w] # 0 => unsent[w] \in rows[w]
  /\ \A s \in committed : s <= drawn
  /\ \A i \in DOMAIN inbox : inbox[i] <= drawn
  /\ last_seq <= drawn /\ lastSeq <= drawn

\* Numbers that are stored or may be, those of them that are published, and those the
\* page need not hear of any more.
Taken     == committed \cup Open
Published == {s \in Taken : \A w \in Writers : unsent[w] # s}
Known     == log \cup raced

\* The page has no use for a number behind either cursor.
Behind ==
  /\ \A s \in Taken : s <= last_seq => s \in Known
  /\ \A s \in Taken : s <= lastSeq => s \in Known

\* Whoever is overtaken on the channel counts as raced: by a message in the inbox, not
\* yet published or behind it.
Overtaken ==
  /\ \A w \in Writers : \A i \in DOMAIN inbox :
       unsent[w] # 0 /\ unsent[w] < inbox[i] => unsent[w] \in raced
  /\ \A i, j \in DOMAIN inbox : i < j /\ inbox[j] < inbox[i] => inbox[j] \in raced

\* Once the replay is over, what is published is known or on its way.
OnItsWay ==
  conn \in {"replayed", "live"} =>
    \A s \in Published : s \in Known \/ \E i \in DOMAIN inbox : inbox[i] = s

IInv == TypeInv /\ Served /\ Numbers /\ Behind /\ Overtaken /\ OnItsWay

-----------------------------------------------------------------------------
(* Sets of numbers                                                          *)

\* The members of a finite set of numbers have the ranks 1, 2, ... up to its size.
LEMMA Ranks ==
  ASSUME NEW n \in Nat, NEW S \in SUBSET (1 .. n)
  PROVE  /\ Cardinality(S) \in Nat
         /\ \A s \in S : Cardinality({t \in S : t <= s}) \in 1 .. Cardinality(S)
         /\ \A r, s \in S : r < s =>
              Cardinality({t \in S : t <= r}) < Cardinality({t \in S : t <= s})
         /\ \A i \in 1 .. Cardinality(S) :
              \E s \in S : Cardinality({t \in S : t <= s}) = i
<1> DEFINE UpTo(s) == {t \in S : t <= s}
           rank == [s \in S |-> Cardinality(UpTo(s))]
<1>1. IsFiniteSet(S) /\ Cardinality(S) \in Nat
  <2>1. IsFiniteSet(1 .. n)
    BY FS_Interval
  <2>2. QED
    BY <2>1, FS_Subset, FS_CardinalityType
<1>2. \A s \in S : IsFiniteSet(UpTo(s)) /\ Cardinality(UpTo(s)) \in 1 .. Cardinality(S)
  <2>1. TAKE s \in S
  <2>2. UpTo(s) \in SUBSET S /\ s \in UpTo(s)
    OBVIOUS
  <2>3. IsFiniteSet(UpTo(s)) /\ Cardinality(UpTo(s)) <= Cardinality(S)
    BY <1>1, <2>2, FS_Subset
  <2>4. Cardinality(UpTo(s)) \in Nat /\ Cardinality(UpTo(s)) # 0
    BY <2>2, <2>3, FS_CardinalityType, FS_EmptySet
  <2>5. QED
    BY <1>1, <2>3, <2>4
<1>3. ASSUME NEW r \in S, NEW s \in S, r < s
      PROVE  Cardinality(UpTo(r)) < Cardinality(UpTo(s))
  <2>0. \A t \in S : t \in Int
    OBVIOUS
  <2>1. UpTo(r) \in SUBSET UpTo(s) /\ s \in UpTo(s) /\ s \notin UpTo(r)
    <3>1. r \in Int /\ s \in Int
      BY <2>0
    <3>2. \A t \in S : t <= r => t <= s
      BY <1>3, <2>0, <3>1
    <3>3. s <= s /\ ~ (s <= r)
      BY <1>3, <3>1
    <3>4. QED
      BY <3>2, <3>3
  <2>2. Cardinality(UpTo(r)) <= Cardinality(UpTo(s)) /\ Cardinality(UpTo(r)) # Cardinality(UpTo(s))
    BY <1>2, <2>1, FS_Subset
  <2>3. QED
    BY <1>2, <2>2
<1>4. rank \in Injection(S, 1 .. Cardinality(S))
  <2>1. rank \in [S -> 1 .. Cardinality(S)]
    BY <1>2
  <2>2. \A r, s \in S : rank[r] = rank[s] => r = s
    BY <1>2, <1>3
  <2>3. QED
    BY <2>1, <2>2 DEF Injection, IsInjective
<1>5. rank \in Surjection(S, 1 .. Cardinality(S))
  <2>1. IsFiniteSet(1 .. Cardinality(S)) /\ Cardinality(1 .. Cardinality(S)) = Cardinality(S)
    BY <1>1, FS_Interval
  <2>2. QED
    BY <1>4, <2>1, FS_Injection
<1>6. \A i \in 1 .. Cardinality(S) : \E s \in S : rank[s] = i
  BY <1>5 DEF Surjection
<1>7. QED
  BY <1>1, <1>2, <1>3, <1>6

LEMMA MaxOfIs ==
  ASSUME NEW n \in Nat, NEW S \in SUBSET (0 .. n)
  PROVE  MaxOf(S) \in S \cup {0} /\ \A s \in S : MaxOf(S) >= s
<1>1. \E x \in S \cup {0} : \A y \in S : x >= y
  <2> DEFINE T == S \ {0}
  <2>1. CASE T = {}
    BY <2>1
  <2>2. CASE T # {}
    <3>1. T \in SUBSET (1 .. n)
      OBVIOUS
    <3>2. IsFiniteSet(T)
      <4>1. IsFiniteSet(1 .. n)
        BY FS_Interval
      <4>2. QED
        BY <3>1, <4>1, FS_Subset
    <3>3. Cardinality(T) \in Nat /\ Cardinality(T) # 0
      BY <2>2, <3>2, FS_CardinalityType, FS_EmptySet
    <3>4. PICK x \in T : Cardinality({t \in T : t <= x}) = Cardinality(T)
      <4>1. Cardinality(T) \in 1 .. Cardinality(T)
        BY <3>3
      <4> HIDE DEF T
      <4>2. QED
        BY <3>1, <4>1, Ranks
    <3>5. {t \in T : t <= x} = T
      BY <3>2, <3>4, FS_Subset
    <3>6. \A y \in S : x >= y
      BY <3>5
    <3>7. QED
      BY <3>6
  <2>3. QED
    BY <2>1, <2>2
<1>2. QED
  BY <1>1 DEF MaxOf

-----------------------------------------------------------------------------
(* The invariant                                                            *)

LEMMA InitIInv ==
  ASSUME EventAssumption, Init
  PROVE  IInv
<1>1. TypeInv
  <2>1. <<>> \in Seq(Seqs)
    OBVIOUS
  <2>2. rows \in [Writers -> SUBSET Seqs] /\ unsent \in [Writers -> 0 .. MaxSeq]
    BY DEF EventAssumption, Init
  <2>3. 0 \in 0 .. MaxSeq /\ 0 \in Nat
    BY DEF EventAssumption
  <2>4. QED
    BY <2>1, <2>2, <2>3 DEF Init, TypeInv
<1>2. Served /\ Behind /\ Overtaken /\ OnItsWay
  BY DEF EventAssumption, Init, Served, ServedOnceInOrder, Behind, Taken, Open, Overtaken, OnItsWay
<1>3. Numbers
  BY DEF EventAssumption, Init, Numbers
<1>4. QED
  BY <1>1, <1>2, <1>3 DEF IInv

LEMMA TakenNumbers ==
  ASSUME TypeInv
  PROVE  Taken \subseteq Seqs
  BY DEF TypeInv, Taken, Open

LEMMA FlushStep ==
  ASSUME EventAssumption, IInv, NEW w \in Writers, Flush(w)
  PROVE  IInv'
<1> USE DEF EventAssumption, IInv, Flush, serving, page
<1>1. TypeInv'
  BY DEF TypeInv, Seqs
<1> DEFINE n == drawn + 1
<1>2. /\ \A v \in Writers : rows'[v] = IF v = w THEN rows[w] \cup {n} ELSE rows[v]
      /\ \A v \in Writers : unsent'[v] = IF v = w THEN n ELSE unsent[v]
      /\ n \in 1 .. MaxSeq
  BY DEF TypeInv
<1>3. Taken' = Taken \cup {n}
  BY <1>2 DEF Taken, Open
<1>4. Published' \subseteq Published
  BY <1>2, <1>3, TakenNumbers DEF Published, Seqs
<1>5. Served'
  BY DEF Served, ServedOnceInOrder
<1>6. Numbers'
  BY <1>2 DEF Numbers, TypeInv, Seqs
<1>7. Behind'
  BY <1>3 DEF Behind, Numbers, TypeInv, Known
<1>8. Overtaken'
  <2>1. \A i \in DOMAIN inbox : inbox[i] \in Seqs /\ ~ (n < inbox[i])
    BY DEF Numbers, TypeInv, Seqs
  <2>2. QED
    BY <1>2, <2>1 DEF Overtaken
<1>9. OnItsWay'
  BY <1>4 DEF OnItsWay, Known
<1>10. QED
  BY <1>1, <1>5, <1>6, <1>7, <1>8, <1>9

LEMMA PublishStep ==
  ASSUME EventAssumption, IInv, NEW w \in Writers, Publish(w)
  PROVE  IInv'
<1> USE DEF EventAssumption, IInv, Publish, page
<1> DEFINE n == unsent[w]
<1>1. n \in Seqs /\ n \in rows[w]
  BY DEF TypeInv, Numbers, Seqs
<1>2. /\ \A v \in Writers : unsent'[v] = IF v = w THEN 0 ELSE unsent[v]
      /\ raced \subseteq raced'
      /\ \A v \in Writers : unsent[v] # 0 /\ unsent[v] < n => unsent[v] \in raced'
  <2>1. unsent \in [Writers -> 0 .. MaxSeq]
    BY DEF TypeInv
  <2>2. \A v \in Writers : unsent[v] # 0 /\ unsent[v] < n => unsent[v] \in 1 .. n - 1
    BY <1>1, <2>1 DEF Seqs
  <2>3. QED
    BY <2>1, <2>2
<1>3. inbox' = inbox \/ inbox' = Append(inbox, n)
  OBVIOUS
<1>4. TypeInv'
  <2>1. unsent' \in [Writers -> 0 .. MaxSeq] /\ inbox' \in Seq(Seqs)
    BY <1>1, <1>3 DEF TypeInv
  <2>2. \A v \in Writers : unsent[v] \in 1 .. n - 1 => unsent[v] \in Seqs
    BY DEF TypeInv, Seqs
  <2>3. raced' \subseteq Seqs
    BY <2>2 DEF TypeInv
  <2>4. QED
    BY <2>1, <2>3 DEF TypeInv
<1>5. Taken' = Taken
  BY DEF Taken, Open
<1>6. Served'
  BY DEF Served, ServedOnceInOrder
<1>7. \A i \in DOMAIN inbox' :
        \/ i \in DOMAIN inbox /\ inbox'[i] = inbox[i]
        \/ i = Len(inbox) + 1 /\ inbox'[i] = n
  BY <1>1, <1>3 DEF TypeInv
<1>8. Numbers'
  BY <1>1, <1>2, <1>7 DEF Numbers, TypeInv, Seqs
<1>9. Behind'
  BY <1>2, <1>5 DEF Behind, Known
<1>10. Overtaken'
  <2>1. ASSUME NEW v \in Writers, NEW i \in DOMAIN inbox', unsent'[v] # 0, unsent'[v] < inbox'[i]
        PROVE  unsent'[v] \in raced'
    BY <1>2, <1>7, <2>1 DEF Overtaken
  <2>2. ASSUME NEW i \in DOMAIN inbox', NEW j \in DOMAIN inbox', i < j, inbox'[j] < inbox'[i]
        PROVE  inbox'[j] \in raced'
    BY <1>1, <1>2, <1>7, <2>2 DEF Overtaken, TypeInv, Seqs
  <2>3. QED
    BY <2>1, <2>2 DEF Overtaken
<1>11. OnItsWay'
  <2>1. SUFFICES ASSUME conn \in {"replayed", "live"}, NEW s \in Published'
                 PROVE  s \in Known' \/ \E i \in DOMAIN inbox' : inbox'[i] = s
    BY DEF OnItsWay
  <2>2. inbox' = Append(inbox, n)
    BY <2>1 DEF Subscribed
  <2>3. CASE s = n
    <3>1. Len(inbox) + 1 \in DOMAIN inbox' /\ inbox'[Len(inbox) + 1] = n
      BY <1>1, <2>2 DEF TypeInv
    <3>2. QED
      BY <2>3, <3>1
  <2>4. CASE s # n
    <3>1. s \in Published
      BY <1>2, <1>5, <2>4 DEF Published
    <3>2. s \in Known \/ \E i \in DOMAIN inbox : inbox[i] = s
      BY <2>1, <3>1 DEF OnItsWay
    <3>3. \A i \in DOMAIN inbox : i \in DOMAIN inbox' /\ inbox'[i] = inbox[i]
      BY <1>1, <2>2 DEF TypeInv
    <3>4. QED
      BY <1>2, <3>2, <3>3 DEF Known
  <2>5. QED
    BY <2>3, <2>4
<1>12. QED
  BY <1>4, <1>6, <1>8, <1>9, <1>10, <1>11

\* The transaction ends: its rows are stored, or gone.
LEMMA EndStep ==
  ASSUME EventAssumption, IInv, NEW w \in Writers, Commit(w) \/ Rollback(w)
  PROVE  IInv'
<1> USE DEF EventAssumption, IInv, serving, page
<1>1. /\ \A v \in Writers : rows'[v] = IF v = w THEN {} ELSE rows[v]
      /\ \A v \in Writers : unsent'[v] = IF v = w THEN 0 ELSE unsent[v]
      /\ committed' \subseteq committed \cup rows[w]
      /\ UNCHANGED <<drawn, serving, page, raced>>
      /\ rows' \in [Writers -> SUBSET Seqs] /\ unsent' \in [Writers -> 0 .. MaxSeq]
  <2>1. rows \in [Writers -> SUBSET Seqs] /\ unsent \in [Writers -> 0 .. MaxSeq]
    BY DEF TypeInv
  <2>2. CASE Commit(w)
    BY <2>1, <2>2 DEF Commit
  <2>3. CASE Rollback(w)
    BY <2>1, <2>3 DEF Rollback
  <2>4. QED
    BY <2>2, <2>3
<1>2. TypeInv'
  BY <1>1 DEF TypeInv
<1>3. Taken' \subseteq Taken
  BY <1>1 DEF Taken, Open
<1>4. Published' \subseteq Published
  <2>1. CASE Commit(w)
    BY <1>1, <1>3, <2>1 DEF Published, Commit
  <2>2. CASE Rollback(w)
    <3>1. \A s \in Taken' : s \notin rows[w]
      BY <1>1, <2>2 DEF Taken, Open, Numbers, Rollback
    <3>2. \A s \in Taken' : s # unsent[w]
      BY <3>1, <1>1, <2>2 DEF Numbers, Taken, Open, TypeInv, Seqs, Rollback
    <3>3. QED
      BY <1>1, <1>3, <3>2 DEF Published
  <2>3. QED
    BY <2>1, <2>2
<1>5. Served'
  BY <1>1 DEF Served, ServedOnceInOrder
<1>6. Numbers'
  BY <1>1 DEF Numbers
<1>7. Behind' /\ Overtaken' /\ OnItsWay'
  BY <1>1, <1>3, <1>4 DEF Behind, Overtaken, OnItsWay, Known
<1>8. QED
  BY <1>2, <1>5, <1>6, <1>7

\* A cursor moved over a set of numbers.
LEMMA CursorMoves ==
  ASSUME EventAssumption, NEW S \in SUBSET Seqs, NEW c \in 0 .. MaxSeq
  PROVE  LET m == MaxOf(S \cup {c}) IN
         m \in S \cup {c} /\ m \in 0 .. MaxSeq /\ \A s \in S \cup {c} : m >= s
<1> DEFINE m == MaxOf(S \cup {c})
<1>1. S \cup {c} \in SUBSET (0 .. MaxSeq) /\ MaxSeq \in Nat
  BY DEF Seqs, EventAssumption
<1>2. m \in (S \cup {c}) \cup {0} /\ \A s \in S \cup {c} : m >= s
  BY <1>1, MaxOfIs
<1>3. m = 0 => c = 0
  BY <1>2
<1>4. QED
  BY <1>1, <1>2, <1>3

LEMMA AfterNumbers ==
  ASSUME TypeInv, NEW c
  PROVE  After(c) \in SUBSET Seqs
  BY DEF TypeInv, After

LEMMA ConnectStep ==
  ASSUME EventAssumption, IInv, Connect
  PROVE  IInv'
<1> USE DEF EventAssumption, IInv, Connect, writing
<1>1. TypeInv'
  <2>1. <<>> \in Seq(Seqs)
    OBVIOUS
  <2>2. QED
    BY <2>1 DEF TypeInv
<1>2. Served' /\ Overtaken' /\ OnItsWay'
  BY DEF Served, ServedOnceInOrder, Overtaken, OnItsWay
<1>3. Numbers' /\ Behind'
  BY DEF Numbers, Behind, Taken, Open, Known
<1>4. QED
  BY <1>1, <1>2, <1>3

\* What the page learns of the committed rows, and what may still come, leaves nothing
\* behind a cursor.
LEMMA AllKnown ==
  ASSUME EventAssumption, IInv, UNCHANGED <<rows, committed>>, NEW c \in {last_seq, lastSeq},
         log' = log \cup After(c), raced' = raced \cup Open
  PROVE  Taken' \subseteq Known'
<1>1. Taken' = Taken
  BY DEF Taken, Open
<1>2. \A s \in committed : s > c => s \in log'
  BY DEF After
<1>3. \A s \in committed : s <= c => s \in Known
  BY DEF IInv, Behind, Taken
<1>4. \A s \in committed : s > c \/ s <= c
  BY DEF IInv, TypeInv, Seqs
<1>5. QED
  BY <1>1, <1>2, <1>3, <1>4 DEF Known, Taken

LEMMA ReplayStep ==
  ASSUME EventAssumption, IInv, Replay
  PROVE  IInv'
<1> DEFINE new == After(last_seq)
           n == Cardinality(new)
           rank(s) == Cardinality({t \in new : t <= s})
           Nth(i) == CHOOSE s \in new : rank(s) = i
<1>1. new \in SUBSET Seqs /\ new \in SUBSET (1 .. MaxSeq) /\ MaxSeq \in Nat
  BY AfterNumbers DEF IInv, EventAssumption, Seqs
<1>1a. /\ n \in Nat
       /\ \A r, s \in new : r < s => rank(r) < rank(s)
       /\ \A i \in 1 .. n : \E s \in new : rank(s) = i
  <2> HIDE DEF new
  <2>1. /\ Cardinality(new) \in Nat
        /\ \A r, s \in new : r < s =>
             Cardinality({t \in new : t <= r}) < Cardinality({t \in new : t <= s})
        /\ \A i \in 1 .. Cardinality(new) :
             \E s \in new : Cardinality({t \in new : t <= s}) = i
    BY <1>1, Ranks
  <2>2. QED
    BY <2>1
<1> HIDE DEF rank, n, new
<1>2. \A i \in 1 .. n : Nth(i) \in new /\ rank(Nth(i)) = i
  BY <1>1a
<1>3. \A r, s \in new : r < s => rank(r) < rank(s)
  BY <1>1a
<1>3b. \A s \in new : s \in Int /\ s \in Seqs
  BY <1>1
<1>3a. n \in Nat
  BY <1>1a
<1>4. /\ frames' = [i \in 1 .. n |-> Nth(i)]
      /\ last_seq' = MaxOf(new \cup {last_seq})
      /\ lastSeq' = MaxOf(new \cup {lastSeq})
      /\ log' = log \cup new
      /\ raced' = raced \cup Open
      /\ conn' \in {"closed", "replayed"}
      /\ errors' \in {errors, 0}
      /\ closed' \in BOOLEAN
      /\ timer' \in {"none", timer}
      /\ UNCHANGED <<drawn, rows, unsent, committed, inbox, pollTimer>>
  BY DEF Replay, Handle, writing, Nth, rank, n, new
<1>5. last_seq \in 0 .. MaxSeq /\ lastSeq \in 0 .. MaxSeq
  BY DEF IInv, TypeInv
<1>6. /\ last_seq' \in new \cup {last_seq} /\ last_seq' \in 0 .. MaxSeq
      /\ \A s \in new : last_seq' >= s
  BY <1>1, <1>4, <1>5, CursorMoves
<1>7. lastSeq' \in new \cup {lastSeq} /\ lastSeq' \in 0 .. MaxSeq
  BY <1>1, <1>4, <1>5, CursorMoves
<1>8. new \subseteq committed
  BY DEF After, new
<1> HIDE DEF Nth
<1>9. \A i \in DOMAIN frames' : frames'[i] \in new /\ rank(frames'[i]) = i /\ i \in 1 .. n
  BY <1>2, <1>4
<1>10. TypeInv'
  <2>1. frames' \in Seq(Seqs)
    <3>1. \A i \in 1 .. n : Nth(i) \in Seqs
      BY <1>2, <1>3b
    <3>2. [i \in 1 .. n |-> Nth(i)] \in [1 .. n -> Seqs]
      BY <3>1
    <3>3. QED
      BY <1>3a, <1>4, <3>2
  <2>2. raced' \subseteq Seqs /\ log' \subseteq Seqs
    BY <1>1, <1>4 DEF IInv, TypeInv, Open
  <2>3. QED
    BY <1>4, <1>6, <1>7, <2>1, <2>2 DEF IInv, TypeInv
<1>11. Served'
  <2>1. ASSUME NEW i \in DOMAIN frames', NEW j \in DOMAIN frames', i < j
        PROVE  frames'[i] < frames'[j]
    <3>1. frames'[i] \in Int /\ frames'[j] \in Int
      BY <1>3b, <1>9
    <3>2. ~ (frames'[j] < frames'[i]) /\ frames'[i] # frames'[j]
      BY <1>3, <1>3a, <1>9, <2>1
    <3>3. QED
      BY <3>1, <3>2
  <2>2. \A i \in DOMAIN frames' : frames'[i] <= last_seq'
    BY <1>1, <1>6, <1>9
  <2>3. QED
    BY <2>1, <2>2 DEF Served, ServedOnceInOrder
<1>12. Numbers'
  BY <1>4, <1>6, <1>7, <1>8 DEF IInv, Numbers
<1>13. Taken' \subseteq Known'
  BY <1>4, AllKnown DEF new
<1>14. Behind' /\ OnItsWay'
  BY <1>13 DEF Behind, OnItsWay, Published
<1>15. Overtaken'
  BY <1>4 DEF IInv, Overtaken
<1>16. QED
  BY <1>10, <1>11, <1>12, <1>14, <1>15 DEF IInv

LEMMA ForwardStep ==
  ASSUME EventAssumption, IInv, Forward
  PROVE  IInv'
<1> DEFINE s == Head(inbox)
<1>1. /\ inbox # <<>> /\ inbox' = Tail(inbox) /\ conn = "live"
      /\ UNCHANGED <<drawn, rows, unsent, committed, pollTimer, raced>>
  BY DEF Forward, writing
<1>2. /\ 1 \in DOMAIN inbox /\ s = inbox[1] /\ s \in Seqs
      /\ inbox' \in Seq(Seqs)
      /\ \A i \in DOMAIN inbox' : i + 1 \in DOMAIN inbox /\ inbox'[i] = inbox[i + 1]
      /\ \A i \in DOMAIN inbox : i # 1 => i - 1 \in DOMAIN inbox' /\ inbox'[i - 1] = inbox[i]
      /\ s <= drawn
  BY <1>1 DEF IInv, TypeInv, Numbers
<1> HIDE DEF s
<1>3. Taken' = Taken /\ Published' = Published
  BY <1>1 DEF Taken, Published, Open
<1>4. Overtaken'
  BY <1>1, <1>2, SMTT(20) DEF IInv, Overtaken, TypeInv
<1>5. /\ log' = IF Fresh(s) THEN log \cup {s} ELSE log
      /\ last_seq' = IF Fresh(s) THEN s ELSE last_seq
      /\ frames' = IF Fresh(s) THEN Append(frames, s) ELSE frames
      /\ lastSeq' = IF Fresh(s) THEN MaxOf({s} \cup {lastSeq}) ELSE lastSeq
      /\ conn' \in {"closed", "live"} /\ closed' \in BOOLEAN
      /\ timer' \in {"none", timer} /\ errors' \in {0, errors}
  <2>1. closed \in BOOLEAN
    BY DEF IInv, TypeInv
  <2>2. QED
    <3>1. CASE Fresh(s)
      BY <1>1, <2>1, <3>1 DEF Forward, Handle, s
    <3>2. CASE ~ Fresh(s)
      BY <1>1, <2>1, <3>2 DEF Forward, Handle, s
    <3>3. QED
      BY <3>1, <3>2
<1>6. lastSeq' \in {s, lastSeq} /\ lastSeq' \in 0 .. MaxSeq
  <2>1. {s} \in SUBSET Seqs /\ lastSeq \in 0 .. MaxSeq
    BY <1>2 DEF IInv, TypeInv
  <2>2. QED
    BY <1>5, <2>1, CursorMoves
<1>7. TypeInv'
  <2>1. frames' \in Seq(Seqs) /\ last_seq' \in 0 .. MaxSeq /\ log' \subseteq Seqs
    <3>1. CASE Fresh(s)
      <4>1. frames \in Seq(Seqs) /\ log \subseteq Seqs
        BY DEF IInv, TypeInv
      <4>2. Append(frames, s) \in Seq(Seqs) /\ log \cup {s} \subseteq Seqs /\ s \in 0 .. MaxSeq
        <5>1. Append(frames, s) \in Seq(Seqs)
          BY <1>2, <4>1
        <5>2. log \cup {s} \subseteq Seqs /\ s \in 0 .. MaxSeq
          <6>1. s \in Seqs
            BY <1>2
          <6>2. log \cup {s} \subseteq Seqs
            BY <4>1, <6>1
          <6>3. QED
            BY <6>1, <6>2 DEF Seqs
        <5>3. QED
          BY <5>1, <5>2
      <4>3. QED
        BY <1>5, <3>1, <4>2
    <3>2. CASE ~ Fresh(s)
      BY <1>5, <3>2 DEF IInv, TypeInv
    <3>3. QED
      BY <3>1, <3>2
  <2>2. QED
    BY <1>1, <1>2, <1>5, <1>6, <2>1 DEF IInv, TypeInv
<1>8. Served'
  <2>1. CASE ~ Fresh(s)
    BY <1>5, <2>1 DEF IInv, Served, ServedOnceInOrder
  <2>2. CASE Fresh(s)
    <3>1. \A i \in DOMAIN frames' :
            \/ i \in DOMAIN frames /\ frames'[i] = frames[i] /\ frames[i] <= last_seq
            \/ i = Len(frames) + 1 /\ frames'[i] = s
      BY <1>2, <1>5, <2>2 DEF IInv, TypeInv, Served
    <3>2. last_seq < s /\ s \in Int /\ last_seq \in Int /\ last_seq' = s
      BY <1>2, <1>5, <2>2 DEF Fresh, IInv, TypeInv, Seqs
    <3>3. \A i \in DOMAIN frames : frames[i] \in Int /\ i \in Int /\ i <= Len(frames)
      <4>1. \A i \in DOMAIN frames : frames[i] \in Seqs
        BY DEF IInv, TypeInv
      <4>2. DOMAIN frames = 1 .. Len(frames) /\ Len(frames) \in Nat
        BY DEF IInv, TypeInv
      <4>3. QED
        BY <4>1, <4>2 DEF Seqs
    <3>4. QED
      BY <3>1, <3>2, <3>3 DEF IInv, Served, ServedOnceInOrder
  <2>3. QED
    BY <2>1, <2>2
<1>9. Numbers'
  BY <1>1, <1>2, <1>5, <1>6 DEF IInv, Numbers
\* A taken number at or before the head is known once the head is handled.
<1>10. ASSUME NEW t \in Taken, t <= s PROVE t \in Known'
  <2>1. t \in Seqs
    BY <1>10, TakenNumbers DEF IInv
  <2>2. CASE t = s
    BY <1>1, <1>5, <2>1, <2>2 DEF IInv, Behind, Known, Fresh, TypeInv, Seqs
  <2>3. CASE t < s /\ t \in Published
    <3>1. t \in Known \/ \E i \in DOMAIN inbox : inbox[i] = t
      BY <1>1, <2>3 DEF IInv, OnItsWay
    <3>2. ASSUME NEW i \in DOMAIN inbox, inbox[i] = t PROVE t \in raced
      <4>1. 1 < i
        BY <1>2, <2>1, <2>3, <3>2 DEF IInv, TypeInv, Seqs
      <4>2. QED
        BY <1>2, <2>3, <3>2, <4>1 DEF IInv, Overtaken
    <3>3. QED
      BY <1>1, <1>5, <3>1, <3>2 DEF Known
  <2>4. CASE t < s /\ t \notin Published
    <3>1. PICK w \in Writers : unsent[w] = t
      BY <2>4 DEF Published
    <3>2. t \in raced
      BY <1>2, <2>1, <2>4, <3>1 DEF IInv, Overtaken, Seqs
    <3>3. QED
      BY <1>1, <3>2 DEF Known
  <2>5. QED
    BY <1>2, <1>10, <2>1, <2>2, <2>3, <2>4 DEF Seqs
<1>11. Known \subseteq Known'
  BY <1>1, <1>5 DEF Known
<1>12. Behind'
  BY <1>3, <1>5, <1>6, <1>10, <1>11 DEF IInv, Behind
<1>13. OnItsWay'
  <2>1. SUFFICES ASSUME NEW t \in Published, t \notin Known'
                 PROVE  \E i \in DOMAIN inbox' : inbox'[i] = t
    BY <1>3 DEF OnItsWay
  <2>2. PICK i \in DOMAIN inbox : inbox[i] = t
    BY <1>1, <1>11, <2>1 DEF IInv, OnItsWay
  <2>3. t \in Taken /\ s <= s
    BY <1>2 DEF Published, Seqs
  <2>4. i # 1
    BY <1>2, <1>10, <2>1, <2>2, <2>3
  <2>5. QED
    BY <1>2, <2>2, <2>4
<1>14. QED
  BY <1>4, <1>7, <1>8, <1>9, <1>12, <1>13 DEF IInv

LEMMA ListenStep ==
  ASSUME EventAssumption, IInv, Listen
  PROVE  IInv'
<1> USE DEF IInv, Listen, writing, page
<1>1. TypeInv'
  BY DEF TypeInv
<1>2. Served' /\ Numbers' /\ Behind' /\ Overtaken' /\ OnItsWay'
  BY DEF Served, ServedOnceInOrder, Numbers, Behind, Taken, Open, Known, Overtaken, OnItsWay, Published
<1>3. QED
  BY <1>1, <1>2

LEMMA StreamErrorStep ==
  ASSUME EventAssumption, IInv, StreamError
  PROVE  IInv'
<1>1. /\ UNCHANGED <<writing, last_seq, frames, log, lastSeq, closed, raced>>
      /\ conn' = "closed" /\ inbox' = <<>> /\ errors' = errors + 1
      /\ timer' \in {"none", "poll", "connect"} /\ pollTimer' \in {TRUE, pollTimer}
  BY DEF StreamError
<1>2. TypeInv'
  <2>1. <<>> \in Seq(Seqs)
    OBVIOUS
  <2>2. QED
    <3>1. errors' \in Nat
      BY <1>1 DEF IInv, TypeInv
    <3>2. pollTimer \in BOOLEAN
      BY DEF IInv, TypeInv
    <3>3. pollTimer' \in BOOLEAN
      BY <1>1, <3>2
    <3>4. QED
      BY <1>1, <2>1, <3>1, <3>3 DEF IInv, TypeInv, writing
<1>3. Served' /\ Overtaken' /\ OnItsWay'
  BY <1>1 DEF IInv, Served, ServedOnceInOrder, Overtaken, OnItsWay
<1>4. Numbers' /\ Behind'
  BY <1>1 DEF IInv, Numbers, Behind, Taken, Open, Known, writing
<1>5. QED
  BY <1>2, <1>3, <1>4 DEF IInv

LEMMA PollStep ==
  ASSUME EventAssumption, IInv, Poll
  PROVE  IInv'
<1> DEFINE new == After(lastSeq)
<1>1. new \in SUBSET Seqs /\ new \subseteq committed /\ lastSeq \in 0 .. MaxSeq
  BY AfterNumbers DEF IInv, TypeInv, After
<1>2. /\ lastSeq' = MaxOf(new \cup {lastSeq}) /\ log' = log \cup new
      /\ raced' = raced \cup Open /\ closed' \in BOOLEAN
      /\ timer' \in {"none", "poll"} /\ pollTimer' = TRUE
      /\ UNCHANGED <<drawn, rows, unsent, committed, conn, inbox, last_seq, frames, errors>>
  BY DEF Poll, writing, serving
<1>3. lastSeq' \in new \cup {lastSeq} /\ lastSeq' \in 0 .. MaxSeq
  BY <1>1, <1>2, CursorMoves
<1>4. Taken' \subseteq Known'
  BY <1>2, AllKnown
<1> HIDE DEF new
<1>5. TypeInv'
  <2>1. raced' \subseteq Seqs /\ log' \subseteq Seqs
    BY <1>1, <1>2 DEF IInv, TypeInv, Open
  <2>2. QED
    BY <1>2, <1>3, <2>1 DEF IInv, TypeInv
<1>6. Served' /\ Overtaken'
  BY <1>2 DEF IInv, Served, ServedOnceInOrder, Overtaken
<1>7. Numbers'
  BY <1>1, <1>2, <1>3 DEF IInv, Numbers
<1>8. Behind' /\ OnItsWay'
  BY <1>4 DEF Behind, OnItsWay, Published
<1>9. QED
  BY <1>5, <1>6, <1>7, <1>8 DEF IInv

LEMMA RemountStep ==
  ASSUME EventAssumption, IInv, Remount
  PROVE  IInv'
<1>1. /\ log \subseteq log' /\ log' \subseteq log \cup committed
      /\ lastSeq' = 0 /\ conn' = "closed" /\ inbox' = <<>> /\ errors' = 0
      /\ timer' = "connect" /\ pollTimer' = FALSE /\ closed' = FALSE
      /\ UNCHANGED <<drawn, rows, unsent, committed, last_seq, frames, raced>>
  BY DEF Remount, After, writing
<1>2. TypeInv'
  <2>1. <<>> \in Seq(Seqs) /\ 0 \in 0 .. MaxSeq /\ 0 \in Nat
    BY DEF EventAssumption
  <2>2. QED
    BY <1>1, <2>1 DEF IInv, TypeInv
<1>3. Served' /\ Overtaken' /\ OnItsWay'
  BY <1>1 DEF IInv, Served, ServedOnceInOrder, Overtaken, OnItsWay
<1>4. Numbers'
  BY <1>1 DEF IInv, Numbers, TypeInv
<1>5. Behind'
  <2>1. Taken' = Taken /\ Taken \subseteq Seqs
    BY <1>1, TakenNumbers DEF Taken, Open, IInv
  <2>2. \A s \in Taken : ~ (s <= lastSeq')
    BY <1>1, <2>1 DEF Seqs
  <2>3. QED
    BY <1>1, <2>1, <2>2 DEF IInv, Behind, Known
<1>6. QED
  BY <1>2, <1>3, <1>4, <1>5 DEF IInv

LEMMA NextIInv ==
  ASSUME EventAssumption, IInv, [Next]_vars
  PROVE  IInv'
<1>1. CASE UNCHANGED vars
  BY <1>1 DEF vars, writing, serving, page, IInv, TypeInv, Served, ServedOnceInOrder, Numbers,
    Behind, Taken, Open, Known, Overtaken, OnItsWay, Published
<1>2. CASE Next
  BY <1>2, FlushStep, PublishStep, EndStep, ConnectStep, ReplayStep, ListenStep, ForwardStep,
    StreamErrorStep, PollStep, RemountStep DEF Next
<1>3. QED
  BY <1>1, <1>2

LEMMA IInvServes ==
  ASSUME IInv
  PROVE  ServedOnceInOrder
  BY DEF IInv, Served

LEMMA IInvShows ==
  ASSUME IInv
  PROVE  ShowsCommitted
<1>1. \A s \in committed : s \in Published
  BY DEF IInv, TypeInv, Numbers, Published, Taken, Seqs
<1>2. QED
  BY <1>1 DEF IInv, OnItsWay, ShowsCommitted, CaughtUp, Known

-----------------------------------------------------------------------------

LEMMA Invariance ==
  ASSUME EventAssumption
  PROVE  Spec => []IInv
<1>1. Init => IInv
  BY InitIInv
<1>2. IInv /\ [Next]_vars => IInv'
  BY NextIInv
<1>3. QED
  BY <1>1, <1>2, PTL DEF Spec

\* events.py: a connection never sends an event twice or out of order, however the
\* replayed rows and the channel overlap.
THEOREM InOrder ==
  ASSUME EventAssumption
  PROVE  Spec => []ServedOnceInOrder
<1>1. IInv => ServedOnceInOrder
  BY IInvServes
<1>2. QED
  BY <1>1, Invariance, PTL

\* events.py and sse.ts: through errors, reconnects, polls and remounts, a page that has
\* read its channel shows every committed event that no race could hide.
THEOREM Shows ==
  ASSUME EventAssumption
  PROVE  Spec => []ShowsCommitted
<1>1. IInv => ShowsCommitted
  BY IInvShows
<1>2. QED
  BY <1>1, Invariance, PTL
=============================================================================
