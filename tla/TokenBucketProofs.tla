--------------------------- MODULE TokenBucketProofs ---------------------------
(***************************************************************************)
(* The rate limiter, for any number of windows and callers, any rates and  *)
(* any corrections of the clock.                                           *)
(*                                                                         *)
(* The argument is an account: what was granted since any grant, what is   *)
(* in the bucket and what its idle time will put there never exceed the    *)
(* burst and the refill of that stretch, at the fastest rate of a caller,  *)
(* with every second the clock was set back counted once more.             *)
(***************************************************************************)
EXTENDS TokenBucket, FiniteSetTheorems, WellFoundedInduction, TLAPS

BucketType == [level : Nat, last : Int, until : Int]
CallerType == [at : {"start", "refused", "sleeping"}, tries : Nat \ {0}, wake : Nat, alone : BOOLEAN]

TypeInv ==
  /\ time \in Nat /\ clock \in Int /\ clock <= time /\ time - clock <= MaxBack
  /\ grants \in Seq(Nat) /\ \A i \in DOMAIN grants : grants[i] <= time
  /\ bucket \in [Buckets -> BucketType] /\ caller \in [Callers -> CallerType]

\* The fastest rate and the smallest burst of a window.
Top(b) == Max({Rate[c][b] : c \in Callers})
Low(b) == Min({Burst(d, b) : d \in Callers})

\* The seconds the next call will refill.
Unfilled(b) == IF clock > bucket[b].last THEN clock - bucket[b].last ELSE 0

\* Nobody has called yet, or a key lives until its bucket is full again.
Lives(b) ==
  \/ grants = <<>> /\ bucket[b].until <= - MaxBack
  \/ bucket[b].until >= bucket[b].last + Per[b]

\* The account of the grants since the i-th.
Accounted(b, i) ==
  (Len(grants) - i + 1) * Per[b] + bucket[b].level + Top(b) * Unfilled(b)
    <= Top(b) * (Per[b] + (time - grants[i]) + (time - clock))

\* A bucket has lost no more than the grants took.
Full(b) ==
  \/ bucket[b].until <= - MaxBack
  \/ bucket[b].level + Len(grants) * Per[b] >= Low(b)

\* Who sleeps undisturbed will find a token in every bucket: the clock says
\* wake - (time - clock) then.
Advised(c) ==
  caller[c].at = "sleeping" /\ caller[c].alone =>
    \A b \in Buckets :
      LET slept == caller[c].wake - (time - clock) - bucket[b].last
      IN  slept >= 0 /\ bucket[b].level + slept * Rate[c][b] >= Per[b]

IInv ==
  /\ TypeInv
  /\ \A b \in Buckets : Lives(b) /\ Full(b) /\ \A i \in DOMAIN grants : Accounted(b, i)
  /\ LimitHolds
  /\ \A c \in Callers : Advised(c)

-----------------------------------------------------------------------------
(* Arithmetic, minima and maxima                                            *)

LEMMA Times ==
  ASSUME NEW r \in Nat, NEW x \in Int, NEW y \in Int
  PROVE  /\ r * (x + y) = r * x + r * y /\ r * x \in Int
         /\ x <= y => r * x <= r * y
         /\ x >= 0 => r * x >= 0
  OBVIOUS

LEMMA Quotient ==
  ASSUME NEW x \in Nat, NEW r \in Nat \ {0}
  PROVE  LET q == (x + r - 1) \div r IN q \in Nat /\ r * q >= x
  OBVIOUS

LEMMA Smallest ==
  ASSUME NEW T \in SUBSET Nat, T # {}
  PROVE  \E x \in T : \A y \in T : x <= y
<1> DEFINE R == {p \in Nat \X Nat : p[1] < p[2]}
<1>1. IsWellFoundedOn(R, Nat)
  BY NatLessThanWellFounded DEF OpToRel
<1>2. PICK x \in T : \A y \in T : <<y, x>> \notin R
  <2> HIDE DEF R
  <2>1. QED
    BY <1>1, WFMin
<1>3. \A y \in T : ~ (y < x)
  BY <1>2
<1>4. QED
  BY <1>3

\* What holds of 0 and is handed on holds up to n.
LEMMA Climb ==
  ASSUME NEW n \in Nat, NEW S, 0 \in S, \A m \in 0 .. n - 1 : m \in S => m + 1 \in S
  PROVE  n \in S
<1>1. SUFFICES ASSUME n \notin S PROVE FALSE
  OBVIOUS
<1> DEFINE T == (0 .. n) \ S
<1>2. T \in SUBSET Nat /\ n \in T
  BY <1>1
<1>3. PICK x \in T : \A y \in T : x <= y
  <2> HIDE DEF T
  <2>1. QED
    BY <1>2, Smallest
<1>4. x # 0 /\ x - 1 \in 0 .. n - 1
  BY <1>3
<1>5. x - 1 \in S
  BY <1>3, <1>4
<1>6. QED
  BY <1>3, <1>4, <1>5

LEMMA Greatest ==
  ASSUME NEW S, IsFiniteSet(S), S # {}, NEW g \in [S -> Int]
  PROVE  \E x \in S : \A y \in S : g[y] <= g[x]
<1>0. PICK n \in Nat : ExistsBijection(1 .. n, S)
  BY FS_CardinalityType
<1>1. PICK f \in Bijection(1 .. n, S) : TRUE
  BY <1>0 DEF ExistsBijection
<1>2. /\ f \in [1 .. n -> S] /\ \A x \in S : \E k \in 1 .. n : f[k] = x
  BY <1>1 DEF Bijection, Surjection, Injection
<1>3. n # 0
  <2>1. PICK x \in S : TRUE
    OBVIOUS
  <2>2. QED
    BY <1>2, <2>1
<1> DEFINE Tops(m) == \E k \in 1 .. m : \A j \in 1 .. m : g[f[j]] <= g[f[k]]
           A == {m \in 0 .. n : m = 0 \/ Tops(m)}
<1>4. \A k \in 1 .. n : g[f[k]] \in Int
  BY <1>2
<1>5. ASSUME NEW m \in 0 .. n - 1, m \in A PROVE m + 1 \in A
  <2>1. m + 1 \in 0 .. n /\ m + 1 \in 1 .. n /\ 1 .. m \subseteq 1 .. n
        /\ \A j \in 1 .. (m + 1) : j = m + 1 \/ j \in 1 .. m
    OBVIOUS
  <2>2. CASE m = 0
    <3>1. Tops(m + 1)
      BY <1>4, <2>1, <2>2
    <3>2. QED
      BY <2>1, <3>1
  <2>3. CASE m # 0
    <3>1. PICK k \in 1 .. m : \A j \in 1 .. m : g[f[j]] <= g[f[k]]
      BY <1>5, <2>3
    <3>2. CASE g[f[m + 1]] <= g[f[k]]
      <4>1. k \in 1 .. (m + 1)
        OBVIOUS
      <4>2. Tops(m + 1)
        BY <2>1, <3>1, <3>2, <4>1
      <4>3. QED
        BY <2>1, <4>2
    <3>3. CASE ~ (g[f[m + 1]] <= g[f[k]])
      <4>1. \A j \in 1 .. m : g[f[j]] <= g[f[m + 1]]
        BY <1>4, <2>1, <3>1, <3>3
      <4>2. m + 1 \in 1 .. (m + 1) /\ g[f[m + 1]] <= g[f[m + 1]]
        BY <1>4, <2>1
      <4>3. Tops(m + 1)
        BY <2>1, <4>1, <4>2
      <4>4. QED
        BY <2>1, <4>3
    <3>4. QED
      BY <3>2, <3>3
  <2>4. QED
    BY <2>2, <2>3
<1>6. n \in A
  <2>1. 0 \in A
    OBVIOUS
  <2> HIDE DEF A
  <2>2. QED
    BY <1>5, <2>1, Climb
<1>7. PICK k \in 1 .. n : \A j \in 1 .. n : g[f[j]] <= g[f[k]]
  BY <1>3, <1>6
<1>8. f[k] \in S
  BY <1>2
<1>9. \A y \in S : g[y] <= g[f[k]]
  BY <1>2, <1>7
<1>10. QED
  BY <1>8, <1>9

LEMMA MaxOf ==
  ASSUME NEW S, IsFiniteSet(S), S # {}, NEW g \in [S -> Int]
  PROVE  LET m == Max({g[x] : x \in S})
         IN  (\E x \in S : m = g[x]) /\ \A x \in S : g[x] <= m
<1> DEFINE T == {g[x] : x \in S}
<1>1. PICK x \in S : \A y \in S : g[y] <= g[x]
  BY Greatest
<1>2. g[x] \in T /\ \A t \in T : g[x] >= t
  BY <1>1
<1>3. Max(T) \in T /\ \A t \in T : Max(T) >= t
  <2> HIDE DEF T
  <2>1. QED
    BY <1>2 DEF Max
<1>4. QED
  BY <1>3

LEMMA MinOf ==
  ASSUME NEW S, IsFiniteSet(S), S # {}, NEW g \in [S -> Int]
  PROVE  LET m == Min({g[x] : x \in S})
         IN  (\E x \in S : m = g[x]) /\ \A x \in S : m <= g[x]
<1> DEFINE T == {g[x] : x \in S}
           h == [x \in S |-> - g[x]]
<1>1. h \in [S -> Int] /\ \A x \in S : h[x] = - g[x]
  OBVIOUS
<1> HIDE DEF h
<1>2. PICK x \in S : \A y \in S : h[y] <= h[x]
  BY <1>1, Greatest
<1>3. \A y \in S : g[x] <= g[y]
  BY <1>1, <1>2
<1>4. g[x] \in T /\ \A t \in T : g[x] <= t
  BY <1>3
<1>5. Min(T) \in T /\ \A t \in T : Min(T) <= t
  <2> HIDE DEF T
  <2>1. QED
    BY <1>4 DEF Min
<1>6. QED
  BY <1>5

LEMMA OfTwo ==
  ASSUME NEW x \in Int, NEW y \in Int
  PROVE  /\ Max({x, y}) = IF x > y THEN x ELSE y
         /\ Min({x, y}) = IF x < y THEN x ELSE y
<1>1. Max({x, y}) \in {x, y} /\ \A z \in {x, y} : Max({x, y}) >= z
  <2>1. \E m \in {x, y} : \A z \in {x, y} : m >= z
    <3>1. x >= y \/ y >= x
      OBVIOUS
    <3>2. QED
      BY <3>1
  <2>2. QED
    BY <2>1 DEF Max
<1>2. Min({x, y}) \in {x, y} /\ \A z \in {x, y} : Min({x, y}) <= z
  <2>1. \E m \in {x, y} : \A z \in {x, y} : m <= z
    <3>1. x <= y \/ y <= x
      OBVIOUS
    <3>2. QED
      BY <3>1
  <2>2. QED
    BY <2>1 DEF Min
<1>3. QED
  BY <1>1, <1>2

-----------------------------------------------------------------------------
(* One bucket                                                               *)

LEMMA Constants ==
  ASSUME BucketAssumption, NEW b \in Buckets, NEW c \in Callers
  PROVE  /\ Per[b] \in Nat \ {0} /\ Rate[c][b] \in Nat \ {0}
         /\ Burst(c, b) \in Nat \ {0} /\ Burst(c, b) >= Per[b]
<1>1. Per[b] \in Nat \ {0} /\ Rate[c][b] \in Nat \ {0}
  BY DEF BucketAssumption
<1>2. PICK p \in Nat \ {0} : p = Per[b]
  BY <1>1
<1>3. PICK r \in Nat \ {0} : r = Rate[c][b]
  BY <1>1
<1>4. r * p \in Int /\ p * 1 <= p * r /\ p * r = r * p
  BY Times
<1>5. QED
  BY <1>1, <1>2, <1>3, <1>4 DEF Burst

LEMMA TopIs ==
  ASSUME BucketAssumption, NEW b \in Buckets, NEW c \in Callers
  PROVE  /\ Top(b) \in Nat /\ Rate[c][b] <= Top(b)
         /\ Low(b) \in Nat /\ Low(b) <= Burst(c, b)
<1>1. \A d \in Callers : Rate[d][b] \in Nat /\ Burst(d, b) \in Nat
  BY Constants
<1>2. PICK g : g = [d \in Callers |-> Rate[d][b]]
  OBVIOUS
<1>3. PICK h : h = [d \in Callers |-> Burst(d, b)]
  OBVIOUS
<1>4. /\ g \in [Callers -> Int] /\ h \in [Callers -> Int]
      /\ \A d \in Callers : g[d] = Rate[d][b] /\ h[d] = Burst(d, b)
  BY <1>1, <1>2, <1>3
<1>5. /\ {g[d] : d \in Callers} = {Rate[d][b] : d \in Callers}
      /\ {h[d] : d \in Callers} = {Burst(d, b) : d \in Callers}
  BY <1>4
<1>6. IsFiniteSet(Callers) /\ Callers # {}
  BY DEF BucketAssumption
<1>7. (\E d \in Callers : Top(b) = g[d]) /\ \A d \in Callers : g[d] <= Top(b)
  <2>1. LET m == Max({g[x] : x \in Callers})
        IN  (\E x \in Callers : m = g[x]) /\ \A x \in Callers : g[x] <= m
    BY <1>4, <1>6, MaxOf
  <2>2. Top(b) = Max({g[d] : d \in Callers})
    BY <1>5 DEF Top
  <2>3. QED
    BY <2>1, <2>2
<1>8. (\E d \in Callers : Low(b) = h[d]) /\ \A d \in Callers : Low(b) <= h[d]
  <2>1. LET m == Min({h[x] : x \in Callers})
        IN  (\E x \in Callers : m = h[x]) /\ \A x \in Callers : m <= h[x]
    BY <1>4, <1>6, MinOf
  <2>2. Low(b) = Min({h[d] : d \in Callers})
    BY <1>5 DEF Low
  <2>3. QED
    BY <2>1, <2>2
<1>9. QED
  BY <1>1, <1>4, <1>7, <1>8

LEMMA BurstIs ==
  ASSUME BucketAssumption, NEW b \in Buckets, NEW c \in Callers
  PROVE  Burst(c, b) <= Top(b) * Per[b]
<1>1. /\ Per[b] \in Nat \ {0} /\ Rate[c][b] \in Nat \ {0}
      /\ Top(b) \in Nat /\ Rate[c][b] <= Top(b)
  BY Constants, TopIs
<1>2. PICK p \in Nat \ {0} : p = Per[b]
  BY <1>1
<1>3. PICK r \in Nat \ {0} : r = Rate[c][b]
  BY <1>1
<1>4. PICK t \in Nat : t = Top(b)
  BY <1>1
<1>5. p * r <= p * t
  BY <1>1, <1>3, <1>4, Times
<1>6. p * r = r * p /\ p * t = t * p
  OBVIOUS
<1>7. QED
  BY <1>2, <1>3, <1>4, <1>5, <1>6 DEF Burst

LEMMA UnfilledIs ==
  ASSUME TypeInv, NEW b \in Buckets
  PROVE  /\ bucket[b] \in BucketType /\ Unfilled(b) \in Nat
         /\ bucket[b].level \in Nat /\ bucket[b].last \in Int /\ bucket[b].until \in Int
         /\ Max({0, clock - bucket[b].last}) = Unfilled(b)
<1>1. /\ bucket[b] \in BucketType /\ clock \in Int
  BY DEF TypeInv
<1>2. bucket[b].level \in Nat /\ bucket[b].last \in Int /\ bucket[b].until \in Int
  BY <1>1 DEF BucketType
<1>3. PICK x \in Int : x = clock - bucket[b].last
  BY <1>1, <1>2
<1>4. Max({0, x}) = IF 0 > x THEN 0 ELSE x
  BY OfTwo
<1>5. QED
  BY <1>1, <1>2, <1>3, <1>4 DEF Unfilled

\* What a caller finds: a full bucket, or the old level and its refill.
LEMMA LevelIs ==
  ASSUME BucketAssumption, TypeInv, NEW b \in Buckets, NEW c \in Callers
  PROVE  LET filled == bucket[b].level + Unfilled(b) * Rate[c][b]
         IN  /\ Level(c, b) \in Nat /\ Level(c, b) <= Burst(c, b)
             /\ filled \in Nat /\ filled >= bucket[b].level
             /\ filled <= bucket[b].level + Top(b) * Unfilled(b)
             /\ bucket[b].until <= clock => Level(c, b) = Burst(c, b)
             /\ ~ (bucket[b].until <= clock) =>
                  Level(c, b) = IF Burst(c, b) < filled THEN Burst(c, b) ELSE filled
<1>1. /\ Rate[c][b] \in Nat \ {0} /\ Burst(c, b) \in Nat
      /\ Top(b) \in Nat /\ Rate[c][b] <= Top(b)
      /\ bucket[b].level \in Nat /\ Unfilled(b) \in Nat
      /\ Max({0, clock - bucket[b].last}) = Unfilled(b)
  BY Constants, TopIs, UnfilledIs
<1>2. PICK u \in Nat : u = Unfilled(b)
  BY <1>1
<1>3. PICK r \in Nat : r = Rate[c][b]
  BY <1>1
<1>4. PICK t \in Nat : t = Top(b)
  BY <1>1
<1>5. u * r <= u * t /\ u * r \in Int /\ u * r >= 0
  BY <1>1, <1>3, <1>4, Times
<1>6. u * t = t * u
  OBVIOUS
<1>7. PICK filled : filled = bucket[b].level + u * r
  OBVIOUS
<1>8. /\ filled \in Nat /\ filled >= bucket[b].level
      /\ filled <= bucket[b].level + t * u
  BY <1>1, <1>5, <1>6, <1>7
<1>9. Min({Burst(c, b), filled}) = IF Burst(c, b) < filled THEN Burst(c, b) ELSE filled
  <2>1. PICK x \in Int : x = Burst(c, b)
    BY <1>1
  <2>2. PICK y \in Int : y = filled
    BY <1>8
  <2>3. Min({x, y}) = IF x < y THEN x ELSE y
    BY OfTwo
  <2>4. QED
    BY <2>1, <2>2, <2>3
<1>10. CASE bucket[b].until <= clock
  <2>1. Level(c, b) = Burst(c, b)
    BY <1>10 DEF Level
  <2>2. QED
    BY <1>1, <1>2, <1>3, <1>4, <1>7, <1>8, <1>10, <2>1
<1>11. CASE ~ (bucket[b].until <= clock)
  <2>1. Level(c, b) = Min({Burst(c, b), filled})
    BY <1>1, <1>2, <1>3, <1>7, <1>11 DEF Level
  <2>2. QED
    BY <1>1, <1>2, <1>3, <1>4, <1>7, <1>8, <1>9, <1>11, <2>1
<1>12. QED
  BY <1>10, <1>11

LEMMA TtlIs ==
  ASSUME BucketAssumption, NEW b \in Buckets, NEW c \in Callers
  PROVE  Ttl(c, b) \in Nat /\ Ttl(c, b) >= Per[b]
<1>1. /\ Per[b] \in Nat \ {0} /\ Rate[c][b] \in Nat \ {0} /\ MinTtl \in Nat
  BY Constants DEF BucketAssumption
<1>2. PICK p \in Nat \ {0} : p = Per[b]
  BY <1>1
<1>3. PICK r \in Nat \ {0} : r = Rate[c][b]
  BY <1>1
<1>4. PICK x : x = 2 * (r * p)
  OBVIOUS
<1>5. r * p \in Int /\ p * 1 <= p * r /\ p * r = r * p
  BY Times
<1>6. x \in Nat /\ x > r * p
  BY <1>4, <1>5
<1>7. PICK q : q = (x + r - 1) \div r
  OBVIOUS
<1>8. q \in Nat /\ r * q >= x
  BY <1>6, <1>7, Quotient
<1>9. q >= p
  <2>1. q <= p => r * q <= r * p
    BY <1>8, Times
  <2>2. r * q \in Int
    BY <1>8, Times
  <2>3. QED
    BY <1>5, <1>6, <1>8, <2>1, <2>2
<1>10. Max({MinTtl, q}) = IF MinTtl > q THEN MinTtl ELSE q
  BY <1>1, <1>8, OfTwo
<1>11. Ttl(c, b) = Max({MinTtl, q})
  BY <1>2, <1>3, <1>4, <1>7 DEF Ttl, Burst
<1>12. QED
  BY <1>1, <1>2, <1>8, <1>9, <1>10, <1>11

\* Who waits for the suggested delay finds a token in every bucket.
LEMMA DelayIs ==
  ASSUME BucketAssumption, TypeInv, NEW c \in Callers
  PROVE  /\ Delay(c) \in Nat
         /\ \A b \in Buckets : Level(c, b) + Delay(c) * Rate[c][b] >= Per[b]
<1> DEFINE Wait(b) == (Max({0, Per[b] - Level(c, b)}) + Rate[c][b] - 1) \div Rate[c][b]
<1>1. ASSUME NEW b \in Buckets
      PROVE  Wait(b) \in Nat /\ Rate[c][b] * Wait(b) >= Per[b] - Level(c, b)
  <2>1. Per[b] \in Nat \ {0} /\ Rate[c][b] \in Nat \ {0} /\ Level(c, b) \in Nat
    BY Constants, LevelIs
  <2>2. PICK y \in Int : y = Per[b] - Level(c, b)
    BY <2>1
  <2>3. Max({0, y}) = IF 0 > y THEN 0 ELSE y
    BY OfTwo
  <2>4. PICK x \in Nat : x = Max({0, y}) /\ x >= y
    BY <2>3
  <2>5. PICK r \in Nat \ {0} : r = Rate[c][b]
    BY <2>1
  <2>6. PICK q : q = (x + r - 1) \div r
    OBVIOUS
  <2>7. q \in Nat /\ r * q >= x
    BY <2>6, Quotient
  <2>8. r * q \in Int
    BY <2>7, Times
  <2>9. Wait(b) = q
    BY <2>2, <2>4, <2>5, <2>6
  <2>10. Rate[c][b] * Wait(b) = r * q
    BY <2>5, <2>9
  <2>11. r * q >= Per[b] - Level(c, b)
    BY <2>1, <2>2, <2>4, <2>7, <2>8
  <2>12. QED
    BY <2>7, <2>9, <2>10, <2>11
<1>2. PICK g : g = [b \in Buckets |-> Wait(b)]
  OBVIOUS
<1> HIDE DEF Wait
<1>3. g \in [Buckets -> Int] /\ \A b \in Buckets : g[b] = Wait(b)
  BY <1>1, <1>2
<1>4. {g[b] : b \in Buckets} = {Wait(b) : b \in Buckets}
  BY <1>3
<1>5. Delay(c) = Max({Wait(b) : b \in Buckets})
  BY DEF Delay, Wait
<1>6. (\E b \in Buckets : Delay(c) = g[b]) /\ \A b \in Buckets : g[b] <= Delay(c)
  <2>1. IsFiniteSet(Buckets) /\ Buckets # {}
    BY DEF BucketAssumption
  <2>2. LET m == Max({g[x] : x \in Buckets})
        IN  (\E x \in Buckets : m = g[x]) /\ \A x \in Buckets : g[x] <= m
    BY <1>3, <2>1, MaxOf
  <2>3. Delay(c) = Max({g[b] : b \in Buckets})
    BY <1>4, <1>5
  <2>4. QED
    BY <2>2, <2>3
<1>7. Delay(c) \in Nat
  BY <1>1, <1>3, <1>6
<1>8. ASSUME NEW b \in Buckets PROVE Level(c, b) + Delay(c) * Rate[c][b] >= Per[b]
  <2>1. /\ Per[b] \in Nat \ {0} /\ Rate[c][b] \in Nat \ {0} /\ Level(c, b) \in Nat
        /\ Wait(b) \in Nat /\ Wait(b) <= Delay(c)
        /\ Rate[c][b] * Wait(b) >= Per[b] - Level(c, b)
    BY <1>1, <1>3, <1>6, Constants, LevelIs
  <2>2. PICK r \in Nat \ {0} : r = Rate[c][b]
    BY <2>1
  <2>3. PICK d \in Nat : d = Delay(c)
    BY <1>7
  <2>4. PICK w \in Nat : w = Wait(b)
    BY <2>1
  <2>5. r * w <= r * d /\ r * w \in Int /\ r * d \in Int
    BY <2>1, <2>3, <2>4, Times
  <2>6. r * d = d * r
    OBVIOUS
  <2>7. d * r >= Per[b] - Level(c, b)
    BY <2>1, <2>2, <2>4, <2>5, <2>6
  <2>8. QED
    BY <2>1, <2>2, <2>3, <2>5, <2>6, <2>7
<1>9. QED
  BY <1>7, <1>8

-----------------------------------------------------------------------------
(* What the invariant says of a call                                        *)

\* The clock is never before the start of all keys.
LEMMA Gone ==
  ASSUME BucketAssumption, TypeInv, NEW b \in Buckets, bucket[b].until <= - MaxBack
  PROVE  bucket[b].until <= clock
<1>1. /\ MaxBack \in Nat /\ time \in Nat /\ clock \in Int /\ time - clock <= MaxBack
      /\ bucket[b].until \in Int
  BY UnfilledIs DEF TypeInv, BucketAssumption
<1>2. QED
  BY <1>1

\* A key that went away would have been full: it is no gift.
LEMMA NoGift ==
  ASSUME BucketAssumption, TypeInv, NEW b \in Buckets, NEW c \in Callers,
         Lives(b), grants # <<>>
  PROVE  Level(c, b) <= bucket[b].level + Top(b) * Unfilled(b)
<1>1. /\ Level(c, b) \in Nat /\ Level(c, b) <= Burst(c, b) /\ Burst(c, b) \in Nat
      /\ Burst(c, b) <= Top(b) * Per[b] /\ Top(b) \in Nat /\ Per[b] \in Nat \ {0}
      /\ bucket[b].level \in Nat /\ Unfilled(b) \in Nat
      /\ bucket[b].last \in Int /\ bucket[b].until \in Int /\ clock \in Int
      /\ bucket[b].until >= bucket[b].last + Per[b]
  BY Constants, TopIs, BurstIs, UnfilledIs, LevelIs DEF Lives, TypeInv
<1>2. CASE bucket[b].until <= clock
  <2>1. Unfilled(b) >= Per[b]
    BY <1>1, <1>2, SMTT(20) DEF Unfilled
  <2>2. PICK t \in Nat : t = Top(b)
    BY <1>1
  <2>3. PICK u \in Nat : u = Unfilled(b)
    BY <1>1
  <2>4. PICK p \in Nat : p = Per[b]
    BY <1>1
  <2>5. PICK x : x = t * p
    OBVIOUS
  <2>6. PICK y : y = t * u
    OBVIOUS
  <2>7. x <= y /\ x \in Int /\ y \in Int
    BY <2>1, <2>3, <2>4, <2>5, <2>6, Times
  <2>8. Burst(c, b) <= x /\ Top(b) * Unfilled(b) = y
    BY <1>1, <2>2, <2>3, <2>4, <2>5, <2>6
  <2>9. Level(c, b) <= bucket[b].level + y
    BY <1>1, <2>7, <2>8, SMTT(20)
  <2>10. QED
    BY <2>8, <2>9
<1>3. CASE ~ (bucket[b].until <= clock)
  <2>1. PICK f : f = bucket[b].level + Unfilled(b) * Rate[c][b]
    OBVIOUS
  <2>2. /\ f \in Nat /\ f <= bucket[b].level + Top(b) * Unfilled(b)
        /\ Level(c, b) = IF Burst(c, b) < f THEN Burst(c, b) ELSE f
    BY <1>3, <2>1, LevelIs
  <2>3. Level(c, b) <= f
    BY <1>1, <2>2
  <2>4. PICK k : k = Top(b) * Unfilled(b)
    OBVIOUS
  <2>5. k \in Int
    BY <1>1, <2>4, Times
  <2>6. QED
    BY <1>1, <2>2, <2>3, <2>4, <2>5
<1>4. QED
  BY <1>2, <1>3

LEMMA Spent ==
  ASSUME BucketAssumption, TypeInv, NEW b \in Buckets, NEW c \in Callers, Full(b)
  PROVE  Level(c, b) >= Low(b) - Len(grants) * Per[b]
<1>1. /\ Level(c, b) \in Nat /\ Burst(c, b) \in Nat /\ Per[b] \in Nat
      /\ Low(b) \in Nat /\ Low(b) <= Burst(c, b) /\ bucket[b].level \in Nat
      /\ Len(grants) \in Nat
  <2>1. Level(c, b) \in Nat /\ bucket[b].level \in Nat
    BY UnfilledIs, LevelIs
  <2>2. Burst(c, b) \in Nat /\ Per[b] \in Nat /\ Low(b) \in Nat /\ Low(b) <= Burst(c, b)
    BY Constants, TopIs
  <2>3. Len(grants) \in Nat
    BY DEF TypeInv
  <2>4. QED
    BY <2>1, <2>2, <2>3
<1>2. PICK k : k = Len(grants) * Per[b]
  OBVIOUS
<1>3. k \in Int /\ k >= 0
  BY <1>1, <1>2, Times
<1>4. CASE bucket[b].until <= clock
  <2>1. Level(c, b) = Burst(c, b)
    BY <1>4, LevelIs
  <2>2. QED
    BY <1>1, <1>2, <1>3, <2>1
<1>5. CASE ~ (bucket[b].until <= clock)
  <2>1. bucket[b].level + k >= Low(b)
    BY <1>2, <1>5, Gone DEF Full
  <2>2. PICK f : f = bucket[b].level + Unfilled(b) * Rate[c][b]
    OBVIOUS
  <2>3. /\ f \in Nat /\ f >= bucket[b].level
        /\ Level(c, b) = IF Burst(c, b) < f THEN Burst(c, b) ELSE f
    BY <1>5, <2>2, LevelIs
  <2>4. QED
    BY <1>1, <1>2, <1>3, <2>1, <2>3, SMTT(20)
<1>6. QED
  BY <1>4, <1>5

\* A caller whose advice is good finds what it needs.
LEMMA Woken ==
  ASSUME BucketAssumption, TypeInv, NEW c \in Callers, Advised(c),
         caller[c].at = "sleeping", caller[c].alone, time >= caller[c].wake
  PROVE  Allowed(c)
<1>1. SUFFICES ASSUME NEW b \in Buckets PROVE Level(c, b) >= Per[b]
  BY DEF Allowed
<1>2. /\ Level(c, b) \in Nat /\ Burst(c, b) \in Nat /\ Burst(c, b) >= Per[b]
      /\ Per[b] \in Nat /\ Rate[c][b] \in Nat /\ bucket[b].level \in Nat
      /\ Unfilled(b) \in Nat /\ bucket[b].last \in Int /\ clock \in Int /\ time \in Nat
  BY Constants, UnfilledIs, LevelIs DEF TypeInv
<1>3. caller[c].wake \in Nat
  BY DEF TypeInv, CallerType
<1>4. PICK s : s = caller[c].wake - (time - clock) - bucket[b].last
  OBVIOUS
<1>5. s >= 0 /\ bucket[b].level + s * Rate[c][b] >= Per[b]
  BY <1>4 DEF Advised
<1>6. s \in Nat /\ s <= Unfilled(b)
  BY <1>2, <1>3, <1>4, <1>5 DEF Unfilled
<1>7. CASE bucket[b].until <= clock
  <2>1. Level(c, b) = Burst(c, b)
    BY <1>7, LevelIs
  <2>2. QED
    BY <1>2, <2>1
<1>8. CASE ~ (bucket[b].until <= clock)
  <2>1. PICK r \in Nat : r = Rate[c][b]
    BY <1>2
  <2>2. PICK u \in Nat : u = Unfilled(b)
    BY <1>2
  <2>3. r * s <= r * u /\ r * s \in Int /\ r * u \in Int
    BY <1>6, <2>2, Times
  <2>4. r * s = s * r /\ r * u = u * r
    BY <1>6
  <2>5. PICK f : f = bucket[b].level + u * r
    OBVIOUS
  <2>6. f \in Nat /\ Level(c, b) = IF Burst(c, b) < f THEN Burst(c, b) ELSE f
    BY <1>8, <2>1, <2>2, <2>5, LevelIs
  <2>7. f >= Per[b]
    BY <1>2, <1>5, <2>1, <2>3, <2>4, <2>5
  <2>8. QED
    BY <1>2, <2>6, <2>7
<1>9. QED
  BY <1>7, <1>8

-----------------------------------------------------------------------------
(* The steps                                                                *)

\* How the grants and the buckets stand to each other, of one window.
Pairs(b) ==
  \A i, j \in DOMAIN grants :
    i <= j => (j - i + 1) * Per[b] <= Top(b) * (Per[b] + grants[j] - grants[i] + (time - clock))

Kept(b) == Lives(b) /\ Full(b) /\ Pairs(b) /\ \A i \in DOMAIN grants : Accounted(b, i)

LEMMA Split == IInv <=> TypeInv /\ (\A b \in Buckets : Kept(b)) /\ \A c \in Callers : Advised(c)
  BY DEF IInv, Kept, Pairs, LimitHolds, Top

LEMMA InitIInv == ASSUME BucketAssumption, Init PROVE IInv
<1>1. /\ MaxBack \in Nat /\ Attempts \in Nat \ {0}
  BY DEF BucketAssumption
<1>2. Start \in CallerType /\ Start.at = "start"
  BY <1>1 DEF Start, CallerType
<1>3. grants = <<>> /\ DOMAIN grants = {}
  BY DEF Init
<1>4. TypeInv
  <2>1. bucket \in [Buckets -> BucketType]
    BY <1>1 DEF Init, BucketType
  <2>2. caller \in [Callers -> CallerType]
    BY <1>2 DEF Init
  <2>3. QED
    BY <1>1, <1>3, <2>1, <2>2 DEF Init, TypeInv
<1>5. ASSUME NEW b \in Buckets PROVE Kept(b)
  <2>1. bucket[b].until <= - MaxBack
    BY <1>1 DEF Init
  <2>2. QED
    BY <1>3, <2>1 DEF Kept, Lives, Full, Pairs
<1>6. ASSUME NEW c \in Callers PROVE Advised(c)
  BY <1>2 DEF Init, Advised
<1>7. QED
  BY <1>4, <1>5, <1>6, Split

\* One call of the script: the token goes to the account or stays in the bucket.
LEMMA ScriptKeeps ==
  ASSUME BucketAssumption, IInv, NEW c \in Callers, NEW asked \in {0, 1}, Script(c, asked),
         UNCHANGED <<time, clock>>,
         grants' = IF asked = 1 /\ Allowed(c) THEN Append(grants, time) ELSE grants
  PROVE  /\ bucket' \in [Buckets -> BucketType]
         /\ grants' \in Seq(Nat) /\ \A i \in DOMAIN grants' : grants'[i] <= time'
         /\ \A b \in Buckets : Kept(b)'
<1>1. /\ TypeInv /\ time \in Nat /\ clock \in Int /\ clock <= time /\ grants \in Seq(Nat)
      /\ time' = time /\ clock' = clock /\ \A b \in Buckets : Kept(b)
  BY Split DEF TypeInv
<1>2. PICK paid \in BOOLEAN : paid = (asked = 1 /\ Allowed(c))
  OBVIOUS
<1>3. PICK n \in Nat : n = Len(grants)
  BY <1>1
<1>4. \A b \in Buckets :
        /\ Left(c, b, asked) \in Nat
        /\ Left(c, b, asked) = IF paid THEN Level(c, b) - Per[b] ELSE Level(c, b)
  <2>1. SUFFICES ASSUME NEW b \in Buckets
                 PROVE  /\ Left(c, b, asked) \in Nat
                        /\ Left(c, b, asked) = IF paid THEN Level(c, b) - Per[b] ELSE Level(c, b)
    OBVIOUS
  <2>2. Level(c, b) \in Nat /\ Per[b] \in Nat
    BY <1>1, Constants, LevelIs
  <2>3. paid => Level(c, b) >= Per[b]
    BY <1>2 DEF Allowed
  <2>4. Left(c, b, asked) = IF paid THEN Level(c, b) - Per[b] ELSE Level(c, b)
    BY <1>2 DEF Left
  <2>5. QED
    BY <2>2, <2>3, <2>4
<1>5. \A b \in Buckets : /\ bucket'[b].level = Left(c, b, asked) /\ bucket'[b].last = clock
                         /\ bucket'[b].until = clock + Ttl(c, b)
  BY DEF Script
<1>6. bucket' \in [Buckets -> BucketType]
  <2>1. \A b \in Buckets : clock + Ttl(c, b) \in Int /\ Left(c, b, asked) \in Nat
    BY <1>1, <1>4, TtlIs
  <2>2. QED
    BY <1>1, <2>1 DEF Script, BucketType
<1>7. /\ grants' \in Seq(Nat) /\ \A i \in DOMAIN grants' : grants'[i] <= time
      /\ Len(grants') = IF paid THEN n + 1 ELSE n
      /\ \A i \in DOMAIN grants : i \in DOMAIN grants' /\ grants'[i] = grants[i]
      /\ \A i \in DOMAIN grants' : i \in DOMAIN grants \/ (paid /\ i = n + 1 /\ grants'[i] = time)
  <2>1. \A i \in DOMAIN grants : grants[i] <= time
    BY <1>1 DEF TypeInv
  <2>2. CASE paid
    <3>1. grants' = Append(grants, time)
      BY <1>2, <2>2
    <3>2. QED
      BY <1>1, <1>3, <2>1, <2>2, <3>1
  <2>3. CASE ~ paid
    <3>1. grants' = grants
      BY <1>2, <2>3
    <3>2. QED
      BY <1>1, <1>3, <2>1, <2>3, <3>1
  <2>4. QED
    BY <2>2, <2>3
<1>8. ASSUME NEW b \in Buckets PROVE Kept(b)'
  <2>1. /\ Level(c, b) \in Nat /\ Level(c, b) <= Burst(c, b) /\ Burst(c, b) \in Nat
        /\ Burst(c, b) <= Top(b) * Per[b]
        /\ Per[b] \in Nat \ {0} /\ Top(b) \in Nat /\ Low(b) \in Nat
        /\ Ttl(c, b) \in Nat /\ Ttl(c, b) >= Per[b]
    BY <1>1, Constants, TopIs, BurstIs, LevelIs, TtlIs
  <2>2. PICK p \in Nat \ {0} : p = Per[b]
    BY <2>1
  <2>3. PICK t \in Nat : t = Top(b)
    BY <2>1
  <2>4. PICK l \in Nat : l = Level(c, b)
    BY <2>1
  <2>5. PICK after \in Nat : after = Left(c, b, asked)
    BY <1>4
  <2>6. after = IF paid THEN l - p ELSE l
    BY <1>4, <2>2, <2>4, <2>5
  <2>7. (Top(b) = t /\ Low(b) = Low(b) /\ Per[b] = p)'
    BY <2>2, <2>3 DEF Top
  <2>8. Lives(b)'
    BY <1>1, <1>5, <2>1, <2>2, SMTT(20) DEF Lives
  <2>9. Full(b)'
    <3>1. l >= Low(b) - n * p
      BY <1>1, <1>3, <2>2, <2>4, Spent DEF Kept
    <3>2. p * (n + 1) = p * n + p * 1 /\ p * n \in Int /\ n * p = p * n /\ (n + 1) * p = p * (n + 1)
      BY Times
    <3>3. Low(b)' = Low(b)
      BY DEF Low, Burst
    <3>4. after + Len(grants') * p >= Low(b)
      <4>1. PICK k \in Int : k = n * p
        BY <3>2
      <4>2. (n + 1) * p = k + p
        BY <3>2, <4>1
      <4>3. l >= Low(b) - k
        BY <3>1, <4>1
      <4>4. CASE paid
        <5>1. Len(grants') * p = k + p
          BY <1>7, <4>2, <4>4
        <5>2. after + (k + p) >= Low(b)
          BY <2>1, <2>6, <4>3, <4>4
        <5>3. QED
          BY <5>1, <5>2
      <4>5. CASE ~ paid
        <5>1. Len(grants') * p = k
          BY <1>7, <4>1, <4>5
        <5>2. after + k >= Low(b)
          BY <2>1, <2>6, <4>3, <4>5
        <5>3. QED
          BY <5>1, <5>2
      <4>6. QED
        BY <4>4, <4>5
    <3>5. QED
      BY <1>5, <2>2, <2>5, <3>3, <3>4 DEF Full
  <2>10. Unfilled(b)' = 0
    BY <1>1, <1>5 DEF Unfilled
  <2>11. ASSUME NEW i \in DOMAIN grants'
         PROVE  (Len(grants') - i + 1) * p + after <= t * (p + (time - grants'[i]) + (time - clock))
    <3>1. CASE i \in DOMAIN grants
      <4>1. i \in 1 .. n /\ grants # <<>> /\ grants[i] \in Nat
        BY <1>1, <1>3, <3>1
      <4>2. PICK rhs : rhs = t * (p + (time - grants[i]) + (time - clock))
        OBVIOUS
      <4>3. PICK add : add = t * Unfilled(b)
        OBVIOUS
      <4>4. PICK k : k = (n - i + 1) * p
        OBVIOUS
      <4>5. rhs \in Int /\ add \in Int
        <5>1. PICK x \in Int : x = p + (time - grants[i]) + (time - clock)
          <6>1. time \in Int /\ clock \in Int /\ grants[i] \in Int
            BY <1>1, <4>1
          <6>2. QED
            BY <6>1
        <5>2. PICK u \in Nat : u = Unfilled(b)
          BY <1>1, UnfilledIs
        <5>3. t * x \in Int /\ t * u \in Int
          BY Times
        <5>4. QED
          BY <4>2, <4>3, <5>1, <5>2, <5>3
      <4>6. /\ k \in Int /\ (n - i + 2) * p = k + p
        BY <4>1, <4>4, Times
      <4>7. bucket[b].level \in Nat /\ k + bucket[b].level + add <= rhs
        BY <1>1, <1>3, <2>2, <2>3, <3>1, <4>2, <4>3, <4>4, UnfilledIs DEF Kept, Accounted
      <4>8. l <= bucket[b].level + add
        BY <1>1, <2>3, <2>4, <4>1, <4>3, NoGift DEF Kept
      <4>9. grants'[i] = grants[i]
        BY <1>7, <3>1
      <4>10. CASE paid
        <5>1. (Len(grants') - i + 1) * p = k + p
          <6>1. Len(grants') - i + 1 = n - i + 2
            BY <1>7, <4>1, <4>10
          <6>2. QED
            BY <4>6, <6>1
        <5>2. k + p + after <= rhs
          <6>1. k \in Int /\ p \in Int /\ after = l - p
            BY <2>6, <4>6, <4>10
          <6>2. QED
            BY <4>5, <4>7, <4>8, <6>1
        <5>3. QED
          BY <4>2, <4>9, <5>1, <5>2
      <4>11. CASE ~ paid
        <5>1. (Len(grants') - i + 1) * p = k
          BY <1>7, <4>4, <4>11
        <5>2. k + after <= rhs
          <6>1. k \in Int /\ after = l
            BY <2>6, <4>6, <4>11
          <6>2. QED
            BY <4>5, <4>7, <4>8, <6>1
        <5>3. QED
          BY <4>2, <4>9, <5>1, <5>2
      <4>12. QED
        BY <4>10, <4>11
    <3>2. CASE paid /\ i = n + 1 /\ grants'[i] = time
      <4>1. (Len(grants') - i + 1) * p = p
        <5>1. Len(grants') - i + 1 = 1
          BY <1>7, <3>2
        <5>2. QED
          BY <5>1
      <4>2. t * p <= t * (p + (time - time) + (time - clock)) /\ t * p \in Int
            /\ t * (p + (time - time) + (time - clock)) \in Int
        <5>1. PICK x \in Int : x = p + (time - time) + (time - clock) /\ p <= x
          BY <1>1
        <5>2. t * p <= t * x /\ t * p \in Int /\ t * x \in Int
          BY <5>1, Times
        <5>3. QED
          BY <5>1, <5>2
      <4>3. l <= t * p
        BY <2>1, <2>2, <2>3, <2>4, <4>2
      <4>4. p + after <= t * p
        BY <2>6, <3>2, <4>2, <4>3
      <4>5. p + after <= t * (p + (time - time) + (time - clock))
        <5>1. PICK x : x = t * (p + (time - time) + (time - clock))
          OBVIOUS
        <5>2. QED
          BY <4>2, <4>4, <5>1
      <4>6. QED
        BY <3>2, <4>1, <4>5
    <3>3. QED
      BY <1>7, <3>1, <3>2
  <2>12. ASSUME NEW i \in DOMAIN grants' PROVE Accounted(b, i)'
    <3>1. (Len(grants') - i + 1) * p + after <= t * (p + (time - grants'[i]) + (time - clock))
      BY <2>11
    <3>2. PICK k : k = (Len(grants') - i + 1) * p
      OBVIOUS
    <3>3. k \in Int
      BY <1>7, <3>2, Times, SMTT(20)
    <3>4. t * 0 = 0 /\ k + after + 0 = k + after
      BY <3>3
    <3>5. (bucket[b].level = after)' /\ Top(b)' = t
      BY <1>5, <2>5, <2>7
    <3>6. QED
      BY <1>1, <2>2, <2>10, <3>1, <3>2, <3>4, <3>5 DEF Accounted
  <2>13. ASSUME NEW i \in DOMAIN grants', NEW j \in DOMAIN grants', i <= j
         PROVE  (j - i + 1) * p <= t * (p + grants'[j] - grants'[i] + (time - clock))
    <3>1. CASE j \in DOMAIN grants
      <4>1. i \in DOMAIN grants
        BY <1>1, <1>3, <1>7, <2>13, <3>1
      <4>2. grants'[i] = grants[i] /\ grants'[j] = grants[j]
        BY <1>7, <3>1, <4>1
      <4>3. QED
        BY <1>1, <2>2, <2>3, <2>13, <3>1, <4>1, <4>2 DEF Kept, Pairs
    <3>2. CASE paid /\ j = n + 1 /\ grants'[j] = time
      <4>1. Len(grants') = j /\ grants'[i] \in Nat /\ i \in Nat
        BY <1>7, <3>2
      <4>2. (j - i + 1) * p + after <= t * (p + (time - grants'[i]) + (time - clock))
        BY <2>11, <4>1
      <4>3. p + (time - grants'[i]) + (time - clock) = p + grants'[j] - grants'[i] + (time - clock)
        BY <1>1, <3>2, <4>1
      <4>4. PICK k : k = (j - i + 1) * p
        OBVIOUS
      <4>5. PICK x : x = t * (p + (time - grants'[i]) + (time - clock))
        OBVIOUS
      <4>6. k \in Int /\ x \in Int
        <5>1. PICK y \in Int : y = j - i + 1
          BY <3>2, <4>1
        <5>2. PICK z \in Int : z = p + (time - grants'[i]) + (time - clock)
          BY <1>1, <4>1, SMTT(20)
        <5>3. p * y \in Int /\ p * y = y * p /\ t * z \in Int
          BY <5>1, <5>2, Times, SMTT(20)
        <5>4. QED
          BY <4>4, <4>5, <5>1, <5>2, <5>3
      <4>7. k <= x
        <5>1. k + after <= x
          BY <4>2, <4>4, <4>5
        <5>2. QED
          BY <4>6, <5>1
      <4>8. QED
        BY <4>3, <4>4, <4>5, <4>7
    <3>3. QED
      BY <1>7, <3>1, <3>2
  <2>14. Pairs(b)'
    BY <1>1, <2>2, <2>7, <2>13 DEF Pairs
  <2>15. QED
    BY <2>8, <2>9, <2>12, <2>14 DEF Kept
<1>9. QED
  BY <1>1, <1>6, <1>7, <1>8

\* What the other callers do makes an advice stale; the caller's own state is given.
LEMMA MeddledIs ==
  ASSUME TypeInv, NEW c \in Callers, NEW next \in CallerType, Meddled(c, next)
  PROVE  /\ caller' \in [Callers -> CallerType] /\ caller'[c] = next
         /\ \A d \in Callers : d # c => ~ caller'[d].alone
<1>1. \A d \in Callers : caller[d] \in CallerType
  BY DEF TypeInv
<1>2. \A d \in Callers : /\ [caller[d] EXCEPT !.alone = FALSE] \in CallerType
                         /\ ~ [caller[d] EXCEPT !.alone = FALSE].alone
  BY <1>1 DEF CallerType
<1>3. QED
  BY <1>2 DEF Meddled

\* A call with the rest of its handler: the caller that comes out of it is well advised.
LEMMA CallKeeps ==
  ASSUME BucketAssumption, IInv, NEW c \in Callers, NEW asked \in {0, 1}, Script(c, asked),
         UNCHANGED <<time, clock>>,
         grants' = IF asked = 1 /\ Allowed(c) THEN Append(grants, time) ELSE grants,
         NEW next \in CallerType, Meddled(c, next),
         (next.at = "sleeping" /\ next.alone) =>
           asked = 0 /\ next.wake = time + Delay(c)
  PROVE  IInv'
<1>1. TypeInv /\ time \in Nat /\ clock \in Int
  BY Split DEF TypeInv
<1>2. /\ bucket' \in [Buckets -> BucketType]
      /\ grants' \in Seq(Nat) /\ \A i \in DOMAIN grants' : grants'[i] <= time'
      /\ \A b \in Buckets : Kept(b)'
  BY ScriptKeeps
<1>3. /\ caller' \in [Callers -> CallerType] /\ caller'[c] = next
      /\ \A d \in Callers : d # c => ~ caller'[d].alone
  BY <1>1, MeddledIs
<1>4. TypeInv'
  BY <1>1, <1>2, <1>3 DEF TypeInv
<1>5. ASSUME NEW d \in Callers PROVE Advised(d)'
  <2>1. CASE d # c
    BY <1>3, <2>1 DEF Advised
  <2>2. CASE d = c
    <3>1. SUFFICES ASSUME next.at = "sleeping", next.alone, NEW b \in Buckets
                   PROVE  LET slept == next.wake - (time - clock) - bucket'[b].last
                          IN  slept >= 0 /\ bucket'[b].level + slept * Rate[c][b] >= Per[b]
      BY <1>3, <2>2 DEF Advised
    <3>2. asked = 0 /\ next.wake = time + Delay(c)
      BY <3>1
    <3>3. bucket'[b].level = Level(c, b) /\ bucket'[b].last = clock
      BY <3>2 DEF Script, Left
    <3>4. Delay(c) \in Nat /\ Level(c, b) + Delay(c) * Rate[c][b] >= Per[b]
      BY <1>1, DelayIs
    <3>5. next.wake - (time - clock) - bucket'[b].last = Delay(c)
      BY <1>1, <3>2, <3>3, <3>4
    <3>6. QED
      BY <3>3, <3>4, <3>5
  <2>3. QED
    BY <2>1, <2>2
<1>6. QED
  <2>1. LimitHolds'
    <3>1. \A b \in Buckets : Pairs(b)'
      BY <1>2 DEF Kept
    <3>2. QED
      BY <3>1, SMTT(20) DEF LimitHolds, Pairs, Top
  <2>2. \A b \in Buckets : (Lives(b) /\ Full(b) /\ \A i \in DOMAIN grants : Accounted(b, i))'
    BY <1>2 DEF Kept
  <2>3. QED
    BY <1>4, <1>5, <2>1, <2>2 DEF IInv

LEMMA AcquireIInv ==
  ASSUME BucketAssumption, IInv, NEW c \in Callers, Acquire(c)
  PROVE  IInv'
<1>1. Start \in CallerType /\ Start.at = "start"
  BY DEF BucketAssumption, Start, CallerType
<1>2. caller[c] \in CallerType
  BY Split DEF TypeInv
<1>3. /\ [caller[c] EXCEPT !.at = "refused"] \in CallerType
      /\ [caller[c] EXCEPT !.at = "refused"].at = "refused"
  BY <1>2 DEF CallerType
<1>4. CASE Allowed(c)
  <2>1. /\ Script(c, 1) /\ UNCHANGED <<time, clock>> /\ grants' = Append(grants, time)
        /\ Meddled(c, Start)
    BY <1>4 DEF Acquire
  <2>2. QED
    BY <1>1, <1>4, <2>1, CallKeeps
<1>5. CASE ~ Allowed(c)
  <2>1. PICK next : next = IF c \in Senders THEN Start ELSE [caller[c] EXCEPT !.at = "refused"]
    OBVIOUS
  <2>2. /\ Script(c, 1) /\ UNCHANGED <<time, clock>> /\ grants' = grants
        /\ Meddled(c, next)
    BY <1>5, <2>1 DEF Acquire
  <2>3. next \in CallerType /\ next.at # "sleeping"
    BY <1>1, <1>3, <2>1
  <2>4. QED
    BY <1>5, <2>2, <2>3, CallKeeps
<1>6. QED
  BY <1>4, <1>5

LEMMA SuggestIInv ==
  ASSUME BucketAssumption, IInv, NEW c \in Callers, Suggest(c)
  PROVE  IInv'
<1>1. Start \in CallerType /\ Start.at = "start"
  BY DEF BucketAssumption, Start, CallerType
<1>2. /\ TypeInv /\ time \in Nat /\ caller[c] \in CallerType /\ caller[c].tries \in Nat \ {0}
  BY Split DEF TypeInv, CallerType
<1>3. PICK d \in Nat : d = Delay(c)
  BY <1>2, DelayIs
<1>4. PICK left \in Nat : left = caller[c].tries - 1
  BY <1>2
<1>5. MaxWait \in Nat
  BY DEF BucketAssumption
<1>6. PICK w : w = Min({d, MaxWait})
  OBVIOUS
<1>7. w = IF d < MaxWait THEN d ELSE MaxWait
  BY <1>5, <1>6, OfTwo
<1>8. PICK next : next = IF d = 0 \/ left = 0 THEN Start
                         ELSE [at |-> "sleeping", tries |-> left, alone |-> d <= MaxWait,
                               wake |-> time + w]
  OBVIOUS
<1>9. /\ Script(c, 0) /\ UNCHANGED <<time, clock>> /\ grants' = grants /\ Meddled(c, next)
  BY <1>3, <1>4, <1>6, <1>8 DEF Suggest
<1>10. next \in CallerType /\ ((next.at = "sleeping" /\ next.alone) => next.wake = time + d)
  <2>1. CASE d = 0 \/ left = 0
    BY <1>1, <1>8, <2>1
  <2>2. CASE ~ (d = 0 \/ left = 0)
    <3>1. w \in Nat /\ time + w \in Nat /\ (d <= MaxWait => w = d)
      BY <1>2, <1>5, <1>7
    <3>2. next = [at |-> "sleeping", tries |-> left, alone |-> d <= MaxWait, wake |-> time + w]
      BY <1>8, <2>2
    <3>3. next.at = "sleeping" /\ next.alone = (d <= MaxWait) /\ next.wake = time + w
      BY <3>2
    <3>4. left \in Nat \ {0} /\ (d <= MaxWait) \in BOOLEAN
      BY <2>2
    <3>5. next \in CallerType
      BY <3>1, <3>2, <3>4 DEF CallerType
    <3>6. QED
      BY <3>1, <3>3, <3>5
  <2>3. QED
    BY <2>1, <2>2
<1>11. QED
  BY <1>3, <1>9, <1>10, CallKeeps

\* The account when time goes on or the clock goes back, the bucket being left alone.
LEMMA MoreTime ==
  ASSUME BucketAssumption, NEW b \in Buckets, NEW i \in DOMAIN grants, Accounted(b, i),
         UNCHANGED <<bucket, grants>>, grants \in Seq(Nat), time \in Nat, clock \in Int,
         \/ time' = time + 1 /\ clock' = clock + 1
         \/ time' = time /\ clock' = clock - 1,
         Unfilled(b) \in Nat, Unfilled(b)' \in Nat, Unfilled(b)' <= Unfilled(b) + 1,
         bucket[b].level \in Nat
  PROVE  Accounted(b, i)'
<1>1. Top(b) \in Nat /\ Per[b] \in Nat
  <2>1. PICK c \in Callers : TRUE
    BY DEF BucketAssumption
  <2>2. QED
    BY Constants, TopIs
<1>2. PICK t \in Nat : t = Top(b)
  BY <1>1
<1>3. PICK p \in Nat : p = Per[b]
  BY <1>1
<1>4. PICK u \in Nat : u = Unfilled(b)
  OBVIOUS
<1>5. PICK v \in Nat : v = Unfilled(b)' /\ v <= u + 1
  BY <1>4
<1>6. grants[i] \in Nat /\ i \in Nat /\ Len(grants) \in Nat
  OBVIOUS
<1>6a. PICK g \in Nat : g = grants[i]
  BY <1>6
<1>7. PICK x \in Int : x = p + (time - grants[i]) + (time - clock)
  BY <1>6
<1>8. p + (time' - grants[i]) + (time' - clock') = x + 1
  <2>1. CASE time' = time + 1 /\ clock' = clock + 1
    <3>1. x = p + (time - g) + (time - clock)
      BY <1>6a, <1>7
    <3>2. p + ((time + 1) - g) + ((time + 1) - (clock + 1)) = x + 1
      BY <3>1
    <3>3. QED
      BY <1>6a, <2>1, <3>2
  <2>2. CASE time' = time /\ clock' = clock - 1
    <3>1. x = p + (time - g) + (time - clock)
      BY <1>6a, <1>7
    <3>2. p + (time - g) + (time - (clock - 1)) = x + 1
      BY <3>1
    <3>3. QED
      BY <1>6a, <2>2, <3>2
  <2>3. QED
    BY <2>1, <2>2
<1>9. PICK y \in Int : y = Len(grants) - i + 1
  BY <1>6
<1>10. PICK k : k = y * p
  OBVIOUS
<1>11. PICK tx : tx = t * x
  OBVIOUS
<1>12. PICK tu : tu = t * u
  OBVIOUS
<1>13. PICK tv : tv = t * v
  OBVIOUS
<1>14. p * y \in Int /\ p * y = y * p
  BY Times
<1>15. /\ tx \in Int /\ tu \in Int /\ tv \in Int /\ k \in Int
       /\ t * (x + 1) = tx + t /\ tv <= tu + t
  <2>1. t * (x + 1) = t * x + t * 1 /\ t * x \in Int
    BY Times
  <2>2. t * (u + 1) = t * u + t * 1 /\ t * u \in Int
    BY Times
  <2>3. t * v <= t * (u + 1) /\ t * v \in Int
    BY <1>5, Times
  <2>4. t * 1 = t
    OBVIOUS
  <2>5. QED
    BY <1>10, <1>11, <1>12, <1>13, <1>14, <2>1, <2>2, <2>3, <2>4
<1>16. k + bucket[b].level + tu <= tx
  BY <1>2, <1>3, <1>4, <1>7, <1>9, <1>10, <1>11, <1>12 DEF Accounted
<1>17. k + bucket[b].level + tv <= t * (x + 1)
  <2>1. tx \in Int /\ tu \in Int /\ tv \in Int /\ k \in Int /\ tv <= tu + t
    BY <1>15
  <2>2. PICK l \in Nat : l = bucket[b].level
    OBVIOUS
  <2>3. k + l + tu <= tx
    BY <1>16, <2>2
  <2>4. k + l + tv <= tx + t
    BY <2>1, <2>3
  <2>5. PICK z : z = t * (x + 1)
    OBVIOUS
  <2>6. z = tx + t
    BY <1>15, <2>5
  <2>7. QED
    BY <2>2, <2>4, <2>5, <2>6
<1>18. Top(b)' = t
  BY <1>2 DEF Top
<1>19. QED
  BY <1>3, <1>5, <1>8, <1>9, <1>10, <1>13, <1>17, <1>18 DEF Accounted

\* A second more on both clocks: one more refill on each side of the account.
LEMMA TickIInv ==
  ASSUME BucketAssumption, IInv, Tick
  PROVE  IInv'
<1>1. /\ TypeInv /\ time \in Nat /\ clock \in Int /\ grants \in Seq(Nat)
      /\ (\A b \in Buckets : Kept(b)) /\ \A c \in Callers : Advised(c)
      /\ time' = time + 1 /\ clock' = clock + 1 /\ UNCHANGED <<bucket, caller, grants>>
  BY Split DEF TypeInv, Tick
<1>2. time' - clock' = time - clock
  BY <1>1
<1>3. TypeInv'
  <2>1. \A i \in DOMAIN grants : grants[i] \in Nat /\ grants[i] <= time
    BY <1>1 DEF TypeInv
  <2>2. /\ time' \in Nat /\ clock' \in Int /\ clock' <= time' /\ time' - clock' <= MaxBack
        /\ \A i \in DOMAIN grants' : grants'[i] <= time'
    BY <1>1, <1>2, <2>1 DEF TypeInv
  <2>3. QED
    BY <1>1, <2>2 DEF TypeInv
<1>4. ASSUME NEW b \in Buckets PROVE Kept(b)'
  <2>1. /\ Unfilled(b) \in Nat /\ Unfilled(b)' \in Nat /\ Unfilled(b)' <= Unfilled(b) + 1
        /\ bucket[b].level \in Nat
    <3>1. Unfilled(b) \in Nat /\ bucket[b].level \in Nat /\ bucket[b].last \in Int
      BY <1>1, UnfilledIs
    <3>2. Unfilled(b)' = IF clock' > bucket[b].last THEN clock' - bucket[b].last ELSE 0
      BY <1>1 DEF Unfilled
    <3>3. clock' \in Int /\ clock' <= clock + 1
      BY <1>1
    <3>4. QED
      BY <1>1, <3>1, <3>2, <3>3 DEF Unfilled
  <2>2. ASSUME NEW i \in DOMAIN grants PROVE Accounted(b, i)'
    <3>1. Accounted(b, i) /\ grants[i] \in Nat /\ i \in Nat
      BY <1>1 DEF Kept
    <3>2. QED
      BY <1>1, <2>1, <3>1, MoreTime
  <2>3. Lives(b)' /\ Full(b)'
    BY <1>1 DEF Kept, Lives, Full, Low, Burst
  <2>4. Pairs(b)'
    BY <1>1, <1>2 DEF Kept, Pairs, Top
  <2>5. QED
    BY <1>1, <2>2, <2>3, <2>4 DEF Kept
<1>5. ASSUME NEW c \in Callers PROVE Advised(c)'
  BY <1>1, <1>2 DEF Advised
<1>6. QED
  BY <1>3, <1>4, <1>5 DEF IInv, Kept, Pairs, LimitHolds, Top

\* The clock set back: the fastest rate once more on the right side of every account.
LEMMA StepBackIInv ==
  ASSUME BucketAssumption, IInv, StepBack
  PROVE  IInv'
<1>1. /\ TypeInv /\ time \in Nat /\ clock \in Int /\ clock <= time /\ grants \in Seq(Nat)
      /\ (\A b \in Buckets : Kept(b)) /\ MaxBack \in Nat
      /\ time' = time /\ clock' = clock - 1 /\ time - clock < MaxBack /\ UNCHANGED <<bucket, grants>>
      /\ caller' = [c \in Callers |-> [caller[c] EXCEPT !.alone = FALSE]]
  BY Split DEF TypeInv, StepBack, BucketAssumption
<1>2. \A c \in Callers : /\ [caller[c] EXCEPT !.alone = FALSE] \in CallerType
                         /\ ~ [caller[c] EXCEPT !.alone = FALSE].alone
  BY <1>1 DEF TypeInv, CallerType
<1>3. TypeInv'
  <2>1. caller' \in [Callers -> CallerType]
    BY <1>1, <1>2
  <2>2. clock' \in Int /\ clock' <= time' /\ time' - clock' <= MaxBack
    BY <1>1
  <2>3. QED
    BY <1>1, <2>1, <2>2 DEF TypeInv
<1>4. ASSUME NEW b \in Buckets PROVE Kept(b)'
  <2>1. /\ Unfilled(b) \in Nat /\ Unfilled(b)' \in Nat /\ Unfilled(b)' <= Unfilled(b) + 1
        /\ bucket[b].level \in Nat
    <3>1. Unfilled(b) \in Nat /\ bucket[b].level \in Nat /\ bucket[b].last \in Int
      BY <1>1, UnfilledIs
    <3>2. Unfilled(b)' = IF clock' > bucket[b].last THEN clock' - bucket[b].last ELSE 0
      BY <1>1 DEF Unfilled
    <3>3. clock' \in Int /\ clock' <= clock + 1
      BY <1>1
    <3>4. QED
      BY <1>1, <3>1, <3>2, <3>3, SMTT(20) DEF Unfilled
  <2>2. ASSUME NEW i \in DOMAIN grants PROVE Accounted(b, i)'
    <3>1. Accounted(b, i)
      BY <1>1 DEF Kept
    <3>2. QED
      BY <1>1, <2>1, <3>1, MoreTime
  <2>3. Lives(b)' /\ Full(b)'
    BY <1>1 DEF Kept, Lives, Full, Low, Burst
  <2>4. Pairs(b)'
    <3>1. Top(b) \in Nat /\ Per[b] \in Nat
      <4>1. PICK c \in Callers : TRUE
        BY DEF BucketAssumption
      <4>2. QED
        BY Constants, TopIs
    <3>2. SUFFICES ASSUME NEW i \in DOMAIN grants, NEW j \in DOMAIN grants, i <= j
                   PROVE  (j - i + 1) * Per[b]
                            <= Top(b) * (Per[b] + grants[j] - grants[i] + (time - (clock - 1)))
      BY <1>1 DEF Pairs, Top
    <3>3. grants[i] \in Nat /\ grants[j] \in Nat /\ i \in Nat /\ j \in Nat
      BY <1>1
    <3>4. PICK x \in Int : /\ x = Per[b] + grants[j] - grants[i] + (time - clock)
                           /\ Per[b] + grants[j] - grants[i] + (time - (clock - 1)) = x + 1
      <4>1. time \in Int /\ clock \in Int
        BY <1>1
      <4>2. QED
        BY <3>1, <3>3, <4>1
    <3>5. Per[b] + grants[j] - grants[i] + (time - (clock - 1)) = x + 1
      BY <3>4
    <3>6. PICK t \in Nat : t = Top(b)
      BY <3>1
    <3>7. t * x <= t * (x + 1) /\ t * x \in Int /\ t * (x + 1) \in Int
      BY Times
    <3>8. PICK k : k = (j - i + 1) * Per[b]
      OBVIOUS
    <3>9. k \in Int
      <4>1. PICK y \in Int : y = j - i + 1
        BY <3>3
      <4>2. PICK p \in Nat : p = Per[b]
        BY <3>1
      <4>3. p * y \in Int /\ p * y = y * p
        BY Times
      <4>4. QED
        BY <3>8, <4>1, <4>2, <4>3
    <3>10. k <= t * x
      BY <1>1, <3>2, <3>4, <3>6, <3>8 DEF Kept, Pairs
    <3>11. k <= t * (x + 1)
      BY <3>7, <3>9, <3>10
    <3>12. QED
      BY <3>5, <3>6, <3>8, <3>11
  <2>5. QED
    BY <1>1, <2>2, <2>3, <2>4 DEF Kept
<1>5. ASSUME NEW c \in Callers PROVE Advised(c)'
  BY <1>1, <1>2 DEF Advised
<1>6. QED
  BY <1>3, <1>4, <1>5 DEF IInv, Kept, Pairs, LimitHolds, Top

LEMMA NextIInv ==
  ASSUME BucketAssumption, IInv, [Next]_vars
  PROVE  IInv'
<1>1. ASSUME NEW c \in Callers, Acquire(c) \/ Suggest(c) PROVE IInv'
  BY <1>1, AcquireIInv, SuggestIInv
<1>2. CASE Tick \/ StepBack
  BY <1>2, TickIInv, StepBackIInv
<1>3. CASE UNCHANGED vars
  BY <1>3 DEF vars, IInv, TypeInv, LimitHolds, Advised, Lives, Full, Accounted, Unfilled, Top,
     Low, Burst
<1>4. QED
  BY <1>1, <1>2, <1>3 DEF Next

LEMMA Invariance ==
  ASSUME BucketAssumption
  PROVE  Spec => []IInv
<1>1. Init => IInv
  BY InitIInv
<1>2. IInv /\ [Next]_vars => IInv'
  BY NextIInv
<1>3. QED
  BY <1>1, <1>2, PTL DEF Spec

LEMMA IInvQuota ==
  ASSUME BucketAssumption, IInv
  PROVE  LimitHolds /\ RefusalsAreFree /\ AdviceSuffices
<1>1. LimitHolds
  BY DEF IInv
<1>2. RefusalsAreFree
  BY Split, Spent DEF RefusalsAreFree, Kept, Low
<1>3. AdviceSuffices
  BY Split, Woken DEF AdviceSuffices
<1>4. QED
  BY <1>1, <1>2, <1>3

-----------------------------------------------------------------------------
(* The theorems                                                             *)

\* rate_limit.py: the hourly and daily limits of an account hold over every stretch
\* of time, whoever calls with whatever rates and however the clock is corrected.
THEOREM LimitsHold ==
  ASSUME BucketAssumption
  PROVE  Spec => []LimitHolds
<1>1. IInv => LimitHolds
  BY IInvQuota
<1>2. QED
  BY <1>1, Invariance, PTL

\* rate_limit.py: a refused call, a question about the delay or an expiry of a key
\* costs no quota of any window.
THEOREM RefusalsCostNothing ==
  ASSUME BucketAssumption
  PROVE  Spec => []RefusalsAreFree
<1>1. IInv => RefusalsAreFree
  BY IInvQuota
<1>2. QED
  BY <1>1, Invariance, PTL

\* rate_limit.py: who slept as long as it was told, with nobody calling in between,
\* is let through.
THEOREM AdviceIsGood ==
  ASSUME BucketAssumption
  PROVE  Spec => []AdviceSuffices
<1>1. IInv => AdviceSuffices
  BY IInvQuota
<1>2. QED
  BY <1>1, Invariance, PTL
=============================================================================
