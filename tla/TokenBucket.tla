----------------------------- MODULE TokenBucket -----------------------------
(***************************************************************************)
(* The Redis token buckets that pace provider lookups, crawling and        *)
(* sending: one script call refills and reads every bucket of the request, *)
(* takes a token from all of them or from none, and writes them back with  *)
(* an expiry.  A caller of the pipeline tries, asks how long to wait,      *)
(* sleeps and tries again a few times, each a call of its own; the sender  *)
(* tries once.                                                             *)
(*                                                                         *)
(* A level is in units of 1 / Per[b] token: a second refills Rate[c][b]    *)
(* units, a token costs Per[b].  Two campaigns of one account share its    *)
(* buckets but bring their own rates.  `clock` is what TIME says; it may   *)
(* be set back.                                                            *)
(***************************************************************************)
EXTENDS Integers, Sequences, FiniteSetsExt

CONSTANTS
  Buckets,    \* the windows of the limit: the hour and the day of an account
  Per,        \* Per[b]: the window's length
  Callers,
  Rate,       \* Rate[c][b]: tokens per window the caller asks for; also the burst
  Senders,    \* callers that try once and leave the retry to the queue
  Attempts,   \* tries of a pipeline caller before it goes ahead anyway
  MaxWait,
  MinTtl,
  MaxTime,    \* bound: the time that passes
  MaxBack     \* bound: how far the clock is set back

BucketAssumption ==
  /\ IsFiniteSet(Buckets) /\ Buckets # {} /\ IsFiniteSet(Callers) /\ Callers # {}
  /\ \A b \in Buckets : Per[b] \in Nat \ {0} /\ \A c \in Callers : Rate[c][b] \in Nat \ {0}
  /\ Senders \subseteq Callers
  /\ {Attempts, MaxWait, MinTtl} \subseteq Nat \ {0} /\ {MaxTime, MaxBack} \subseteq Nat

VARIABLES
  time,     \* the time that has passed
  clock,    \* what Redis TIME says
  bucket,   \* bucket[b]: [level, last, until]; gone from `until` on
  caller,   \* caller[c]: [at, tries, wake, alone]; alone: nobody called since it asked
  grants    \* the times at which a token was given

vars == <<time, clock, bucket, caller, grants>>

Burst(c, b) == Rate[c][b] * Per[b]
Start == [at |-> "start", tries |-> Attempts, wake |-> 0, alone |-> TRUE]

Init ==
  /\ time = 0 /\ clock = 0 /\ grants = <<>>
  /\ bucket = [b \in Buckets |-> [level |-> 0, last |-> 0, until |-> -MaxBack]]
  /\ caller = [c \in Callers |-> Start]

-----------------------------------------------------------------------------
(* The script                                                               *)

\* Mutant of Level: the refill has no cap.
LevelUncapped(c, b) ==
  IF bucket[b].until <= clock
  THEN Burst(c, b)
  ELSE bucket[b].level + Max({0, clock - bucket[b].last}) * Rate[c][b]

\* What c finds in bucket b: full when the key is gone, else refilled for the
\* time since the last call, a clock that ran backwards counting as no time.
Level(c, b) ==
  IF bucket[b].until <= clock
  THEN Burst(c, b)
  ELSE Min({Burst(c, b),
            bucket[b].level + Max({0, clock - bucket[b].last}) * Rate[c][b]})

Allowed(c) == \A b \in Buckets : Level(c, b) >= Per[b]

\* Mutant of Ttl: a key lives for half a window, less than its refill takes.
TtlShort(c, b) == Max({MinTtl, Per[b] \div 2})

\* Twice the time an empty bucket takes to fill.
Ttl(c, b) == Max({MinTtl, (2 * Burst(c, b) + Rate[c][b] - 1) \div Rate[c][b]})

\* Mutant of Left: every bucket that can pay pays, even if another refuses.
LeftInEach(c, b, asked) ==
  IF asked = 1 /\ Level(c, b) >= Per[b] THEN Level(c, b) - Per[b] ELSE Level(c, b)

\* What the call leaves in bucket b: the token is taken from all or from none.
Left(c, b, asked) == IF asked = 1 /\ Allowed(c) THEN Level(c, b) - Per[b] ELSE Level(c, b)

Script(c, asked) ==
  bucket' = [b \in Buckets |-> [level |-> Left(c, b, asked), last |-> clock,
                                until |-> clock + Ttl(c, b)]]

\* Mutant of Delay: the shortest wait is suggested instead of the longest.
DelayShortest(c) ==
  Min({(Max({0, Per[b] - Level(c, b)}) + Rate[c][b] - 1) \div Rate[c][b] : b \in Buckets})

\* suggested_delay, rounded up to the model's second.
Delay(c) ==
  Max({(Max({0, Per[b] - Level(c, b)}) + Rate[c][b] - 1) \div Rate[c][b] : b \in Buckets})

\* Somebody else calling in between makes an earlier advice stale.
Meddled(c, next) ==
  caller' = [d \in Callers |-> IF d = c THEN next ELSE [caller[d] EXCEPT !.alone = FALSE]]

-----------------------------------------------------------------------------
(* The callers                                                              *)

\* acquire(1).  A granted caller goes on with its call and may come again; a
\* refused sender raises and is queued again; a refused pipeline caller asks.
Acquire(c) ==
  /\ \/ caller[c].at = "start"
     \/ caller[c].at = "sleeping" /\ time >= caller[c].wake
  /\ Script(c, 1)
  /\ IF Allowed(c)
     THEN grants' = Append(grants, time) /\ Meddled(c, Start)
     ELSE /\ Meddled(c, IF c \in Senders THEN Start ELSE [caller[c] EXCEPT !.at = "refused"])
          /\ UNCHANGED grants
  /\ UNCHANGED <<time, clock>>

\* suggested_delay() and the sleep.  If a token has come in meanwhile, or after
\* the last try, the caller goes ahead without one.
Suggest(c) ==
  /\ caller[c].at = "refused"
  /\ Script(c, 0)
  /\ LET left == caller[c].tries - 1
     IN  Meddled(c, IF Delay(c) = 0 \/ left = 0 THEN Start
                    ELSE [at |-> "sleeping", tries |-> left, alone |-> Delay(c) <= MaxWait,
                          wake |-> time + Min({Delay(c), MaxWait})])
  /\ UNCHANGED <<time, clock, grants>>

Tick == time < MaxTime /\ time' = time + 1 /\ clock' = clock + 1 /\ UNCHANGED <<bucket, caller, grants>>

\* The Redis host's clock is corrected.
StepBack ==
  /\ time - clock < MaxBack
  /\ clock' = clock - 1
  /\ caller' = [c \in Callers |-> [caller[c] EXCEPT !.alone = FALSE]]
  /\ UNCHANGED <<time, bucket, grants>>

Next ==
  \/ \E c \in Callers : Acquire(c) \/ Suggest(c)
  \/ Tick \/ StepBack

Spec == Init /\ [][Next]_vars

-----------------------------------------------------------------------------
(* Properties                                                               *)

\* However the calls fall, keys expire and the clock is corrected, no stretch of
\* time sees more grants than the burst, the refill of that stretch and what the
\* correction gave away: the account's hourly and daily limits mean something.
LimitHolds ==
  \A b \in Buckets : \A i, j \in DOMAIN grants :
    LET rate == Max({Rate[c][b] : c \in Callers})
    IN  i <= j => (j - i + 1) * Per[b]
                    <= rate * (Per[b] + grants[j] - grants[i] + (time - clock))

\* Quota is only spent on grants: a request the other window refuses, a question
\* about the delay or an expiry burns nothing of this one.
RefusalsAreFree ==
  \A b \in Buckets : \A c \in Callers :
    Level(c, b) >= Min({Burst(d, b) : d \in Callers}) - Len(grants) * Per[b]

\* A caller that sleeps as long as it was told and is the next to call is let
\* through: it does not burn its tries on waits that were too short.
AdviceSuffices ==
  \A c \in Callers :
    (caller[c].at = "sleeping" /\ caller[c].alone /\ time >= caller[c].wake) => Allowed(c)
=============================================================================
