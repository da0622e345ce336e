------------------------------- MODULE Lookups -------------------------------
(***************************************************************************)
(* The paid per-contact calls of a worker: the RocketReach person lookup,  *)
(* the MillionVerifier check and the Groq score, each behind the audited   *)
(* request, the first two behind the Redis cache with its expiry, all      *)
(* metered.  Workers of different jobs may ask about the same person       *)
(* at the same time.  RocketReach tries again when throttled; the retry    *)
(* task asks the verifier again about an address it could not judge.       *)
(***************************************************************************)
EXTENDS Integers, Sequences, FiniteSets

CONSTANTS
  Keys,      \* people or addresses asked about
  Workers,
  Attempts,  \* 1 + enrichment_rate_limit_retries
  Ttl,       \* days a cached answer lives
  MaxDays,   \* bound: days that pass
  MaxAsks,   \* bound: questions, those of the retry task included
  MaxOutages \* bound: times Redis goes away

LookupAssumption ==
  /\ Attempts \in Nat \ {0} /\ Ttl \in Nat \ {0} /\ {MaxDays, MaxAsks, MaxOutages} \subseteq Nat

VARIABLES
  day,
  cache,    \* cache[k]: [said, until]; an entry is gone from `until` on
  redis,    \* FALSE during an outage: reads miss, writes are lost
  call,     \* call[w]: [kind, key, tries, since, after, blind] or Idle
  paid,     \* charges: [no, of, at, kept] and the call's since, after, blind
  answer,   \* answer[k]: the last outcome the pipeline was given
  retries,  \* retries[k]: for each question of the retry task, did it miss the cache
  asks, outages

vars == <<day, cache, redis, call, paid, answer, retries, asks, outages>>

Idle   == [kind |-> "idle"]
Absent == [said |-> "nothing", until |-> 0]
Cached == {"rocketreach", "millionverifier"}
Kinds  == Cached \cup {"groq"}

Init ==
  /\ day = 0 /\ redis = TRUE /\ paid = {} /\ asks = 0 /\ outages = 0
  /\ cache = [q \in Cached \X Keys |-> Absent]
  /\ call = [w \in Workers |-> Idle]
  /\ answer = [q \in Kinds \X Keys |-> "none"]
  /\ retries = [k \in Keys |-> <<>>]

Hit(q) == q[1] \in Cached /\ redis /\ cache[q].until > day

\* What the pipeline makes of a body: the verifier's words are its verdicts (a
\* disposable address is invalid, an unknown word is "unknown"); a profile with
\* nothing in it is no result; an address the model's rows leave out gets the
\* heuristic score.
Said(kind, body) ==
  CASE kind = "groq" -> IF body = "scored" THEN "score" ELSE "heuristic"
    [] kind = "millionverifier" /\ body = "disposable"                 -> "invalid"
    [] kind = "millionverifier" /\ body \in {"valid", "unknown"}       -> body
    [] kind = "rocketreach" /\ body \in {"not_found", "empty_profile"} -> "no_result"
    [] OTHER -> "match"

Bodies(kind) ==
  CASE kind = "rocketreach"     -> {"empty_profile", "profile"}
    [] kind = "millionverifier" -> {"valid", "disposable", "unknown"}
    [] kind = "groq"            -> {"scored", "row_missing"}

\* What it makes of a call without an answer.
Nothing(kind) ==
  CASE kind = "rocketreach" -> "no_result" [] kind = "groq" -> "heuristic" [] OTHER -> "unknown"

\* What w's call comes to for the pipeline.
Give(w, said) ==
  LET q == <<call[w].kind, call[w].key>>
  IN  answer' = [answer EXCEPT ![q] = said] /\ call' = [call EXCEPT ![w] = Idle]

-----------------------------------------------------------------------------
(* Actions                                                                  *)

\* The adapter is asked: a cached answer is given at once and costs nothing.
Ask(w, q) ==
  /\ asks < MaxAsks /\ asks' = asks + 1
  /\ call[w] = Idle
  /\ IF Hit(q)
     THEN answer' = [answer EXCEPT ![q] = Said(q[1], cache[q].said)] /\ UNCHANGED call
     ELSE /\ call' = [call EXCEPT ![w] = [kind |-> q[1], key |-> q[2], since |-> day,
                                          after |-> Cardinality(paid), blind |-> ~ redis,
                                          tries |-> IF q[1] = "rocketreach" THEN Attempts ELSE 1]]
          /\ UNCHANGED answer
  /\ UNCHANGED <<day, cache, redis, paid, outages>>

\* A stage of some job asks.
Enrich(w, k) == Ask(w, <<"rocketreach", k>>) /\ UNCHANGED retries

Verify(w, k) == Ask(w, <<"millionverifier", k>>) /\ UNCHANGED retries

Score(w, k) == Ask(w, <<"groq", k>>) /\ UNCHANGED retries

\* retry_unknown_batch: six hours after an "unknown" the address is put again, at
\* most three times.
Retry(w, k) ==
  /\ answer[<<"millionverifier", k>>] = "unknown"
  /\ Len(retries[k]) < 3
  /\ retries' = [retries EXCEPT ![k] = Append(@, ~ Hit(<<"millionverifier", k>>))]
  /\ Ask(w, <<"millionverifier", k>>)

\* Mutant of Keep: an answer that holds nothing is not worth keeping.
KeepMatches(q, body) ==
  cache' = IF redis /\ q[1] \in Cached /\ body # "not_found"
           THEN [cache EXCEPT ![q] = [said |-> body, until |-> day + Ttl]] ELSE cache

Keep(q, body) ==
  cache' = IF redis /\ q[1] \in Cached
           THEN [cache EXCEPT ![q] = [said |-> body, until |-> day + Ttl]] ELSE cache

\* record_usage, then the cache: an answer with a body, or RocketReach's 4xx.
Charge(w, body) ==
  LET q == <<call[w].kind, call[w].key>>
  IN  /\ paid' = paid \cup {[no |-> Cardinality(paid), of |-> q, at |-> day, kept |-> redis,
                             since |-> call[w].since, after |-> call[w].after,
                             blind |-> call[w].blind]}
      /\ Keep(q, body)

Busy(w) == call[w] # Idle

Answered(w) ==
  /\ Busy(w)
  /\ \E body \in Bodies(call[w].kind) : Charge(w, body) /\ Give(w, Said(call[w].kind, body))
  /\ UNCHANGED <<day, redis, retries, asks, outages>>

\* 4xx: for RocketReach no such person, charged and kept; for the verifier an
\* unknown, neither charged nor kept.
Refused(w) ==
  /\ Busy(w)
  /\ IF call[w].kind = "rocketreach"
     THEN Charge(w, "not_found") /\ Give(w, "no_result")
     ELSE Give(w, Nothing(call[w].kind)) /\ UNCHANGED <<cache, paid>>
  /\ UNCHANGED <<day, redis, retries, asks, outages>>

\* 429, 5xx, a transport error.  RocketReach sleeps and tries again, and after the
\* last try the exception leaves the contact PENDING.
Throttled(w) ==
  /\ Busy(w)
  /\ IF call[w].tries > 1
     THEN call' = [call EXCEPT ![w].tries = @ - 1] /\ UNCHANGED answer
     ELSE Give(w, IF call[w].kind = "rocketreach" THEN "pending" ELSE Nothing(call[w].kind))
  /\ UNCHANGED <<day, cache, redis, paid, retries, asks, outages>>

\* A body that does not parse.
Garbled(w) ==
  /\ Busy(w)
  /\ Give(w, Nothing(call[w].kind))
  /\ UNCHANGED <<day, cache, redis, paid, retries, asks, outages>>

Tick == day < MaxDays /\ day' = day + 1
        /\ UNCHANGED <<cache, redis, call, paid, answer, retries, asks, outages>>

Outage ==
  /\ IF redis THEN outages < MaxOutages /\ outages' = outages + 1 ELSE UNCHANGED outages
  /\ redis' = ~ redis
  /\ UNCHANGED <<day, cache, call, paid, answer, retries, asks>>

Next ==
  \/ \E w \in Workers :
       \/ \E k \in Keys : Enrich(w, k) \/ Verify(w, k) \/ Score(w, k) \/ Retry(w, k)
       \/ Answered(w) \/ Refused(w) \/ Throttled(w) \/ Garbled(w)
  \/ Tick \/ Outage

Spec == Init /\ [][Next]_vars

-----------------------------------------------------------------------------
(* Properties                                                               *)

\* An answer that was paid for and kept is not paid for again while it lives: a
\* later charge for the same question was asked before the first one was kept,
\* or after its expiry, or while Redis was away.  A run inside the window costs
\* nothing, whatever was answered and whichever job asked.
OneCreditPerWindow ==
  \A p, r \in paid :
    (p.of = r.of /\ p.of[1] \in Cached /\ p.kept /\ r.after > p.no /\ ~ r.blind)
      => r.since >= p.at + Ttl

\* The retry of an unknown verdict puts the question to the provider again: of
\* three retries one at least is not answered from the cache.
RetryAsksAgain ==
  \A k \in Keys : Len(retries[k]) = 3 => \E i \in 1..3 : retries[k][i]
=============================================================================
