------------------------------- MODULE Secrets -------------------------------
(***************************************************************************)
(* The keys of one provider: a credential row per tenant, entered on the   *)
(* Integrations screen, and the .env file of the deployment, to which      *)
(* every entered key is mirrored because the live adapters read process    *)
(* settings.  Each process caches its settings; only the API reloads them. *)
(***************************************************************************)
EXTENDS Integers, Sequences, FiniteSets

CONSTANTS
  Tenants,
  Values,     \* secrets; Unset is the empty string
  Unset,
  Writers,    \* requests that may rewrite .env at the same time
  EnvKeys,    \* two managed keys: the provider's and another one
  KeyName,    \* the provider's key in .env
  MaxWrites,  \* bound: puts, deletions and settings edits
  MaxStarts   \* bound: restarts of a process

SecretsAssumption ==
  /\ Unset \notin Values /\ KeyName \in EnvKeys
  /\ MaxWrites \in Nat /\ MaxStarts \in Nat

VARIABLES
  row,      \* row[t]: [val, verified, seal] or NoRow
  cipher,   \* number of the process key that encrypts; a restart may change it
  environ,  \* what the API's process environment assigns to KeyName, or {}
  live,     \* a test calls the provider: no demo mode, a provider with a live check
  file,     \* the assignments of .env in order, [key, val]
  job,      \* job[w]: a rewrite of .env in progress: what it read, what it sets
  cache,    \* cache[p]: the provider's key in the cached settings of a process
  probe,    \* probe[t]: the value a connection test has just found good, or Unset
  tested,   \* history: values of t the provider itself has found good
  untested, \* history: tenants whose last passed test called nobody
  raced,    \* history: tenants whose key was replaced while a test was under way
  latest,   \* history: the provider's key somebody has set last
  lost,     \* history: since a key was last set, a rewrite failed or two overlapped
  writes, starts

vars == <<row, cipher, environ, live, file, job, cache, probe, tested, untested, raced,
          latest, lost, writes, starts>>

NoRow     == [val |-> Unset]
Idle      == [sets |-> <<>>]
Processes == {"api", "worker"}

Init ==
  /\ row = [t \in Tenants |-> NoRow] /\ cipher = 0 /\ live \in BOOLEAN
  /\ environ \in {{}} \cup {{v} : v \in Values \cup {Unset}}
  /\ file \in {<<>>} \cup {<<[key |-> k, val |-> v]>> : k \in EnvKeys, v \in Values}
  /\ job = [w \in Writers |-> Idle]
  /\ latest = IF file # <<>> /\ file[1].key = KeyName THEN file[1].val ELSE Unset
  /\ cache = [p \in Processes |-> IF environ = {} THEN latest ELSE CHOOSE v \in environ : TRUE]
  /\ probe = [t \in Tenants |-> Unset] /\ tested = [t \in Tenants |-> {}]
  /\ untested = {} /\ raced = {} /\ lost = FALSE
  /\ writes = 0 /\ starts = 0

-----------------------------------------------------------------------------
(* The .env file                                                            *)

\* read_env: the last assignment of a key wins; absent is unset.
ReadEnv(f, k) ==
  LET at == {i \in DOMAIN f : f[i].key = k}
  IN  IF at = {} THEN Unset ELSE f[CHOOSE i \in at : \A o \in at : o <= i].val

\* write_env_values: the first assignment is edited in place, a missing key appended;
\* every other line stays.
WriteEnv(f, k, v) ==
  LET at == {i \in DOMAIN f : f[i].key = k}
  IN  IF at = {} THEN Append(f, [key |-> k, val |-> v])
      ELSE [f EXCEPT ![CHOOSE i \in at : \A o \in at : i <= o].val = v]

\* Settings: the process environment wins over .env.
Loads(f) == IF environ = {} THEN ReadEnv(f, KeyName) ELSE CHOOSE v \in environ : TRUE

Quiet == \A w \in Writers : job[w] = Idle

\* The file is read; another writer may replace it before this one does.
Rewrite(w, k, v) ==
  /\ job[w] = Idle
  /\ job' = [job EXCEPT ![w] = [sets |-> <<k, v>>, read |-> file]]
  /\ lost' = (~ Quiet \/ (lost /\ k # KeyName))

\* The temporary file replaces .env, and this process reads its settings again.
Replace(w) ==
  LET new == WriteEnv(job[w].read, job[w].sets[1], job[w].sets[2])
  IN  /\ job[w] # Idle
      /\ file' = new
      /\ cache' = [cache EXCEPT !["api"] = Loads(new)]
      /\ job' = [job EXCEPT ![w] = Idle]
      /\ UNCHANGED <<row, cipher, environ, live, probe, tested, untested, raced, latest, lost,
                     writes, starts>>

\* The file cannot be written: PUT env-keys answers as if it had been, a credential's
\* request fails with its row committed; either way the settings stay.
NotWritten(w) ==
  /\ job[w] # Idle
  /\ lost' = (lost \/ job[w].sets[1] = KeyName)
  /\ job' = [job EXCEPT ![w] = Idle]
  /\ UNCHANGED <<row, cipher, environ, live, file, cache, probe, tested, untested, raced, latest,
                 writes, starts>>

\* PUT /settings/env-keys
PutEnvKey(w, k, v) ==
  /\ writes < MaxWrites /\ writes' = writes + 1
  /\ Rewrite(w, k, v)
  /\ latest' = IF k = KeyName THEN v ELSE latest
  /\ UNCHANGED <<row, cipher, environ, live, file, cache, probe, tested, untested, raced, starts>>

-----------------------------------------------------------------------------
(* The credential rows                                                      *)

\* Mutant of Stored: a new key keeps the verification of the old one.
StoredAsWas(t, v) ==
  [val |-> v, verified |-> row[t] # NoRow /\ row[t].verified, seal |-> cipher]

Stored(t, v) == [val |-> v, verified |-> FALSE, seal |-> cipher]

\* Mutant of Mirrored: a deletion leaves the key in .env.
MirroredPuts(w, v) == IF v = Unset THEN UNCHANGED <<job, lost>> ELSE Rewrite(w, KeyName, v)

\* _mirror_secret_to_env
Mirrored(w, v) == Rewrite(w, KeyName, v)

\* store_credential: the row commits, then the mirror is written.
StoreCredential(w, t, v) ==
  /\ writes < MaxWrites /\ writes' = writes + 1
  /\ row' = [row EXCEPT ![t] = Stored(t, v)]
  /\ Mirrored(w, v) /\ latest' = v
  /\ raced' = IF probe[t] # Unset THEN raced \cup {t} ELSE raced
  /\ UNCHANGED <<cipher, environ, live, file, cache, probe, tested, untested, starts>>

DeleteCredential(w, t) ==
  /\ writes < MaxWrites /\ writes' = writes + 1
  /\ row[t] # NoRow
  /\ row' = [row EXCEPT ![t] = NoRow]
  /\ Mirrored(w, Unset) /\ latest' = Unset
  /\ raced' = IF probe[t] # Unset THEN raced \cup {t} ELSE raced
  /\ UNCHANGED <<cipher, environ, live, file, cache, probe, tested, untested, starts>>

\* A row sealed with a key the process no longer has is taken as none.
StoredSecret(t) == IF row[t] # NoRow /\ row[t].seal = cipher THEN row[t].val ELSE Unset

\* resolve_secret: the stored key, else the cached env value.
ResolveSecret(t) == IF StoredSecret(t) # Unset THEN StoredSecret(t) ELSE cache["api"]

\* POST /integrations/{provider}/test: the row is loaded and its secret found good (a
\* secret the provider refuses changes nothing).  Where no call is made, in demo mode
\* or for a provider without a check, any secret is ...
Probe(t) ==
  /\ row[t] # NoRow /\ probe[t] = Unset /\ ResolveSecret(t) # Unset
  /\ probe' = [probe EXCEPT ![t] = ResolveSecret(t)]
  /\ UNCHANGED <<row, cipher, environ, live, file, job, cache, tested, untested, raced, latest,
                 lost, writes, starts>>

\* ... and last_verified_at written to whatever the row is by then.
RecordProbe(t) ==
  /\ probe[t] # Unset
  /\ tested' = IF live THEN [tested EXCEPT ![t] = @ \cup {probe[t]}] ELSE tested
  /\ untested' = IF live THEN untested \ {t} ELSE untested \cup {t}
  /\ row' = IF row[t] = NoRow THEN row ELSE [row EXCEPT ![t].verified = TRUE]
  /\ probe' = [probe EXCEPT ![t] = Unset]
  /\ UNCHANGED <<cipher, environ, live, file, job, cache, raced, latest, lost, writes, starts>>

-----------------------------------------------------------------------------
(* Processes                                                                *)

\* A worker starts again and reads .env.
RestartWorker ==
  /\ starts < MaxStarts /\ starts' = starts + 1
  /\ cache' = [cache EXCEPT !["worker"] = Loads(file)]
  /\ UNCHANGED <<row, cipher, environ, live, file, job, probe, tested, untested, raced, latest,
                 lost, writes>>

\* The API starts again, perhaps with another DEMO_MODE: its requests are gone and,
\* without ENCRYPTION_KEY (demo mode), so is the key the rows are sealed with.
RestartApi(keyed) ==
  /\ starts < MaxStarts /\ starts' = starts + 1
  /\ cipher' = IF keyed THEN cipher ELSE cipher + 1
  /\ live' \in BOOLEAN
  /\ cache' = [cache EXCEPT !["api"] = Loads(file)]
  /\ job' = [w \in Writers |-> Idle] /\ probe' = [t \in Tenants |-> Unset]
  /\ latest' = ReadEnv(file, KeyName) /\ lost' = FALSE
  /\ UNCHANGED <<row, environ, file, tested, untested, raced, writes>>

-----------------------------------------------------------------------------
Next ==
  \/ \E w \in Writers :
       \/ Replace(w)
       \/ NotWritten(w)
       \/ \E k \in EnvKeys, v \in Values \cup {Unset} : PutEnvKey(w, k, v)
       \/ \E t \in Tenants : DeleteCredential(w, t) \/ \E v \in Values : StoreCredential(w, t, v)
  \/ \E t \in Tenants : Probe(t) \/ RecordProbe(t)
  \/ RestartWorker
  \/ \E keyed \in BOOLEAN : RestartApi(keyed)

Spec == Init /\ [][Next]_vars

-----------------------------------------------------------------------------
(* Properties                                                               *)

\* A key shown as verified was found good by its provider, unless its last test called
\* nobody (which the card does not tell), it replaced another key while that was being
\* tested, or its row had become unreadable.
VerifiedWasTested ==
  \A t \in Tenants \ (raced \cup untested) :
    row[t] # NoRow /\ row[t].verified /\ row[t].seal = 0 /\ cipher = 0 => row[t].val \in tested[t]

\* The API's adapters come to use the key set last, whichever screen and tenant set it,
\* and none after a deletion, where the process environment does not name the key, its
\* rewrite of .env did not fail and no other rewrite ran beside it.
ApiFollows == Quiet /\ environ = {} /\ ~ lost => cache["api"] = latest

=============================================================================
