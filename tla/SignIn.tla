-------------------------------- MODULE SignIn --------------------------------
(***************************************************************************)
(* Workspaces, users and roles: the sign-in of a verified Google or        *)
(* Microsoft identity, the demo login, invitations and role changes.  A    *)
(* sign-in reads the tables, decides, and commits later; the unique        *)
(* constraints are checked by the database at the commit.                  *)
(***************************************************************************)
EXTENDS Integers, FiniteSets

CONSTANTS
  Identities,   \* what a code exchange can return: [provider, subject, email, hd]
  Invitees,     \* addresses an admin may invite
  DomainOf,     \* address -> domain
  Requests,     \* sign-ins in progress at the same time
  NoDomain,
  MaxUsers,     \* bound: user rows
  MaxPatches    \* bound: role changes

SignInAssumption ==
  /\ MaxUsers \in Nat /\ MaxPatches \in Nat
  /\ \A i \in Identities : i.email \in DOMAIN DomainOf /\ DomainOf[i.email] # NoDomain
                          /\ i.subject # "none"
  /\ Invitees \subseteq DOMAIN DomainOf

Google == "google"
Nobody == [user |-> 0, role |-> "none"]
Demo   == 0      \* id of the demo tenant and of its user

Roles == {"admin", "sales_manager", "sales_executive", "viewer"}

VARIABLES
  tenants,   \* set of [id, domain]
  users,     \* set of [id, tenant, email, role, subject]
  tokens,    \* session tokens given out: [user, role]; the role of that moment
  plan,      \* plan[r]: what sign-in r is about to write
  flow,      \* the browser's state cookie: provider of the flow it started last
  first,     \* history: Google subject -> the user row of its first sign-in
  acted,     \* history: the last administration, [user, role] with the row's role
  patches,
  mixed      \* history: Google accounts one of which was given the row of the other

vars == <<tenants, users, tokens, plan, flow, first, acted, patches, mixed>>

Idle == [kind |-> "idle"]

Init ==
  /\ tenants = {} /\ users = {} /\ tokens = {} /\ patches = 0
  /\ plan = [r \in Requests |-> Idle]
  /\ flow = "none"
  /\ first = [s \in {} |-> 0] /\ acted = Nobody /\ mixed = {}

-----------------------------------------------------------------------------
(* Sign-in                                                                  *)

\* POST /auth/{provider}/start: one cookie for both providers.
Start(p) ==
  /\ flow' = p
  /\ UNCHANGED <<tenants, users, tokens, plan, first, acted, patches, mixed>>

\* The cookie or the signed state runs out after ten minutes.
StateExpires ==
  /\ flow # "none" /\ flow' = "none"
  /\ UNCHANGED <<tenants, users, tokens, plan, first, acted, patches, mixed>>

\* The hosted domain, else the domain of the address.
Domain(i) == IF i.hd # NoDomain THEN i.hd ELSE DomainOf[i.email]

BySubject(i) == {u \in users : i.provider = Google /\ u.subject = i.subject}

OfDomain(d)     == {t \in tenants : t.domain = d}
ByEmail(t, e)   == {u \in users : u.tenant = t /\ u.email = e}
Fresh           == 1 + Cardinality(users) + Cardinality(tenants)

Linked(i) == IF i.provider = Google THEN i.subject ELSE "none"

\* The sign-in has been verified and reads the tables.  Two workspaces with the same
\* domain are an error (scalar_one_or_none).
Decide(i) ==
  LET known == BySubject(i)
      home  == OfDomain(Domain(i))
      tid   == (CHOOSE t \in home : TRUE).id
      kin   == IF home = {} THEN {} ELSE ByEmail(tid, i.email)
  IN  CASE known # {} ->
             [kind |-> "renamed", was |-> (CHOOSE u \in known : TRUE).id]
        [] known = {} /\ Cardinality(home) > 1 -> [kind |-> "error"]
        [] known = {} /\ Cardinality(home) <= 1 /\ kin # {} ->
             LET u == CHOOSE u \in kin : TRUE
             IN  [kind |-> IF i.provider = Google /\ u.subject = "none" THEN "linked" ELSE "seen", was |-> u.id]
        [] known = {} /\ home = {} -> [kind |-> "found"]
        [] OTHER -> [kind |-> "join", tenant |-> tid]

\* The browser's callback: the state must be the one in its cookie, and of this
\* provider.  (The API's callback has no state: withState is FALSE.)
Callback(r, i, withState) ==
  /\ plan[r] = Idle
  /\ withState => flow = i.provider
  /\ flow' = IF withState THEN "none" ELSE flow
  /\ plan' = [plan EXCEPT ![r] = [write |-> Decide(i), identity |-> i]]
  /\ UNCHANGED <<tenants, users, tokens, first, acted, patches, mixed>>

\* Mutant of Unique: the address of a user may be taken by another one.
AnyRow(u) == TRUE

\* unique(tenant_id, email) and unique(google_oauth_subject), against the other rows.
Unique(u) ==
  \A o \in users : o.id # u.id =>
    /\ ~ (o.tenant = u.tenant /\ o.email = u.email)
    /\ o.subject # u.subject \/ u.subject = "none"

\* The row a decision leads to: a found one with the column that was set, or a new one;
\* the first user of a workspace is its admin.
Found(w) == CHOOSE u \in users : u.id = w.was

RowFor(w, i) ==
  CASE w.kind = "renamed" -> [Found(w) EXCEPT !.email = i.email]
    [] w.kind = "linked"  -> [Found(w) EXCEPT !.subject = Linked(i)]
    [] w.kind = "seen"    -> Found(w)
    [] w.kind = "found"   -> [id |-> Fresh, tenant |-> Fresh, email |-> i.email,
                              role |-> "admin", subject |-> Linked(i)]
    [] w.kind = "join"    -> [id |-> Fresh, tenant |-> w.tenant, email |-> i.email,
                              role |-> "sales_executive", subject |-> Linked(i)]

Others(u) == {o \in users : o.id # u.id}

\* The flushes, the commit and the token; a violated constraint fails the request.
Commit(r) ==
  LET w == plan[r].write
      i == plan[r].identity
      u == RowFor(w, i)
  IN  /\ plan[r] # Idle
      /\ plan' = [plan EXCEPT ![r] = Idle]
      /\ IF w.kind = "error" \/ ~ Unique(u)
         THEN UNCHANGED <<tenants, users, tokens, first, mixed>>
         ELSE /\ Cardinality(users) < MaxUsers \/ w.kind \notin {"found", "join"}
              /\ users' = Others(u) \cup {u}
              /\ tenants' = IF w.kind = "found"
                            THEN tenants \cup {[id |-> u.tenant, domain |-> Domain(i)]}
                            ELSE tenants
              /\ tokens' = tokens \cup {[user |-> u.id, role |-> u.role]}
              /\ first' = IF i.provider = Google /\ i.subject \notin DOMAIN first
                          THEN [s \in DOMAIN first \cup {i.subject} |->
                                  IF s = i.subject THEN u.id ELSE first[s]]
                          ELSE first
              /\ mixed' = IF i.provider = Google /\ w.kind \notin {"found", "join"}
                             /\ Found(w).subject \notin {"none", i.subject}
                          THEN mixed \cup {i.subject, Found(w).subject}
                          ELSE mixed
      /\ UNCHANGED <<flow, acted, patches>>

\* POST /auth/dev-login: the demo admin has fixed ids and is always made admin again.
DevLogin ==
  LET u == [id |-> Demo, tenant |-> Demo, email |-> "demo", role |-> "admin", subject |-> "none"]
  IN  /\ tenants' = tenants \cup {[id |-> Demo, domain |-> NoDomain]}
      /\ users' = Others(u) \cup {u}
      /\ tokens' = tokens \cup {[user |-> Demo, role |-> "admin"]}
      /\ UNCHANGED <<plan, flow, first, acted, patches, mixed>>

-----------------------------------------------------------------------------
(* Administration                                                           *)

\* A request carries a token; the user row, and its role, are read from the table.
Actor(t) == CHOOSE u \in users : u.id = t.user

\* Mutant of RoleOf: the role the token was issued with.
RoleInToken(t) == t.role

RoleOf(t) == Actor(t).role

\* require("users:write"): only "*" grants it.
MayAdminister(t) == RoleOf(t) = "admin"

Note(t) == acted' = [user |-> t.user, role |-> Actor(t).role]

Invite(t, e, role) ==
  /\ MayAdminister(t)
  /\ Cardinality(users) < MaxUsers
  /\ ByEmail(Actor(t).tenant, e) = {}
  /\ users' = users \cup {[id |-> Fresh, tenant |-> Actor(t).tenant, email |-> e,
                           role |-> role, subject |-> "none"]}
  /\ Note(t)
  /\ UNCHANGED <<tenants, tokens, plan, flow, first, patches, mixed>>

PatchUser(t, u, role) ==
  /\ MayAdminister(t) /\ patches < MaxPatches
  /\ u.tenant = Actor(t).tenant /\ u.role # role
  /\ users' = Others(u) \cup {[u EXCEPT !.role = role]}
  /\ Note(t)
  /\ patches' = patches + 1
  /\ UNCHANGED <<tenants, tokens, plan, flow, first, mixed>>

-----------------------------------------------------------------------------
Next ==
  \/ \E p \in {Google, "microsoft"} : Start(p)
  \/ StateExpires
  \/ \E r \in Requests, i \in Identities : \E s \in BOOLEAN : Callback(r, i, s)
  \/ \E r \in Requests : Commit(r)
  \/ DevLogin
  \/ \E t \in tokens : \/ \E e \in Invitees : Invite(t, e, "viewer")
                       \/ \E u \in users, role \in {"admin", "viewer"} : PatchUser(t, u, role)

Spec == Init /\ [][Next]_vars

-----------------------------------------------------------------------------
(* Properties                                                               *)

\* Only somebody who is an admin at that moment administers users, however old the
\* token: a demotion takes effect with the next request.
OnlyAdminsAdminister == acted.role \in {"none", "admin"}

\* A Google account that has signed in comes back to the same user row, also after its
\* address has changed and in whichever order two sign-ins read and commit.  Excepted
\* are accounts that met over one address: a sign-in without a row of its own is given
\* the row with its address, also when that is another account's.
SameUserAgain ==
  \A u \in users : u.subject \in DOMAIN first \ mixed => first[u.subject] = u.id

=============================================================================
