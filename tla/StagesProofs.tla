----------------------------- MODULE StagesProofs ------------------------------
(***************************************************************************)
(* What the stages of mining jobs do to companies and contacts, for any    *)
(* number of jobs, sources' sightings, companies and contacts.             *)
(***************************************************************************)
EXTENDS Stages, FiniteSetTheorems, WellFoundedInduction, TLAPS

EvidenceType == [source : Src!SourceNames, driver : {"mock", "real"}]

CompanyType ==
  [key : Firms \cup {NoKey}, job : Jobs, posture : 0 .. 2, evidence : SUBSET EvidenceType,
   site : Sites, crawls : 0 .. 2]

MendType  == [read : 0 .. 2, now : CompanyType]
MendsType == UNION {[R -> MendType] : R \in SUBSET Nat}

ContactType ==
  [firm : Nat, name : People \cup {Nothing}, email : Inboxes \cup {Nothing},
   candidates : SUBSET Inboxes, status : {"not_needed", "pending", "enriched", "no_result"},
   lookups : Nat, throttled : Nat]

TypeInv ==
  /\ config \in Configs /\ companies \in Seq(CompanyType) /\ contacts \in Seq(ContactType)
  /\ stage \in [Jobs -> StageNames] /\ todo \in [Jobs -> SUBSET (Src!SourceNames \cup Nat)]
  /\ drafts \in [Jobs -> Seq(CompanyType)]
  /\ mends \in [Jobs -> MendsType]
  /\ runs \subseteq Jobs \X Src!SourceNames /\ overlap \in BOOLEAN

\* A row of contacts belongs to a committed company; only a running discovery has rows
\* of its own; a stage works on the companies and contacts of its job.
Belongs ==
  /\ \A k \in DOMAIN contacts : contacts[k].firm \in DOMAIN companies
  /\ \A j \in Jobs :
       /\ stage[j] # "discovery" => drafts[j] = <<>> /\ DOMAIN mends[j] = {}
       /\ stage[j] = "discovery" => todo[j] \subseteq Src!SourceNames
       /\ stage[j] \in {"crawl", "recrawl"} =>
            todo[j] \subseteq {i \in DOMAIN companies : companies[i].job = j}
       /\ stage[j] \in {"enrich", "retry"} => todo[j] \subseteq OfJob(j)
       /\ \A i \in DOMAIN drafts[j] :
            drafts[j][i].job = j /\ drafts[j][i].site = "unseen" /\ drafts[j][i].crawls = 0
       /\ \A i \in DOMAIN mends[j] : i \in DOMAIN companies /\ companies[i].key # NoKey

\* A company is crawled once in each pass, and again only if it was out of reach.
CrawledOnce ==
  \A i \in DOMAIN companies :
    LET c == companies[i]
    IN  /\ stage[c.job] \notin {"idle", "discovery"}
        /\ c.crawls = 0 => c.site = "unseen"
        /\ stage[c.job] = "crawl" => c.crawls <= 1 /\ (i \in todo[c.job] => c.crawls = 0)
        /\ stage[c.job] = "recrawl" /\ i \in todo[c.job] =>
             c.crawls <= 1 /\ c.site = "unreachable"

\* Until two discoveries of one key have overlapped, no two of them touch it, and a
\* key has one row, committed or not.
Unique ==
  overlap \/
    /\ \A a, b \in DOMAIN companies : a # b /\ companies[a].key # NoKey =>
         companies[a].key # companies[b].key
    /\ \A j \in Jobs : \A a \in DOMAIN drafts[j] : drafts[j][a].key # NoKey =>
         /\ \A b \in DOMAIN drafts[j] : a # b => drafts[j][a].key # drafts[j][b].key
         /\ \A b \in DOMAIN companies : drafts[j][a].key # companies[b].key
    /\ \A j, k \in Jobs : j # k => Touched(j) \cap Touched(k) \subseteq {NoKey}

\* A row's posture covers the sources it was discovered in.
Covers(c) == \A e \in c.evidence : e.source \in Src!DiscoverySources =>
               c.posture >= Src!Posture(e.source)

Covered ==
  overlap \/
    /\ \A i \in DOMAIN companies : Covers(companies[i])
    /\ \A j \in Jobs : \A i \in DOMAIN drafts[j] : Covers(drafts[j][i])
    /\ \A j \in Jobs : \A i \in DOMAIN mends[j] :
         /\ Covers(mends[j][i].now) /\ mends[j][i].read = companies[i].posture
         /\ mends[j][i].now.posture >= mends[j][i].read

\* Evidence is left by sources that may run, with the driver they run with.
Licit(e) ==
  /\ Src!Posture(e.source) > 0 => config.cfg[e.source].enabled /\ config.cfg[e.source].signed
  /\ e.driver = "mock" => Src!Mode(e.source, config.env) = "mock"

LicitEvidence ==
  /\ \A i \in DOMAIN companies : \A e \in companies[i].evidence : Licit(e)
  /\ \A j \in Jobs :
       /\ \A i \in DOMAIN drafts[j] : \A e \in drafts[j][i].evidence : Licit(e)
       /\ \A i \in DOMAIN mends[j] : \A e \in mends[j][i].now.evidence : Licit(e)

\* A contact's only candidate is the address it has.
Pure(c) == c.candidates \subseteq {c.email} \ {Nothing}

\* The lookups of a contact: none before enrichment, or without a name; a deferred one
\* was throttled each time.
Looked(c) ==
  /\ c.throttled <= c.lookups /\ c.lookups <= 2 /\ c.lookups - c.throttled <= 1
  /\ c.lookups > 0 /\ c.throttled = c.lookups => c.status = "pending"
  /\ c.status = "pending" => c.throttled = c.lookups
  /\ c.name = Nothing => c.lookups = 0

Lookups ==
  \A k \in DOMAIN contacts :
    LET c == contacts[k]
        j == companies[c.firm].job
    IN  /\ Pure(c) /\ Looked(c)
        /\ stage[j] \in {"crawl", "recrawl"} => c.lookups = 0
        /\ stage[j] = "enrich" => c.lookups <= 1
        /\ stage[j] = "enrich" /\ k \in todo[j] => c.lookups = 0 /\ c.email = Nothing
        /\ stage[j] = "retry" /\ k \in todo[j] =>
             c.lookups <= 1 /\ c.status = "pending" /\ c.email = Nothing

IInv == /\ TypeInv /\ Belongs /\ CrawledOnce /\ Unique /\ Covered /\ LicitEvidence
        /\ Lookups

-----------------------------------------------------------------------------
(* Counting up                                                              *)

LEMMA Smallest ==
  ASSUME NEW T \in SUBSET Nat, T # {}
  PROVE  \E x \in T : \A y \in T : x <= y
<1> DEFINE R == {ss \in Nat \X Nat : ss[1] < ss[2]}
<1>1. IsWellFoundedOn(R, Nat)
  BY NatLessThanWellFounded DEF OpToRel
<1>2. PICK x \in T : \A y \in T : <<y, x>> \notin R
  <2> HIDE DEF R
  <2>1. QED
    BY <1>1, WFMin
<1>3. \A y \in T : ~ (y < x)
  BY <1>2
<1>4. QED
  BY <1>3

\* What holds of 0 and is handed on holds up to n.
LEMMA Climb ==
  ASSUME NEW n \in Nat, NEW S, 0 \in S, \A m \in 0 .. n - 1 : m \in S => m + 1 \in S
  PROVE  n \in S
<1>1. SUFFICES ASSUME n \notin S PROVE FALSE
  OBVIOUS
<1> DEFINE T == (0 .. n) \ S
<1>2. T \in SUBSET Nat /\ n \in T
  BY <1>1
<1>3. PICK x \in T : \A y \in T : x <= y
  <2> HIDE DEF T
  <2>1. QED
    BY <1>2, Smallest
<1>4. x # 0 /\ x - 1 \in 0 .. n - 1
  BY <1>3
<1>5. x - 1 \in S
  BY <1>3, <1>4
<1>6. QED
  BY <1>3, <1>4, <1>5

LEMMA Largest ==
  ASSUME NEW n \in Nat, NEW S \in SUBSET (1 .. n), S # {}
  PROVE  \E x \in S : \A y \in S : y <= x
<1> DEFINE T == {n - y : y \in S}
<1>1. T \in SUBSET Nat /\ T # {}
  <2>1. \A y \in S : n - y \in Nat
    OBVIOUS
  <2>2. QED
    BY <2>1
<1>2. PICK z \in T : \A y \in T : z <= y
  <2> HIDE DEF T
  <2>1. QED
    BY <1>1, Smallest
<1>3. PICK x \in S : z = n - x
  OBVIOUS
<1>4. \A y \in S : n - x <= n - y
  BY <1>2, <1>3
<1>5. QED
  BY <1>4

-----------------------------------------------------------------------------
(* Sources and evidence                                                     *)

LEMMA Postures ==
  \A s \in Src!SourceNames : Src!Posture(s) \in 0 .. 2
  BY DEF Src!SourceNames, Src!GreenSources, Src!AmberSources, Src!RedSources, Src!Posture

LEMMA AskedSources == Src!Asked(Selected) \subseteq Src!SourceNames
  BY DEF Src!Asked, Src!DiscoverySources, Src!SourceNames, Src!GreenSources, Src!AmberSources,
    Src!RedSources

LEMMA ResolvedEvidence ==
  ASSUME NEW s \in Src!SourceNames, Resolved(s) # "skip"
  PROVE  Evidence(s) \in EvidenceType /\ Licit(Evidence(s)) /\ Evidence(s).source = s
<1>1. Resolved(s) \in {"mock", "real"}
  BY DEF Resolved, Src!Resolve, Src!Driver
<1>2. Src!Permitted(s, config.cfg, config.env)
  BY DEF Resolved, Src!Resolve
<1>3. Src!Posture(s) > 0 => config.cfg[s].enabled /\ config.cfg[s].signed
  <2>1. Src!Posture(s) \in 0 .. 2
    BY Postures
  <2>2. QED
    BY <1>2, <2>1 DEF Src!Permitted, Src!RequiresSignoff
<1>4. Resolved(s) = "mock" => Src!Mode(s, config.env) = "mock"
  BY DEF Resolved, Src!Resolve, Src!Driver
<1>5. QED
  BY <1>1, <1>3, <1>4 DEF Evidence, EvidenceType, Licit

LEMMA CrawlEvidence ==
  ASSUME NEW s \in CrawlSources
  PROVE  /\ Evidence(s) \in EvidenceType /\ Licit(Evidence(s))
         /\ Evidence(s).source \notin Src!DiscoverySources
<1>1. s \in {"company_websites", "facebook_signals", "serp_jobs"} /\ Resolved(s) # "skip"
  BY DEF CrawlSources
<1>2. s \in Src!SourceNames /\ s \notin Src!DiscoverySources
  BY <1>1 DEF Src!SourceNames, Src!GreenSources, Src!AmberSources, Src!RedSources,
    Src!DiscoverySources
<1>3. QED
  BY <1>1, <1>2, ResolvedEvidence

\* A sighting is added to a row: its evidence, and the worst posture.
LEMMA MendedRow ==
  ASSUME NEW c \in CompanyType, NEW s \in Src!SourceNames, Resolved(s) # "skip"
  PROVE  LET d == Mended(c, Evidence(s)) IN
         /\ d \in CompanyType
         /\ d.key = c.key /\ d.job = c.job /\ d.site = c.site /\ d.crawls = c.crawls
         /\ d.evidence = c.evidence \cup {Evidence(s)}
         /\ d.posture >= c.posture /\ (Covers(c) => Covers(d))
<1> DEFINE d == Mended(c, Evidence(s))
           w == Worst(c.posture, Src!Posture(s))
<1>1. Evidence(s) \in EvidenceType /\ Evidence(s).source = s
  BY ResolvedEvidence
<1>2. w \in 0 .. 2 /\ w >= c.posture /\ w >= Src!Posture(s)
  BY Postures DEF Worst, CompanyType
<1>3. c.evidence \cup {Evidence(s)} \in SUBSET EvidenceType
  BY <1>1 DEF CompanyType
<1>4. /\ d.key = c.key /\ d.job = c.job /\ d.site = c.site /\ d.crawls = c.crawls
      /\ d.evidence = c.evidence \cup {Evidence(s)} /\ d.posture = w
  BY <1>1 DEF Mended, CompanyType
<1>5. d \in CompanyType
  BY <1>1, <1>2, <1>3 DEF Mended, CompanyType
<1>6. ASSUME Covers(c) PROVE Covers(d)
  <2>1. ASSUME NEW e \in d.evidence, e.source \in Src!DiscoverySources
        PROVE  d.posture >= Src!Posture(e.source)
    <3>1. CASE e = Evidence(s)
      BY <1>1, <1>2, <1>4, <3>1
    <3>2. CASE e \in c.evidence
      <4>1. c.posture >= Src!Posture(e.source)
        BY <1>6, <2>1, <3>2 DEF Covers
      <4>2. c.posture \in 0 .. 2 /\ e.source \in Src!SourceNames
        BY <3>2 DEF CompanyType, EvidenceType
      <4>3. QED
        BY <1>2, <1>4, <4>1, <4>2, Postures
    <3>3. QED
      BY <1>4, <2>1, <3>1, <3>2
  <2>2. QED
    BY <2>1 DEF Covers
<1>7. QED
  BY <1>2, <1>4, <1>5, <1>6

-----------------------------------------------------------------------------
(* Contacts of a website                                                    *)

IncomingType == [name : People \cup {Nothing}, email : Inboxes \cup {Nothing}]

\* What applying contacts to company i does to the rows: rows of other companies stay,
\* rows of i keep all but their addresses, and new rows are of i and unlooked for.
Kept(old, new) == /\ new.firm = old.firm /\ new.name = old.name /\ new.status = old.status
                  /\ new.lookups = old.lookups /\ new.throttled = old.throttled

Grown(old, new, i) ==
  /\ new \in Seq(ContactType) /\ Len(old) <= Len(new)
  /\ \A k \in 1 .. Len(old) : Kept(old[k], new[k]) /\ (old[k].firm # i => new[k] = old[k])
  /\ \A k \in 1 .. Len(new) : k > Len(old) =>
       new[k].firm = i /\ new[k].lookups = 0 /\ new[k].throttled = 0
  /\ (\A k \in 1 .. Len(old) : Pure(old[k])) => \A k \in 1 .. Len(new) : Pure(new[k])

LEMMA GrownItself ==
  ASSUME NEW rows \in Seq(ContactType), NEW i
  PROVE  Grown(rows, rows, i)
  BY DEF Grown, Kept

LEMMA GrownOn ==
  ASSUME NEW a \in Seq(ContactType), NEW b, NEW c, NEW i, Grown(a, b, i), Grown(b, c, i)
  PROVE  Grown(a, c, i)
<1>1. b \in Seq(ContactType) /\ c \in Seq(ContactType)
  BY DEF Grown
<1>2. Len(a) \in Nat /\ Len(b) \in Nat /\ Len(c) \in Nat /\ Len(a) <= Len(b) /\ Len(b) <= Len(c)
  BY <1>1 DEF Grown
<1>3. ASSUME NEW k \in 1 .. Len(a)
      PROVE  Kept(a[k], c[k]) /\ (a[k].firm # i => c[k] = a[k])
  <2>1. k \in 1 .. Len(b)
    BY <1>2
  <2>2. Kept(a[k], b[k]) /\ Kept(b[k], c[k])
    BY <2>1 DEF Grown
  <2>3. a[k].firm # i => b[k] = a[k] /\ c[k] = b[k]
    BY <2>1 DEF Grown
  <2>4. QED
    BY <2>2, <2>3 DEF Kept
<1>4. ASSUME NEW k \in 1 .. Len(c), k > Len(a)
      PROVE  c[k].firm = i /\ c[k].lookups = 0 /\ c[k].throttled = 0
  <2>1. CASE k > Len(b)
    BY <2>1 DEF Grown
  <2>2. CASE k <= Len(b)
    <3>1. k \in 1 .. Len(b)
      BY <1>2, <2>2
    <3>2. b[k].firm = i /\ b[k].lookups = 0 /\ b[k].throttled = 0 /\ Kept(b[k], c[k])
      BY <1>4, <3>1 DEF Grown
    <3>3. QED
      BY <3>2 DEF Kept
  <2>3. QED
    BY <1>2, <2>1, <2>2
<1>5. (\A k \in 1 .. Len(a) : Pure(a[k])) => \A k \in 1 .. Len(c) : Pure(c[k])
  BY DEF Grown
<1>6. QED
  BY <1>1, <1>2, <1>3, <1>4, <1>5 DEF Grown

LEMMA FilledRow ==
  ASSUME NEW c \in ContactType, NEW found \in IncomingType,
         ContactKey(c) = ContactKey(found), ContactKey(found) # NoKey
  PROVE  Filled(c, found) \in ContactType /\ Kept(c, Filled(c, found))
         /\ (Pure(c) => Pure(Filled(c, found)))
<1> DEFINE d == Filled(c, found)
<1>1. found.email # Nothing => c.email = found.email
  BY DEF ContactKey, ContactType, IncomingType
<1>2. /\ d.candidates = c.candidates \cup ({found.email} \ {Nothing})
      /\ d.email = c.email /\ Kept(c, d)
  BY <1>1 DEF Filled, Kept, ContactType
<1>3. {found.email} \ {Nothing} \subseteq Inboxes
  BY DEF IncomingType
<1>4. c.candidates \cup ({found.email} \ {Nothing}) \in SUBSET Inboxes
  BY <1>3 DEF ContactType
<1>4a. (IF c.email = Nothing THEN found.email ELSE c.email) \in Inboxes \cup {Nothing}
  BY DEF ContactType, IncomingType
<1>5. d \in ContactType
  BY <1>4, <1>4a DEF Filled, ContactType
<1>6. Pure(c) => Pure(d)
  BY <1>1, <1>2 DEF Pure
<1>7. QED
  BY <1>2, <1>5, <1>6

LEMMA NewRow ==
  ASSUME NEW i \in Nat, NEW found \in IncomingType
  PROVE  LET d == NewContact(i, found) IN
         /\ d \in ContactType /\ Pure(d)
         /\ d.firm = i /\ d.lookups = 0 /\ d.throttled = 0
<1>1. {found.email} \ {Nothing} \in SUBSET Inboxes
  BY DEF IncomingType
<1>2. QED
  BY <1>1 DEF NewContact, ContactType, IncomingType, Pure

LEMMA PlaceGrows ==
  ASSUME NEW acc, acc.rows \in Seq(ContactType), NEW found \in IncomingType, NEW i \in Nat
  PROVE  Grown(acc.rows, Place(acc, found, i).rows, i)
<1> DEFINE rows == acc.rows
           key  == ContactKey(found)
           same == {k \in OfFirm(rows, i) : key # NoKey /\ ContactKey(rows[k]) = key}
           new  == Place(acc, found, i).rows
           top  == CHOOSE k \in same : \A o \in same : o <= k
<1>1. CASE same # {}
  <2>1. same \in SUBSET (1 .. Len(rows)) /\ Len(rows) \in Nat
    BY DEF OfFirm
  <2>2. \E k \in same : \A o \in same : o <= k
    <3> HIDE DEF same
    <3>1. QED
      BY <1>1, <2>1, Largest
  <2>3. top \in same
    BY <2>2
  <2>4. new = [rows EXCEPT ![top] = Filled(rows[top], found)]
    BY <1>1 DEF Place
  <2>5. /\ top \in 1 .. Len(rows) /\ rows[top].firm = i
        /\ ContactKey(rows[top]) = key /\ key # NoKey
    BY <2>1, <2>3 DEF OfFirm
  <2> HIDE DEF new, top, same, rows
  <2>6. rows[top] \in ContactType /\ rows \in Seq(ContactType)
    BY <2>5 DEF rows
  <2> DEFINE r == Filled(rows[top], found)
  <2>7. r \in ContactType /\ Kept(rows[top], r) /\ (Pure(rows[top]) => Pure(r))
    BY <2>5, <2>6, FilledRow
  <2> HIDE DEF r
  <2>8. /\ new \in Seq(ContactType) /\ Len(new) = Len(rows)
        /\ \A k \in 1 .. Len(rows) : new[k] = IF k = top THEN r ELSE rows[k]
    BY <2>4, <2>5, <2>6, <2>7 DEF r
  <2>9. QED
    BY <2>5, <2>6, <2>7, <2>8 DEF Grown, Kept, rows, new
<1>2. CASE same = {} /\ acc.room = 0
  <2>1. new = rows
    BY <1>2 DEF Place
  <2>2. QED
    BY <2>1, GrownItself
<1>3. CASE same = {} /\ acc.room # 0
  <2>1. new = Append(rows, NewContact(i, found))
    BY <1>3 DEF Place
  <2> DEFINE d == NewContact(i, found)
  <2>2. /\ d \in ContactType /\ Pure(d)
        /\ d.firm = i /\ d.lookups = 0 /\ d.throttled = 0
    BY NewRow
  <2> HIDE DEF new, same, rows, d
  <2>3. /\ new \in Seq(ContactType) /\ Len(new) = Len(rows) + 1 /\ Len(rows) \in Nat
        /\ \A k \in 1 .. Len(rows) : new[k] = rows[k]
        /\ new[Len(rows) + 1] = d
    BY <2>1, <2>2 DEF rows, d
  <2>4. \A k \in 1 .. Len(new) : k > Len(rows) => k = Len(rows) + 1
    BY <2>3
  <2>5. QED
    BY <2>2, <2>3, <2>4, SMTT(20) DEF Grown, Kept, new, rows
<1>4. QED
  BY <1>1, <1>2, <1>3

\* The recursive function of ApplyContacts does what its equation says.
Places(f, start, found, i, n) ==
  f = [m \in 0 .. n |-> IF m = 0 THEN start ELSE Place(f[m - 1], found[m], i)]

LEMMA StepsExist ==
  ASSUME NEW start, NEW found, NEW i, NEW n \in Nat
  PROVE  \E f : Places(f, start, found, i, n)
<1> USE DEF Places
<1> DEFINE Good(f, m) == Places(f, start, found, i, m)
           S == {m \in 0 .. n : \E f : Good(f, m)}
<1>1. 0 \in S
  <2>1. \E f : Good(f, 0)
    <3>1. WITNESS [k \in 0 .. 0 |-> start]
    <3>2. QED
      OBVIOUS
  <2>2. QED
    BY <2>1
<1>2. ASSUME NEW m \in 0 .. n - 1, m \in S PROVE m + 1 \in S
  <2>1. PICK f : Good(f, m)
    BY <1>2
  <2> DEFINE g == [k \in 0 .. m + 1 |-> IF k = m + 1 THEN Place(f[m], found[m + 1], i) ELSE f[k]]
  <2>2. \A k \in 0 .. m : g[k] = f[k]
    OBVIOUS
  <2>3. \A k \in 0 .. m + 1 :
          g[k] = IF k = 0 THEN start ELSE Place(g[k - 1], found[k], i)
    <3>1. TAKE k \in 0 .. m + 1
    <3>2. CASE k = m + 1
      BY <2>2, <3>2
    <3>3. CASE k = 0
      BY <2>1, <2>2, <3>3
    <3>4. CASE k \in 1 .. m
      <4>1. f[k] = Place(f[k - 1], found[k], i)
        BY <2>1, <3>4
      <4>2. g[k] = f[k] /\ g[k - 1] = f[k - 1]
        BY <2>2, <3>4
      <4>3. QED
        BY <3>4, <4>1, <4>2
    <3>5. QED
      BY <3>2, <3>3, <3>4
  <2>4. Good(g, m + 1)
    BY <2>3
  <2>5. m + 1 \in 0 .. n
    OBVIOUS
  <2>6. QED
    BY <2>4, <2>5
<1>3. n \in S
  <2> HIDE DEF S
  <2>1. QED
    BY <1>1, <1>2, Climb
<1>4. QED
  BY <1>3

LEMMA ApplyGrows ==
  ASSUME NEW rows \in Seq(ContactType), NEW found \in Found, NEW i \in Nat
  PROVE  Grown(rows, ApplyContacts(rows, i, found), i)
<1> DEFINE start == [rows |-> rows, room |-> Room(rows, i)]
           n     == Len(found)
           steps == CHOOSE f : Places(f, start, found, i, n)
           S     == {m \in 0 .. n : Grown(rows, steps[m].rows, i)}
<1>1. PICK len \in 0 .. MaxFound : found \in [1 .. len -> IncomingType]
  BY DEF Found, IncomingType
<1>2. n \in Nat /\ \A m \in 1 .. n : found[m] \in IncomingType
  BY <1>1, StagesAssumption
<1>3. ApplyContacts(rows, i, found) = steps[n].rows
  BY DEF ApplyContacts, Places
<1> HIDE DEF start, n
<1>4. Places(steps, start, found, i, n)
  <2>0. n \in Nat
    BY <1>2
  <2>1. \E f : Places(f, start, found, i, n)
    BY <2>0, StepsExist
  <2>2. QED
    BY <2>1
<1> HIDE DEF steps
<1>5. 0 \in S
  <2>1. steps[0] = start
    BY <1>2, <1>4 DEF Places
  <2>2. QED
    BY <1>2, <2>1, GrownItself DEF start
<1>6. ASSUME NEW m \in 0 .. n - 1, m \in S PROVE m + 1 \in S
  <2>1. steps[m + 1] = Place(steps[m], found[m + 1], i)
    BY <1>2, <1>4 DEF Places
  <2>2. Grown(rows, steps[m].rows, i) /\ steps[m].rows \in Seq(ContactType)
    BY <1>6 DEF Grown
  <2>3. Grown(steps[m].rows, steps[m + 1].rows, i)
    BY <1>2, <2>1, <2>2, PlaceGrows
  <2>4. QED
    BY <1>2, <2>2, <2>3, GrownOn
<1>7. n \in S
  <2> HIDE DEF S
  <2>1. QED
    BY <1>2, <1>5, <1>6, Climb
<1>8. QED
  BY <1>3, <1>7

-----------------------------------------------------------------------------
(* The invariant                                                            *)

LEMMA InitIInv ==
  ASSUME Init
  PROVE  IInv
<1>1. TypeInv
  <2>1. <<>> \in Seq(CompanyType) /\ <<>> \in Seq(ContactType)
    OBVIOUS
  <2>2. <<>> \in [{} -> MendType] /\ {} \in SUBSET Nat
    OBVIOUS
  <2>3. mends \in [Jobs -> MendsType]
    BY <2>2 DEF Init, MendsType
  <2>4. todo \in [Jobs -> SUBSET (Src!SourceNames \cup Nat)] /\ drafts \in [Jobs -> Seq(CompanyType)]
    BY <2>1 DEF Init
  <2>5. stage \in [Jobs -> StageNames]
    BY DEF Init, StageNames
  <2>6. QED
    BY <2>1, <2>3, <2>4, <2>5 DEF Init, TypeInv
<1>2. Belongs /\ CrawledOnce /\ Lookups
  BY DEF Init, Belongs, CrawledOnce, Lookups
<1>3. Unique /\ Covered /\ LicitEvidence
  BY DEF Init, Unique, Covered, LicitEvidence, Touched
<1>4. QED
  BY <1>1, <1>2, <1>3 DEF IInv

\* What is said of evidence and keys looks at nothing but the rows of companies.
LEMMA RowsFrame ==
  ASSUME Unique, Covered, LicitEvidence, UNCHANGED <<config, companies, drafts, mends, overlap>>
  PROVE  Unique' /\ Covered' /\ LicitEvidence'
<1>1. Unique'
  <2>1. \A k \in Jobs : Touched(k)' = Touched(k)
    BY DEF Touched
  <2>2. QED
    BY <2>1 DEF Unique
<1>2. Covered'
  BY DEF Covered, Covers
<1>3. LicitEvidence'
  BY DEF LicitEvidence, Licit
<1>4. QED
  BY <1>1, <1>2, <1>3

\* A job goes on to another stage, or does a part of one, and writes nothing.
LEMMA StageFrame ==
  ASSUME TypeInv, NEW j \in Jobs, NEW s \in StageNames,
         NEW T \in SUBSET (Src!SourceNames \cup Nat),
         stage' = [stage EXCEPT ![j] = s], todo' = [todo EXCEPT ![j] = T]
  PROVE  /\ stage' \in [Jobs -> StageNames]
         /\ todo' \in [Jobs -> SUBSET (Src!SourceNames \cup Nat)]
         /\ \A k \in Jobs : stage'[k] = IF k = j THEN s ELSE stage[k]
         /\ \A k \in Jobs : todo'[k] = IF k = j THEN T ELSE todo[k]
  BY DEF TypeInv

\* Numbers of companies and contacts.
LEMMA RowNumbers ==
  ASSUME TypeInv
  PROVE  /\ DOMAIN companies = 1 .. Len(companies) /\ Len(companies) \in Nat
         /\ DOMAIN contacts = 1 .. Len(contacts) /\ Len(contacts) \in Nat
         /\ \A i \in DOMAIN companies : companies[i] \in CompanyType
         /\ \A k \in DOMAIN contacts : contacts[k] \in ContactType
  BY DEF TypeInv

LEMMA BeginDiscoveryStep ==
  ASSUME IInv, NEW j \in Jobs, BeginDiscovery(j)
  PROVE  IInv'
<1>1. /\ stage' \in [Jobs -> StageNames]
      /\ todo' \in [Jobs -> SUBSET (Src!SourceNames \cup Nat)]
      /\ \A k \in Jobs : stage'[k] = IF k = j THEN "discovery" ELSE stage[k]
      /\ \A k \in Jobs : todo'[k] = IF k = j THEN Src!Asked(Selected) ELSE todo[k]
  <2>1. "discovery" \in StageNames /\ Src!Asked(Selected) \in SUBSET (Src!SourceNames \cup Nat)
    BY AskedSources DEF StageNames
  <2>2. QED
    BY <2>1, StageFrame DEF BeginDiscovery, IInv
<1>2. UNCHANGED <<config, companies, contacts, drafts, mends, runs, overlap>> /\ stage[j] = "idle"
  BY DEF BeginDiscovery
<1>3. TypeInv'
  BY <1>1, <1>2 DEF IInv, TypeInv
<1>4. Belongs'
  BY <1>1, <1>2, AskedSources DEF IInv, Belongs, OfJob
<1>5. \A i \in DOMAIN companies : companies[i].job \in Jobs /\ companies[i].job # j
  BY <1>2, RowNumbers DEF IInv, CrawledOnce, CompanyType
<1>6. CrawledOnce'
  BY <1>1, <1>2, <1>5 DEF IInv, CrawledOnce
<1>7. Lookups'
  BY <1>1, <1>2, <1>5 DEF IInv, Lookups, Belongs, Pure, Looked
<1>8. QED
  BY <1>2, <1>3, <1>4, <1>6, <1>7, RowsFrame DEF IInv

LEMMA SourceDoneStep ==
  ASSUME IInv, NEW j \in Jobs, NEW s \in Src!SourceNames, SkipSource(j, s) \/ FinishSource(j, s)
  PROVE  IInv'
<1>1. /\ UNCHANGED <<config, companies, contacts, stage, drafts, mends, overlap>>
      /\ stage[j] = "discovery" /\ todo' = [todo EXCEPT ![j] = @ \ {s}]
      /\ runs' \subseteq Jobs \X Src!SourceNames
  BY DEF SkipSource, FinishSource, IInv, TypeInv
<1>2. /\ todo' \in [Jobs -> SUBSET (Src!SourceNames \cup Nat)]
      /\ \A k \in Jobs : k # j => todo'[k] = todo[k]
      /\ todo'[j] \subseteq todo[j]
  BY <1>1 DEF IInv, TypeInv
<1>3. TypeInv'
  BY <1>1, <1>2 DEF IInv, TypeInv
<1>4. Belongs'
  BY <1>1, <1>2 DEF IInv, Belongs, OfJob
<1>5. \A i \in DOMAIN companies : companies[i].job \in Jobs
  BY RowNumbers DEF IInv, CompanyType
<1>6. CrawledOnce'
  BY <1>1, <1>2, <1>5 DEF IInv, CrawledOnce
<1>7. Lookups'
  BY <1>1, <1>2, <1>5 DEF IInv, Lookups, Belongs, Pure, Looked
<1>8. QED
  BY <1>1, <1>3, <1>4, <1>6, <1>7, RowsFrame DEF IInv

LEMMA SourceRaisesStep ==
  ASSUME IInv, NEW j \in Jobs, NEW s \in Src!SourceNames, SourceRaises(j, s)
  PROVE  IInv'
<1>1. /\ stage' \in [Jobs -> StageNames]
      /\ todo' \in [Jobs -> SUBSET (Src!SourceNames \cup Nat)]
      /\ \A k \in Jobs : stage'[k] = IF k = j THEN "failed" ELSE stage[k]
      /\ \A k \in Jobs : todo'[k] = IF k = j THEN {} ELSE todo[k]
  <2>1. "failed" \in StageNames
    BY DEF StageNames
  <2>2. QED
    BY <2>1, StageFrame DEF SourceRaises, IInv
<1>2. /\ UNCHANGED <<config, companies, contacts, overlap>> /\ stage[j] = "discovery"
      /\ runs' \subseteq runs
  BY DEF SourceRaises
<1>3. /\ drafts' \in [Jobs -> Seq(CompanyType)]
      /\ \A k \in Jobs : drafts'[k] = IF k = j THEN <<>> ELSE drafts[k]
  <2>1. <<>> \in Seq(CompanyType)
    OBVIOUS
  <2>2. QED
    BY <2>1 DEF SourceRaises, IInv, TypeInv
<1>4. /\ mends' \in [Jobs -> MendsType]
      /\ \A k \in Jobs : mends'[k] = IF k = j THEN <<>> ELSE mends[k]
  <2>1. <<>> \in [{} -> MendType] /\ {} \in SUBSET Nat
    OBVIOUS
  <2>2. <<>> \in MendsType
    BY <2>1 DEF MendsType
  <2>3. QED
    BY <2>2 DEF SourceRaises, IInv, TypeInv
<1>5. TypeInv'
  BY <1>1, <1>2, <1>3, <1>4 DEF IInv, TypeInv
<1>6. Belongs'
  <2>1. DOMAIN drafts'[j] = {} /\ DOMAIN mends'[j] = {}
    BY <1>3, <1>4
  <2>2. \A k \in Jobs : k # j =>
          stage'[k] = stage[k] /\ todo'[k] = todo[k] /\ drafts'[k] = drafts[k] /\ mends'[k] = mends[k]
    BY <1>1, <1>3, <1>4
  <2>3. stage'[j] = "failed" /\ drafts'[j] = <<>>
    BY <1>1, <1>3
  <2>4. QED
    BY <1>2, <2>1, <2>2, <2>3 DEF IInv, Belongs, OfJob
<1>7. \A i \in DOMAIN companies : companies[i].job \in Jobs /\ companies[i].job # j
  BY <1>2, RowNumbers DEF IInv, CrawledOnce, CompanyType
<1>8. CrawledOnce'
  BY <1>1, <1>2, <1>7 DEF IInv, CrawledOnce
<1>9. Lookups'
  BY <1>1, <1>2, <1>7 DEF IInv, Lookups, Belongs, Pure, Looked
<1>10. Unique'
  <2>1. \A k \in Jobs : Touched(k)' \subseteq Touched(k)
    BY <1>2, <1>3, <1>4 DEF Touched
  <2>2. QED
    BY <1>2, <1>3, <2>1 DEF IInv, Unique
<1>11. Covered' /\ LicitEvidence'
  <2>1. DOMAIN drafts'[j] = {} /\ DOMAIN mends'[j] = {}
    BY <1>3, <1>4
  <2>2. \A k \in Jobs : k # j => drafts'[k] = drafts[k] /\ mends'[k] = mends[k]
    BY <1>3, <1>4
  <2>3. Covered'
    BY <1>2, <2>1, <2>2 DEF IInv, Covered, Covers
  <2>4. LicitEvidence'
    BY <1>2, <2>1, <2>2 DEF IInv, LicitEvidence, Licit
  <2>5. QED
    BY <2>3, <2>4
<1>13. QED
  BY <1>5, <1>6, <1>8, <1>9, <1>10, <1>11 DEF IInv

-----------------------------------------------------------------------------
(* One sighting                                                             *)

\* The rest of a sighting's proof, which is the same wherever the company was found.
LEMMA SightFrame ==
  ASSUME IInv, NEW j \in Jobs, UNCHANGED <<config, companies, contacts, stage, todo, runs>>,
         stage[j] = "discovery", overlap' \in BOOLEAN,
         drafts' \in [Jobs -> Seq(CompanyType)], mends' \in [Jobs -> MendsType],
         \A k \in Jobs : k # j => drafts'[k] = drafts[k] /\ mends'[k] = mends[k],
         \A i \in DOMAIN drafts'[j] : LET d == drafts'[j][i] IN
           d.job = j /\ d.site = "unseen" /\ d.crawls = 0 /\ \A e \in d.evidence : Licit(e),
         \A i \in DOMAIN mends'[j] :
           /\ i \in DOMAIN companies /\ companies[i].key # NoKey
           /\ \A e \in mends'[j][i].now.evidence : Licit(e)
  PROVE  TypeInv' /\ Belongs' /\ CrawledOnce' /\ Lookups' /\ LicitEvidence'
<1>1. TypeInv'
  BY DEF IInv, TypeInv, MendsType
<1>2. Belongs'
  BY DEF IInv, Belongs, OfJob
<1>3. CrawledOnce'
  BY DEF IInv, CrawledOnce
<1>4. Lookups'
  BY DEF IInv, Lookups, Pure, Looked
<1>5. LicitEvidence'
  BY DEF IInv, LicitEvidence, Licit
<1>6. QED
  BY <1>1, <1>2, <1>3, <1>4, <1>5

\* A sighted key that no other discovery has touched; Touched of others stays.
LEMMA TouchedFrame ==
  ASSUME NEW j \in Jobs, companies' = companies,
         \A k \in Jobs : k # j => drafts'[k] = drafts[k] /\ mends'[k] = mends[k]
  PROVE  \A k \in Jobs : k # j => Touched(k)' = Touched(k)
  BY DEF Touched

\* Only the keys of rows matter for their uniqueness.
LEMMA SameKeys ==
  ASSUME Unique, overlap => overlap', companies' = companies, mends' = mends,
         \A k \in Jobs : /\ DOMAIN drafts'[k] = DOMAIN drafts[k]
                         /\ \A i \in DOMAIN drafts[k] : drafts'[k][i].key = drafts[k][i].key
  PROVE  Unique'
<1>1. ASSUME NEW k \in Jobs PROVE Touched(k)' = Touched(k)
  <2>1. {drafts'[k][i].key : i \in DOMAIN drafts'[k]} = {drafts[k][i].key : i \in DOMAIN drafts[k]}
    OBVIOUS
  <2>2. QED
    BY <2>1 DEF Touched
<1>2. SUFFICES ASSUME ~ overlap' PROVE Unique'
  BY DEF Unique
<1>3. \A j, k \in Jobs : j # k => Touched(j)' \cap Touched(k)' \subseteq {NoKey}
  BY <1>1, <1>2 DEF Unique
<1>4. \A j \in Jobs : \A a \in DOMAIN drafts'[j] : drafts'[j][a].key # NoKey =>
         /\ \A b \in DOMAIN drafts'[j] : a # b => drafts'[j][a].key # drafts'[j][b].key
         /\ \A b \in DOMAIN companies : drafts'[j][a].key # companies[b].key
  BY <1>2 DEF Unique
<1>5. QED
  BY <1>2, <1>3, <1>4 DEF Unique

LEMMA OwnSighting ==
  ASSUME IInv, NEW j \in Jobs, NEW s \in Src!SourceNames, NEW key, Resolved(s) # "skip",
         UNCHANGED <<config, companies, contacts, stage, todo, runs, mends>>,
         stage[j] = "discovery", overlap' \in BOOLEAN, overlap => overlap',
         drafts' = [drafts EXCEPT ![j] = [i \in DOMAIN @ |->
                     IF i \in Own(j, key) THEN Mended(@[i], Evidence(s)) ELSE @[i]]]
  PROVE  IInv'
<1> DEFINE old == drafts[j]
           new == [i \in DOMAIN old |->
                     IF i \in Own(j, key) THEN Mended(old[i], Evidence(s)) ELSE old[i]]
<1>1. old \in Seq(CompanyType) /\ DOMAIN old = 1 .. Len(old) /\ Len(old) \in Nat
  BY DEF IInv, TypeInv
<1>2. \A i \in DOMAIN old : old[i] \in CompanyType
  BY <1>1
<1>3. \A i \in DOMAIN old :
        LET d == Mended(old[i], Evidence(s)) IN
        /\ d \in CompanyType
        /\ d.key = old[i].key /\ d.job = old[i].job /\ d.site = old[i].site
        /\ d.crawls = old[i].crawls
        /\ d.evidence = old[i].evidence \cup {Evidence(s)}
        /\ (Covers(old[i]) => Covers(d))
  BY <1>2, MendedRow
<1>4. new \in Seq(CompanyType) /\ DOMAIN new = DOMAIN old
  <2>1. \A i \in 1 .. Len(old) : new[i] \in CompanyType
    BY <1>1, <1>2, <1>3
  <2>2. new \in [1 .. Len(old) -> CompanyType]
    BY <1>1, <2>1
  <2>3. QED
    BY <1>1, <2>2
<1>5. /\ drafts' \in [Jobs -> Seq(CompanyType)]
      /\ \A k \in Jobs : drafts'[k] = IF k = j THEN new ELSE drafts[k]
  BY <1>4 DEF IInv, TypeInv
<1>6. \A i \in DOMAIN old :
        /\ new[i].key = old[i].key /\ new[i].job = old[i].job /\ new[i].site = old[i].site
        /\ new[i].crawls = old[i].crawls
        /\ new[i].evidence \subseteq old[i].evidence \cup {Evidence(s)}
        /\ (Covers(old[i]) => Covers(new[i]))
  BY <1>3
<1> HIDE DEF old, new
<1>7. TypeInv' /\ Belongs' /\ CrawledOnce' /\ Lookups' /\ LicitEvidence'
  <2>1. \A i \in DOMAIN old : old[i].job = j /\ old[i].site = "unseen" /\ old[i].crawls = 0
                              /\ \A e \in old[i].evidence : Licit(e)
    BY DEF IInv, Belongs, LicitEvidence, old
  <2>2. Licit(Evidence(s))
    BY ResolvedEvidence
  <2>3. \A i \in DOMAIN new : new[i].job = j /\ new[i].site = "unseen" /\ new[i].crawls = 0
                              /\ \A e \in new[i].evidence : Licit(e)
    BY <1>4, <1>6, <2>1, <2>2
  <2>4. \A i \in DOMAIN mends'[j] :
           /\ i \in DOMAIN companies /\ companies[i].key # NoKey
           /\ \A e \in mends'[j][i].now.evidence : Licit(e)
    BY DEF IInv, Belongs, LicitEvidence
  <2>5. mends' \in [Jobs -> MendsType]
    BY DEF IInv, TypeInv, MendsType
  <2>6. drafts'[j] = new /\ \A k \in Jobs : k # j => drafts'[k] = drafts[k] /\ mends'[k] = mends[k]
    BY <1>5
  <2>7. QED
    BY <1>5, <2>3, <2>4, <2>5, <2>6, SightFrame
<1>8. Unique'
  <2>1. /\ DOMAIN drafts'[j] = DOMAIN drafts[j]
        /\ \A i \in DOMAIN drafts[j] : drafts'[j][i].key = drafts[j][i].key
    BY <1>4, <1>5, <1>6 DEF old
  <2>2. \A k \in Jobs : /\ DOMAIN drafts'[k] = DOMAIN drafts[k]
                        /\ \A i \in DOMAIN drafts[k] : drafts'[k][i].key = drafts[k][i].key
    BY <1>5, <2>1
  <2>3. QED
    BY <2>2, SameKeys DEF IInv
<1>9. Covered'
  <2>1. \A i \in DOMAIN drafts[j] : Covers(drafts[j][i]) => Covers(drafts'[j][i])
    BY <1>5, <1>6 DEF old
  <2>2. \A k \in Jobs : /\ DOMAIN drafts'[k] = DOMAIN drafts[k]
                        /\ \A i \in DOMAIN drafts[k] : Covers(drafts[k][i]) => Covers(drafts'[k][i])
    BY <1>4, <1>5, <2>1 DEF old
  <2>3. ~ overlap' => /\ \A k \in Jobs : \A i \in DOMAIN drafts'[k] : Covers(drafts'[k][i])
                      /\ \A i \in DOMAIN companies : Covers(companies[i])
    BY <2>2 DEF IInv, Covered
  <2>4. QED
    BY <2>3 DEF IInv, Covered, Covers
<1>10. QED
  BY <1>7, <1>8, <1>9 DEF IInv

LEMMA KnownSighting ==
  ASSUME IInv, NEW j \in Jobs, NEW s \in Src!SourceNames, NEW key, Resolved(s) # "skip",
         UNCHANGED <<config, companies, contacts, stage, todo, runs, drafts>>,
         stage[j] = "discovery", overlap' \in BOOLEAN,
         overlap \/ (\E k \in Jobs \ {j} : key # NoKey /\ key \in Touched(k)) => overlap',
         NEW i \in Known(j, key), Own(j, key) = {},
         mends' = [mends EXCEPT ![j] = Mend(j, i, Evidence(s))]
  PROVE  IInv'
<1> DEFINE new == Mend(j, i, Evidence(s))
           was == IF i \in DOMAIN mends[j] THEN mends[j][i]
                  ELSE [read |-> companies[i].posture, now |-> companies[i]]
           row == Mended(was.now, Evidence(s))
<1>1. i \in DOMAIN companies /\ companies[i].key = key /\ key # NoKey /\ companies[i] \in CompanyType
      /\ i \in Nat
  BY RowNumbers DEF Known, IInv
<1>2. PICK R \in SUBSET Nat : mends[j] \in [R -> MendType]
  BY DEF IInv, TypeInv, MendsType
<1>3. was \in MendType
  <2>1. CASE i \in DOMAIN mends[j]
    BY <1>2, <2>1
  <2>2. CASE i \notin DOMAIN mends[j]
    BY <1>1, <2>2 DEF MendType, CompanyType
  <2>3. QED
    BY <2>1, <2>2
<1> HIDE DEF was
<1>4. /\ row \in CompanyType /\ row.evidence = was.now.evidence \cup {Evidence(s)}
      /\ row.posture >= was.now.posture /\ (Covers(was.now) => Covers(row))
  <2>1. was.now \in CompanyType
    BY <1>3 DEF MendType
  <2>2. QED
    BY <2>1, MendedRow
<1>5. /\ DOMAIN new = DOMAIN mends[j] \cup {i}
      /\ \A k \in DOMAIN new : new[k] = IF k = i THEN [read |-> was.read, now |-> row] ELSE mends[j][k]
  BY DEF Mend, was
<1> HIDE DEF row
<1>6. new \in MendsType
  <2>1. [read |-> was.read, now |-> row] \in MendType
    BY <1>3, <1>4 DEF MendType
  <2>2. \A k \in DOMAIN new : new[k] \in MendType
    BY <1>2, <1>5, <2>1
  <2>3. DOMAIN new \in SUBSET Nat
    BY <1>1, <1>2, <1>5
  <2>4. new = [k \in DOMAIN new |-> new[k]]
    BY DEF Mend
  <2> HIDE DEF new
  <2>5. new \in [DOMAIN new -> MendType]
    BY <2>2, <2>4
  <2>6. QED
    BY <2>3, <2>5 DEF MendsType
<1> HIDE DEF new
<1>7. /\ mends' \in [Jobs -> MendsType]
      /\ \A k \in Jobs : mends'[k] = IF k = j THEN new ELSE mends[k]
  BY <1>6 DEF IInv, TypeInv, MendsType, new
<1>8. TypeInv' /\ Belongs' /\ CrawledOnce' /\ Lookups' /\ LicitEvidence'
  <2>1. Licit(Evidence(s))
    BY ResolvedEvidence
  <2>2. \A e \in was.now.evidence : Licit(e)
    BY <1>1 DEF IInv, LicitEvidence, was
  <2>3. \A e \in row.evidence : Licit(e)
    BY <1>4, <2>1, <2>2
  <2>4. \A k \in DOMAIN new : /\ k \in DOMAIN companies /\ companies[k].key # NoKey
                              /\ \A e \in new[k].now.evidence : Licit(e)
    BY <1>1, <1>5, <2>3 DEF IInv, Belongs, LicitEvidence
  <2>5. mends'[j] = new /\ \A k \in Jobs : k # j => drafts'[k] = drafts[k] /\ mends'[k] = mends[k]
    BY <1>7
  <2>6. \A k \in DOMAIN drafts'[j] : LET d == drafts'[j][k] IN
           d.job = j /\ d.site = "unseen" /\ d.crawls = 0 /\ \A e \in d.evidence : Licit(e)
    BY DEF IInv, Belongs, LicitEvidence
  <2>7. drafts' \in [Jobs -> Seq(CompanyType)]
    BY DEF IInv, TypeInv
  <2>8. QED
    BY <1>7, <2>4, <2>5, <2>6, <2>7, SightFrame
<1>9. Unique'
  <2>1. SUFFICES ASSUME ~ overlap' PROVE Unique'
    BY DEF Unique
  <2>2. ~ overlap /\ \A k \in Jobs : k # j => key \notin Touched(k)
    BY <1>1, <2>1
  <2>3. \A k \in Jobs : k # j => Touched(k)' = Touched(k)
    BY <1>7 DEF Touched
  <2>4. Touched(j)' = Touched(j) \cup {key}
    BY <1>1, <1>5, <1>7 DEF Touched
  <2>5. \A k, l \in Jobs : k # l => Touched(k)' \cap Touched(l)' \subseteq {NoKey}
    BY <2>2, <2>3, <2>4 DEF IInv, Unique
  <2>6. QED
    BY <2>2, <2>5 DEF IInv, Unique
<1>10. Covered'
  <2>1. SUFFICES ASSUME ~ overlap' PROVE Covered'
    BY DEF Covered
  <2>2. ~ overlap
    BY <2>1
  <2>3. Covers(was.now) /\ was.read = companies[i].posture /\ was.now.posture >= was.read
    <3>1. companies[i].posture \in 0 .. 2
      BY <1>1 DEF CompanyType
    <3>2. QED
      BY <1>1, <2>2, <3>1 DEF was, IInv, Covered
  <2>4. row.posture >= was.read
    BY <1>3, <1>4, <2>3 DEF MendType, CompanyType
  <2>5. \A k \in DOMAIN new : /\ Covers(new[k].now) /\ new[k].read = companies[k].posture
                              /\ new[k].now.posture >= new[k].read
    BY <1>4, <1>5, <2>2, <2>3, <2>4 DEF IInv, Covered
  <2>6. \A l \in Jobs : \A k \in DOMAIN mends'[l] :
           /\ Covers(mends'[l][k].now) /\ mends'[l][k].read = companies[k].posture
           /\ mends'[l][k].now.posture >= mends'[l][k].read
    BY <1>7, <2>2, <2>5 DEF IInv, Covered
  <2>7. QED
    BY <2>2, <2>6 DEF IInv, Covered, Covers
<1>11. QED
  BY <1>8, <1>9, <1>10 DEF IInv

LEMMA NewSighting ==
  ASSUME IInv, NEW j \in Jobs, NEW s \in Src!SourceNames, NEW key \in Firms \cup {NoKey},
         Resolved(s) # "skip",
         UNCHANGED <<config, companies, contacts, stage, todo, runs, mends>>,
         stage[j] = "discovery", overlap' \in BOOLEAN,
         overlap \/ (\E k \in Jobs \ {j} : key # NoKey /\ key \in Touched(k)) => overlap',
         Known(j, key) = {}, Own(j, key) = {},
         drafts' = [drafts EXCEPT ![j] =
              Append(@, [key |-> key, job |-> j, posture |-> Src!Posture(s),
                         evidence |-> {Evidence(s)}, site |-> "unseen", crawls |-> 0])]
  PROVE  IInv'
<1> DEFINE old == drafts[j]
           row == [key |-> key, job |-> j, posture |-> Src!Posture(s),
                   evidence |-> {Evidence(s)}, site |-> "unseen", crawls |-> 0]
           new == Append(old, row)
<1>1. old \in Seq(CompanyType) /\ DOMAIN old = 1 .. Len(old) /\ Len(old) \in Nat
  BY DEF IInv, TypeInv
<1>2. Evidence(s) \in EvidenceType /\ Licit(Evidence(s)) /\ Evidence(s).source = s
  BY ResolvedEvidence
<1>3. /\ row \in CompanyType /\ row.key = key /\ row.job = j /\ row.site = "unseen"
      /\ row.crawls = 0 /\ row.evidence = {Evidence(s)}
  BY <1>2, Postures DEF CompanyType, Sites
<1>4. Covers(row)
  <2>1. row.posture = Src!Posture(s) /\ Src!Posture(s) \in 0 .. 2
    BY Postures
  <2>2. QED
    BY <1>2, <1>3, <2>1 DEF Covers
<1> HIDE DEF row
<1>5. /\ new \in Seq(CompanyType) /\ DOMAIN new = 1 .. Len(old) + 1
      /\ \A i \in DOMAIN old : new[i] = old[i]
      /\ new[Len(old) + 1] = row
  BY <1>1, <1>3
<1>6. \A i \in DOMAIN new : i \in DOMAIN old \/ i = Len(old) + 1
  BY <1>1, <1>5
<1>7. /\ drafts' \in [Jobs -> Seq(CompanyType)]
      /\ \A k \in Jobs : drafts'[k] = IF k = j THEN new ELSE drafts[k]
  BY <1>5 DEF IInv, TypeInv, row
<1> HIDE DEF new
<1>8. TypeInv' /\ Belongs' /\ CrawledOnce' /\ Lookups' /\ LicitEvidence'
  <2>1. \A i \in DOMAIN old : old[i].job = j /\ old[i].site = "unseen" /\ old[i].crawls = 0
                              /\ \A e \in old[i].evidence : Licit(e)
    BY DEF IInv, Belongs, LicitEvidence
  <2>2. \A i \in DOMAIN new : new[i].job = j /\ new[i].site = "unseen" /\ new[i].crawls = 0
                              /\ \A e \in new[i].evidence : Licit(e)
    BY <1>2, <1>3, <1>5, <1>6, <2>1
  <2>3. \A i \in DOMAIN mends'[j] :
           /\ i \in DOMAIN companies /\ companies[i].key # NoKey
           /\ \A e \in mends'[j][i].now.evidence : Licit(e)
    BY DEF IInv, Belongs, LicitEvidence
  <2>4. mends' \in [Jobs -> MendsType]
    BY DEF IInv, TypeInv, MendsType
  <2>5. drafts'[j] = new /\ \A k \in Jobs : k # j => drafts'[k] = drafts[k] /\ mends'[k] = mends[k]
    BY <1>7
  <2>6. \A i \in DOMAIN drafts'[j] : LET d == drafts'[j][i] IN
           d.job = j /\ d.site = "unseen" /\ d.crawls = 0 /\ \A e \in d.evidence : Licit(e)
    BY <2>2, <2>5
  <2>7. drafts' \in [Jobs -> Seq(CompanyType)]
    BY <1>7
  <2> HIDE DEF old
  <2>8. QED
    BY <2>3, <2>4, <2>5, <2>6, <2>7, SightFrame
<1>9. Unique'
  <2>1. SUFFICES ASSUME ~ overlap' PROVE Unique'
    BY DEF Unique
  <2>2. ~ overlap /\ \A k \in Jobs : k # j => key = NoKey \/ key \notin Touched(k)
    BY <2>1
  <2>3. \A k \in Jobs : k # j => Touched(k)' = Touched(k)
    BY <1>7 DEF Touched
  <2>4. Touched(j)' = Touched(j) \cup {key}
    BY <1>3, <1>5, <1>6, <1>7, <1>1 DEF Touched
  <2>5. \A k, l \in Jobs : k # l => Touched(k)' \cap Touched(l)' \subseteq {NoKey}
    BY <2>2, <2>3, <2>4 DEF IInv, Unique
  <2>6. ASSUME NEW a \in DOMAIN new, new[a].key # NoKey
        PROVE  /\ \A b \in DOMAIN new : a # b => new[a].key # new[b].key
               /\ \A b \in DOMAIN companies : new[a].key # companies[b].key
    <3>1. key # NoKey => /\ \A b \in DOMAIN old : old[b].key # key
                         /\ \A b \in DOMAIN companies : companies[b].key # key
      BY DEF Own, Known
    <3>2. \A c \in DOMAIN old : old[c].key # NoKey =>
             /\ \A b \in DOMAIN old : c # b => old[c].key # old[b].key
             /\ \A b \in DOMAIN companies : old[c].key # companies[b].key
      BY <2>2 DEF IInv, Unique
    <3> HIDE DEF old
    <3>3. \A i \in DOMAIN new :
            \/ i \in DOMAIN old /\ new[i].key = old[i].key
            \/ i = Len(old) + 1 /\ new[i].key = key
      <4>1. \A i \in DOMAIN old : new[i].key = old[i].key
        BY <1>5
      <4>2. new[Len(old) + 1].key = key
        BY <1>3, <1>5
      <4>3. TAKE i \in DOMAIN new
      <4>4. CASE i \in DOMAIN old
        BY <4>1, <4>4
      <4>5. CASE i = Len(old) + 1
        BY <4>2, <4>5
      <4>6. QED
        BY <1>6, <4>4, <4>5
    <3>4. CASE a \in DOMAIN old /\ new[a].key = old[a].key
      <4>1. ASSUME NEW b \in DOMAIN new, a # b PROVE new[a].key # new[b].key
        BY <2>6, <3>1, <3>2, <3>3, <3>4, <4>1
      <4>2. QED
        BY <2>6, <3>2, <3>4, <4>1
    <3>5. CASE a = Len(old) + 1 /\ new[a].key = key
      <4>1. ASSUME NEW b \in DOMAIN new, a # b PROVE new[a].key # new[b].key
        BY <2>6, <3>1, <3>3, <3>5, <4>1
      <4>2. QED
        BY <2>6, <3>1, <3>5, <4>1
    <3>6. QED
      BY <3>3, <3>4, <3>5
  <2>7. \A k \in Jobs : \A a \in DOMAIN drafts'[k] : drafts'[k][a].key # NoKey =>
         /\ \A b \in DOMAIN drafts'[k] : a # b => drafts'[k][a].key # drafts'[k][b].key
         /\ \A b \in DOMAIN companies : drafts'[k][a].key # companies[b].key
    <3>1. drafts'[j] = new
      BY <1>7
    <3>2. ASSUME NEW k \in Jobs, k # j, NEW a \in DOMAIN drafts'[k], drafts'[k][a].key # NoKey
          PROVE  /\ \A b \in DOMAIN drafts'[k] : a # b => drafts'[k][a].key # drafts'[k][b].key
                 /\ \A b \in DOMAIN companies : drafts'[k][a].key # companies[b].key
      <4>1. drafts'[k] = drafts[k]
        BY <1>7, <3>2
      <4>2. QED
        BY <2>2, <3>2, <4>1 DEF IInv, Unique
    <3>3. QED
      BY <2>6, <3>1, <3>2
  <2>8. QED
    BY <2>2, <2>5, <2>7 DEF IInv, Unique
<1>10. Covered'
  <2>1. SUFFICES ASSUME ~ overlap' PROVE Covered'
    BY DEF Covered
  <2>2. ~ overlap
    BY <2>1
  <2>3. \A i \in DOMAIN new : Covers(new[i])
    BY <1>4, <1>5, <1>6, <2>2 DEF IInv, Covered
  <2>4. \A k \in Jobs : \A i \in DOMAIN drafts'[k] : Covers(drafts'[k][i])
    BY <1>7, <2>2, <2>3 DEF IInv, Covered
  <2>5. QED
    BY <2>2, <2>4 DEF IInv, Covered, Covers
<1>11. QED
  BY <1>8, <1>9, <1>10 DEF IInv

LEMMA RunSourceStep ==
  ASSUME IInv, NEW j \in Jobs, NEW s \in Src!SourceNames, NEW key \in Firms \cup {NoKey},
         RunSource(j, s, key)
  PROVE  IInv'
<1>1. /\ stage[j] = "discovery" /\ Resolved(s) # "skip" /\ Sight(j, s, key)
      /\ UNCHANGED <<config, companies, contacts, stage, todo, runs>>
      /\ overlap' = (overlap \/ \E k \in Jobs \ {j} : key # NoKey /\ key \in Touched(k))
  BY DEF RunSource
<1>2. overlap' \in BOOLEAN
  BY <1>1
<1>3. CASE Own(j, key) # {} /\ UNCHANGED mends /\
           drafts' = [drafts EXCEPT ![j] = [i \in DOMAIN @ |->
                        IF i \in Own(j, key) THEN Mended(@[i], Evidence(s)) ELSE @[i]]]
  BY <1>1, <1>2, <1>3, OwnSighting
<1>4. CASE Own(j, key) = {} /\ UNCHANGED drafts /\
           \E i \in Known(j, key) : mends' = [mends EXCEPT ![j] = Mend(j, i, Evidence(s))]
  BY <1>1, <1>2, <1>4, KnownSighting
<1>5. CASE Own(j, key) = {} /\ Known(j, key) = {} /\ UNCHANGED mends /\
           drafts' = [drafts EXCEPT ![j] =
              Append(@, [key |-> key, job |-> j, posture |-> Src!Posture(s),
                         evidence |-> {Evidence(s)}, site |-> "unseen", crawls |-> 0])]
  BY <1>1, <1>2, <1>5, NewSighting
<1>6. QED
  BY <1>1, <1>3, <1>4, <1>5 DEF Sight

-----------------------------------------------------------------------------
(* The commit of a discovery                                                *)

\* What a merge leaves and what it brings to a committed company.
LEMMA MergedRow ==
  ASSUME IInv, NEW j \in Jobs, NEW i \in DOMAIN companies
  PROVE  LET c == companies[i]  d == Merged(j, i) IN
         /\ d \in CompanyType
         /\ d.key = c.key /\ d.job = c.job /\ d.site = c.site /\ d.crawls = c.crawls
         /\ \A e \in d.evidence : Licit(e)
         /\ i \notin DOMAIN mends[j] => d = c
         /\ overlap \/ Covers(d)
<1> DEFINE c == companies[i]
           d == Merged(j, i)
           m == mends[j][i]
<1>1. c \in CompanyType /\ \A e \in c.evidence : Licit(e)
  BY RowNumbers DEF IInv, LicitEvidence
<1>2. overlap \/ Covers(c)
  BY DEF IInv, Covered
<1>3. CASE i \notin DOMAIN mends[j]
  <2>1. d = c
    BY <1>3 DEF Merged
  <2>2. QED
    BY <1>1, <1>2, <2>1, <1>3
<1>4. CASE i \in DOMAIN mends[j]
  <2>1. m \in MendType
    BY <1>4 DEF IInv, TypeInv, MendsType
  <2>2. /\ \A e \in m.now.evidence : Licit(e)
        /\ overlap \/ (Covers(m.now) /\ m.read = c.posture /\ m.now.posture >= m.read)
    BY <1>4 DEF IInv, LicitEvidence, Covered
  <2>3. m.now.evidence \in SUBSET EvidenceType /\ m.now.posture \in 0 .. 2 /\ m.read \in 0 .. 2
    BY <2>1 DEF MendType, CompanyType
  <2>4. d = [c EXCEPT !.evidence = @ \cup m.now.evidence,
                      !.posture = IF m.now.posture = m.read THEN @ ELSE m.now.posture]
    BY <1>4 DEF Merged
  <2> DEFINE p == IF m.now.posture = m.read THEN c.posture ELSE m.now.posture
  <2> HIDE DEF c, d, m
  <2>5. c.evidence \cup m.now.evidence \in SUBSET EvidenceType /\ p \in 0 .. 2
    BY <1>1, <2>3 DEF CompanyType
  <2>6. /\ d.key = c.key /\ d.job = c.job /\ d.site = c.site /\ d.crawls = c.crawls
        /\ d.evidence = c.evidence \cup m.now.evidence /\ d.posture = p
    BY <1>1, <2>4 DEF CompanyType
  <2>7. d \in CompanyType
    BY <1>1, <2>4, <2>5 DEF CompanyType
  <2>8. \A e \in d.evidence : Licit(e)
    BY <1>1, <2>2, <2>6
  <2>9. ASSUME ~ overlap PROVE Covers(d)
    <3>1. p >= c.posture /\ p >= m.now.posture
      BY <1>1, <2>2, <2>3, <2>9 DEF CompanyType
    <3>2. c.posture \in 0 .. 2 /\ p \in 0 .. 2
      BY <1>1, <2>5 DEF CompanyType
    <3>3. \A e \in d.evidence : e.source \in Src!SourceNames
      BY <2>7 DEF CompanyType, EvidenceType
    <3>4. ASSUME NEW e \in d.evidence, e.source \in Src!DiscoverySources
          PROVE  p >= Src!Posture(e.source)
      <4>1. Src!Posture(e.source) \in 0 .. 2
        BY <3>3, Postures
      <4>2. c.posture >= Src!Posture(e.source) \/ m.now.posture >= Src!Posture(e.source)
        BY <1>2, <2>2, <2>6, <2>9, <3>4 DEF Covers
      <4>3. QED
        BY <2>3, <3>1, <3>2, <4>1, <4>2
    <3>5. QED
      BY <2>6, <3>4 DEF Covers
  <2>10. QED
    BY <1>4, <2>6, <2>7, <2>8, <2>9 DEF c, d
<1>5. QED
  BY <1>3, <1>4

LEMMA CommitDiscoveryStep ==
  ASSUME IInv, NEW j \in Jobs, CommitDiscovery(j)
  PROVE  IInv'
<1> DEFINE n  == Len(companies)
           ds == drafts[j]
           rs == [i \in DOMAIN companies |-> Merged(j, i)]
           T  == {i \in DOMAIN companies' : j \in Followed /\ companies'[i].job = j}
           s  == IF j \in Followed THEN "crawl" ELSE "done"
<1>1. /\ n \in Nat /\ DOMAIN companies = 1 .. n
      /\ ds \in Seq(CompanyType) /\ Len(ds) \in Nat /\ DOMAIN ds = 1 .. Len(ds)
  BY RowNumbers DEF IInv, TypeInv
<1>2. rs \in Seq(CompanyType) /\ Len(rs) = n
  <2>1. \A i \in 1 .. n : rs[i] \in CompanyType
    BY <1>1, MergedRow
  <2>2. rs \in [1 .. n -> CompanyType]
    BY <1>1, <2>1
  <2>3. QED
    BY <1>1, <2>2
<1>3. /\ companies' \in Seq(CompanyType) /\ DOMAIN companies' = 1 .. n + Len(ds)
      /\ \A i \in 1 .. n : companies'[i] = Merged(j, i)
      /\ \A i \in 1 .. Len(ds) : companies'[n + i] = ds[i]
  <2>1. companies' = rs \o ds
    BY DEF CommitDiscovery
  <2>2. \A i \in 1 .. n : rs[i] = Merged(j, i)
    BY <1>1
  <2> HIDE DEF rs, ds, n
  <2>3. /\ rs \o ds \in Seq(CompanyType) /\ Len(rs \o ds) = n + Len(ds)
        /\ \A i \in 1 .. n : (rs \o ds)[i] = rs[i]
        /\ \A i \in 1 .. Len(ds) : (rs \o ds)[n + i] = ds[i]
    BY <1>1, <1>2
  <2>4. DOMAIN (rs \o ds) = 1 .. n + Len(ds)
    BY <1>1, <2>3
  <2>5. \A i \in 1 .. n : companies'[i] = Merged(j, i)
    BY <2>1, <2>2, <2>3
  <2>6. QED
    BY <2>1, <2>3, <2>4, <2>5
<1>4. \A i \in DOMAIN companies' : i \in 1 .. n \/ \E d \in 1 .. Len(ds) : i = n + d
  <2>1. ASSUME NEW i \in 1 .. n + Len(ds), i \notin 1 .. n PROVE i - n \in 1 .. Len(ds) /\ i = n + (i - n)
    BY <1>1, <2>1
  <2>2. QED
    BY <1>3, <2>1
<1>5. UNCHANGED <<config, contacts, runs, overlap>> /\ stage[j] = "discovery" /\ todo[j] = {}
  BY DEF CommitDiscovery
<1>6. /\ stage' \in [Jobs -> StageNames]
      /\ todo' \in [Jobs -> SUBSET (Src!SourceNames \cup Nat)]
      /\ \A k \in Jobs : stage'[k] = IF k = j THEN s ELSE stage[k]
      /\ \A k \in Jobs : todo'[k] = IF k = j THEN T ELSE todo[k]
  <2>1. s \in StageNames
    BY DEF StageNames
  <2>2. T \in SUBSET (Src!SourceNames \cup Nat)
    BY <1>1, <1>3
  <2>3. stage' = [stage EXCEPT ![j] = s] /\ todo' = [todo EXCEPT ![j] = T]
    BY DEF CommitDiscovery
  <2> HIDE DEF s, T
  <2>4. QED
    BY <2>1, <2>2, <2>3, StageFrame DEF IInv
<1>7. /\ drafts' \in [Jobs -> Seq(CompanyType)]
      /\ \A k \in Jobs : drafts'[k] = IF k = j THEN <<>> ELSE drafts[k]
  <2>1. <<>> \in Seq(CompanyType)
    OBVIOUS
  <2>2. QED
    BY <2>1 DEF CommitDiscovery, IInv, TypeInv
<1>8. /\ mends' \in [Jobs -> MendsType]
      /\ \A k \in Jobs : mends'[k] = IF k = j THEN <<>> ELSE mends[k]
  <2>1. <<>> \in [{} -> MendType] /\ {} \in SUBSET Nat
    OBVIOUS
  <2>2. <<>> \in MendsType
    BY <2>1 DEF MendsType
  <2>3. QED
    BY <2>2 DEF CommitDiscovery, IInv, TypeInv
<1>9. DOMAIN drafts'[j] = {} /\ drafts'[j] = <<>> /\ DOMAIN mends'[j] = {}
  BY <1>7, <1>8
<1>10. \A k \in Jobs : k # j => drafts'[k] = drafts[k] /\ mends'[k] = mends[k]
                                /\ stage'[k] = stage[k] /\ todo'[k] = todo[k]
  BY <1>6, <1>7, <1>8
<1>11. stage'[j] = s /\ todo'[j] = T
  BY <1>6
<1>12. \A i \in 1 .. n : LET c == companies[i]  d == companies'[i] IN
         /\ d.key = c.key /\ d.job = c.job /\ d.site = c.site /\ d.crawls = c.crawls
         /\ \A e \in d.evidence : Licit(e)
         /\ i \notin DOMAIN mends[j] => d = c
         /\ overlap \/ Covers(d)
  BY <1>1, <1>3, MergedRow
<1>13. \A i \in 1 .. n : companies[i].job \in Jobs /\ companies[i].job # j
  BY <1>1, <1>5, RowNumbers DEF IInv, CrawledOnce, CompanyType
<1>14. \A i \in 1 .. Len(ds) : ds[i].job = j /\ ds[i].site = "unseen" /\ ds[i].crawls = 0
                               /\ (\A e \in ds[i].evidence : Licit(e)) /\ (overlap \/ Covers(ds[i]))
  BY <1>1 DEF IInv, Belongs, LicitEvidence, Covered
<1>15. 1 .. n \subseteq DOMAIN companies'
  BY <1>1, <1>3
<1> HIDE DEF n, ds, rs, T
<1>16. TypeInv'
  BY <1>3, <1>5, <1>6, <1>7, <1>8 DEF IInv, TypeInv
<1>17. Belongs'
  <2>1. \A k \in DOMAIN contacts : contacts[k].firm \in 1 .. n
    BY <1>1 DEF IInv, Belongs
  <2>2. ASSUME NEW k \in Jobs, k # j
        PROVE  /\ stage'[k] # "discovery" => drafts'[k] = <<>> /\ DOMAIN mends'[k] = {}
               /\ stage'[k] = "discovery" => todo'[k] \subseteq Src!SourceNames
               /\ stage'[k] \in {"crawl", "recrawl"} =>
                    todo'[k] \subseteq {i \in DOMAIN companies' : companies'[i].job = k}
               /\ stage'[k] \in {"enrich", "retry"} => todo'[k] \subseteq OfJob(k)'
               /\ \A i \in DOMAIN drafts'[k] :
                    drafts'[k][i].job = k /\ drafts'[k][i].site = "unseen" /\ drafts'[k][i].crawls = 0
               /\ \A i \in DOMAIN mends'[k] : i \in DOMAIN companies' /\ companies'[i].key # NoKey
    <3>1. {i \in DOMAIN companies : companies[i].job = k}
          \subseteq {i \in DOMAIN companies' : companies'[i].job = k}
      BY <1>1, <1>12, <1>15
    <3>2. OfJob(k) \subseteq OfJob(k)'
      BY <1>5, <1>12, <2>1 DEF OfJob
    <3>3. \A i \in DOMAIN mends[k] : i \in DOMAIN companies' /\ companies'[i].key # NoKey
      BY <1>1, <1>12, <1>15 DEF IInv, Belongs
    <3>4. QED
      BY <1>10, <2>2, <3>1, <3>2, <3>3 DEF IInv, Belongs
  <2>3. T \subseteq {i \in DOMAIN companies' : companies'[i].job = j}
    BY DEF T
  <2>4. QED
    BY <1>5, <1>9, <1>11, <1>15, <2>1, <2>2, <2>3 DEF Belongs
<1>18. CrawledOnce'
  <2>1. ASSUME NEW i \in DOMAIN companies'
        PROVE  LET c == companies'[i] IN
               /\ stage'[c.job] \notin {"idle", "discovery"}
               /\ c.crawls = 0 => c.site = "unseen"
               /\ stage'[c.job] = "crawl" => c.crawls <= 1 /\ (i \in todo'[c.job] => c.crawls = 0)
               /\ stage'[c.job] = "recrawl" /\ i \in todo'[c.job] =>
                    c.crawls <= 1 /\ c.site = "unreachable"
    <3>1. CASE i \in 1 .. n
      BY <1>1, <1>10, <1>12, <1>13, <3>1 DEF IInv, CrawledOnce
    <3>2. CASE \E d \in 1 .. Len(ds) : i = n + d
      BY <1>3, <1>11, <1>14, <3>2
    <3>3. QED
      BY <1>4, <3>1, <3>2
  <2>2. QED
    BY <2>1 DEF CrawledOnce
<1>19. Lookups'
  <2>1. \A k \in DOMAIN contacts : contacts[k].firm \in 1 .. n
    BY <1>1 DEF IInv, Belongs
  <2>2. \A k \in DOMAIN contacts : LET f == contacts[k].firm IN
          /\ companies'[f].job = companies[f].job
          /\ stage'[companies[f].job] = stage[companies[f].job]
          /\ todo'[companies[f].job] = todo[companies[f].job]
    BY <1>10, <1>12, <1>13, <2>1
  <2>3. QED
    BY <1>5, <2>2 DEF IInv, Lookups, Pure, Looked
<1>20. Unique'
  <2>1. SUFFICES ASSUME ~ overlap PROVE Unique'
    BY <1>5 DEF Unique
  <2>2. ASSUME NEW k \in Jobs, k # j PROVE Touched(k)' = Touched(k)
    <3>1. drafts'[k] = drafts[k] /\ mends'[k] = mends[k]
      BY <1>10, <2>2
    <3>2. \A i \in DOMAIN mends[k] : companies'[i].key = companies[i].key
      BY <1>1, <1>12 DEF IInv, Belongs
    <3>3. QED
      BY <3>1, <3>2 DEF Touched
  <2>3. Touched(j)' = {}
    BY <1>9 DEF Touched
  <2>4. \A k, l \in Jobs : k # l => Touched(k)' \cap Touched(l)' \subseteq {NoKey}
    BY <2>1, <2>2, <2>3 DEF IInv, Unique
  <2>5. \A d \in 1 .. Len(ds) : ds[d].key # NoKey =>
          /\ \A b \in 1 .. Len(ds) : d # b => ds[d].key # ds[b].key
          /\ \A b \in 1 .. n : ds[d].key # companies[b].key
          /\ \A k \in Jobs : k # j => \A b \in DOMAIN drafts[k] : drafts[k][b].key # ds[d].key
    <3>1. TAKE d \in 1 .. Len(ds)
    <3>2. HAVE ds[d].key # NoKey
    <3>3. d \in DOMAIN drafts[j] /\ drafts[j][d].key # NoKey
      BY <1>1, <3>2 DEF ds
    <3>4. /\ \A b \in DOMAIN drafts[j] : d # b => drafts[j][d].key # drafts[j][b].key
          /\ \A b \in DOMAIN companies : drafts[j][d].key # companies[b].key
      BY <2>1, <3>3 DEF IInv, Unique
    <3>5. ASSUME NEW k \in Jobs, k # j, NEW b \in DOMAIN drafts[k] PROVE drafts[k][b].key # ds[d].key
      <4>1. drafts[k][b].key \in Touched(k) /\ drafts[j][d].key \in Touched(j)
        BY <3>3 DEF Touched
      <4>2. Touched(j) \cap Touched(k) \subseteq {NoKey}
        BY <2>1, <3>5 DEF IInv, Unique
      <4>3. QED
        BY <3>3, <4>1, <4>2 DEF ds
    <3>6. QED
      BY <1>1, <3>4, <3>5 DEF ds
  <2>6. \A a, b \in 1 .. n : a # b /\ companies'[a].key # NoKey => companies'[a].key # companies'[b].key
    BY <1>1, <1>12, <2>1 DEF IInv, Unique
  <2>7. ASSUME NEW a \in DOMAIN companies', NEW b \in DOMAIN companies', a # b,
               companies'[a].key # NoKey
        PROVE  companies'[a].key # companies'[b].key
    <3>1. CASE a \in 1 .. n /\ b \in 1 .. n
      BY <2>6, <2>7, <3>1
    <3>2. CASE a \in 1 .. n /\ \E d \in 1 .. Len(ds) : b = n + d
      BY <1>3, <1>12, <2>5, <2>7, <3>2
    <3>3. CASE b \in 1 .. n /\ \E d \in 1 .. Len(ds) : a = n + d
      BY <1>3, <1>12, <2>5, <2>7, <3>3
    <3>4. CASE (\E d \in 1 .. Len(ds) : a = n + d) /\ (\E d \in 1 .. Len(ds) : b = n + d)
      BY <1>1, <1>3, <2>5, <2>7, <3>4
    <3>5. QED
      BY <1>4, <3>1, <3>2, <3>3, <3>4
  <2>8. ASSUME NEW k \in Jobs, NEW a \in DOMAIN drafts'[k], drafts'[k][a].key # NoKey
        PROVE  /\ \A b \in DOMAIN drafts'[k] : a # b => drafts'[k][a].key # drafts'[k][b].key
               /\ \A b \in DOMAIN companies' : drafts'[k][a].key # companies'[b].key
    <3>1. k # j /\ drafts'[k] = drafts[k]
      BY <1>9, <1>10, <2>8
    <3>2. \A b \in 1 .. n : drafts[k][a].key # companies'[b].key
      BY <1>1, <1>12, <2>1, <2>8, <3>1 DEF IInv, Unique
    <3>3. \A d \in 1 .. Len(ds) : drafts[k][a].key # companies'[n + d].key
      BY <1>3, <2>5, <2>8, <3>1
    <3>4. \A b \in DOMAIN drafts[k] : a # b => drafts[k][a].key # drafts[k][b].key
      BY <2>1, <2>8, <3>1 DEF IInv, Unique
    <3>5. QED
      BY <1>4, <3>1, <3>2, <3>3, <3>4
  <2>9. QED
    BY <2>4, <2>7, <2>8 DEF Unique
<1>21. Covered'
  <2>1. SUFFICES ASSUME ~ overlap PROVE Covered'
    BY <1>5 DEF Covered
  <2>2. \A i \in DOMAIN companies' : Covers(companies'[i])
    BY <1>3, <1>4, <1>12, <1>14, <2>1
  <2>3. \A k \in Jobs : \A i \in DOMAIN drafts'[k] : Covers(drafts'[k][i])
    BY <1>9, <1>10, <2>1 DEF IInv, Covered
  <2>4. ASSUME NEW k \in Jobs, NEW i \in DOMAIN mends'[k]
        PROVE  /\ Covers(mends'[k][i].now) /\ mends'[k][i].read = companies'[i].posture
               /\ mends'[k][i].now.posture >= mends'[k][i].read
    <3>1. k # j /\ mends'[k] = mends[k]
      BY <1>9, <1>10, <2>4
    <3>2. i \in 1 .. n /\ companies[i].key # NoKey
      BY <1>1, <2>4, <3>1 DEF IInv, Belongs
    <3>3. i \notin DOMAIN mends[j]
      BY <2>1, <2>4, <3>1, <3>2 DEF IInv, Unique, Touched
    <3>4. companies'[i] = companies[i]
      BY <1>12, <3>2, <3>3
    <3>5. QED
      BY <2>1, <2>4, <3>1, <3>4 DEF IInv, Covered
  <2>5. QED
    BY <2>2, <2>3, <2>4 DEF Covered, Covers
<1>22. LicitEvidence'
  <2>1. \A i \in DOMAIN companies' : \A e \in companies'[i].evidence : Licit(e)
    BY <1>3, <1>4, <1>12, <1>14
  <2>2. \A k \in Jobs : /\ \A i \in DOMAIN drafts'[k] : \A e \in drafts'[k][i].evidence : Licit(e)
                        /\ \A i \in DOMAIN mends'[k] : \A e \in mends'[k][i].now.evidence : Licit(e)
    BY <1>9, <1>10 DEF IInv, LicitEvidence
  <2>3. QED
    BY <1>5, <2>1, <2>2 DEF LicitEvidence, Licit
<1>23. QED
  BY <1>16, <1>17, <1>18, <1>19, <1>20, <1>21, <1>22 DEF IInv

-----------------------------------------------------------------------------
(* A site is crawled                                                        *)

LEMMA CrawledRow ==
  ASSUME NEW c \in CompanyType, c.crawls <= 1, NEW gave \in {{}, CrawlSources}
  PROVE  LET d == Crawled(c, gave) IN
         /\ d \in CompanyType
         /\ d.key = c.key /\ d.job = c.job /\ d.posture = c.posture
         /\ d.crawls = c.crawls + 1
         /\ (\A e \in c.evidence : Licit(e)) => \A e \in d.evidence : Licit(e)
         /\ Covers(c) => Covers(d)
<1> DEFINE d  == Crawled(c, gave)
           es == {Evidence(s) : s \in gave}
<1>1. \A e \in es : e \in EvidenceType /\ Licit(e) /\ e.source \notin Src!DiscoverySources
  BY CrawlEvidence
<1>2. c.evidence \cup es \in SUBSET EvidenceType /\ c.crawls + 1 \in 0 .. 2 /\ "ok" \in Sites
  BY <1>1 DEF CompanyType, Sites
<1> HIDE DEF es
<1>3. d = [c EXCEPT !.site = "ok", !.crawls = c.crawls + 1, !.evidence = c.evidence \cup es]
  BY DEF Crawled, es, CompanyType
<1>4. /\ d.key = c.key /\ d.job = c.job /\ d.posture = c.posture
      /\ d.crawls = c.crawls + 1 /\ d.evidence = c.evidence \cup es
  BY <1>3 DEF CompanyType
<1>5. d \in CompanyType
  BY <1>2, <1>3 DEF CompanyType
<1> HIDE DEF d
<1>6. (\A e \in c.evidence : Licit(e)) => \A e \in d.evidence : Licit(e)
  BY <1>1, <1>4
<1>7. Covers(c) => Covers(d)
  BY <1>1, <1>4 DEF Covers
<1>8. QED
  BY <1>4, <1>5, <1>6, <1>7 DEF d

LEMMA RefusedRow ==
  ASSUME NEW c \in CompanyType, c.crawls <= 1, NEW site \in {"blocked", "unreachable"}
  PROVE  LET d == [c EXCEPT !.site = site, !.crawls = @ + 1] IN
         /\ d \in CompanyType
         /\ d.key = c.key /\ d.job = c.job /\ d.posture = c.posture /\ d.evidence = c.evidence
         /\ d.crawls = c.crawls + 1
         /\ Covers(c) => Covers(d)
<1> DEFINE d == [c EXCEPT !.site = site, !.crawls = @ + 1]
<1>1. c.crawls + 1 \in 0 .. 2 /\ site \in Sites
  BY DEF CompanyType, Sites
<1>2. /\ d.key = c.key /\ d.job = c.job /\ d.posture = c.posture /\ d.evidence = c.evidence
      /\ d.crawls = c.crawls + 1
  BY DEF CompanyType
<1>3. d \in CompanyType
  BY <1>1 DEF CompanyType
<1> HIDE DEF d
<1>4. QED
  BY <1>2, <1>3 DEF Covers, d

\* Whatever a crawl of company i made of its row (d) and of the contacts.
CrawlMade(j, i, d) ==
  /\ stage[j] \in {"crawl", "recrawl"} /\ i \in todo[j]
  /\ todo' = [todo EXCEPT ![j] = @ \ {i}]
  /\ UNCHANGED <<config, stage, drafts, mends, runs, overlap>>
  /\ companies' = [companies EXCEPT ![i] = d] /\ Grown(contacts, contacts', i)
  /\ d \in CompanyType /\ d.key = companies[i].key /\ d.job = companies[i].job
  /\ d.posture = companies[i].posture /\ d.crawls = companies[i].crawls + 1
  /\ \A e \in d.evidence : Licit(e)
  /\ Covers(companies[i]) => Covers(d)

LEMMA CrawlKeeps ==
  ASSUME IInv, NEW j \in Jobs, NEW i \in DOMAIN companies, NEW d, CrawlMade(j, i, d)
  PROVE  IInv'
<1> USE DEF CrawlMade
<1>1. /\ DOMAIN companies = 1 .. Len(companies) /\ Len(companies) \in Nat
      /\ DOMAIN contacts = 1 .. Len(contacts) /\ Len(contacts) \in Nat
      /\ companies[i] \in CompanyType
  BY RowNumbers DEF IInv
<1>2. /\ companies' \in Seq(CompanyType) /\ DOMAIN companies' = DOMAIN companies
      /\ \A k \in DOMAIN companies : companies'[k] = IF k = i THEN d ELSE companies[k]
  BY DEF IInv, TypeInv
<1>3. \A k \in DOMAIN companies : /\ companies'[k].key = companies[k].key
                                  /\ companies'[k].job = companies[k].job
                                  /\ companies'[k].posture = companies[k].posture
  BY <1>2
<1>4. /\ todo' \in [Jobs -> SUBSET (Src!SourceNames \cup Nat)]
      /\ \A k \in Jobs : todo'[k] = IF k = j THEN todo[j] \ {i} ELSE todo[k]
  BY DEF IInv, TypeInv
<1>5. \A k \in Jobs : todo'[k] \subseteq todo[k]
  BY <1>4
<1>6. companies[i].job = j
  BY DEF IInv, Belongs
<1>7. /\ contacts' \in Seq(ContactType) /\ Len(contacts') \in Nat /\ Len(contacts) <= Len(contacts')
      /\ DOMAIN contacts' = 1 .. Len(contacts')
  BY DEF Grown
<1>8. \A k \in DOMAIN contacts : contacts'[k].firm = contacts[k].firm
  BY <1>1 DEF Grown, Kept
<1>9. TypeInv'
  BY <1>2, <1>4, <1>7 DEF IInv, TypeInv
<1>10. Belongs'
  <2>1. ASSUME NEW k \in DOMAIN contacts' PROVE contacts'[k].firm \in DOMAIN companies'
    <3>1. CASE k \in DOMAIN contacts
      BY <1>2, <1>8, <3>1 DEF IInv, Belongs
    <3>2. CASE k \notin DOMAIN contacts
      <4>1. k > Len(contacts) /\ k \in 1 .. Len(contacts')
        BY <1>1, <1>7, <3>2
      <4>2. QED
        BY <1>2, <4>1 DEF Grown
    <3>3. QED
      BY <3>1, <3>2
  <2>2. \A k \in Jobs : OfJob(k) \subseteq OfJob(k)'
    <3>1. DOMAIN contacts \subseteq DOMAIN contacts'
      BY <1>1, <1>7
    <3>2. \A k \in DOMAIN contacts : contacts[k].firm \in DOMAIN companies
      BY DEF IInv, Belongs
    <3>3. QED
      BY <1>3, <1>8, <3>1, <3>2 DEF OfJob
  <2>3. ASSUME NEW k \in Jobs
        PROVE  /\ stage'[k] # "discovery" => drafts'[k] = <<>> /\ DOMAIN mends'[k] = {}
               /\ stage'[k] = "discovery" => todo'[k] \subseteq Src!SourceNames
               /\ stage'[k] \in {"crawl", "recrawl"} =>
                    todo'[k] \subseteq {a \in DOMAIN companies' : companies'[a].job = k}
               /\ stage'[k] \in {"enrich", "retry"} => todo'[k] \subseteq OfJob(k)'
               /\ \A a \in DOMAIN drafts'[k] :
                    drafts'[k][a].job = k /\ drafts'[k][a].site = "unseen" /\ drafts'[k][a].crawls = 0
               /\ \A a \in DOMAIN mends'[k] : a \in DOMAIN companies' /\ companies'[a].key # NoKey
    <3>1. {a \in DOMAIN companies' : companies'[a].job = k} = {a \in DOMAIN companies : companies[a].job = k}
      BY <1>2, <1>3
    <3>2. \A a \in DOMAIN mends[k] : a \in DOMAIN companies' /\ companies'[a].key # NoKey
      BY <1>2, <1>3 DEF IInv, Belongs
    <3>3. stage'[k] = stage[k] /\ drafts'[k] = drafts[k] /\ mends'[k] = mends[k]
      OBVIOUS
    <3>4. QED
      BY <1>5, <2>2, <3>1, <3>2, <3>3 DEF IInv, Belongs
  <2>4. QED
    BY <2>1, <2>3 DEF Belongs
<1>11. CrawledOnce'
  <2>1. /\ stage[j] = "crawl" => companies[i].crawls = 0
        /\ stage[j] = "recrawl" => companies[i].crawls <= 1
        /\ companies[i].crawls \in 0 .. 2 /\ d.crawls # 0
    BY <1>1, <1>6 DEF IInv, CrawledOnce, CompanyType
  <2>2. i \notin todo'[j]
    BY <1>4
  <2>3. ASSUME NEW a \in DOMAIN companies'
        PROVE  LET c == companies'[a] IN
               /\ stage'[c.job] \notin {"idle", "discovery"}
               /\ c.crawls = 0 => c.site = "unseen"
               /\ stage'[c.job] = "crawl" => c.crawls <= 1 /\ (a \in todo'[c.job] => c.crawls = 0)
               /\ stage'[c.job] = "recrawl" /\ a \in todo'[c.job] =>
                    c.crawls <= 1 /\ c.site = "unreachable"
    <3>1. CASE a = i
      BY <1>2, <1>6, <2>1, <2>2, <3>1
    <3>2. CASE a # i
      <4>1. companies'[a] = companies[a] /\ companies[a].job \in Jobs /\ stage' = stage
        BY <1>2, <2>3, <3>2, RowNumbers DEF IInv, CompanyType
      <4>2. QED
        BY <1>2, <1>5, <2>3, <4>1 DEF IInv, CrawledOnce
    <3>3. QED
      BY <3>1, <3>2
  <2>4. QED
    BY <2>3 DEF CrawledOnce
<1>12. Unique'
  <2>1. \A k \in Jobs : Touched(k)' = Touched(k)
    BY <1>3 DEF Touched, IInv, Belongs
  <2>2. QED
    BY <1>2, <1>3, <2>1 DEF IInv, Unique
<1>13. Covered'
  <2>1. \A k \in Jobs : \A a \in DOMAIN mends[k] : a \in DOMAIN companies
    BY DEF IInv, Belongs
  <2>2. \A a \in DOMAIN companies' : Covers(companies[a]) => Covers(companies'[a])
    BY <1>2
  <2>3. QED
    BY <1>2, <1>3, <2>1, <2>2 DEF IInv, Covered, Covers
<1>14. LicitEvidence'
  <2>1. \A a \in DOMAIN companies' : \A e \in companies'[a].evidence : Licit(e)
    BY <1>2 DEF IInv, LicitEvidence
  <2>2. QED
    BY <2>1 DEF IInv, LicitEvidence, Licit
<1>15. Lookups'
  <2>1. \A k \in 1 .. Len(contacts') : Pure(contacts'[k])
    BY <1>1 DEF IInv, Lookups, Grown
  <2>2. ASSUME NEW k \in DOMAIN contacts
        PROVE  /\ Looked(contacts'[k]) /\ contacts'[k].lookups = contacts[k].lookups
               /\ contacts'[k].firm = contacts[k].firm /\ contacts'[k].status = contacts[k].status
               /\ contacts[k].firm # i => contacts'[k] = contacts[k]
    BY <1>1 DEF IInv, Lookups, Looked, Grown, Kept
  <2>3. ASSUME NEW k \in DOMAIN contacts', k \notin DOMAIN contacts
        PROVE  contacts'[k].firm = i /\ contacts'[k].lookups = 0 /\ Looked(contacts'[k])
    <3>1. k > Len(contacts) /\ k \in 1 .. Len(contacts')
      BY <1>1, <1>7, <2>3
    <3>2. QED
      BY <3>1 DEF Grown, Looked
  <2>4. ASSUME NEW k \in DOMAIN contacts'
        PROVE  LET c == contacts'[k]
                   l == companies'[c.firm].job
               IN  /\ Pure(c) /\ Looked(c)
                   /\ stage'[l] \in {"crawl", "recrawl"} => c.lookups = 0
                   /\ stage'[l] = "enrich" => c.lookups <= 1
                   /\ stage'[l] = "enrich" /\ k \in todo'[l] => c.lookups = 0 /\ c.email = Nothing
                   /\ stage'[l] = "retry" /\ k \in todo'[l] =>
                        c.lookups <= 1 /\ c.status = "pending" /\ c.email = Nothing
    <3>1. CASE k \notin DOMAIN contacts
      <4>1. companies'[contacts'[k].firm].job = j
        BY <1>3, <1>6, <2>3, <3>1
      <4>2. QED
        BY <1>7, <2>1, <2>3, <3>1, <4>1
    <3>2. CASE k \in DOMAIN contacts /\ contacts[k].firm = i
      <4>1. companies'[contacts'[k].firm].job = j /\ contacts[k].lookups = 0
        BY <1>3, <1>6, <2>2, <3>2 DEF IInv, Lookups
      <4>2. QED
        BY <1>7, <2>1, <2>2, <3>2, <4>1
    <3>3. CASE k \in DOMAIN contacts /\ contacts[k].firm # i
      <4>1. contacts'[k] = contacts[k] /\ contacts[k].firm \in DOMAIN companies
        BY <2>2, <3>3 DEF IInv, Belongs
      <4>2. /\ companies'[contacts[k].firm].job = companies[contacts[k].firm].job
            /\ companies[contacts[k].firm].job \in Jobs
        BY <1>3, <4>1, RowNumbers DEF IInv, CompanyType
      <4>3. QED
        BY <1>5, <3>3, <4>1, <4>2 DEF IInv, Lookups
    <3>4. QED
      BY <3>1, <3>2, <3>3
  <2>5. QED
    BY <2>4 DEF Lookups, Pure, Looked
<1>16. QED
  BY <1>9, <1>10, <1>11, <1>12, <1>13, <1>14, <1>15 DEF IInv

LEMMA CrawlStep ==
  ASSUME IInv, NEW j \in Jobs, NEW i \in DOMAIN companies, NEW pass \in {"crawl", "recrawl"},
         Crawl(j, i, pass)
  PROVE  IInv'
<1>1. /\ stage[j] \in {"crawl", "recrawl"} /\ i \in todo[j]
      /\ todo' = [todo EXCEPT ![j] = @ \ {i}]
      /\ UNCHANGED <<config, stage, drafts, mends, runs, overlap>>
  BY DEF Crawl
<1>2. /\ companies[i] \in CompanyType /\ i \in Nat /\ companies[i].job = j
      /\ companies \in Seq(CompanyType) /\ contacts \in Seq(ContactType)
  BY <1>1, RowNumbers DEF IInv, Belongs, TypeInv
<1>3. companies[i].crawls <= 1 /\ \A e \in companies[i].evidence : Licit(e)
  BY <1>1, <1>2 DEF IInv, CrawledOnce, LicitEvidence, CompanyType
<1>4. CASE \E found \in Found, gave \in {{}, CrawlSources} :
             /\ contacts' = ApplyContacts(contacts, i, found)
             /\ companies' = [companies EXCEPT ![i] = Crawled(@, gave)]
  <2>1. PICK found \in Found, gave \in {{}, CrawlSources} :
             /\ contacts' = ApplyContacts(contacts, i, found)
             /\ companies' = [companies EXCEPT ![i] = Crawled(companies[i], gave)]
    BY <1>4
  <2>2. Grown(contacts, contacts', i)
    BY <1>2, <2>1, ApplyGrows
  <2> DEFINE row == Crawled(companies[i], gave)
  <2>3. PICK d : d = row
    OBVIOUS
  <2>4. companies' = [companies EXCEPT ![i] = d]
    BY <2>1, <2>3
  <2>5. /\ d \in CompanyType /\ d.key = companies[i].key /\ d.job = companies[i].job
        /\ d.posture = companies[i].posture /\ d.crawls = companies[i].crawls + 1
        /\ \A e \in d.evidence : Licit(e)
        /\ Covers(companies[i]) => Covers(d)
    BY <1>2, <1>3, <2>3, CrawledRow
  <2>6. CrawlMade(j, i, d)
    BY <1>1, <2>2, <2>4, <2>5 DEF CrawlMade
  <2>7. QED
    BY <2>6, CrawlKeeps
<1>5. CASE \E site \in {"blocked", "unreachable"} :
             /\ companies' = [companies EXCEPT ![i].site = site, ![i].crawls = @ + 1]
             /\ UNCHANGED contacts
  <2>1. PICK site \in {"blocked", "unreachable"} :
             /\ companies' = [companies EXCEPT ![i].site = site, ![i].crawls = @ + 1]
             /\ UNCHANGED contacts
    BY <1>5
  <2>2. Grown(contacts, contacts', i)
    BY <1>2, <2>1, GrownItself
  <2> DEFINE row == [companies[i] EXCEPT !.site = site, !.crawls = @ + 1]
  <2>3. PICK d : d = row
    OBVIOUS
  <2>4. companies' = [companies EXCEPT ![i] = d]
    BY <1>2, <2>1, <2>3
  <2>5. /\ d \in CompanyType /\ d.key = companies[i].key /\ d.job = companies[i].job
        /\ d.posture = companies[i].posture /\ d.crawls = companies[i].crawls + 1
        /\ d.evidence = companies[i].evidence
        /\ Covers(companies[i]) => Covers(d)
    BY <1>2, <1>3, <2>3, RefusedRow
  <2>6. CrawlMade(j, i, d)
    BY <1>1, <1>3, <2>2, <2>4, <2>5 DEF CrawlMade
  <2>7. QED
    BY <2>6, CrawlKeeps
<1>6. QED
  BY <1>4, <1>5 DEF Crawl

-----------------------------------------------------------------------------
(* From one stage to the next                                               *)

LEMMA StageMoves ==
  ASSUME IInv, NEW j \in Jobs, stage[j] \notin {"idle", "discovery"},
         NEW s \in {"recrawl", "enrich", "retry", "done"},
         NEW T \in SUBSET (Src!SourceNames \cup Nat),
         stage' = [stage EXCEPT ![j] = s], todo' = [todo EXCEPT ![j] = T],
         UNCHANGED <<config, companies, contacts, drafts, mends, runs, overlap>>,
         s = "recrawl" => \A i \in T :
           /\ i \in DOMAIN companies /\ companies[i].job = j
           /\ companies[i].crawls <= 1 /\ companies[i].site = "unreachable",
         s \in {"enrich", "retry"} => T \subseteq OfJob(j),
         \A k \in OfJob(j) : LET c == contacts[k] IN
           /\ s = "recrawl" => c.lookups = 0
           /\ s = "enrich" => c.lookups <= 1 /\ (k \in T => c.lookups = 0 /\ c.email = Nothing)
           /\ s = "retry" /\ k \in T => c.lookups <= 1 /\ c.status = "pending" /\ c.email = Nothing
  PROVE  IInv'
<1>1. /\ stage' \in [Jobs -> StageNames]
      /\ todo' \in [Jobs -> SUBSET (Src!SourceNames \cup Nat)]
      /\ \A k \in Jobs : stage'[k] = IF k = j THEN s ELSE stage[k]
      /\ \A k \in Jobs : todo'[k] = IF k = j THEN T ELSE todo[k]
  <2>1. s \in StageNames
    BY DEF StageNames
  <2>2. QED
    BY <2>1, StageFrame DEF IInv
<1>2. TypeInv'
  BY <1>1 DEF IInv, TypeInv
<1>3. \A k \in Jobs : OfJob(k)' = OfJob(k)
  BY DEF OfJob
<1>4. Belongs'
  <2>1. ASSUME NEW k \in Jobs
        PROVE  /\ stage'[k] # "discovery" => drafts'[k] = <<>> /\ DOMAIN mends'[k] = {}
               /\ stage'[k] = "discovery" => todo'[k] \subseteq Src!SourceNames
               /\ stage'[k] \in {"crawl", "recrawl"} =>
                    todo'[k] \subseteq {a \in DOMAIN companies' : companies'[a].job = k}
               /\ stage'[k] \in {"enrich", "retry"} => todo'[k] \subseteq OfJob(k)'
               /\ \A a \in DOMAIN drafts'[k] :
                    drafts'[k][a].job = k /\ drafts'[k][a].site = "unseen" /\ drafts'[k][a].crawls = 0
               /\ \A a \in DOMAIN mends'[k] : a \in DOMAIN companies' /\ companies'[a].key # NoKey
    <3>1. CASE k = j
      <4>1. drafts[j] = <<>> /\ DOMAIN mends[j] = {} /\ DOMAIN drafts[j] = {}
        BY DEF IInv, Belongs
      <4>2. stage'[j] = s /\ todo'[j] = T
        BY <1>1
      <4>3. s = "recrawl" => T \subseteq {a \in DOMAIN companies' : companies'[a].job = j}
        OBVIOUS
      <4>4. QED
        BY <1>3, <3>1, <4>1, <4>2, <4>3
    <3>2. CASE k # j
      BY <1>1, <1>3, <3>2 DEF IInv, Belongs
    <3>3. QED
      BY <3>1, <3>2
  <2>2. \A k \in DOMAIN contacts' : contacts'[k].firm \in DOMAIN companies'
    BY DEF IInv, Belongs
  <2>3. QED
    BY <2>1, <2>2 DEF Belongs
<1>5. \A i \in DOMAIN companies : companies[i].job \in Jobs
  BY RowNumbers DEF IInv, CompanyType
<1>6. CrawledOnce'
  BY <1>1, <1>5 DEF IInv, CrawledOnce
<1>7. Lookups'
  <2>1. ASSUME NEW k \in DOMAIN contacts
        PROVE  LET c == contacts[k]
                   l == companies[c.firm].job
               IN  /\ Pure(c) /\ Looked(c)
                   /\ stage'[l] \in {"crawl", "recrawl"} => c.lookups = 0
                   /\ stage'[l] = "enrich" => c.lookups <= 1
                   /\ stage'[l] = "enrich" /\ k \in todo'[l] => c.lookups = 0 /\ c.email = Nothing
                   /\ stage'[l] = "retry" /\ k \in todo'[l] =>
                        c.lookups <= 1 /\ c.status = "pending" /\ c.email = Nothing
    <3>1. contacts[k].firm \in DOMAIN companies /\ companies[contacts[k].firm].job \in Jobs
      BY <1>5 DEF IInv, Belongs
    <3>2. CASE companies[contacts[k].firm].job = j
      <4>1. k \in OfJob(j)
        BY <3>2 DEF OfJob
      <4>2. Pure(contacts[k]) /\ Looked(contacts[k])
        BY DEF IInv, Lookups
      <4>3. QED
        BY <1>1, <3>2, <4>1, <4>2
    <3>3. CASE companies[contacts[k].firm].job # j
      BY <1>1, <3>1, <3>3 DEF IInv, Lookups
    <3>4. QED
      BY <3>2, <3>3
  <2>2. QED
    BY <2>1 DEF Lookups, Pure, Looked
<1>8. QED
  BY <1>2, <1>4, <1>6, <1>7, RowsFrame DEF IInv

\* Contacts of a job, and what its stage says of their lookups.
LEMMA OfJobLookups ==
  ASSUME IInv, NEW j \in Jobs, NEW k \in OfJob(j)
  PROVE  /\ k \in Nat /\ contacts[k] \in ContactType
         /\ stage[j] \in {"crawl", "recrawl"} => contacts[k].lookups = 0
         /\ stage[j] = "enrich" => contacts[k].lookups <= 1
<1>1. k \in DOMAIN contacts /\ companies[contacts[k].firm].job = j
  BY DEF OfJob
<1>2. k \in Nat /\ contacts[k] \in ContactType
  BY <1>1, RowNumbers DEF IInv
<1>3. QED
  BY <1>1, <1>2 DEF IInv, Lookups

LEMMA SecondPassStep ==
  ASSUME IInv, NEW j \in Jobs, SecondPass(j)
  PROVE  IInv'
<1>1. \A i \in DOMAIN companies : i \in Nat
  BY RowNumbers DEF IInv
<1>2. Unreached(j) \in SUBSET (Src!SourceNames \cup Nat)
  BY <1>1 DEF Unreached
<1>3. \A i \in Unreached(j) :
        /\ i \in DOMAIN companies /\ companies[i].job = j
        /\ companies[i].crawls <= 1 /\ companies[i].site = "unreachable"
  BY DEF Unreached, SecondPass, IInv, CrawledOnce
<1>4. \A k \in OfJob(j) : contacts[k].lookups = 0
  BY OfJobLookups DEF SecondPass
<1>5. QED
  BY <1>2, <1>3, <1>4, StageMoves DEF SecondPass

LEMMA BeginEnrichmentStep ==
  ASSUME IInv, NEW j \in Jobs, BeginEnrichment(j)
  PROVE  IInv'
<1> DEFINE T == {k \in OfJob(j) : contacts[k].email = Nothing}
<1>1. T \in SUBSET (Src!SourceNames \cup Nat) /\ T \subseteq OfJob(j)
  BY OfJobLookups
<1>2. \A k \in OfJob(j) : contacts[k].lookups = 0
  BY OfJobLookups DEF BeginEnrichment
<1>3. \A k \in T : contacts[k].email = Nothing
  OBVIOUS
<1>4. /\ stage[j] = "recrawl" /\ stage' = [stage EXCEPT ![j] = "enrich"]
      /\ todo' = [todo EXCEPT ![j] = T]
      /\ UNCHANGED <<config, companies, contacts, drafts, mends, runs, overlap>>
  BY DEF BeginEnrichment
<1> HIDE DEF T
<1>5. \A k \in OfJob(j) : contacts[k].lookups <= 1
                          /\ (k \in T => contacts[k].lookups = 0 /\ contacts[k].email = Nothing)
  BY <1>2, <1>3
<1>6. QED
  BY <1>1, <1>4, <1>5, StageMoves

LEMMA RetryDeferredStep ==
  ASSUME IInv, NEW j \in Jobs, RetryDeferred(j)
  PROVE  IInv'
<1>1. /\ Deferred(j) \in SUBSET (Src!SourceNames \cup Nat) /\ Deferred(j) \subseteq OfJob(j)
      /\ \A k \in Deferred(j) : contacts[k].status = "pending" /\ contacts[k].email = Nothing
  BY OfJobLookups DEF Deferred
<1>2. \A k \in OfJob(j) : contacts[k].lookups <= 1
  BY OfJobLookups DEF RetryDeferred
<1>3. /\ stage[j] = "enrich" /\ stage' = [stage EXCEPT ![j] = "retry"]
      /\ todo' = [todo EXCEPT ![j] = Deferred(j)]
      /\ UNCHANGED <<config, companies, contacts, drafts, mends, runs, overlap>>
  BY DEF RetryDeferred
<1>4. QED
  BY <1>1, <1>2, <1>3, StageMoves

LEMMA FinishStep ==
  ASSUME IInv, NEW j \in Jobs, Finish(j)
  PROVE  IInv'
<1>1. todo' = [todo EXCEPT ![j] = {}]
  BY DEF Finish, IInv, TypeInv
<1>2. /\ stage[j] = "retry" /\ stage' = [stage EXCEPT ![j] = "done"]
      /\ UNCHANGED <<config, companies, contacts, drafts, mends, runs, overlap>>
  BY DEF Finish
<1>3. QED
  BY <1>1, <1>2, StageMoves

-----------------------------------------------------------------------------
(* A contact is enriched                                                    *)

\* What a lookup leaves of a contact that has no address and was not looked up before,
\* or only while throttled.
LookedUp(c, d) ==
  /\ d \in ContactType /\ d.firm = c.firm /\ Looked(d) /\ Pure(d)
  /\ d.lookups <= c.lookups + 1

LEMMA EnrichedRow ==
  ASSUME NEW c \in ContactType, Pure(c), Looked(c), c.email = Nothing, c.lookups <= 1,
         c.lookups = 0 \/ c.status = "pending", c.name # Nothing
  PROVE  /\ LookedUp(c, Throttled(c))
         /\ \A email \in Inboxes \cup {Nothing} : LookedUp(c, Answered(c, email))
<1>1. c.throttled = c.lookups /\ c.lookups \in Nat /\ c.throttled \in Nat
  BY DEF Looked, ContactType
<1>2. c.candidates = {}
  BY DEF Pure
<1>3. LookedUp(c, Throttled(c))
  <2> DEFINE d == Throttled(c)
  <2>1. /\ d.firm = c.firm /\ d.name = c.name /\ d.email = c.email /\ d.candidates = c.candidates
        /\ d.status = "pending" /\ d.lookups = c.lookups + 1 /\ d.throttled = c.throttled + 1
    BY DEF Throttled, ContactType
  <2>2. d \in ContactType
    <3>1. c.lookups + 1 \in Nat /\ c.throttled + 1 \in Nat
      BY <1>1
    <3>2. d = [c EXCEPT !.status = "pending", !.throttled = c.throttled + 1, !.lookups = c.lookups + 1]
      BY DEF Throttled, ContactType
    <3> HIDE DEF d
    <3>3. QED
      BY <3>1, <3>2 DEF ContactType
  <2> HIDE DEF d
  <2>3. Looked(d) /\ Pure(d)
    BY <1>1, <1>2, <2>1 DEF Looked, Pure
  <2>4. QED
    BY <1>1, <2>1, <2>2, <2>3 DEF LookedUp, d
<1>4. ASSUME NEW email \in Inboxes \cup {Nothing} PROVE LookedUp(c, Answered(c, email))
  <2> DEFINE d == Answered(c, email)
  <2>1. CASE email = Nothing
    <3>1. /\ d.firm = c.firm /\ d.name = c.name /\ d.email = c.email /\ d.candidates = c.candidates
          /\ d.status = "no_result" /\ d.lookups = c.lookups + 1 /\ d.throttled = c.throttled
      BY <2>1 DEF Answered, ContactType
    <3>2. d \in ContactType
      <4>1. c.lookups + 1 \in Nat
        BY <1>1
      <4>2. d = [c EXCEPT !.status = "no_result", !.lookups = c.lookups + 1]
        BY <2>1 DEF Answered, ContactType
      <4> HIDE DEF d
      <4>3. QED
        BY <4>1, <4>2 DEF ContactType
    <3> HIDE DEF d
    <3>3. Looked(d) /\ Pure(d)
      BY <1>1, <1>2, <3>1 DEF Looked, Pure
    <3>4. QED
      BY <1>1, <3>1, <3>2, <3>3 DEF LookedUp, d
  <2>2. CASE email # Nothing
    <3>1. /\ d.firm = c.firm /\ d.name = c.name /\ d.email = email
          /\ d.candidates = c.candidates \cup {email}
          /\ d.status = "enriched" /\ d.lookups = c.lookups + 1 /\ d.throttled = c.throttled
      BY <2>2 DEF Answered, ContactType
    <3>2. c.candidates \cup {email} \in SUBSET Inboxes
      BY <2>2 DEF ContactType
    <3>3. d \in ContactType
      <4>1. c.lookups + 1 \in Nat
        BY <1>1
      <4>2. d = [c EXCEPT !.email = email, !.candidates = c.candidates \cup {email},
                          !.status = "enriched", !.lookups = c.lookups + 1]
        BY <2>2 DEF Answered, ContactType
      <4> HIDE DEF d
      <4>3. QED
        BY <3>2, <4>1, <4>2 DEF ContactType
    <3> HIDE DEF d
    <3>4. Looked(d) /\ Pure(d)
      BY <1>1, <1>2, <2>2, <3>1 DEF Looked, Pure
    <3>5. QED
      BY <1>1, <3>1, <3>3, <3>4 DEF LookedUp, d
  <2>3. QED
    BY <2>1, <2>2
<1>5. QED
  BY <1>3, <1>4

\* Whatever the enrichment of contact k made of its row (d).
EnrichMade(j, k, d) ==
  /\ stage[j] \in {"enrich", "retry"} /\ k \in todo[j]
  /\ todo' = [todo EXCEPT ![j] = @ \ {k}]
  /\ UNCHANGED <<config, companies, stage, drafts, mends, runs, overlap>>
  /\ contacts' = [contacts EXCEPT ![k] = d] /\ LookedUp(contacts[k], d)

LEMMA EnrichKeeps ==
  ASSUME IInv, NEW j \in Jobs, NEW k \in DOMAIN contacts, NEW d, EnrichMade(j, k, d)
  PROVE  IInv'
<1> USE DEF EnrichMade
<1>1. DOMAIN contacts = 1 .. Len(contacts) /\ contacts[k] \in ContactType
  BY RowNumbers DEF IInv
<1>2. /\ contacts' \in Seq(ContactType) /\ DOMAIN contacts' = DOMAIN contacts
      /\ \A l \in DOMAIN contacts : contacts'[l] = IF l = k THEN d ELSE contacts[l]
  BY DEF IInv, TypeInv, LookedUp
<1>3. \A l \in DOMAIN contacts : contacts'[l].firm = contacts[l].firm
  BY <1>2 DEF LookedUp
<1>4. /\ todo' \in [Jobs -> SUBSET (Src!SourceNames \cup Nat)]
      /\ \A l \in Jobs : todo'[l] = IF l = j THEN todo[j] \ {k} ELSE todo[l]
  BY DEF IInv, TypeInv
<1>5. \A l \in Jobs : todo'[l] \subseteq todo[l]
  BY <1>4
<1>6. \A l \in Jobs : OfJob(l)' = OfJob(l)
  BY <1>2, <1>3 DEF OfJob
<1>7. TypeInv'
  BY <1>2, <1>4 DEF IInv, TypeInv
<1>8. Belongs'
  <2>1. \A l \in DOMAIN contacts' : contacts'[l].firm \in DOMAIN companies'
    BY <1>2, <1>3 DEF IInv, Belongs
  <2>2. QED
    BY <1>5, <1>6, <2>1 DEF IInv, Belongs
<1>9. \A i \in DOMAIN companies : companies[i].job \in Jobs
  BY RowNumbers DEF IInv, CompanyType
<1>10. CrawledOnce'
  BY <1>5, <1>9 DEF IInv, CrawledOnce
<1>11. Lookups'
  <2>1. ASSUME NEW l \in DOMAIN contacts'
        PROVE  LET c == contacts'[l]
                   o == companies[c.firm].job
               IN  /\ Pure(c) /\ Looked(c)
                   /\ stage[o] \in {"crawl", "recrawl"} => c.lookups = 0
                   /\ stage[o] = "enrich" => c.lookups <= 1
                   /\ stage[o] = "enrich" /\ l \in todo'[o] => c.lookups = 0 /\ c.email = Nothing
                   /\ stage[o] = "retry" /\ l \in todo'[o] =>
                        c.lookups <= 1 /\ c.status = "pending" /\ c.email = Nothing
    <3>1. CASE l = k
      <4>1. companies[contacts[k].firm].job = j
        BY DEF IInv, Belongs, OfJob
      <4>2. stage[j] = "enrich" => contacts[k].lookups = 0
        BY <4>1 DEF IInv, Lookups
      <4>3. k \notin todo'[j] /\ contacts'[k] = d /\ d.firm = contacts[k].firm
        BY <1>2, <1>4 DEF LookedUp
      <4>4. Pure(d) /\ Looked(d) /\ d.lookups <= contacts[k].lookups + 1 /\ d.lookups \in Nat
        BY DEF LookedUp, ContactType
      <4>5. QED
        BY <3>1, <4>1, <4>2, <4>3, <4>4
    <3>2. CASE l # k
      <4>1. contacts'[l] = contacts[l] /\ l \in DOMAIN contacts
        BY <1>2, <2>1, <3>2
      <4>2. companies[contacts[l].firm].job \in Jobs
        BY <1>9, <4>1 DEF IInv, Belongs
      <4>3. QED
        BY <1>5, <4>1, <4>2 DEF IInv, Lookups
    <3>3. QED
      BY <3>1, <3>2
  <2>2. QED
    BY <2>1 DEF Lookups, Pure, Looked
<1>12. QED
  BY <1>7, <1>8, <1>10, <1>11, RowsFrame DEF IInv

LEMMA EnrichStep ==
  ASSUME IInv, NEW j \in Jobs, NEW k \in DOMAIN contacts, NEW pass \in {"enrich", "retry"},
         Enrich(j, k, pass)
  PROVE  IInv'
<1>1. /\ stage[j] \in {"enrich", "retry"} /\ k \in todo[j]
      /\ todo' = [todo EXCEPT ![j] = @ \ {k}]
      /\ UNCHANGED <<config, companies, stage, drafts, mends, runs, overlap>>
  BY DEF Enrich
<1>2. contacts[k] \in ContactType /\ companies[contacts[k].firm].job = j
  BY <1>1, RowNumbers DEF IInv, Belongs, OfJob
<1>3. /\ Pure(contacts[k]) /\ Looked(contacts[k]) /\ contacts[k].email = Nothing
      /\ contacts[k].lookups <= 1 /\ (contacts[k].lookups = 0 \/ contacts[k].status = "pending")
  BY <1>1, <1>2 DEF IInv, Lookups
<1>4. \E d : contacts' = [contacts EXCEPT ![k] = d] /\ LookedUp(contacts[k], d)
  <2>1. CASE contacts[k].name = Nothing /\ contacts' = [contacts EXCEPT ![k].status = "not_needed"]
    <3> DEFINE d == [contacts[k] EXCEPT !.status = "not_needed"]
    <3>1. /\ d.firm = contacts[k].firm /\ d.name = contacts[k].name /\ d.email = contacts[k].email
          /\ d.candidates = contacts[k].candidates /\ d.status = "not_needed"
          /\ d.lookups = contacts[k].lookups /\ d.throttled = contacts[k].throttled
      BY <1>2 DEF ContactType
    <3>2. d \in ContactType /\ contacts' = [contacts EXCEPT ![k] = d]
      BY <1>2, <2>1 DEF ContactType
    <3>3. contacts[k].lookups = 0 /\ contacts[k].throttled \in Nat /\ contacts[k].throttled <= 0
      BY <1>2, <1>3, <2>1 DEF Looked, ContactType
    <3> HIDE DEF d
    <3>4. Looked(d) /\ Pure(d)
      BY <1>3, <3>1, <3>3 DEF Looked, Pure
    <3>5. LookedUp(contacts[k], d)
      BY <3>1, <3>2, <3>3, <3>4 DEF LookedUp
    <3>6. QED
      BY <3>2, <3>5
  <2>2. CASE contacts[k].name # Nothing /\ contacts' = [contacts EXCEPT ![k] = Throttled(@)]
    BY <1>2, <1>3, <2>2, EnrichedRow
  <2>3. CASE contacts[k].name # Nothing /\ \E email \in Inboxes \cup {Nothing} :
               contacts' = [contacts EXCEPT ![k] = Answered(@, email)]
    BY <1>2, <1>3, <2>3, EnrichedRow
  <2>4. QED
    BY <2>1, <2>2, <2>3 DEF Enrich
<1>5. PICK d : contacts' = [contacts EXCEPT ![k] = d] /\ LookedUp(contacts[k], d)
  BY <1>4
<1>6. EnrichMade(j, k, d)
  BY <1>1, <1>5 DEF EnrichMade
<1>7. QED
  BY <1>6, EnrichKeeps

-----------------------------------------------------------------------------
(* Every step                                                               *)

LEMMA NextIInv ==
  ASSUME IInv, [Next]_vars
  PROVE  IInv'
<1>1. CASE UNCHANGED vars
  <2>1. UNCHANGED <<config, companies, contacts, stage, todo, drafts, mends, runs, overlap>>
    BY <1>1 DEF vars
  <2>2. \A j \in Jobs : OfJob(j)' = OfJob(j)
    BY <2>1 DEF OfJob
  <2>3. TypeInv' /\ CrawledOnce'
    BY <2>1 DEF IInv, TypeInv, CrawledOnce
  <2>4. Belongs'
    BY <2>1, <2>2 DEF IInv, Belongs
  <2>5. Lookups'
    BY <2>1 DEF IInv, Lookups, Pure, Looked
  <2>6. QED
    BY <2>1, <2>3, <2>4, <2>5, RowsFrame DEF IInv
<1>2. CASE Next
  <2>1. PICK j \in Jobs : Discovery(j) \/ Extraction(j) \/ Enrichment(j)
    BY <1>2 DEF Next
  <2>2. CASE Discovery(j)
    BY <2>2, BeginDiscoveryStep, CommitDiscoveryStep, SourceDoneStep, SourceRaisesStep,
      RunSourceStep DEF Discovery
  <2>3. CASE Extraction(j)
    BY <2>3, CrawlStep, SecondPassStep DEF Extraction
  <2>4. CASE Enrichment(j)
    BY <2>4, BeginEnrichmentStep, RetryDeferredStep, FinishStep, EnrichStep DEF Enrichment
  <2>5. QED
    BY <2>1, <2>2, <2>3, <2>4
<1>3. QED
  BY <1>1, <1>2

LEMMA Invariance == Spec => []IInv
<1>1. Init => IInv
  BY InitIInv
<1>2. IInv /\ [Next]_vars => IInv'
  BY NextIInv
<1>3. QED
  BY <1>1, <1>2, PTL DEF Spec

-----------------------------------------------------------------------------
(* Theorems                                                                 *)

LEMMA IInvMixUps ==
  ASSUME IInv
  PROVE  NoMixUps
<1>1. TypeOK
  <2>1. \A i \in DOMAIN companies :
          /\ companies[i].key \in Firms \cup {NoKey} /\ companies[i].job \in Jobs
          /\ companies[i].site \in Sites /\ companies[i].crawls \in 0 .. 2
    BY RowNumbers DEF IInv, CompanyType
  <2>2. \A k \in DOMAIN contacts :
          /\ contacts[k].firm \in DOMAIN companies
          /\ contacts[k].name \in People \cup {Nothing}
          /\ contacts[k].email \in Inboxes \cup {Nothing}
          /\ contacts[k].candidates \subseteq Inboxes
          /\ contacts[k].status \in {"not_needed", "pending", "enriched", "no_result"}
    BY RowNumbers DEF IInv, ContactType, Belongs
  <2>3. QED
    BY <2>1, <2>2 DEF IInv, TypeInv, TypeOK
<1>2. OneRowPerKey
  BY DEF IInv, Unique, OneRowPerKey
<1>3. OneCandidate
  <2>1. ASSUME NEW k \in DOMAIN contacts PROVE Cardinality(contacts[k].candidates) <= 1
    <3>1. contacts[k].candidates \subseteq {contacts[k].email}
      BY DEF IInv, Lookups, Pure
    <3>2. contacts[k].candidates = {} \/ contacts[k].candidates = {contacts[k].email}
      BY <3>1
    <3>3. Cardinality({}) = 0 /\ Cardinality({contacts[k].email}) = 1
      BY FS_EmptySet, FS_Singleton
    <3>4. QED
      BY <3>2, <3>3
  <2>2. QED
    BY <2>1 DEF OneCandidate
<1>4. QED
  BY <1>1, <1>2, <1>3 DEF NoMixUps

LEMMA IInvEvidence ==
  ASSUME IInv
  PROVE  EvidenceIsLicit
<1>1. PostureCoversDiscovery
  BY DEF IInv, Covered, Covers, PostureCoversDiscovery
<1>2. GatedLeavesNoTrace /\ NoInventedCompanies
  BY DEF IInv, LicitEvidence, Licit, GatedLeavesNoTrace, NoInventedCompanies
<1>3. QED
  BY <1>1, <1>2 DEF EvidenceIsLicit

\* A company has one row however often it is sighted, and a contact only addresses seen
\* for it (_upsert_company, _apply_contacts), unless two discoveries of the same company
\* ran at once.
THEOREM OneRowOnePerson == Spec => []NoMixUps
  BY Invariance, IInvMixUps, PTL

\* Evidence comes from sources that may run, with the driver their mode says, and a
\* company's posture is not better than a source it was discovered in.
THEOREM LawfulEvidence == Spec => []EvidenceIsLicit
  BY Invariance, IInvEvidence, PTL

\* Throttling is never recorded as "no data" (run_enrichment).
THEOREM ThrottledIsDeferred == Spec => []ThrottledStaysPending
<1>1. IInv => ThrottledStaysPending
  BY DEF IInv, Lookups, Looked, ThrottledStaysPending
<1>2. QED
  BY <1>1, Invariance, PTL

\* At most one lookup of a contact is answered, and at most two are made.
THEOREM LookupsArePaid == Spec => []OneAnswerPaid
<1>1. IInv => OneAnswerPaid
  BY DEF IInv, Lookups, Looked, OneAnswerPaid
<1>2. QED
  BY <1>1, Invariance, PTL

\* The second pass leaves a site alone that refused the crawler (a blocked one is not
\* among the unreachable ones it asks again).
THEOREM RefusalsAreHeard == Spec => RefusalRespected
<1> DEFINE P == \A i \in DOMAIN companies :
                  companies[i].site = "blocked" => companies'[i].crawls = companies[i].crawls
<1>1. ASSUME IInv, [Next]_vars PROVE P
  <2>1. ASSUME NEW i \in DOMAIN companies, companies[i].site = "blocked"
        PROVE  companies'[i].crawls = companies[i].crawls
    <3>1. CASE companies' = companies
      BY <3>1
    <3>2. CASE \E j \in Jobs : CommitDiscovery(j)
      <4>1. PICK j \in Jobs : CommitDiscovery(j)
        BY <3>2
      <4>2. companies' = [a \in DOMAIN companies |-> Merged(j, a)] \o drafts[j]
        BY <4>1 DEF CommitDiscovery
      <4> DEFINE rs == [a \in DOMAIN companies |-> Merged(j, a)]
      <4>3. /\ DOMAIN companies = 1 .. Len(companies) /\ Len(companies) \in Nat
            /\ \A a \in DOMAIN companies : rs[a] = Merged(j, a) /\ rs[a] \in CompanyType
        BY <1>1, RowNumbers, MergedRow DEF IInv
      <4>4. rs \in Seq(CompanyType) /\ Len(rs) = Len(companies) /\ drafts[j] \in Seq(CompanyType)
        <5>1. rs \in [1 .. Len(companies) -> CompanyType]
          BY <4>3
        <5>2. QED
          BY <1>1, <4>3, <5>1 DEF IInv, TypeInv
      <4>5. companies'[i] = Merged(j, i)
        <5> HIDE DEF rs
        <5>1. (rs \o drafts[j])[i] = rs[i]
          BY <2>1, <4>3, <4>4
        <5>2. companies' = rs \o drafts[j]
          BY <4>2 DEF rs
        <5>3. QED
          BY <2>1, <4>3, <5>1, <5>2
      <4>6. QED
        BY <1>1, <2>1, <4>5, MergedRow
    <3>3. CASE \E j \in Jobs, a \in DOMAIN companies, pass \in {"crawl", "recrawl"} : Crawl(j, a, pass)
      <4>1. PICK j \in Jobs, a \in DOMAIN companies, pass \in {"crawl", "recrawl"} : Crawl(j, a, pass)
        BY <3>3
      <4>2. a # i
        <5>1. companies[a].job = j /\ stage[j] = pass /\ a \in todo[j]
          BY <1>1, <4>1 DEF Crawl, IInv, Belongs
        <5>2. companies[a].site \in {"unseen", "unreachable"}
          BY <1>1, <5>1 DEF IInv, CrawledOnce
        <5>3. QED
          BY <2>1, <5>2
      <4>3. companies'[i] = companies[i]
        BY <2>1, <4>1, <4>2 DEF Crawl
      <4>4. QED
        BY <4>3
    <3>4. QED
      BY <1>1, <3>1, <3>2, <3>3 DEF Next, vars, Discovery, Extraction, Enrichment,
        BeginDiscovery, SkipSource, FinishSource, SourceRaises, RunSource, SecondPass,
        BeginEnrichment, RetryDeferred, Finish, Enrich
  <2>2. QED
    BY <2>1
<1>2. QED
  BY <1>1, Invariance, PTL DEF Spec, RefusalRespected
==============================================================================
