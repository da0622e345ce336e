--------------------------------- MODULE Crawl ---------------------------------
(***************************************************************************)
(* The crawl of one firm's website: its address is tried in a few variants *)
(* under a retry ladder, robots.txt is asked of each variant's host and    *)
(* cached, and from the first page that answers the crawl follows the best *)
(* links of the same registrable domain within a budget of pages and time. *)
(* A page may redirect, to any page of any host.  A hard failure or a thin *)
(* page may be tried once more in a browser, which has a budget per job.   *)
(*                                                                         *)
(* Page 0 is the home page; a page with a lower number scores higher, one  *)
(* in Dull scores nothing.  HostOf[p] = "site" is the host of the home     *)
(* page that answered.                                                     *)
(***************************************************************************)
EXTENDS Integers, Sequences, SequencesExt, FiniteSetsExt

CONSTANTS
  Pages, Dull, HostOf,
  Variants,     \* hosts of the home page's variants, in the order they are tried
  Rules,        \* robots rules of the world: host -> pages it disallows
  Redirections, \* redirects of the world: page -> sequence of [page, host]
  MaxRedirects, \* redirects a request follows (5)
  MaxPages, Attempts, BrowserBudget

CrawlAssumption ==
  /\ Pages \subseteq Nat \ {0} /\ Dull \subseteq Pages /\ Variants # <<>>
  /\ \A r \in Rules : Variants \in Seq(DOMAIN r)
  /\ {MaxPages, Attempts} \subseteq Nat \ {0} /\ {BrowserBudget, MaxRedirects} \subseteq Nat

VARIABLES
  rules,      \* what each host's robots.txt disallows
  robots,     \* the 24 h cache: "unknown", "open" or "rules", by host
  at,         \* "robots", "fetch", "pick" or "done"
  variant,    \* the variant being tried, later the one that answered
  fetch,      \* the fetch in progress: [page, how, left, kind]
  fetched,    \* pages_fetched
  late,       \* is the time budget spent
  frontier, visited, queue,
  browser,    \* browser attempts the job has left
  asked,      \* requests for pages: [page, host, by], by the "loop" or a "redirect"
  again,      \* was a page fetched again
  status,     \* website_status
  moved       \* where each page redirects to

vars == <<rules, robots, at, variant, fetch, fetched, late, frontier, visited, queue,
          browser, asked, again, status, moved>>

NoFetch   == [page |-> 0, how |-> "none", left |-> 0, kind |-> "none"]
Transient == {"ssl", "dns", "timeout", "forbidden", "busy"}
Clearable == {"forbidden", "busy"}
Kinds     == {"ok", "thin", "gone"} \cup Transient

Host(p) == IF p = 0 \/ HostOf[p] = "site" THEN Variants[variant] ELSE HostOf[p]

Init ==
  /\ rules \in Rules /\ robots = [h \in DOMAIN rules |-> "unknown"]
  /\ at = "robots" /\ variant = 1 /\ fetch = NoFetch /\ fetched = 0 /\ late = FALSE
  /\ frontier = {} /\ visited = {} /\ queue = <<>> /\ browser = BrowserBudget
  /\ asked = {} /\ again = FALSE /\ status = "ok" /\ moved \in Redirections

world == <<rules, late, moved>>
site  == <<frontier, visited, queue>>

-----------------------------------------------------------------------------
(* robots.txt                                                               *)

\* Mutant of Allowed: the policy is asked for the home page alone.
HomeAllowed(p) == p # 0 \/ robots[Variants[variant]] # "rules" \/ 0 \notin rules[Variants[variant]]

\* The policy is that of the home page's host, whatever host the page is on; a
\* file that could not be fetched allows all.
Allowed(p) == robots[Variants[variant]] # "rules" \/ p \notin rules[Variants[variant]]

\* The ladder starts on the variant's home page: in full for the first one.
StartFetch(p, attempts) ==
  fetch' = [page |-> p, how |-> "http", left |-> attempts, kind |-> "none"]

\* fetch_robots: from the cache, or fetched; an error is cached as no rules.
FetchRobots ==
  /\ at = "robots"
  /\ LET h == Variants[variant]
     IN  \E got \in {"open", "rules"} :
           /\ robots' = IF robots[h] = "unknown" THEN [robots EXCEPT ![h] = got] ELSE robots
           /\ IF robots'[h] = "rules" /\ 0 \in rules[h]
              THEN at' = "done" /\ status' = "unreachable" /\ UNCHANGED fetch
              ELSE at' = "fetch" /\ StartFetch(0, IF variant = 1 THEN Attempts ELSE 1)
                   /\ UNCHANGED status
  /\ UNCHANGED <<world, variant, fetched, site, browser, asked, again>>

-----------------------------------------------------------------------------
(* One fetch: the ladder, the unverified retry, the browser                 *)

\* Links of a fetched page that are new; same-domain filter and schemes are in
\* what Pages stands for.
Best(links, n) == {p \in links : Cardinality({q \in links : q < p}) < n} \ Dull

Ordered(ps) == SetToSortSeq(ps, <)

\* The queue is topped up from the best links, as many as pages are left.
TopUp(links) ==
  queue \o Ordered(Best(links, Max({0, MaxPages - fetched - 1})) \ ToSet(queue))

\* A page came back: parsed, its links fed to the frontier and the queue.
PageIn(p, links) ==
  LET open == (frontier \cup links) \ (visited \cup {p})
  IN  /\ visited' = visited \cup {p} /\ frontier' = open
      /\ queue' = TopUp(open)
      /\ at' = "pick" /\ UNCHANGED <<variant, status>>

\* A fetch failed for good.  A home page lost to DNS has its next variant tried;
\* a sub-page is just lost.
PageLost(p, kind) ==
  IF p # 0
  THEN /\ visited' = visited \cup {p} /\ frontier' = frontier \ {p}
       /\ at' = "pick" /\ UNCHANGED <<queue, variant, status>>
  ELSE /\ IF kind = "dns" /\ variant < Len(Variants)
          THEN at' = "robots" /\ variant' = variant + 1 /\ UNCHANGED status
          ELSE /\ at' = "done" /\ UNCHANGED variant
               /\ status' = IF kind = "forbidden" THEN "blocked" ELSE "unreachable"
       /\ UNCHANGED site

\* The fetch is over: it counts against the budget whatever came of it.
Finish(ok, kind) ==
  /\ fetched' = fetched + 1 /\ fetch' = NoFetch
  /\ IF ok THEN \E links \in SUBSET Pages : PageIn(fetch.page, links)
           ELSE PageLost(fetch.page, kind)

\* A thin page, or a block a browser may clear, goes to the browser if the job has
\* attempts left; asking takes one.
Browse(kind) ==
  /\ browser > 0 /\ browser' = browser - 1
  /\ fetch' = [fetch EXCEPT !.how = "browser", !.kind = kind]
  /\ UNCHANGED <<at, variant, fetched, site, status>>

Settle(ok, kind) ==
  IF browser > 0 /\ (kind \in Clearable \cup {"thin"}) THEN Browse(kind)
  ELSE Finish(ok, kind) /\ UNCHANGED browser

Retry ==
  /\ fetch' = [fetch EXCEPT !.how = "http", !.left = @ - 1]
  /\ UNCHANGED <<at, variant, fetched, site, browser, status>>

\* The page is requested, and after it the first n pages it redirects through: nobody
\* asks the policy about them.
Request(n) ==
  LET hops == moved[fetch.page]
  IN  asked' = asked \cup {[page |-> fetch.page, host |-> Host(fetch.page), by |-> "loop"]}
                     \cup {[page |-> hops[i].page, host |-> hops[i].host, by |-> "redirect"] : i \in 1 .. n}

\* Redirects are followed up to a limit, and too many count as a failed connection;
\* only the last page's answer is one.
Followed == Min({Len(moved[fetch.page]), MaxRedirects})
Answered(n) == n = Len(moved[fetch.page])

Http ==
  /\ at = "fetch" /\ fetch.how = "http"
  /\ \E n \in 0 .. Followed, kind \in Kinds :
       /\ Request(n)
       /\ ~ Answered(n) => kind \in {"ssl", "dns", "timeout"}
       /\ CASE kind \in {"ok", "thin"} -> Settle(TRUE, kind)
            [] kind = "ssl" -> /\ fetch' = [fetch EXCEPT !.how = "insecure"]
                               /\ UNCHANGED <<at, variant, fetched, site, browser, status>>
            [] kind \in Transient \ {"ssl"} /\ fetch.left > 1 -> Retry
            [] OTHER -> Settle(FALSE, kind)
  /\ UNCHANGED <<world, robots, again>>

\* The one shot without certificate verification.
Insecure ==
  /\ at = "fetch" /\ fetch.how = "insecure"
  /\ \E n \in 0 .. Followed, kind \in {"ok", "thin", "gone"} :
       /\ Request(n)
       /\ ~ Answered(n) => kind = "gone"
       /\ CASE kind # "gone"   -> Settle(TRUE, kind)
            [] kind = "gone" /\ fetch.left > 1 -> Retry
            [] OTHER           -> Settle(FALSE, "ssl")
  /\ UNCHANGED <<world, robots, again>>

\* The browser, which follows redirects as well: what it gets replaces a block; a thin
\* page stands in any case.
Browser ==
  /\ at = "fetch" /\ fetch.how = "browser"
  /\ \E n \in 0 .. Len(moved[fetch.page]), ok \in BOOLEAN :
       /\ Request(n)
       /\ ok => Answered(n)
       /\ Finish(ok \/ fetch.kind = "thin", fetch.kind)
  /\ UNCHANGED <<world, robots, browser, again>>

-----------------------------------------------------------------------------
(* The loop over the queue                                                  *)

Pick ==
  /\ at = "pick" /\ queue # <<>> /\ fetched < MaxPages /\ ~ late
  /\ LET p == Head(queue)
     IN  IF p \in visited
         THEN queue' = Tail(queue) /\ UNCHANGED <<at, fetch, frontier, visited, again>>
         ELSE IF ~ Allowed(p)
         THEN /\ queue' = Tail(queue) /\ visited' = visited \cup {p} /\ frontier' = frontier \ {p}
              /\ UNCHANGED <<at, fetch, again>>
         ELSE /\ queue' = Tail(queue) /\ at' = "fetch" /\ StartFetch(p, 1)
              /\ again' = (again \/ \E r \in asked : r.page = p /\ r.by = "loop")
              /\ UNCHANGED <<frontier, visited>>
  /\ UNCHANGED <<world, robots, variant, fetched, browser, asked, status>>

Stop ==
  /\ at = "pick" /\ (queue = <<>> \/ fetched >= MaxPages \/ late)
  /\ at' = "done"
  /\ UNCHANGED <<world, robots, variant, fetch, fetched, site, browser, asked, again, status>>

\* An exception ends the crawl; what was fetched is kept.
Fails ==
  /\ at # "done" /\ at' = "done"
  /\ status' = IF 0 \in visited THEN status ELSE "unreachable"
  /\ UNCHANGED <<world, robots, variant, fetch, fetched, site, browser, asked, again>>

TimeUp == at # "done" /\ ~ late /\ late' = TRUE
          /\ UNCHANGED <<rules, moved, robots, at, variant, fetch, fetched, site, browser, asked,
                         again, status>>

Next == FetchRobots \/ Http \/ Insecure \/ Browser \/ Pick \/ Stop \/ Fails \/ TimeUp

Spec == Init /\ [][Next]_vars

-----------------------------------------------------------------------------
(* Properties                                                               *)

\* Whatever fails and is tried again: the crawl itself requests no page that the site's
\* own robots.txt (when it could be read) forbids, and none twice, the page budget holds
\* but for the probes of the address, and "ok" means the home page was seen.  Pages that
\* a page redirects to are requested unasked: see RobotsHonored.
PoliteCrawl ==
  /\ \A r \in asked : (r.by = "loop" /\ r.host = Host(0) /\ robots[r.host] = "rules")
                        => r.page \notin rules[r.host]
  /\ ~ again
  /\ fetched <= Max({MaxPages, Len(Variants)})
  /\ (at = "done" /\ status = "ok") => 0 \in visited

\* README: "the website crawler respects robots directives".  robots.txt is honoured for
\* every page that is requested; neither redirects nor other hosts of the domain are.
RobotsHonored ==
  \A r \in asked : r.page \notin rules[r.host] \/ robots[r.host] = "open"
=============================================================================
