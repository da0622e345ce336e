---------------------------------- MODULE Pool ---------------------------------
(***************************************************************************)
(* The pool of variables that the parts of the program are given, and the  *)
(* parts whose invariants are proved with it.  A constant that means       *)
(* another thing in another part has the part's name in front of it; the   *)
(* parts' modules say what each is.                                        *)
(***************************************************************************)
EXTENDS Integers, Sequences

CONSTANTS
  \* Validation rules
  Admins, Patches, Emails, Answers, Selections,
  \* Sign-in
  Identities, DomainOf, Invitees, TokenRequests, NoDomain, MaxUsers, MaxPatches,
  \* Credentials
  Tenants, Values, Unset, KeyWriters, EnvKeys, KeyName, KeyWrites, MaxStarts,
  \* Paid lookups
  LookupKeys, LookupWorkers, LookupAttempts, LookupTtl, MaxDays, MaxAsks, MaxOutages,
  \* Google Maps
  MapPlaces, Far, FirmTypes, Limit, Tiles, MaxSearches, ResultPages,
  \* Crawler
  Pages, Dull, HostOf, Variants, RobotRules, Redirections, MaxRedirects, CrawlPages, FetchAttempts,
  BrowserBudget,
  \* Exports
  RawTabs, MaxCommits, ExportDeaths,
  \* Hiring signals
  SerpKeys, NoKey, MaxChanges,
  \* Mailbox polls
  Accounts, Shapes, Msgs, Account, To, DemoBounces, DemoReplies, PageSize, MailNotices,
  MaxFaults,
  \* Templates
  Texts, Facts, AllowedFacts, Lines, DefaultLine

VARIABLES s1, s2, s3, s4, s5, s6, s7, s8, s9, s10, s11, s12, s13, s14,
          s15, s16, s17, s18, s19

\* The pool from its n-th variable on.
F19 == <<s19>>
F18 == <<s18, F19>>
F17 == <<s17, F18>>
F16 == <<s16, F17>>
F15 == <<s15, F16>>
F14 == <<s14, F15>>
F13 == <<s13, F14>>
F12 == <<s12, F13>>
F11 == <<s11, F12>>
F10 == <<s10, F11>>
F9  == <<s9, F10>>
F8  == <<s8, F9>>
F7  == <<s7, F8>>
F6  == <<s6, F7>>
F5  == <<s5, F6>>
F4  == <<s4, F5>>

-----------------------------------------------------------------------------
(* The parts                                                                 *)

Gates == INSTANCE ValidationRules WITH
  stored <- s1, edit <- s2, verdict <- s3

SignIn == INSTANCE SignIn WITH
  tenants <- s1, users <- s2, tokens <- s3, plan <- s4, flow <- s5, first <- s6, acted <- s7,
  patches <- s8, mixed <- s9,
  Requests <- TokenRequests

Secrets == INSTANCE Secrets WITH
  row <- s1, cipher <- s2, file <- s3, job <- s4, cache <- s5, probe <- s6, tested <- s7, raced <- s8,
  latest <- s9, writes <- s10, starts <- s11, environ <- s12, live <- s13, untested <- s14,
  lost <- s15,
  Writers <- KeyWriters, MaxWrites <- KeyWrites

Lookups == INSTANCE Lookups WITH
  day <- s1, cache <- s2, redis <- s3, call <- s4, paid <- s5, answer <- s6, retries <- s7,
  asks <- s8, outages <- s9,
  Keys <- LookupKeys, Workers <- LookupWorkers, Attempts <- LookupAttempts, Ttl <- LookupTtl

Maps == INSTANCE MapsSearch WITH
  job <- s1, at <- s2, center <- s3, refused <- s4, tile <- s5, phrase <- s6, page <- s7, left <- s8,
  seen <- s9, searched <- s10, yielded <- s11, twice <- s12, bill <- s13,
  Places <- MapPlaces, MaxPages <- ResultPages

Crawl == INSTANCE Crawl WITH
  rules <- s1, robots <- s2, at <- s3, variant <- s4, fetch <- s5, fetched <- s6, late <- s7,
  frontier <- s8, visited <- s9, queue <- s10, browser <- s11, asked <- s12, again <- s13,
  status <- s14, moved <- s15,
  Rules <- RobotRules, MaxPages <- CrawlPages, Attempts <- FetchAttempts

Exports == INSTANCE Exports WITH
  db <- s1, row <- s2, file <- s3, messages <- s4, api <- s5, worker <- s6, deaths <- s7, served <- s8,
  MaxDeaths <- ExportDeaths

Signals == INSTANCE Signals WITH
  serp <- s1, cred <- s2, run <- s3, signals <- s4, pages <- s5, calls <- s6, skipped <- s7,
  changes <- s8, inline <- s9, held <- s10, fresh <- s11

Mailbox == INSTANCE Mailbox WITH
  cred <- s1, gmail <- s2, sent <- s3, box <- s4, answered <- s5, msgs <- s6, hits <- s7, poll <- s8,
  replies <- s9, raced <- s10, faults <- s11,
  MaxNotices <- MailNotices

Templates == INSTANCE Templates WITH
  template <- s1, draft <- s2, facts <- s3, line <- s4, message <- s5, mailed <- s6,
  Allowed <- AllowedFacts
=============================================================================
