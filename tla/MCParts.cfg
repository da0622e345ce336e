CONSTANTS
  c1 = c1
  al = al
  \* Leads
  Contacts = {c1}
  Aliases = {al}
  MaxMails = 1
  LeadWorkers = {"w1"}
  LeadRequests = {"r1"}
  NoOne = "no one"
  BounceKinds = {"hard", "soft"}
  Verdicts = {"valid", "unknown"}
  SoftBudget = 2
  MaxRetries = 1
  BatchSize = 1
  MaxRuns = 2
  LeadNotices = 1
  MaxPolls = 2
  MaxEdits = 1
  \* Validation rules
  Admins = {"a1"}
  Patches <- SomePatches
  Emails <- SomeEmails
  Answers <- SomeAnswers
  Selections <- SomeSelections
  \* Sheet
  Tabs = {"Contacts", "Sales_Ready_Leads", "Companies"}
  RowKeys = {"k1", "k2"}
  NoNote = "no note"
  Flushers = {"w1"}
  FlushDeaths = 1
  SheetWrites = 5
  MaxNotes = 1
  \* Live events
  EventWriters = {"w1", "w2"}
  MaxSeq = 3
  ErrorLimit = 4
  \* Sign-in
  Identities <- SomeIdentities
  DomainOf <- SomeDomainOf
  Invitees = {"bob"}
  TokenRequests = {"r1", "r2"}
  NoDomain = "no domain"
  MaxUsers = 2
  MaxPatches = 1
  \* Credentials
  Tenants = {"t1", "t2"}
  Values = {"k1", "k2"}
  Unset = ""
  KeyWriters = {"w1", "w2"}
  EnvKeys = {"GROQ_API_KEY", "GROQ_MODEL"}
  KeyName = "GROQ_API_KEY"
  KeyWrites = 2
  MaxStarts = 1
  \* Rate limiter
  Buckets = {"hour", "day"}
  Per <- BucketPer
  Callers = {"a", "b"}
  Rate <- BucketRate
  Senders = {"b"}
  BucketAttempts = 3
  MaxWait = 2
  MinTtl = 1
  MaxTime = 5
  MaxBack = 1
  \* Paid lookups
  LookupKeys = {"k1"}
  LookupWorkers = {"w1", "w2"}
  LookupAttempts = 2
  LookupTtl = 1
  MaxDays = 1
  MaxAsks = 2
  MaxOutages = 1
  \* Google Maps
  MapPlaces = {"p1", "p2"}
  Far = {"p2"}
  FirmTypes <- SomeFirmTypes
  Limit = 3
  Tiles = 2
  MaxSearches = 3
  ResultPages = 2
  \* Hiring signals
  SerpKeys = {"key1", "key2"}
  NoKey = "no key"
  MaxChanges = 2
  \* Crawler
  Pages = {1, 2, 3}
  Dull = {3}
  HostOf <- SomeHostOf
  Variants <- SomeVariants
  RobotRules <- SiteRules
  Redirections <- SomeRedirections
  MaxRedirects = 1
  CrawlPages = 3
  FetchAttempts = 3
  BrowserBudget = 2
  \* Mailbox polls
  Accounts <- SomeAccounts
  Shapes <- SomeShapes
  Msgs = {"m1", "m2"}
  Account <- AccountOf
  To <- Recipient
  DemoBounces = {"m2"}
  DemoReplies = {"m1"}
  PageSize = 1
  MailNotices = 1
  MaxFaults = 1
  \* Exports
  RawTabs = 2
  MaxCommits = 2
  ExportDeaths = 2
  \* Templates
  Texts <- SomeTexts
  Facts <- SomeFacts
  AllowedFacts = {"Company", "City"}
  Lines <- SomeLines
  DefaultLine <- StandardLine
SPECIFICATION Spec
\* The bounds stop every part in the end.
CHECK_DEADLOCK FALSE
INVARIANTS ListIsRight GatesHold NotesStayUntorn SheetMirrors ServedOnceInOrder
  ShowsCommitted AccountsStay KeysAreTrue QuotaIsExact OneCreditPerWindow
  SweepComplete PoliteCrawl NoticeHitsItsMessage BounceStands CompletedIsWhole
  QueuedIsQueued MailedIsPersonal
PROPERTIES OnlyVerifiedSurface OutcomeIsFinal CallsHaveAccess
