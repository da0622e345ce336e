CONSTANTS
  Contacts = {c1}
  Aliases = {al}
  MaxMails = 1
  Workers = {w1}
  Requests = {r1}
  NoOne = NoOne
  Kinds = {"hard", "soft"}
  Verdicts = {"valid", "unknown"}
  SoftBudget = 2
  MaxRetries = 1
  BatchSize = 1
  MaxRuns = 3
  MaxNotices = 1
  MaxPolls = 2
  MaxEdits = 1
SPECIFICATION Spec
PROPERTY OnlyUnknownRetried
CHECK_DEADLOCK FALSE
