CONSTANTS
  Contacts = {c1}
  Aliases = {al}
  MaxMails = 1
  Workers = {w1}
  Requests = {r1}
  NoOne = NoOne
  Kinds = {"hard", "soft"}
  Verdicts = {"valid", "unknown"}
  SoftBudget = 2
  MaxRetries = 1
  BatchSize = 1
  MaxRuns = 2
  MaxNotices = 1
  MaxPolls = 2
  MaxEdits = 1
SPECIFICATION Spec
INVARIANT SoftBudgetKept
CHECK_DEADLOCK FALSE
