SPECIFICATION Spec
CONSTANTS
  Workers = {w1}
  Requests = {r1}
  NoOne = NoOne
  NSteps = 3
  InlineAllowed = FALSE
  MaxRequests = 4
  MaxFaults = 3
INVARIANTS SheetShowsOutcome
PROPERTIES NoStepRedone
