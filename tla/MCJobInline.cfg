SPECIFICATION Spec
CONSTANTS
  Workers = {w1}
  Requests = {r1, r2}
  NoOne = NoOne
  NSteps = 2
  InlineAllowed = TRUE
  MaxRequests = 3
  MaxFaults = 1
SYMMETRY Symmetry
INVARIANTS TypeOK NoStrandedJob ProgressHonest
PROPERTIES ImplementsLedger
