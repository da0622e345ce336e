SPECIFICATION Spec
CONSTANTS
  Workers = {w1}
  Requests = {r1}
  NoOne = NoOne
  NSteps = 2
  InlineAllowed = FALSE
  MaxRequests = 2
  MaxFaults = 0
PROPERTIES LatePauseHonored
