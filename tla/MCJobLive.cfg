SPECIFICATION FairSpec
CONSTANTS
  Workers = {w1, w2}
  Requests = {r1}
  NoOne = NoOne
  NSteps = 2
  InlineAllowed = FALSE
  MaxRequests = 3
  MaxFaults = 1
PROPERTIES CancelBoundsWork EventuallySettles
