SPECIFICATION FairSpec
CONSTANTS
  Contacts = {c1, c2}
  Garbled = {c2}
  Spoilt = {1}
  Workers = {w1, w2}
  Requests = {r1}
  NoOne = NoOne
  MaxCalls = 2
  MaxCopies = 1
  MaxFaults = 1
  MaxEdits = 0
  MaxOutcomes = 0
INVARIANTS CompletedDrained
PROPERTIES EveryMessageLeaves StopBoundsSends
