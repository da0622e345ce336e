SPECIFICATION Spec
CONSTANTS
  Contacts = {c1, c2}
  Garbled = {}
  Spoilt = {}
  Workers = {w1, w2}
  Requests = {r1}
  NoOne = NoOne
  MaxCalls = 1
  MaxCopies = 1
  MaxFaults = 0
  MaxEdits = 0
  MaxOutcomes = 2
SYMMETRY Symmetry
INVARIANTS DrainedCompletes
