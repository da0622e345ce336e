SPECIFICATION Spec
CONSTANTS
  Contacts = {c1}
  Garbled = {}
  Spoilt = {}
  Workers = {w1}
  Requests = {r1, r2}
  NoOne = NoOne
  MaxCalls = 2
  MaxCopies = 1
  MaxFaults = 0
  MaxEdits = 0
  MaxOutcomes = 2
SYMMETRY Symmetry
INVARIANTS OneMessagePerAddress
