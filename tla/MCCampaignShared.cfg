SPECIFICATION Spec
CONSTANTS
  Contacts = {c1}
  Garbled = {}
  Spoilt = {}
  Workers = {w1, w2}
  Requests = {r1}
  NoOne = NoOne
  MaxCalls = 3
  MaxCopies = 2
  MaxFaults = 1
  MaxEdits = 2
  MaxOutcomes = 2
SYMMETRY Symmetry
INVARIANT NoMessageMailedTwice
