SPECIFICATION Spec
CONSTANTS
  Contacts = {c1, c2}
  Garbled = {}
  Spoilt = {}
  Workers = {w1}
  Requests = {r1}
  NoOne = NoOne
  MaxCalls = 3
  MaxCopies = 1
  MaxFaults = 0
  MaxEdits = 0
  MaxOutcomes = 2
SYMMETRY Symmetry
PROPERTIES RepliedNotRemailed
