CONSTANTS
  Writers = {w1, w2}
  MaxSeq = 3
  ErrorLimit = 4
SPECIFICATION Spec
INVARIANTS NoGap
