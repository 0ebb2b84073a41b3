SPECIFICATION Spec
CONSTANTS
  NULL = NULL
  Items = 4
  DataLen <- Lengths
  Declared <- Claimed
  VectorMax = 6
  MaxChunk = 3
  Wrapper = {w1, w2}
INVARIANTS TypeOK OnlyItsBytes StaysInside CountsMatch NobodyKeepsStream
PROPERTIES ImplementsOpenFiles
CHECK_DEADLOCK FALSE
