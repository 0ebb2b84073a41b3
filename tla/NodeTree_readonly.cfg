SPECIFICATION Spec
CONSTANTS
  NULL = NULL
  JUNK = JUNK
  tU = tU
  Name <- FewNames
  Content <- Alias
  BYTE = 16
  SLASH = 15
  DOT = 14
  POUET = 3
  NewTime = {tU}
  GAIN = 10
  BIAS = 23
  NSEC = 3
  WIDTH = 128
  Kinds = {1, 2, 3}
  MaxItems = 1
  Paths <- Crossing
  Archives <- BoundedArchives
PROPERTIES ReadOnlyTree
CHECK_DEADLOCK FALSE
