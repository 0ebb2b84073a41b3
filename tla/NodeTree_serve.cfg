SPECIFICATION Spec
CONSTANTS
  NULL = NULL
  JUNK = JUNK
  tU = tU
  Name <- AllNames
  Content <- Alias
  BYTE = 16
  SLASH = 15
  DOT = 14
  POUET = 3
  NewTime = {tU}
  GAIN = 10
  BIAS = 23
  NSEC = 3
  WIDTH = 128
  Kinds = {1, 2}
  MaxItems = 2
  Paths <- Odd
  Archives <- OddArchives
INVARIANTS ItemsReachable NamesKept FindSurvives
PROPERTIES Served ImplementsArchiveView
CHECK_DEADLOCK FALSE
