SPECIFICATION Spec
CONSTANTS
  NULL = NULL
  JUNK = JUNK
  tU = tU
  Name <- FewNames
  Content <- Alias
  BYTE = 16
  SLASH = 15
  DOT = 14
  POUET = 3
  NewTime = {}
  GAIN = 10
  BIAS = 23
  NSEC = 3
  WIDTH = 128
  Kinds = {1, 2, 3}
  MaxItems = 3
  Paths <- Crossing
  Archives <- BoundedArchives
INVARIANTS TypeOK LookupFaithful AttributesFaithful ListingFaithful
CHECK_DEADLOCK FALSE
