SPECIFICATION Spec
CONSTANTS
  NULL = NULL
  empty = empty
  short = short
  long = long
  huge = huge
  File = {empty, long}
  Dir = {dir}
  Handle = {h1, h2, h3}
  Stream = {s1, s2}
  Size <- Sizes
  VectorMax = 2
  MaxRead = 2
  SharedOpens = FALSE
  LateRelease = FALSE
  PastEnd = FALSE
  ResizeMayFail = TRUE
  NewMayFail = FALSE
  ExtractMayFail = TRUE
INVARIANTS Survives
PROPERTIES ImplementsPrivateImages
CHECK_DEADLOCK FALSE
