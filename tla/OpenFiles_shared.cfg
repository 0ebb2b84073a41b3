SPECIFICATION Spec
CONSTANTS
  NULL = NULL
  empty = empty
  short = short
  long = long
  huge = huge
  File = {short, long}
  Dir = {dir}
  Handle = {h1, h2}
  Stream = {s1, s2, s3}
  Size <- Sizes
  VectorMax = 2
  MaxRead = 2
  SharedOpens = TRUE
  LateRelease = FALSE
  PastEnd = FALSE
  ResizeMayFail = FALSE
  NewMayFail = FALSE
  ExtractMayFail = TRUE
INVARIANTS BufferWhileOpen
CHECK_DEADLOCK FALSE
