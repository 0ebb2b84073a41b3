SPECIFICATION Spec
CONSTANTS
  NULL = NULL
  empty = empty
  short = short
  long = long
  huge = huge
  File = {short, long, huge}
  Dir = {dir}
  Handle = {h1, h2}
  Stream = {s1, s2}
  Size <- Sizes
  VectorMax = 2
  MaxRead = 2
  SharedOpens = TRUE
  LateRelease = TRUE
  PastEnd = TRUE
  ResizeMayFail = TRUE
  NewMayFail = TRUE
  ExtractMayFail = TRUE
INVARIANTS TypeOK BufferOwnership RepliesFaithful
 
CHECK_DEADLOCK FALSE
