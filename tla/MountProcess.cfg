SPECIFICATION Spec
CONSTANTS
  NULL = NULL
  CommandLines <- AllCommandLines
INVARIANTS TypeOK ServesLibrary CleansUp
PROPERTIES Ends
CHECK_DEADLOCK FALSE
