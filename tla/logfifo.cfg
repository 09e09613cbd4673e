SPECIFICATION FairSpec
CONSTANTS
  NULL = NULL
  MaxEvents = 3
  PIPE_CAP = 2
  STICKY_EOF = FALSE
  Faults = {"exit", "restart", "gateway_log"}
INVARIANTS
  TypeOK
  OneWriter
  
  SafeKill
PROPERTIES
  EventuallyLogged
  LogCallReturns
  ChildEnds
CHECK_DEADLOCK FALSE
