SPECIFICATION FairSpec
CONSTANTS
  NULL = NULL
  MaxEvents = 3
  PIPE_CAP = 2
  STICKY_EOF = TRUE
  Faults = {}
PROPERTY
  EventuallyLogged
