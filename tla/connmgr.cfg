SPECIFICATION FairSpec
CONSTANTS
  Conns = {1, 2}
  TIMEOUT = 1
  MaxMeas = 2
  MaxTime = 2
  Times = {0, 1, 5}
  Garbage = {0, 5}
  Faults = {"torn", "reset"}
INVARIANTS
  TypeOK
  ListIsOpen
  LogStory
  Captured
PROPERTIES
  EventuallyCaptured
  EventuallyLeft
