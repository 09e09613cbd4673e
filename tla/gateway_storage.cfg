SPECIFICATION FairSpec
CONSTANTS
  Data = {m0, m1, m2}
  NoTable = NoTable
  ZeroId = {m0}
  MaxInserts = 2
  Faults = {"open", "drop", "create", "insert", "close", "exit", "log"}
INVARIANTS
  TypeOK
  Stored
  SqlStory
  CleanEnd
PROPERTIES
  Ends
  EventuallyStored
