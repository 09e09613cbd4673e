SPECIFICATION FairSpec
CONSTANTS
  Data = {m0, m1, m2}
  NoTable = NoTable
  ZeroId = {m0}
  MaxInserts = 1
  Faults = {"open"}
PROPERTIES
  GatewayCloses
