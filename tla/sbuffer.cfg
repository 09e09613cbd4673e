SPECIFICATION FairSpec
CONSTANTS
  Data = {m1, m2}
  NULL = NULL
  MaxInserts = 3
INVARIANTS
  TypeOK
  MemorySafe
  Reclaimed
  TailIsLast
  IInv
PROPERTIES
  Implements
  Delivery
