SPECIFICATION Spec
CONSTANTS
  NULL = NULL
  e1 = e1
  e2 = e2
  e3 = e3
  Addr = {a1, a2, a3, a4}
  Element <- MCElement
  Key <- MCKey
  Index <- MCIndex
SYMMETRY Symmetry
INVARIANTS
  TypeOK
  NoLeak
  DoublyLinked
  QueriesAgree
PROPERTY
  Implements
CHECK_DEADLOCK FALSE
