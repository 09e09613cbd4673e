SPECIFICATION Spec
CONSTANTS
  Conns = {1, 2}
  TIMEOUT = 2
  MaxMeas = 1
  MaxTime = 3
  Times = {0, 1}
  Garbage = {0, 5}
  Faults = {"torn"}
INVARIANTS
  OnlyWhole
