SPECIFICATION Spec
CONSTANTS
  RUN_AVG_LENGTH = 3
  SET_MIN_TEMP = 20
  SET_MAX_TEMP = 30
  Maps <- PlainMap
  Ids = {0, 2, 3, 9}
  Values = {10, 40}
  Times = {50, 51}
  START = 5
  Garbage = 1000
  MaxReadings = 3
INVARIANT
  LastModified
