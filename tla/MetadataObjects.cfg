CONSTANTS
  v1 = v1
  v2 = v2
  t1 = t1
  t2 = t2
  Malformed = Malformed
  Garbage = Garbage
  Throws = Throws
  Absent = Absent
  Values = {v1, v2, Malformed}
  Targets = {t1, t2}
  MaxElements = 3
SPECIFICATION Spec
INVARIANTS ReadsWhatWasWritten ElementsFillItem ObjectsHaveTheirClass
PROPERTIES ReadingKeepsObjects
CHECK_DEADLOCK FALSE
