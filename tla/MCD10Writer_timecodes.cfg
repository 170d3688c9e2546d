CONSTANTS
  Configurations <- MCSequenceClient
  OddCounts = {0, 1919, 3203}
  MaxAssembled = 2
  MaxOdd = 1
SPECIFICATION Spec
INVARIANT UserTimecodesCount
CHECK_DEADLOCK FALSE
