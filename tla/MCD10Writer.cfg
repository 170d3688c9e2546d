CONSTANTS
  Configurations <- MCConfigurations
  OddCounts = {0, 1919, 3203}
  MaxAssembled = 2
  MaxOdd = 1
SPECIFICATION Spec
INVARIANTS TypeOK EditUnitsInOrder AudioIsContinuous ConformingInputIsWritten TimecodeIsExact
CHECK_DEADLOCK FALSE
