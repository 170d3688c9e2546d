CONSTANTS
  Byte = 4
  MaxCount = 4
  MaxEntries = 2
  Slices = {0, 1}
  Deltas = {0, 7}
SPECIFICATION Spec
INVARIANT SegmentIsAsGiven
PROPERTY CallsEnd
CHECK_DEADLOCK FALSE
