CONSTANTS
  Clips <- MCClips
  MaxTarget = 6
  Faults = {0, 2}
  Chunk = 2
  Wrap = 100
SPECIFICATION Spec
INVARIANTS TypeOK TracksInStep FilesAtPosition IndexIsTrue DurationIsReadable DeterminedDuration FailedReadIsEOF
PROPERTIES ImplementsClip
