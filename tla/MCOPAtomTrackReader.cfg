CONSTANTS
  TrackEssences <- MCEssences
  MaxTarget = 5
  Chunk = 2
  Wrap = 100
SPECIFICATION Spec
INVARIANTS EndFoundSeeksBack
