CONSTANTS
  Streams <- MCStreams
  Reads = {1, 3, 50}
SPECIFICATION Spec
INVARIANTS TypeOK ImagesAreWhole AllImagesFound
PROPERTIES ParsingEnds
CHECK_DEADLOCK FALSE
