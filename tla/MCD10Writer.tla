---------------------------- MODULE MCD10Writer ----------------------------
EXTENDS D10Writer

Rate60I == "D10_SAMPLE_RATE_525_60I"
Rate50I == "D10_SAMPLE_RATE_625_50I"

Configuration(rate, channels, offset, start, imageSize, counts, packages) ==
  [rate |-> rate, channels |-> channels, offset |-> offset, start |-> start,
   dropFrame |-> rate = Rate60I, imageSize |-> imageSize, counts |-> counts,
   packages |-> packages]

\* A package without audio, the counts of the D-10 and DV sequences, and the audio
\* of two packages in one.
Counts60I == {0, 1600, 1601, 1602, 3203}

\* 60i from an unknown and from known offsets, without audio, and 50i.  The start
\* timecodes are before a minute that skips numbers, one that skips none, and an
\* hour; the image sizes are the largest, and some at which the fill item takes
\* another KAG.
MCConfigurations ==
  { Configuration(Rate60I, 1, UNKNOWN_SEQUENCE_OFFSET, 1797, 208541, Counts60I, 7),
    Configuration(Rate60I, 2, 3, 17979, 512 * 400 - KLSize - 7, Counts60I, 5),
    Configuration(Rate60I, 1, 9, 3597, 512 * 400 - KLSize - KLSize, Counts60I, 5),
    Configuration(Rate60I, 0, UNKNOWN_SEQUENCE_OFFSET, 107887, 512 * 400 - KLSize, {0}, 7),
    Configuration(Rate50I, 1, UNKNOWN_SEQUENCE_OFFSET, 89998, 250000, {0, 1919, 1920}, 5) }

\* A client that leaves it to the writer to find the offset of the sequence, and
\* gives two packages with its last and its first count.
MCSequenceClient ==
  {Configuration(Rate60I, 1, UNKNOWN_SEQUENCE_OFFSET, 1797, 208541, {1602}, 2)}
=============================================================================
