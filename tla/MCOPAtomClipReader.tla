------------------------- MODULE MCOPAtomClipReader -------------------------
EXTENDS OPAtomClipReader

\* A file whose essence starts at `start`, has frames of these sizes and is
\* followed by `units` in all.
Sized(start, sizes, units, length, metadata) ==
  [kind |-> "sized", start |-> start, sizes |-> sizes, units |-> units, length |-> length,
   index |-> <<>>, indexDuration |-> -1, durationInMetadata |-> metadata]
Variable(start, sizes, units, index, indexDuration, metadata) ==
  [kind |-> "variable", start |-> start, sizes |-> sizes, units |-> units, length |-> units,
   index |-> index, indexDuration |-> indexDuration, durationInMetadata |-> metadata]

MCClips ==
  { \* an index is built, with fewer frames than the other track has
    << Variable(2, <<2, 1, 2>>, 5, <<>>, -1, -1), Sized(1, <<1>>, 4, 4, -1) >>,
    \* what follows the images is no image, and a track that is cut short
    << Sized(1, <<2>>, 5, 6, 2), Variable(1, <<1, 2, 1>>, 7, <<>>, -1, -1) >>,
    \* the last image is cut short; a file with an index; an audio sequence
    << Variable(1, <<2, 2, 3>>, 6, <<>>, -1, -1), Variable(2, <<3, 1, 2>>, 6, <<0, 3, 4, 6>>, -1, 3),
       Sized(1, <<2, 1, 2, 1, 2>>, 11, 0, -1) >>,
    \* a track that is empty
    << Variable(1, <<1, 1>>, 2, <<0, 1, 2>>, 2, 1), Variable(1, <<>>, 1, <<>>, -1, -1) >>,
    \* an audio sequence that repeats and is cut short
    << Sized(2, <<2, 1>>, 7, 8, 6) >> }
=============================================================================
