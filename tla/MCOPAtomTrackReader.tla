------------------------ MODULE MCOPAtomTrackReader ------------------------
EXTENDS OPAtomTrackReader

\* Essences without an index table, with and without something after the images.
MCEssences ==
  {[kind |-> "variable", start |-> 1, sizes |-> <<2, 1, 2>>, units |-> units, length |-> units,
    index |-> <<>>, indexDuration |-> -1, durationInMetadata |-> -1] : units \in {5, 7}}
=============================================================================
