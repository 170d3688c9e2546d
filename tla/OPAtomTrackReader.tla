------------------------- MODULE OPAtomTrackReader -------------------------
(***************************************************************************)
(* OPAtomTrackReader (examples/OPAtomReader) used by itself: a client      *)
(* reads and seeks one track, with no clip reader to put it back when a    *)
(* call fails.                                                             *)
(***************************************************************************)
EXTENDS EssenceParsers

CONSTANTS
  TrackEssences,  \* the essences of the files that may be opened
  MaxTarget       \* bound: the positions that are sought

VARIABLE track

Init == \E e \in TrackEssences : track = Open(e)

Read == track' = TrackRead(track, End(track.essence)).track
Seek(position) == track' = TrackSeek(track, position, End(track.essence)).track
DetermineDuration == track' = TrackDetermine(track, End(track.essence))

Next == Read \/ DetermineDuration \/ \E position \in 0 .. MaxTarget : Seek(position)

Spec == Init /\ [][Next]_track

\* A file whose end was found is at the position of the parser: "seek back to
\* mPosition if mPosition isn't at EOF" (VariableSizeEssenceParser.cpp).
EndFoundSeeksBack ==
  (track.complete /\ ~IsEOF(track)) =>
    ParsePos(track) = track.essence.start + OffsetOf(track.essence, track.position)
=============================================================================
