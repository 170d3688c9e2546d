--------------------------- MODULE EssenceParsers ---------------------------
(***************************************************************************)
(* The essence parsers of the OP-Atom reader (examples/OPAtomReader):      *)
(* FixedSizeEssenceParser and PCMEssenceParser, which know the size of     *)
(* every frame, and VariableSizeEssenceParser, which has a frame index     *)
(* from the file or builds one as it parses.                               *)
(*                                                                         *)
(* A parser is a record and a method an operator that returns the record   *)
(* after the call, whether it succeeded and, for Read, the data.  Data is  *)
(* the sequence of the file offsets it was read from.                      *)
(*                                                                         *)
(* `limit` is where the file ends for a call: the real end, or an earlier  *)
(* place when a read error stops the reads of this call.                   *)
(***************************************************************************)
EXTENDS Integers, Sequences, FiniteSetsExt, SequencesExt

CONSTANTS
  Chunk,   \* how much the variable size parser reads at a time
  Wrap     \* the range of an unsigned 32-bit size

ASSUME ParserAssumption ==
  /\ Chunk \in Nat \ {0}
  /\ Wrap \in Nat \ {0}

Units(from, n) == [k \in 1 .. n |-> from + k - 1]

SumOfFirst(s, n) ==
  LET sum[k \in 0 .. n] == IF k = 0 THEN 0 ELSE sum[k - 1] + s[k] IN sum[n]
SumOf(s) == SumOfFirst(s, Len(s))

-----------------------------------------------------------------------------
(* The essence in a file, as a record:                                     *)
(*   kind    "sized" or "variable"                                         *)
(*   start   where the essence starts, mEssenceStartOffset                 *)
(*   units   what the file has from there on                               *)
(*   length  the length of the essence element, 0 when it is not known     *)
(*   sizes   sized: the sizes of the frames of a sequence, which repeats;  *)
(*           variable: the size of each image in the file                  *)
(*   index   variable: the offsets in the file's index table, if any       *)
(*   indexDuration, durationInMetadata    -1 when they are not set         *)

End(e) == e.start + e.units
FrameSize(e, position) == e.sizes[(position % Len(e.sizes)) + 1]

\* Where the frame at a position is, counted from the start of the essence.
OffsetOf(e, position) ==
  LET offset[p \in 0 .. position] ==
        IF p = 0 THEN 0 ELSE offset[p - 1] + FrameSize(e, p - 1)
  IN offset[position]

\* The data of the frame at a position.
Frame(e, position) == Units(e.start + OffsetOf(e, position), FrameSize(e, position))

\* What the parsers take for granted of a file: sized frames have a size, an image
\* has data, and an index table has the offset of each image it knows and of its
\* end, all of which are in the file, and no greater duration.
WellFormed(e) ==
  /\ e.kind \in {"sized", "variable"}
  /\ e.start \in Nat /\ e.units \in Nat /\ e.length \in Nat
  /\ e.indexDuration \in Int /\ e.durationInMetadata \in Int
  /\ e.sizes \in Seq(Nat \ {0})
  /\ e.kind = "sized" => e.sizes # <<>>
  /\ e.kind = "variable" =>
       /\ e.index = [k \in 1 .. Len(e.index) |-> OffsetOf(e, k - 1)]
       /\ Len(e.index) \in 0 .. Len(e.sizes) + 1
       /\ e.index # <<>> => Last(e.index) <= e.units /\ e.indexDuration < Len(e.index)

-----------------------------------------------------------------------------
(* Parsers *)

\* RawEssenceParser.  The buffer is what the variable size parser has read from
\* the file and not used yet.
NewParser(e) ==
  [essence |-> e, filePos |-> e.start, position |-> 0, duration |-> -1, essenceOffset |-> 0,
   offsets |-> <<0>>, complete |-> FALSE, bufferFrom |-> 0, buffered |-> 0]

Result(ok, track) == [ok |-> ok, track |-> track]
ReadResult(ok, track, data) == [ok |-> ok, track |-> track, data |-> data]

IsEOF(t) == t.duration >= 0 /\ t.position >= t.duration

\* A read that fails before it starts leaves the content element as it was; one
\* that fails later leaves part of a frame, for which <<>> stands.
NoData == <<-1>>

\* How much of a read of `size` arrives.
Count(t, size, limit) == Max({0, Min({size, limit - t.filePos})})

-----------------------------------------------------------------------------
(* FixedSizeEssenceParser, whose sequence has one size, and                *)
(* PCMEssenceParser.                                                       *)

EssenceLength(e) == IF e.length > 0 /\ e.units > e.length THEN e.length ELSE e.units

\* Fault: a frame that is not all there is counted.
SizedDuration_Up(e) ==
  LET n == Len(e.sizes)
      whole == n * (EssenceLength(e) \div SumOf(e.sizes))
      rest == EssenceLength(e) - ((whole * SumOf(e.sizes)) \div n)
  IN whole + Cardinality({i \in 1 .. n : SumOfFirst(e.sizes, i - 1) < rest})

\* DetermineDuration: whole sequences, then the frames that fit in the rest.
SizedDuration(e) ==
  LET n == Len(e.sizes)
      whole == n * (EssenceLength(e) \div SumOf(e.sizes))
      rest == EssenceLength(e) - ((whole * SumOf(e.sizes)) \div n)
  IN whole + Max({i \in 0 .. n : SumOfFirst(e.sizes, i) <= rest})

OpenSized(e) == [NewParser(e) EXCEPT !.duration = SizedDuration(e)]

\* The seek back over a short read adds the negated unsigned count.
SizedRead(t, limit) ==
  LET size == FrameSize(t.essence, t.position)
      count == Count(t, size, limit)
  IN IF IsEOF(t) THEN ReadResult(FALSE, t, NoData)
     ELSE IF count # size
     THEN ReadResult(FALSE, [t EXCEPT !.filePos = @ + count + ((Wrap - count) % Wrap),
                                      !.duration = t.position], <<>>)
     ELSE ReadResult(TRUE, [t EXCEPT !.filePos = @ + size, !.essenceOffset = @ + size,
                                     !.position = @ + 1], Units(t.filePos, size))

\* Fault: a position inside a sequence is taken for the start of it.
SizedSeek_Whole(t, position) ==
  LET offset == (position \div Len(t.essence.sizes)) * SumOf(t.essence.sizes)
  IN IF position >= t.duration THEN Result(FALSE, t)
     ELSE Result(TRUE, [t EXCEPT !.filePos = t.essence.start + offset,
                                 !.essenceOffset = offset, !.position = position])

SizedSeek(t, position) ==
  LET sizes == t.essence.sizes
      offset == (position \div Len(sizes)) * SumOf(sizes)
                  + SumOfFirst(sizes, position % Len(sizes))
  IN IF position >= t.duration THEN Result(FALSE, t)
     ELSE Result(TRUE, [t EXCEPT !.filePos = t.essence.start + offset,
                                 !.essenceOffset = offset, !.position = position])

-----------------------------------------------------------------------------
(* The frame index of VariableSizeEssenceParser: the offset of each frame  *)
(* that was found, and the end of the last.                                *)

HaveFrameOffset(t, position) == position < Len(t.offsets)
GetFrameOffset(t, position) == t.offsets[position + 1]
LastIndexed(t) == Len(t.offsets) - 1

\* Fault: the duration in an index table is taken for one that is set.
OpenVariable_AnyDuration(e) ==
  IF e.index = <<>> THEN NewParser(e)
  ELSE [NewParser(e) EXCEPT !.offsets = e.index, !.complete = TRUE,
                            !.duration = e.indexDuration - 1]

OpenVariable(e) ==
  IF e.index = <<>> THEN NewParser(e)
  ELSE [NewParser(e) EXCEPT !.offsets = e.index, !.complete = TRUE,
                            !.duration = IF e.indexDuration >= 0 THEN e.indexDuration
                                         ELSE Len(e.index) - 1]

\* Fault: the data in the parser buffer is not discarded.
SeekIndexed_KeepBuffer(t, position) ==
  [t EXCEPT !.filePos = t.essence.start + GetFrameOffset(t, position),
            !.essenceOffset = GetFrameOffset(t, position), !.position = position]

\* Seek to a frame in the index.
SeekIndexed(t, position) ==
  [t EXCEPT !.filePos = t.essence.start + GetFrameOffset(t, position),
            !.essenceOffset = GetFrameOffset(t, position), !.position = position,
            !.buffered = 0]

\* What ParseMJPEGImage takes next: the rest of the buffer, then the file.
ParsePos(t) == IF t.buffered > 0 THEN t.bufferFrom ELSE t.filePos

\* The positions of the images that start at a file offset: one or none.
ImagesAt(e, offset) == {f \in 0 .. Len(e.sizes) - 1 : e.start + OffsetOf(e, f) = offset}

\* The images that ParseMJPEGImage finds when it is called n times.
ImagesFound(t, n, limit) ==
  {f \in 0 .. Len(t.essence.sizes) - 1 :
    \E first \in ImagesAt(t.essence, ParsePos(t)) :
      /\ f \in first .. first + n - 1
      /\ t.essence.start + OffsetOf(t.essence, f + 1) <= Max({limit, t.filePos})}

\* The parser after it used everything up to file offset `end`.  It reads the
\* file in chunks, the last of which ends where the file does.
Used(t, end, limit) ==
  LET chunks == (end - t.filePos + Chunk - 1) \div Chunk
      filePos == IF end <= t.filePos THEN t.filePos
                 ELSE Min({t.filePos + chunks * Chunk, Max({limit, t.filePos})})
  IN [t EXCEPT !.filePos = filePos, !.bufferFrom = end, !.buffered = Max({0, filePos - end})]

\* ParseMJPEGImage fails: the file ends before the image does, and all of it
\* was used; or no image starts here, and what was read stays in the buffer.
ParseFailed(t, limit) ==
  LET pos == ParsePos(t)
      end == Max({limit, t.filePos})
  IN IF ImagesAt(t.essence, pos) # {} \/ pos >= end THEN Used(t, end, limit)
     ELSE [Used(t, Min({pos + 1, end}), limit) EXCEPT
             !.bufferFrom = pos, !.buffered = Used(t, Min({pos + 1, end}), limit).filePos - pos]

\* Fault: the images are parsed from wherever the parser is.
AtLastIndexed_Not(t) == t

\* The parser at the last frame of the index.
AtLastIndexed(t) ==
  IF t.position = LastIndexed(t) THEN t ELSE SeekIndexed(t, LastIndexed(t))

\* Fault: the duration is not set when the end of the file is found.
EndFound_NoDuration(t, limit) == [ParseFailed(t, limit) EXCEPT !.complete = TRUE]

\* The end of the file is found where an image is looked for.
EndFound(t, limit) ==
  [ParseFailed(t, limit) EXCEPT !.complete = TRUE, !.duration = LastIndexed(t)]

\* UpdateIndexTable: images are parsed from the end of the index on, up to a
\* position.  At the end of the file the duration is known; if the parser is
\* not there it is to go back to where it was.
UpdateIndexTable(t, position, limit) ==
  LET t0 == AtLastIndexed(t)
      found == ImagesFound(t0, position - LastIndexed(t), limit)
      offset == Last(t.offsets)
      first == Min(found)
      more == [k \in 1 .. Cardinality(found) |->
                 offset + OffsetOf(t.essence, first + k) - OffsetOf(t.essence, first)]
      t1 == [IF found = {} THEN t0
             ELSE Used(t0, t.essence.start + OffsetOf(t.essence, Max(found) + 1), limit)
              EXCEPT !.offsets = @ \o more]
      atEOF == EndFound(t1, limit)
  IN IF t.complete THEN Result(FALSE, t)
     ELSE IF LastIndexed(t1) = position
     THEN Result(TRUE, [t1 EXCEPT !.position = position, !.essenceOffset = Last(t1.offsets)])
     ELSE IF atEOF.position = atEOF.duration THEN Result(FALSE, atEOF)
     ELSE Result(FALSE, [atEOF EXCEPT !.filePos = atEOF.essenceOffset + Last(atEOF.offsets)])

\* Read of a frame that is not in the index: the next image.
ReadNext(t, limit) ==
  LET updated == UpdateIndexTable(t, t.position + 1, limit)
      from == ParsePos(AtLastIndexed(t))
      size == Last(updated.track.offsets) - Last(t.offsets)
  IN ReadResult(updated.ok, updated.track, IF updated.ok THEN Units(from, size) ELSE <<>>)

\* Read of a frame in the index: from the buffer, then from the file.
ReadIndexed(t, limit) ==
  LET size == GetFrameOffset(t, t.position + 1) - GetFrameOffset(t, t.position)
      available == Min({t.buffered, size})
      count == Count(t, size - available, limit)
  IN IF count # size - available THEN ReadResult(FALSE, SeekIndexed(t, t.position), <<>>)
     ELSE ReadResult(TRUE,
            [t EXCEPT !.filePos = @ + count, !.bufferFrom = @ + available,
                      !.buffered = @ - available, !.essenceOffset = @ + size, !.position = @ + 1],
            Units(t.bufferFrom, available) \o Units(t.filePos, count))

VariableRead(t, limit) ==
  IF IsEOF(t) THEN ReadResult(FALSE, t, NoData)
  ELSE IF HaveFrameOffset(t, t.position + 1) THEN ReadIndexed(t, limit)
  ELSE ReadNext(t, limit)

VariableSeek(t, position, limit) ==
  IF t.duration >= 0 /\ position >= t.duration THEN Result(FALSE, t)
  ELSE IF HaveFrameOffset(t, position) THEN Result(TRUE, SeekIndexed(t, position))
  ELSE UpdateIndexTable(t, position, limit)

\* DetermineDuration: the index is extended to its end, one frame at a time,
\* and the parser goes back.
VariableDetermine(t, limit) ==
  LET last == LastIndexed(t)
      n == Cardinality(ImagesFound(AtLastIndexed(t), Len(t.essence.sizes), limit))
      extended == IF n = 0 THEN t ELSE UpdateIndexTable(t, last + n, limit).track
      complete == UpdateIndexTable(extended, last + n + 1, limit).track
  IN IF t.duration >= 0 THEN t
     ELSE VariableSeek(complete, t.position, limit).track

-----------------------------------------------------------------------------
(* OPAtomTrackReader, which has one of the parsers *)

Open(e) == IF e.kind = "sized" THEN OpenSized(e) ELSE OpenVariable(e)

TrackRead(t, limit) ==
  IF t.essence.kind = "sized" THEN SizedRead(t, limit) ELSE VariableRead(t, limit)

TrackSeek(t, position, limit) ==
  IF t.essence.kind = "sized" THEN SizedSeek(t, position) ELSE VariableSeek(t, position, limit)

TrackDetermine(t, limit) ==
  IF t.essence.kind = "sized" THEN t ELSE VariableDetermine(t, limit)

\* Fault: the metadata's duration is taken when the essence is shorter.
TrackDuration_Metadata(t) ==
  IF t.essence.durationInMetadata > 0 THEN t.essence.durationInMetadata ELSE t.duration

\* GetDuration: the metadata may make it shorter than the essence.
TrackDuration(t) ==
  IF t.essence.durationInMetadata > 0 /\ t.duration > t.essence.durationInMetadata
  THEN t.essence.durationInMetadata ELSE t.duration
=============================================================================
