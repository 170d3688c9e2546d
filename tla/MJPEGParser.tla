----------------------------- MODULE MJPEGParser -----------------------------
(***************************************************************************)
(* How VariableSizeEssenceParser finds the images of an MJPEG stream       *)
(* (examples/OPAtomReader/VariableSizeEssenceParser.cpp).                  *)
(*                                                                         *)
(* ParseMJPEGImage reads the file into a buffer, whose limits fall         *)
(* anywhere in an image, and ProcessMJPEGImageData runs a state machine    *)
(* over it that appends what belongs to the image and leaves the rest for  *)
(* the next one.  What the parser is to find is given by how the stream is *)
(* put together: images of one or two fields, a field of segments.         *)
(***************************************************************************)
EXTENDS Integers, Sequences, SequencesExt

CONSTANTS
  Streams,  \* the streams: [images |-> sequences of fields, cutShort |-> an image
            \* that is not all in the file, kept |-> how many of its bytes are,
            \* padding |-> the bytes that follow, singleField |-> whether the
            \* resolution has one field per image]
  Reads     \* bound: how much a read of the file may give

ASSUME ReadsAssumption == Reads \subseteq Nat \ {0}

VARIABLES
  stream,
  file,      \* the bytes of the stream
  filePos,
  bufferStart, \* where the buffer's contents are in the file
  state,     \* MJPEGParseState, without the buffer
  image,     \* image_data
  found,     \* the images that ParseMJPEGImage returned
  result     \* of the last call of ParseMJPEGImage, or "running"

vars == <<stream, file, filePos, bufferStart, state, image, found, result>>

-----------------------------------------------------------------------------
(* Bytes.  `Data` stands for all that mean nothing in a marker.            *)

FF == 255  SOI == 216  EOI == 217  RST == 208  Stuffed == 0  Temporary == 1
Data == 7  Segment == 218
Byte == 0 .. 255

IsEmptyMarker(b) == b \in 208 .. 215 \cup {Temporary, Stuffed}

\* A field as it is written: its segments between its start and its end.
FieldBytes(segments) == <<FF, SOI>> \o FlattenSeq(segments) \o <<FF, EOI>>
ImageBytes(fields) == FlattenSeq([k \in DOMAIN fields |-> FieldBytes(fields[k])])
StreamBytes(s) ==
  FlattenSeq([k \in DOMAIN s.images |-> ImageBytes(s.images[k])])
    \o SubSeq(ImageBytes(s.cutShort), 1, s.kept) \o s.padding

\* A marker after one or more 0xff, at m, and unless it is an empty one, a length that
\* includes its own two bytes, and data.
HasMarkerAt(bytes, m) ==
  /\ \A i \in 1 .. (m - 1) : bytes[i] = FF
  /\ bytes[m] \notin {FF, SOI, EOI}
  /\ IF IsEmptyMarker(bytes[m]) THEN Len(bytes) = m
     ELSE Len(bytes) >= m + 2 /\ Len(bytes) = m + bytes[m + 1] * 256 + bytes[m + 2]

\* A segment is a byte of image data or has a marker.
IsSegment(bytes) ==
  \/ Len(bytes) = 1 /\ bytes[1] # FF
  \/ \E m \in 2 .. Len(bytes) : HasMarkerAt(bytes, m)

IsImage(fields, singleField) ==
  /\ fields \in Seq(Seq(Seq(Byte)))
  /\ Len(fields) = IF singleField THEN 1 ELSE 2
  /\ \A f \in DOMAIN fields : \A j \in DOMAIN fields[f] : IsSegment(fields[f][j])

\* Whole images, and then part of another, or something that is none from its first
\* byte, or nothing.
IsStream(s) ==
  /\ s.singleField \in BOOLEAN
  /\ s.images \in Seq(Seq(Seq(Seq(Byte))))
  /\ \A k \in DOMAIN s.images : IsImage(s.images[k], s.singleField)
  /\ IsImage(s.cutShort, s.singleField)
  /\ s.kept \in 0 .. (Len(ImageBytes(s.cutShort)) - 1)
  /\ s.padding \in Seq(Byte)
  /\ s.padding # <<>> => s.kept = 0 /\ s.padding[1] # FF

ASSUME StreamsAssumption == \A s \in Streams : IsStream(s)

-----------------------------------------------------------------------------
(* The state machine *)

MJPEGParseState ==
  [position |-> 0, prev_position |-> 0, end_of_field |-> FALSE, field2 |-> FALSE,
   skip_count |-> 0, have_len_byte1 |-> FALSE, have_len_byte2 |-> FALSE, marker_state |-> 0,
   have_image |-> FALSE, rejected |-> FALSE]

\* Fault: the restart markers and stuffed bytes are followed by a length.
MarkerFound_NoEmpty(s, b) ==
  IF b = EOI THEN [s EXCEPT !.marker_state = 0, !.end_of_field = TRUE]
  ELSE IF b = FF THEN s
  ELSE [s EXCEPT !.marker_state = 4, !.have_len_byte1 = FALSE, !.have_len_byte2 = FALSE,
                 !.skip_count = 0]

\* State 3: the byte after 0xff.
MarkerFound(s, b) ==
  IF b = EOI THEN [s EXCEPT !.marker_state = 0, !.end_of_field = TRUE]
  ELSE IF IsEmptyMarker(b) THEN [s EXCEPT !.marker_state = 2]
  ELSE IF b = FF THEN s
  ELSE [s EXCEPT !.marker_state = 4, !.have_len_byte1 = FALSE, !.have_len_byte2 = FALSE,
                 !.skip_count = 0]

\* Fault: both length bytes are subtracted when they are read, and one again.
SegmentByte_TwoOff(s, b) ==
  LET first == ~s.have_len_byte1
      second == s.have_len_byte1 /\ ~s.have_len_byte2
      skip == IF first THEN b * 256 ELSE IF second THEN s.skip_count + b - 2 ELSE s.skip_count
      left == IF first THEN skip ELSE skip - 1
  IN [s EXCEPT !.have_len_byte1 = TRUE, !.have_len_byte2 = ~first, !.skip_count = left,
               !.marker_state = IF ~first /\ left = 0 THEN 2 ELSE 4]

\* State 4: the length of a segment includes its two bytes.
SegmentByte(s, b) ==
  LET first == ~s.have_len_byte1
      second == s.have_len_byte1 /\ ~s.have_len_byte2
      skip == IF first THEN b * 256 ELSE IF second THEN s.skip_count + b - 1 ELSE s.skip_count
      left == IF first THEN skip ELSE skip - 1
  IN [s EXCEPT !.have_len_byte1 = TRUE, !.have_len_byte2 = ~first, !.skip_count = left,
               !.marker_state = IF ~first /\ left = 0 THEN 2 ELSE 4]

\* One byte.
MarkerStep(s, b) ==
  CASE s.marker_state = 0 -> IF b = FF THEN [s EXCEPT !.marker_state = 1]
                             ELSE [s EXCEPT !.rejected = TRUE]
    [] s.marker_state = 1 -> IF b = SOI THEN [s EXCEPT !.marker_state = 2]
                             ELSE IF b # FF THEN [s EXCEPT !.marker_state = 0] ELSE s
    [] s.marker_state = 2 -> IF b = FF THEN [s EXCEPT !.marker_state = 3] ELSE s
    [] s.marker_state = 3 -> MarkerFound(s, b)
    [] s.marker_state = 4 -> SegmentByte(s, b)

\* The end of a field is the end of the image for the resolutions with one, and
\* after the second.
FieldEnded(s) ==
  [s EXCEPT !.have_image = stream.singleField \/ s.field2, !.end_of_field = FALSE,
            !.field2 = ~s.field2]

\* The loop body on byte b.
ByteStep(s, b) ==
  LET t == MarkerStep(s, b)
      next == [t EXCEPT !.position = @ + 1]
  IN IF t.rejected THEN t ELSE IF next.end_of_field THEN FieldEnded(next) ELSE next

-----------------------------------------------------------------------------
(* ParseMJPEGImage.  Its buffer is the file from bufferStart to filePos.   *)

BufferSize == filePos - bufferStart
InBuffer(first, last) == SubSeq(file, bufferStart + first, bufferStart + last)

Init ==
  /\ stream \in Streams
  /\ file = StreamBytes(stream)
  /\ filePos = 0 /\ bufferStart = 0 /\ state = MJPEGParseState
  /\ image = <<>> /\ found = <<>> /\ result = "running"

\* Fault: the image is taken from the start of the buffer.
Appended_FromStart(s) == image \o InBuffer(1, s.position)

\* What ProcessMJPEGImageData appends to the image, at the end of its loop.
Appended(s) == image \o InBuffer(s.prev_position + 1, s.position)

\* One turn of the loop of ProcessMJPEGImageData, and what follows the loop when
\* it is the last: when there is an image, or the buffer is used up.
ProcessByte ==
  /\ result = "running"
  /\ state.position < BufferSize
  /\ LET s == ByteStep([state EXCEPT !.have_image = FALSE], file[bufferStart + state.position + 1])
         done == s.have_image \/ s.position = BufferSize
     IN IF s.rejected
        THEN result' = "false" /\ state' = s /\ UNCHANGED <<image, found>>
        ELSE /\ state' = IF done THEN [s EXCEPT !.prev_position = s.position] ELSE s
             /\ image' = IF done THEN Appended(s) ELSE image
             /\ IF s.have_image
                THEN result' = "true" /\ found' = Append(found, Appended(s))
                ELSE UNCHANGED <<result, found>>
  /\ UNCHANGED <<stream, file, filePos, bufferStart>>

\* The buffer, all used, is filled again.
Fill(n) ==
  /\ result = "running" /\ state.position = BufferSize
  /\ filePos < Len(file)
  /\ bufferStart' = filePos
  /\ filePos' = IF filePos + n < Len(file) THEN filePos + n ELSE Len(file)
  /\ state' = [state EXCEPT !.position = 0, !.prev_position = 0]
  /\ UNCHANGED <<stream, file, image, found, result>>

\* Fault: a read of nothing is tried again.
EndOfFile_Again ==
  /\ result = "running" /\ state.position = BufferSize
  /\ filePos = Len(file)
  /\ UNCHANGED vars

\* The read gives nothing: no image, and what was appended is dropped.
EndOfFile ==
  /\ result = "running" /\ state.position = BufferSize
  /\ filePos = Len(file)
  /\ bufferStart' = filePos /\ result' = "false"
  /\ UNCHANGED <<stream, file, filePos, state, image, found>>

\* UpdateIndexTable calls again after each image.
ParseNext ==
  /\ result = "true"
  /\ image' = <<>> /\ result' = "running"
  /\ UNCHANGED <<stream, file, filePos, bufferStart, state, found>>

Next == ProcessByte \/ (\E n \in Reads : Fill(n)) \/ EndOfFile \/ ParseNext

Spec == Init /\ [][Next]_vars /\ WF_vars(Next)

-----------------------------------------------------------------------------
(* Properties *)

ParseState ==
  [position : Nat, prev_position : Nat, end_of_field : BOOLEAN, field2 : BOOLEAN,
   skip_count : Nat, have_len_byte1 : BOOLEAN, have_len_byte2 : BOOLEAN,
   marker_state : 0 .. 4, have_image : BOOLEAN, rejected : BOOLEAN]

\* Every variable has its type: the buffer lies in the file, and what was appended
\* to the image ends at or before the parser's position in the buffer.
TypeOK ==
  /\ IsStream(stream)
  /\ file \in Seq(Byte)
  /\ filePos \in 0 .. Len(file)
  /\ bufferStart \in 0 .. filePos
  /\ state \in ParseState /\ state.prev_position \in 0 .. state.position
  /\ image \in Seq(Byte)
  /\ found \in Seq(Seq(Byte))
  /\ result \in {"running", "true", "false"}

\* The images are found whole and in order, wherever the limits of the buffer
\* fall and whatever the segments contain.
ImagesAreWhole ==
  /\ Len(found) <= Len(stream.images)
  /\ \A k \in DOMAIN found : found[k] = ImageBytes(stream.images[k])

\* Parsing ends only when there are no more images: data that looks like the
\* end of the stream inside an image does not end it.
AllImagesFound == result = "false" => Len(found) = Len(stream.images)

\* ParseMJPEGImage returns; each call of it uses some of the file.
ParsingEnds == <>(result = "false")
=============================================================================
