--------------------------- MODULE MJPEGParserProofs ---------------------------
(***************************************************************************)
(* Proofs about MJPEGParser: that the search finds the images of every     *)
(* stream whole, in order and all of them, wherever the limits of the      *)
(* buffer fall.                                                            *)
(***************************************************************************)
EXTENDS MJPEGParser, InductionFacts, SequenceTheorems

-----------------------------------------------------------------------------
(* Where the state machine is *)

\* Where each of the sequences that FlattenSeq joins ends.
Offsets(seqs) ==
  LET off[i \in 0 .. Len(seqs)] == IF i = 0 THEN 0 ELSE off[i - 1] + Len(seqs[i])
  IN off

\* The length of a segment with a marker at m, as far as it's known after o bytes.
LengthAt(bytes, m, o, s) ==
  /\ s.have_len_byte1 <=> o > m
  /\ s.have_len_byte2 <=> o > m + 1
  /\ s.skip_count = IF o = m THEN 0 ELSE IF o = m + 1 THEN bytes[m + 1] * 256 ELSE Len(bytes) - o

\* The state after o bytes of a segment, not all of them.
SegmentAt(bytes, o, s) ==
  \/ o = 0 /\ s.marker_state = 2
  \/ \E m \in 2 .. Len(bytes) :
       /\ HasMarkerAt(bytes, m)
       /\ \/ o \in 1 .. (m - 1) /\ s.marker_state = 3
          \/ o \in m .. (Len(bytes) - 1) /\ s.marker_state = 4 /\ LengthAt(bytes, m, o, s)

\* The state after x bytes of a field, not all of them.
FieldAt(segments, x, s) ==
  LET starts == Offsets(segments)
      end == 2 + starts[Len(segments)]
  IN \/ x \in {0, 1} /\ s.marker_state = x
     \/ \E j \in 1 .. Len(segments), o \in Nat :
          /\ x = 2 + starts[j - 1] + o /\ o < Len(segments[j])
          /\ SegmentAt(segments[j], o, s)
     \/ x \in {end, end + 1} /\ s.marker_state = x - end + 2

FieldsBytes(fields) == [k \in DOMAIN fields |-> FieldBytes(fields[k])]
ImagesBytes(images) == [k \in DOMAIN images |-> ImageBytes(images[k])]

\* The state after x bytes of an image, not all of them.
ImageAt(fields, singleField, x, s) ==
  \E f \in 1 .. Len(fields), y \in Nat :
    /\ x = Offsets(FieldsBytes(fields))[f - 1] + y /\ y < Len(FieldBytes(fields[f]))
    /\ FieldAt(fields[f], y, s)
    /\ ~singleField => (s.field2 <=> f = 2)

\* The image that follows k images of a stream, and where it starts in the file.
ImageAfter(s, k) == IF k < Len(s.images) THEN s.images[k + 1] ELSE s.cutShort
StartAfter(s, k) == Offsets(ImagesBytes(s.images))[k]

Searched == ImageAfter(stream, Len(found))
SearchedStart == StartAfter(stream, Len(found))

\* The state machine is in the image after those that were found.
Within ==
  \E x \in Nat :
    /\ bufferStart + state.position = SearchedStart + x
    /\ ImageAt(Searched, stream.singleField, x, state)
    /\ Len(found) = Len(stream.images) => x <= stream.kept

\* What was appended of the image is from its start.
AppendedFromStart ==
  /\ SearchedStart <= bufferStart + state.prev_position
  /\ state.position = BufferSize => state.prev_position = state.position
  /\ result = "running" => image = SubSeq(file, SearchedStart + 1, bufferStart + state.prev_position)
  /\ result = "true" => bufferStart + state.position = SearchedStart
                        /\ state.prev_position = state.position

Searching ==
  /\ ~state.end_of_field /\ ~state.rejected
  /\ Within
  /\ AppendedFromStart

IInv ==
  /\ TypeOK
  /\ file = StreamBytes(stream)
  /\ state.position <= BufferSize \/ result = "false"
  /\ ImagesAreWhole
  /\ AllImagesFound
  /\ result # "false" => Searching

-----------------------------------------------------------------------------
(* Joining sequences *)

\* Where the joined sequences end.
LEMMA OffsetsAre ==
  ASSUME NEW S, NEW seqs \in Seq(Seq(S))
  PROVE  /\ Offsets(seqs)[0] = 0
         /\ \A k \in 0 .. Len(seqs) : Offsets(seqs)[k] \in Nat
         /\ \A k \in 1 .. Len(seqs) : Offsets(seqs)[k] = Offsets(seqs)[k - 1] + Len(seqs[k])
<1> DEFINE N == Len(seqs)
           Is(g) == g = [i \in 0 .. N |-> IF i = 0 THEN 0 ELSE g[i - 1] + Len(seqs[i])]
           off == CHOOSE g : Is(g)
           add == [p \in (1 .. N) \X Nat |-> p[2] + Len(seqs[p[1]])]
<1>1. N \in Nat /\ \A k \in 1 .. N : Len(seqs[k]) \in Nat
  <2>1. \A k \in 1 .. N : seqs[k] \in Seq(S)
    BY ElementOfSeq
  <2> QED BY <2>1, LenProperties
<1>2. Offsets(seqs) = off
  BY DEF Offsets
<1>3. add \in [(1 .. N) \X Nat -> Nat] /\ \A n \in 1 .. N, v \in Nat : add[<<n, v>>] = v + Len(seqs[n])
  <2> HIDE DEF N
  <2> QED BY SMTT(60), <1>1
<1> HIDE DEF N, add
<1>4. PICK f \in [0 .. N -> Nat] : IsStepwiseTo(f, N, 0, add)
  BY <1>1, <1>3, StepwiseRecursionTo
<1>5. f[0] = 0 /\ \A n \in 1 .. N : f[n] = f[n - 1] + Len(seqs[n])
  <2>1. ASSUME NEW n \in 1 .. N PROVE f[n] = f[n - 1] + Len(seqs[n])
    <3>1. n - 1 \in 0 .. N
      BY <1>1
    <3>2. f[n - 1] \in Nat
      BY <3>1
    <3>3. f[n] = add[<<n, f[n - 1]>>]
      BY <1>4 DEF IsStepwiseTo
    <3> QED BY <3>2, <3>3, <1>3
  <2> QED BY <2>1, <1>4 DEF IsStepwiseTo
<1>6. Is(f)
  <2>1. \A i \in 0 .. N : i # 0 => i \in 1 .. N
    BY <1>1
  <2>2. \A i \in 0 .. N : f[i] = IF i = 0 THEN 0 ELSE f[i - 1] + Len(seqs[i])
    BY <1>5, <2>1
  <2> QED BY <2>2
<1>7. Is(off)
  <2> HIDE DEF Is
  <2> QED BY <1>6
<1>8. \A i \in 0 .. N : off[i] = IF i = 0 THEN 0 ELSE off[i - 1] + Len(seqs[i])
  <2> HIDE DEF off
  <2> QED BY <1>7
<1> HIDE DEF off, Is
<1>9. \A k \in 0 .. N : off[k] = f[k]
  <2> DEFINE A == {k \in Nat : k <= N => off[k] = f[k]}
  <2>1. 0 \in A
    BY <1>1, <1>5, <1>8
  <2>2. ASSUME NEW k \in Nat, k \in A PROVE k + 1 \in A
    <3> SUFFICES ASSUME k + 1 <= N PROVE off[k + 1] = f[k + 1]
      OBVIOUS
    <3>1. k + 1 \in 1 .. N /\ k + 1 \in 0 .. N /\ k + 1 # 0 /\ (k + 1) - 1 = k /\ k <= N
      BY <1>1
    <3>2. off[k + 1] = off[k] + Len(seqs[k + 1])
      BY <3>1, <1>8
    <3>3. f[k + 1] = f[k] + Len(seqs[k + 1])
      BY <3>1, <1>5
    <3> QED BY <3>1, <3>2, <3>3, <2>2
  <2> HIDE DEF A
  <2>3. \A k \in Nat : k \in A
    BY <2>1, <2>2, InductionOnNat
  <2> QED BY <2>3, <1>1 DEF A
<1>10. \A k \in 1 .. N : k \in 0 .. N /\ k - 1 \in 0 .. N
  BY <1>1
<1>11. 0 \in 0 .. N
  BY <1>1
<1> QED BY <1>2, <1>5, <1>9, <1>10, <1>11 DEF N

LEMMA OffsetsGrow ==
  ASSUME NEW S, NEW seqs \in Seq(Seq(S)), NEW i \in 0 .. Len(seqs), NEW j \in i .. Len(seqs)
  PROVE  Offsets(seqs)[i] <= Offsets(seqs)[j]
<1> DEFINE off == Offsets(seqs)
           N == Len(seqs)
           A == {n \in Nat : i + n <= N => off[i] <= off[i + n]}
<1>1. N \in Nat /\ \A k \in 1 .. N : Len(seqs[k]) \in Nat
  <2>1. \A k \in 1 .. N : seqs[k] \in Seq(S)
    BY ElementOfSeq
  <2> QED BY <2>1, LenProperties
<1>2. /\ \A k \in 0 .. N : off[k] \in Nat
      /\ \A k \in 1 .. N : off[k] = off[k - 1] + Len(seqs[k])
  BY OffsetsAre
<1> HIDE DEF off
<1>3. 0 \in A
  BY <1>1, <1>2
<1>4. ASSUME NEW n \in Nat, n \in A PROVE n + 1 \in A
  <2> SUFFICES ASSUME i + (n + 1) <= N PROVE off[i] <= off[i + (n + 1)]
    OBVIOUS
  <2>1. i + (n + 1) \in 1 .. N /\ (i + (n + 1)) - 1 = i + n /\ i + n \in 0 .. N /\ i + n <= N
    BY <1>1
  <2>2. off[i + (n + 1)] = off[i + n] + Len(seqs[i + (n + 1)]) /\ Len(seqs[i + (n + 1)]) \in Nat
    BY <2>1, <1>1, <1>2
  <2>3. off[i] <= off[i + n]
    BY <2>1, <1>4
  <2>4. off[i] \in Nat /\ off[i + n] \in Nat
    BY <2>1, <1>2
  <2> QED BY <2>2, <2>3, <2>4
<1> HIDE DEF A
<1>5. \A n \in Nat : n \in A
  BY <1>3, <1>4, InductionOnNat
<1>6. j - i \in Nat /\ i + (j - i) = j /\ j <= N
  BY <1>1
<1>7. j - i \in A
  BY <1>5, <1>6
<1> QED BY <1>6, <1>7 DEF A, off

\* What FlattenSeq returns: every element of each sequence at its place.
LEMMA Flattened ==
  ASSUME NEW S, NEW seqs \in Seq(Seq(S))
  PROVE  /\ FlattenSeq(seqs) \in Seq(S)
         /\ Len(FlattenSeq(seqs)) = Offsets(seqs)[Len(seqs)]
         /\ \A k \in 1 .. Len(seqs), o \in Nat :
              o \in 1 .. Len(seqs[k]) =>
                /\ Offsets(seqs)[k - 1] + o \in 1 .. Len(FlattenSeq(seqs))
                /\ FlattenSeq(seqs)[Offsets(seqs)[k - 1] + o] = seqs[k][o]
<1> DEFINE N == Len(seqs)
           off == Offsets(seqs)
           Is(g) == g = [i \in 1 .. N |-> IF i = 1 THEN seqs[i] ELSE g[i - 1] \o seqs[i]]
           flatten == CHOOSE g : Is(g)
           join == [p \in (1 .. N) \X Seq(S) |-> p[2] \o seqs[p[1]]]
<1>1. N \in Nat /\ \A k \in 1 .. N : seqs[k] \in Seq(S) /\ Len(seqs[k]) \in Nat
  <2>1. \A k \in 1 .. N : seqs[k] \in Seq(S)
    BY ElementOfSeq
  <2> QED BY <2>1, LenProperties
<1>2. FlattenSeq(seqs) = IF N = 0 THEN seqs ELSE flatten[N]
  BY DEF FlattenSeq
<1>o. /\ off[0] = 0
      /\ \A k \in 0 .. N : off[k] \in Nat
      /\ \A k \in 1 .. N : off[k] = off[k - 1] + Len(seqs[k])
  BY OffsetsAre
<1>g. \A i \in 0 .. N : \A j \in i .. N : off[i] <= off[j]
  BY OffsetsGrow
<1>3. join \in [(1 .. N) \X Seq(S) -> Seq(S)] /\ \A n \in 1 .. N, v \in Seq(S) : join[<<n, v>>] = v \o seqs[n]
  <2> HIDE DEF N
  <2>1. \A n \in 1 .. N, v \in Seq(S) : v \o seqs[n] \in Seq(S)
    BY <1>1, ConcatProperties
  <2> QED BY <2>1
<1> HIDE DEF join, flatten, off
<1>4. PICK f \in [0 .. N -> Seq(S)] : IsStepwiseTo(f, N, <<>>, join)
  <2>1. <<>> \in Seq(S)
    BY EmptySeq
  <2> HIDE DEF N
  <2> QED BY <1>1, <1>3, <2>1, StepwiseRecursionTo
<1>5. f[0] = <<>> /\ \A n \in 1 .. N : f[n - 1] \in Seq(S) /\ f[n] = f[n - 1] \o seqs[n]
  <2>1. ASSUME NEW n \in 1 .. N PROVE f[n - 1] \in Seq(S) /\ f[n] = f[n - 1] \o seqs[n]
    <3>1. n - 1 \in 0 .. N
      BY <1>1
    <3>2. f[n - 1] \in Seq(S)
      BY <3>1
    <3>3. f[n] = join[<<n, f[n - 1]>>]
      BY <1>4 DEF IsStepwiseTo
    <3> QED BY <3>2, <3>3, <1>3
  <2> QED BY <2>1, <1>4 DEF IsStepwiseTo
<1>6. \A n \in 1 .. N : f[n] = IF n = 1 THEN seqs[n] ELSE f[n - 1] \o seqs[n]
  <2>1. ASSUME 1 \in 1 .. N PROVE f[1] = seqs[1]
    <3>1. f[1 - 1] = <<>> /\ f[1] = f[1 - 1] \o seqs[1] /\ seqs[1] \in Seq(S)
      <4>1. 1 - 1 = 0
        OBVIOUS
      <4> QED BY <4>1, <1>5, <1>1, <2>1
    <3> QED BY <3>1, ConcatEmptySeq
  <2> QED BY <2>1, <1>5
<1>7. \E g : Is(g)
  <2> DEFINE g == [n \in 1 .. N |-> f[n]]
  <2>1. ASSUME NEW n \in 1 .. N PROVE g[n] = IF n = 1 THEN seqs[n] ELSE g[n - 1] \o seqs[n]
    <3>1. n # 1 => n - 1 \in 1 .. N
      BY <1>1
    <3> QED BY <3>1, <1>6
  <2>2. Is(g)
    BY <2>1
  <2> QED BY <2>2
<1>8. \A n \in 1 .. N : flatten[n] = IF n = 1 THEN seqs[n] ELSE flatten[n - 1] \o seqs[n]
  <2>1. Is(flatten)
    <3> HIDE DEF Is
    <3> QED BY <1>7 DEF flatten
  <2> QED BY <2>1
<1> HIDE DEF Is
<1>9. \A n \in 1 .. N : flatten[n] = f[n]
  <2> DEFINE A == {k \in Nat : k + 1 <= N => flatten[k + 1] = f[k + 1]}
  <2>1. 0 \in A
    BY <1>1, <1>6, <1>8
  <2>2. ASSUME NEW k \in Nat, k \in A PROVE k + 1 \in A
    <3> SUFFICES ASSUME (k + 1) + 1 <= N PROVE flatten[(k + 1) + 1] = f[(k + 1) + 1]
      OBVIOUS
    <3>1. (k + 1) + 1 \in 1 .. N /\ (k + 1) + 1 # 1 /\ ((k + 1) + 1) - 1 = k + 1 /\ k + 1 <= N
      BY <1>1
    <3> QED BY <3>1, <1>6, <1>8, <2>2
  <2> HIDE DEF A
  <2>3. \A k \in Nat : k \in A
    BY <2>1, <2>2, InductionOnNat
  <2>4. \A n \in 1 .. N : n - 1 \in Nat /\ (n - 1) + 1 = n /\ n <= N
    BY <1>1
  <2> QED BY <2>3, <2>4 DEF A
<1>10. FlattenSeq(seqs) = f[N]
  <2>1. CASE N = 0
    <3>1. seqs = <<>>
      BY <2>1, EmptySeq
    <3> QED BY <3>1, <2>1, <1>2, <1>5
  <2>2. CASE N # 0
    <3>1. N \in 1 .. N
      BY <2>2, <1>1
    <3> QED BY <3>1, <2>2, <1>2, <1>9
  <2> QED BY <2>1, <2>2
<1> HIDE DEF N
\* the first n sequences, joined
<1>11. ASSUME NEW n \in Nat, n <= N
       PROVE  /\ f[n] \in Seq(S) /\ Len(f[n]) = off[n]
              /\ \A k \in 1 .. n, o \in Nat :
                   o \in 1 .. Len(seqs[k]) => f[n][off[k - 1] + o] = seqs[k][o]
  <2> DEFINE At(m, k, o) == o \in 1 .. Len(seqs[k]) => f[m][off[k - 1] + o] = seqs[k][o]
             A == {m \in Nat : m <= N => /\ f[m] \in Seq(S) /\ Len(f[m]) = off[m]
                                         /\ \A k \in 1 .. m, o \in Nat : At(m, k, o)}
  <2>1. 0 \in A
    <3>1. <<>> \in Seq(S) /\ Len(<<>>) = 0
      BY EmptySeq
    <3> QED BY <3>1, <1>5, <1>o
  <2>2. ASSUME NEW m \in Nat, m \in A PROVE m + 1 \in A
    <3> SUFFICES ASSUME m + 1 <= N
                 PROVE  /\ f[m + 1] \in Seq(S) /\ Len(f[m + 1]) = off[m + 1]
                        /\ \A k \in 1 .. (m + 1), o \in Nat : At(m + 1, k, o)
      OBVIOUS
    <3>1. m + 1 \in 1 .. N /\ (m + 1) - 1 = m /\ m <= N /\ m \in 0 .. N
      BY <1>1
    <3>2. f[m] \in Seq(S) /\ Len(f[m]) = off[m] /\ \A k \in 1 .. m, o \in Nat : At(m, k, o)
      BY <3>1, <2>2
    <3>3. f[m + 1] = f[m] \o seqs[m + 1] /\ seqs[m + 1] \in Seq(S) /\ Len(seqs[m + 1]) \in Nat
      BY <3>1, <1>1, <1>5
    <3>4. /\ f[m + 1] \in Seq(S) /\ Len(f[m + 1]) = off[m] + Len(seqs[m + 1])
          /\ \A i \in 1 .. (off[m] + Len(seqs[m + 1])) :
               f[m + 1][i] = IF i <= off[m] THEN f[m][i] ELSE seqs[m + 1][i - off[m]]
      <4>1. Len(f[m]) = off[m] /\ f[m] \in Seq(S) /\ seqs[m + 1] \in Seq(S)
        BY <3>2, <3>3
      <4> HIDE DEF At, A
      <4>2. /\ f[m] \o seqs[m + 1] \in Seq(S)
            /\ Len(f[m] \o seqs[m + 1]) = Len(f[m]) + Len(seqs[m + 1])
            /\ \A i \in 1 .. (Len(f[m]) + Len(seqs[m + 1])) :
                 (f[m] \o seqs[m + 1])[i] = IF i <= Len(f[m]) THEN f[m][i] ELSE seqs[m + 1][i - Len(f[m])]
        BY ONLY <4>1, ConcatProperties
      <4> QED BY ONLY <4>1, <4>2, <3>3
    <3>5. off[m + 1] = off[m] + Len(seqs[m + 1]) /\ off[m] \in Nat
      BY <3>1, <1>o
    <3>6. ASSUME NEW k \in 1 .. (m + 1), NEW o \in Nat, o \in 1 .. Len(seqs[k])
          PROVE  f[m + 1][off[k - 1] + o] = seqs[k][o]
      <4>1. CASE k = m + 1
        <5>1. off[m] + o \in 1 .. (off[m] + Len(seqs[m + 1])) /\ ~(off[m] + o <= off[m])
              /\ (off[m] + o) - off[m] = o
          BY <4>1, <3>3, <3>5, <3>6
        <5> QED BY <5>1, <4>1, <3>1, <3>4
      <4>2. CASE k # m + 1
        <5>1. k \in 1 .. m /\ k \in 1 .. N /\ k \in 0 .. N /\ m \in k .. N /\ k - 1 \in 0 .. N
          BY <4>2, <3>1, <1>1
        <5>2. off[k] <= off[m] /\ off[k] = off[k - 1] + Len(seqs[k]) /\ off[k - 1] \in Nat
              /\ Len(seqs[k]) \in Nat /\ off[k] \in Nat
          BY <5>1, <1>1, <1>o, <1>g
        <5>3. off[k - 1] + o \in 1 .. (off[m] + Len(seqs[m + 1])) /\ off[k - 1] + o <= off[m]
          <6>1. o <= Len(seqs[k]) /\ 1 <= o /\ o \in Nat
            BY <3>6, <5>2
          <6>2. Len(seqs[m + 1]) \in Nat /\ off[m] \in Nat
            BY <3>3, <3>5
          <6> HIDE DEF At, A
          <6>3. \A a, b, c, d, l, x \in Nat :
                  1 <= x /\ x <= l /\ b = a + l /\ b <= c => a + x \in 1 .. (c + d) /\ a + x <= c
            OBVIOUS
          <6> QED BY ONLY Zenon, <6>1, <6>2, <6>3, <5>2
        <5>4. f[m][off[k - 1] + o] = seqs[k][o]
          BY <5>1, <3>2, <3>6
        <5> QED BY <5>3, <5>4, <3>4
      <4> QED BY <4>1, <4>2
    <3> QED BY <3>4, <3>5, <3>6
  <2> HIDE DEF A
  <2>3. \A m \in Nat : m \in A
    BY <2>1, <2>2, InductionOnNat
  <2>4. n \in A
    BY <2>3
  <2> QED BY <2>4, <1>11 DEF A
<1>12. N <= N /\ N \in Nat
  BY <1>1
<1>13. ASSUME NEW k \in 1 .. N, NEW o \in Nat, o \in 1 .. Len(seqs[k])
       PROVE  off[k - 1] + o \in 1 .. off[N]
  <2>1. k \in 0 .. N /\ k - 1 \in 0 .. N /\ N \in k .. N
    BY <1>1
  <2>2. off[k] <= off[N] /\ off[k] = off[k - 1] + Len(seqs[k]) /\ off[k - 1] \in Nat /\ off[N] \in Nat
        /\ Len(seqs[k]) \in Nat
    BY <2>1, <1>1, <1>o, <1>g
  <2> QED BY <2>2, <1>13
<1> QED BY <1>10, <1>11, <1>12, <1>13 DEF N, off
-----------------------------------------------------------------------------
(* The bytes of a stream *)

\* ConcatProperties, for sequences whose lengths are known.
LEMMA Joined ==
  ASSUME NEW S, NEW s1 \in Seq(S), NEW s2 \in Seq(S), NEW a, NEW b, Len(s1) = a, Len(s2) = b
  PROVE  /\ s1 \o s2 \in Seq(S) /\ Len(s1 \o s2) = a + b
         /\ \A i \in 1 .. (a + b) : (s1 \o s2)[i] = IF i <= a THEN s1[i] ELSE s2[i - a]
<1>1. /\ s1 \o s2 \in Seq(S) /\ Len(s1 \o s2) = Len(s1) + Len(s2)
      /\ \A i \in 1 .. (Len(s1) + Len(s2)) :
           (s1 \o s2)[i] = IF i <= Len(s1) THEN s1[i] ELSE s2[i - Len(s1)]
  BY ConcatProperties
<1> QED BY ONLY <1>1, Len(s1) = a, Len(s2) = b

LEMMA FieldBytesAre ==
  ASSUME NEW segments \in Seq(Seq(Byte))
  PROVE  LET bytes == FieldBytes(segments)
             starts == Offsets(segments)
             end == 2 + starts[Len(segments)]
         IN /\ bytes \in Seq(Byte) /\ starts[Len(segments)] \in Nat /\ Len(bytes) = end + 2
            /\ bytes[1] = FF /\ bytes[2] = SOI /\ bytes[end + 1] = FF /\ bytes[end + 2] = EOI
            /\ \A j \in 1 .. Len(segments), o \in Nat :
                 o \in 1 .. Len(segments[j]) => bytes[2 + starts[j - 1] + o] = segments[j][o]
<1> DEFINE flat == FlattenSeq(segments)
           starts == Offsets(segments)
           n == Len(segments)
           L == starts[n]
           first == <<FF, SOI>>
           last == <<FF, EOI>>
<1>1. n \in Nat /\ n \in 0 .. n
  BY LenProperties
<1>2. /\ flat \in Seq(Byte) /\ Len(flat) = L /\ L \in Nat
      /\ \A j \in 1 .. n, o \in Nat : o \in 1 .. Len(segments[j]) =>
           /\ starts[j - 1] + o \in 1 .. Len(flat)
           /\ flat[starts[j - 1] + o] = segments[j][o]
  BY <1>1, Flattened, OffsetsAre
<1>3. /\ first \in Seq(Byte) /\ Len(first) = 2 /\ first[1] = FF /\ first[2] = SOI
      /\ last \in Seq(Byte) /\ Len(last) = 2 /\ last[1] = FF /\ last[2] = EOI
  BY DEF FF, SOI, EOI, Byte
<1>4. FieldBytes(segments) = (first \o flat) \o last
  <2>1. first \o flat \o last = (first \o flat) \o last
    OBVIOUS
  <2> QED BY <2>1 DEF FieldBytes
<1>j. \A j \in 1 .. n : starts[j - 1] \in Nat
  <2>1. \A j \in 1 .. n : j - 1 \in 0 .. n
    BY <1>1
  <2> QED BY <2>1, OffsetsAre
<1> HIDE DEF flat, starts, n, L, first, last
<1> DEFINE front == first \o flat
<1>5. /\ front \in Seq(Byte) /\ Len(front) = 2 + L
      /\ \A i \in 1 .. (2 + L) : front[i] = IF i <= 2 THEN first[i] ELSE flat[i - 2]
  <2>1. first \in Seq(Byte) /\ Len(first) = 2 /\ flat \in Seq(Byte) /\ Len(flat) = L
    BY <1>2, <1>3
  <2>2. /\ first \o flat \in Seq(Byte) /\ Len(first \o flat) = Len(first) + Len(flat)
        /\ \A i \in 1 .. (Len(first) + Len(flat)) :
             (first \o flat)[i] = IF i <= Len(first) THEN first[i] ELSE flat[i - Len(first)]
    BY ONLY <2>1, ConcatProperties
  <2> QED BY ONLY <2>1, <2>2
<1> HIDE DEF front
<1>6. /\ front \o last \in Seq(Byte) /\ Len(front \o last) = (2 + L) + 2
      /\ \A i \in 1 .. ((2 + L) + 2) :
           (front \o last)[i] = IF i <= 2 + L THEN front[i] ELSE last[i - (2 + L)]
  <2>1. front \in Seq(Byte) /\ Len(front) = 2 + L /\ last \in Seq(Byte) /\ Len(last) = 2
    BY <1>3, <1>5
  <2>2. /\ front \o last \in Seq(Byte) /\ Len(front \o last) = Len(front) + Len(last)
        /\ \A i \in 1 .. (Len(front) + Len(last)) :
             (front \o last)[i] = IF i <= Len(front) THEN front[i] ELSE last[i - Len(front)]
    BY ONLY <2>1, ConcatProperties
  <2> QED BY ONLY <2>1, <2>2
<1> DEFINE bytes == front \o last
<1> HIDE DEF bytes
<1>7. /\ bytes \in Seq(Byte) /\ Len(bytes) = (2 + L) + 2
      /\ \A i \in 1 .. ((2 + L) + 2) :
           bytes[i] = IF i <= 2 + L THEN front[i] ELSE last[i - (2 + L)]
  BY <1>6 DEF bytes
<1>8. bytes[1] = FF /\ bytes[2] = SOI
  <2>1. 1 \in 1 .. ((2 + L) + 2) /\ 1 <= 2 + L /\ 1 \in 1 .. (2 + L) /\ 2 \in 1 .. ((2 + L) + 2) /\ 2 <= 2 + L
        /\ 2 \in 1 .. (2 + L)
    BY <1>2
  <2>2. bytes[1] = front[1] /\ bytes[2] = front[2]
    BY <2>1, <1>7
  <2>3. front[1] = first[1] /\ front[2] = first[2]
    BY <2>1, <1>5
  <2> QED BY <2>2, <2>3, <1>3
<1>9. bytes[(2 + L) + 1] = FF /\ bytes[(2 + L) + 2] = EOI
  <2>1. (2 + L) + 1 \in 1 .. ((2 + L) + 2) /\ ~((2 + L) + 1 <= 2 + L) /\ ((2 + L) + 1) - (2 + L) = 1
        /\ (2 + L) + 2 \in 1 .. ((2 + L) + 2) /\ ~((2 + L) + 2 <= 2 + L) /\ ((2 + L) + 2) - (2 + L) = 2
    BY <1>2
  <2> QED BY <2>1, <1>3, <1>7
<1>10. ASSUME NEW j \in 1 .. n, NEW o \in Nat, o \in 1 .. Len(segments[j])
       PROVE  bytes[2 + starts[j - 1] + o] = segments[j][o]
  <2>1. starts[j - 1] + o \in 1 .. L /\ starts[j - 1] \in Nat
    BY <1>2, <1>10, <1>j
  <2>2. \A a, b \in Nat : a + b \in 1 .. L => /\ 2 + a + b \in 1 .. ((2 + L) + 2) /\ 2 + a + b <= 2 + L
                                              /\ 2 + a + b \in 1 .. (2 + L) /\ ~(2 + a + b <= 2)
                                              /\ (2 + a + b) - 2 = a + b
    BY <1>2
  <2>3. bytes[2 + starts[j - 1] + o] = flat[starts[j - 1] + o]
    BY <2>1, <2>2, <1>5, <1>7
  <2> QED BY <2>3, <1>2, <1>10
<1> QED BY <1>2, <1>4, <1>7, <1>8, <1>9, <1>10 DEF bytes, front, starts, n, L

LEMMA ImageBytesAre ==
  ASSUME NEW fields \in Seq(Seq(Seq(Byte)))
  PROVE  /\ FieldsBytes(fields) \in Seq(Seq(Byte)) /\ Len(FieldsBytes(fields)) = Len(fields)
         /\ \A f \in 1 .. Len(fields) : /\ fields[f] \in Seq(Seq(Byte))
                                        /\ FieldsBytes(fields)[f] = FieldBytes(fields[f])
         /\ ImageBytes(fields) = FlattenSeq(FieldsBytes(fields))
         /\ ImageBytes(fields) \in Seq(Byte)
<1>1. Len(fields) \in Nat /\ DOMAIN fields = 1 .. Len(fields)
  BY LenProperties
<1>2. \A f \in 1 .. Len(fields) : fields[f] \in Seq(Seq(Byte)) /\ FieldBytes(fields[f]) \in Seq(Byte)
  <2>1. \A f \in 1 .. Len(fields) : fields[f] \in Seq(Seq(Byte))
    BY ElementOfSeq
  <2> QED BY <2>1, FieldBytesAre
<1>3. FieldsBytes(fields) = [f \in 1 .. Len(fields) |-> FieldBytes(fields[f])]
  BY <1>1 DEF FieldsBytes
<1>4. FieldsBytes(fields) \in Seq(Seq(Byte)) /\ Len(FieldsBytes(fields)) = Len(fields)
  BY <1>1, <1>2, <1>3
<1>5. ImageBytes(fields) = FlattenSeq(FieldsBytes(fields))
  BY DEF ImageBytes, FieldsBytes
<1> QED BY <1>2, <1>3, <1>4, <1>5, Flattened

\* Where the images and what follows them are in the file.
LEMMA StreamBytesAre ==
  ASSUME NEW s, IsStream(s)
  PROVE  LET starts == Offsets(ImagesBytes(s.images))
             n == Len(s.images)
             bytes == StreamBytes(s)
         IN /\ n \in Nat /\ s.kept \in Nat /\ bytes \in Seq(Byte)
            /\ starts[0] = 0 /\ \A k \in 0 .. n : starts[k] \in Nat /\ starts[k] <= starts[n]
            /\ \A k \in 1 .. n : /\ starts[k] = starts[k - 1] + Len(ImageBytes(s.images[k]))
                                 /\ \A o \in 1 .. Len(ImageBytes(s.images[k])) :
                                      bytes[starts[k - 1] + o] = ImageBytes(s.images[k])[o]
            /\ starts[n] + s.kept <= Len(bytes)
            /\ \A o \in 1 .. s.kept : bytes[starts[n] + o] = ImageBytes(s.cutShort)[o]
            /\ s.kept < Len(ImageBytes(s.cutShort))
            /\ starts[n] + s.kept < Len(bytes) => s.kept = 0 /\ bytes[starts[n] + 1] # FF
<1> DEFINE seqs == ImagesBytes(s.images)
           starts == Offsets(seqs)
           n == Len(s.images)
           cut == ImageBytes(s.cutShort)
           flat == FlattenSeq(seqs)
           part == SubSeq(cut, 1, s.kept)
           pad == s.padding
<1>1. /\ s.images \in Seq(Seq(Seq(Seq(Byte)))) /\ s.kept \in 0 .. (Len(cut) - 1) /\ pad \in Seq(Byte)
      /\ s.cutShort \in Seq(Seq(Seq(Byte))) /\ (pad # <<>> => s.kept = 0 /\ pad[1] # FF)
  BY DEF IsStream, IsImage
<1>2. n \in Nat /\ DOMAIN s.images = 1 .. n
  BY <1>1, LenProperties
<1>3. \A k \in 1 .. n : s.images[k] \in Seq(Seq(Seq(Byte))) /\ ImageBytes(s.images[k]) \in Seq(Byte)
  <2>1. \A k \in 1 .. n : s.images[k] \in Seq(Seq(Seq(Byte)))
    BY <1>1, ElementOfSeq
  <2> QED BY <2>1, ImageBytesAre
<1>4. seqs = [k \in 1 .. n |-> ImageBytes(s.images[k])]
  BY <1>2 DEF ImagesBytes
<1>5. seqs \in Seq(Seq(Byte)) /\ Len(seqs) = n /\ \A k \in 1 .. n : seqs[k] = ImageBytes(s.images[k])
  <2> HIDE DEF seqs
  <2> QED BY <1>2, <1>3, <1>4
<1>6. cut \in Seq(Byte) /\ Len(cut) \in Nat
  <2>1. cut \in Seq(Byte)
    BY <1>1, ImageBytesAre
  <2> QED BY <2>1, LenProperties
<1>7. StreamBytes(s) = (flat \o part) \o pad
  <2>1. flat \o part \o pad = (flat \o part) \o pad
    OBVIOUS
  <2> QED BY <2>1 DEF StreamBytes, ImagesBytes
<1> HIDE DEF seqs, cut, pad
<1>8. s.kept \in Nat /\ s.kept < Len(cut)
  BY <1>1, <1>6
<1>9. /\ part \in Seq(Byte) /\ Len(part) = s.kept /\ \A o \in 1 .. s.kept : part[o] = cut[o]
  <2>1. \A i \in 1 .. s.kept : cut[i] \in Byte
    BY <1>6, <1>8, ElementOfSeq
  <2> QED BY <1>6, <1>8, <2>1, SubSeqProperties
<1>10. /\ starts[0] = 0 /\ \A k \in 0 .. n : starts[k] \in Nat /\ starts[k] <= starts[n]
       /\ \A k \in 1 .. n : starts[k] = starts[k - 1] + Len(seqs[k])
  <2>1. \A k \in 0 .. n : n \in k .. n
    BY <1>2
  <2> QED BY <2>1, <1>5, OffsetsAre, OffsetsGrow
<1>11. /\ flat \in Seq(Byte) /\ Len(flat) = starts[n]
       /\ \A k \in 1 .. n, o \in Nat :
            o \in 1 .. Len(seqs[k]) => /\ starts[k - 1] + o \in 1 .. Len(flat)
                                       /\ flat[starts[k - 1] + o] = seqs[k][o]
  BY <1>5, Flattened
<1> DEFINE L == starts[n]
<1>12. L \in Nat /\ Len(pad) \in Nat /\ (Len(pad) > 0 => pad # <<>>)
  <2>1. n \in 0 .. n
    BY <1>2
  <2>2. Len(pad) \in Nat
    BY <1>1, LenProperties
  <2> QED BY <2>1, <2>2, <1>10, EmptySeq
<1> HIDE DEF part, flat, starts, n, L
<1> DEFINE front == flat \o part
<1>13. /\ front \in Seq(Byte) /\ Len(front) = L + s.kept
       /\ \A i \in 1 .. (L + s.kept) : front[i] = IF i <= L THEN flat[i] ELSE part[i - L]
  <2>1. Len(flat) = L
    BY <1>11 DEF L
  <2> QED BY <2>1, <1>8, <1>9, <1>11, Joined
<1> HIDE DEF front
<1> DEFINE bytes == front \o pad
<1>14. /\ bytes \in Seq(Byte) /\ Len(bytes) = (L + s.kept) + Len(pad)
       /\ \A i \in 1 .. ((L + s.kept) + Len(pad)) :
            bytes[i] = IF i <= L + s.kept THEN front[i] ELSE pad[i - (L + s.kept)]
  <2>1. front \in Seq(Byte) /\ Len(front) = L + s.kept /\ pad \in Seq(Byte)
    BY <1>1, <1>13
  <2>2. Len(pad) = Len(pad)
    OBVIOUS
  <2> QED BY ONLY <2>1, <2>2, Joined
<1> HIDE DEF bytes
<1>15. ASSUME NEW k \in 1 .. n, NEW o \in 1 .. Len(seqs[k]) PROVE bytes[starts[k - 1] + o] = seqs[k][o]
  <2>1. Len(seqs[k]) \in Nat
    <3>1. seqs[k] \in Seq(Byte)
      BY <1>3, <1>5
    <3> QED BY <3>1, LenProperties
  <2>2. o \in Nat
    BY <2>1
  <2>3. starts[k - 1] + o \in 1 .. L /\ flat[starts[k - 1] + o] = seqs[k][o]
    BY <2>2, <1>11, <1>15 DEF L
  <2>4. \A i \in 1 .. L : i \in 1 .. (L + s.kept) /\ i <= L /\ i <= L + s.kept
                          /\ i \in 1 .. ((L + s.kept) + Len(pad))
    BY <1>8, <1>12
  <2>5. \A i \in 1 .. L : bytes[i] = flat[i]
    BY <2>4, <1>13, <1>14
  <2> QED BY <2>3, <2>5
<1>16. ASSUME NEW o \in 1 .. s.kept PROVE bytes[L + o] = cut[o]
  <2>1. L + o \in 1 .. (L + s.kept) /\ ~(L + o <= L) /\ (L + o) - L = o /\ L + o <= L + s.kept
        /\ L + o \in 1 .. ((L + s.kept) + Len(pad))
    BY <1>8, <1>12
  <2>2. bytes[L + o] = front[L + o] /\ front[L + o] = part[o]
    BY <2>1, <1>13, <1>14
  <2> QED BY <2>2, <1>9
<1>17. ASSUME L + s.kept < Len(bytes) PROVE s.kept = 0 /\ bytes[L + 1] # FF
  <2>1. Len(pad) > 0
    BY <1>17, <1>8, <1>12, <1>14
  <2>2. s.kept = 0 /\ pad[1] # FF
    BY <2>1, <1>1, <1>12
  <2>3. L + 1 \in 1 .. ((L + s.kept) + Len(pad)) /\ ~(L + 1 <= L + s.kept) /\ (L + 1) - (L + s.kept) = 1
    BY <2>1, <2>2, <1>12
  <2>4. bytes[L + 1] = pad[(L + 1) - (L + s.kept)]
    BY <2>3, <1>14
  <2> QED BY <2>2, <2>3, <2>4
<1>18. L + s.kept <= Len(bytes)
  BY <1>8, <1>12, <1>14
<1>19. StreamBytes(s) = bytes
  BY <1>7 DEF bytes, front
<1>20. \A k \in 1 .. n : starts[k] = starts[k - 1] + Len(ImageBytes(s.images[k]))
  BY <1>5, <1>10
<1>21. \A k \in 1 .. n : \A o \in 1 .. Len(ImageBytes(s.images[k])) :
         bytes[starts[k - 1] + o] = ImageBytes(s.images[k])[o]
  BY <1>5, <1>15
<1> HIDE DEF bytes
<1> QED BY <1>2, <1>8, <1>10, <1>14, <1>16, <1>17, <1>18, <1>19, <1>20, <1>21 DEF L, n, starts, seqs, cut
-----------------------------------------------------------------------------
(* One byte *)

\* What a byte that does not end a field leaves as it is.
KeepsRest(s, t) ==
  /\ t \in ParseState
  /\ t.position = s.position /\ t.prev_position = s.prev_position
  /\ t.end_of_field = s.end_of_field /\ t.field2 = s.field2
  /\ t.have_image = s.have_image /\ t.rejected = s.rejected

\* The alternatives of MarkerStep.
LEMMA MarkerSteps ==
  ASSUME NEW s \in ParseState, NEW b \in Byte
  PROVE  /\ s.marker_state = 0 =>
              MarkerStep(s, b) = IF b = FF THEN [s EXCEPT !.marker_state = 1] ELSE [s EXCEPT !.rejected = TRUE]
         /\ s.marker_state = 1 /\ b = SOI => MarkerStep(s, b) = [s EXCEPT !.marker_state = 2]
         /\ s.marker_state = 2 => MarkerStep(s, b) = IF b = FF THEN [s EXCEPT !.marker_state = 3] ELSE s
         /\ s.marker_state = 3 => MarkerStep(s, b) = MarkerFound(s, b)
         /\ s.marker_state = 4 => MarkerStep(s, b) = SegmentByte(s, b)
BY DEF MarkerStep, ParseState

\* A byte of a segment takes the machine to the next, or behind the segment.
MarkerStates == 0 .. 4

LengthRead(s, c, d, k, m) ==
  [s EXCEPT !.have_len_byte1 = c, !.have_len_byte2 = d, !.skip_count = k, !.marker_state = m]

LEMMA LengthStates ==
  ASSUME NEW s \in ParseState, NEW c \in BOOLEAN, NEW d \in BOOLEAN, NEW k \in Nat,
         NEW m \in MarkerStates
  PROVE  /\ KeepsRest(s, LengthRead(s, c, d, k, m))
         /\ LengthRead(s, c, d, k, m).have_len_byte1 = c /\ LengthRead(s, c, d, k, m).have_len_byte2 = d
         /\ LengthRead(s, c, d, k, m).skip_count = k /\ LengthRead(s, c, d, k, m).marker_state = m
<1> DEFINE t1 == [s EXCEPT !.have_len_byte1 = c]
           t2 == [t1 EXCEPT !.have_len_byte2 = d]
           t3 == [t2 EXCEPT !.skip_count = k]
           t4 == [t3 EXCEPT !.marker_state = m]
<1>1. t1 \in ParseState
  BY DEF ParseState
<1>2. t2 \in ParseState
  <2> HIDE DEF t1
  <2> QED BY <1>1 DEF ParseState
<1> QED BY <1>1, <1>2 DEF ParseState, KeepsRest, MarkerStates, LengthRead

LEMMA SegmentStep ==
  ASSUME NEW s \in ParseState, NEW bytes \in Seq(Byte), IsSegment(bytes),
         NEW o \in Nat, o < Len(bytes), SegmentAt(bytes, o, s)
  PROVE  LET t == MarkerStep(s, bytes[o + 1])
         IN /\ KeepsRest(s, t)
            /\ IF o + 1 < Len(bytes) THEN SegmentAt(bytes, o + 1, t)
               ELSE o + 1 = Len(bytes) /\ t.marker_state = 2
<1> DEFINE b == bytes[o + 1]
           t == MarkerStep(s, b)
           N == Len(bytes)
           Goal == /\ KeepsRest(s, t)
                   /\ IF o + 1 < N THEN SegmentAt(bytes, o + 1, t) ELSE o + 1 = N /\ t.marker_state = 2
<1> SUFFICES Goal
  OBVIOUS
<1>1. N \in Nat /\ \A i \in 1 .. N : bytes[i] \in Byte
  BY LenProperties, ElementOfSeq
<1>2. o + 1 \in 1 .. N /\ b \in Byte /\ o < N
  BY <1>1
<1> HIDE DEF N
<1>3. FF = 255 /\ SOI = 216 /\ EOI = 217 /\ ~IsEmptyMarker(FF)
  BY DEF FF, SOI, EOI, IsEmptyMarker, Temporary, Stuffed
<1>s. KeepsRest(s, s)
  BY DEF KeepsRest
<1>4. CASE o = 0 /\ s.marker_state = 2
  <2>1. t = IF b = FF THEN [s EXCEPT !.marker_state = 3] ELSE s
    BY <1>2, <1>4, MarkerSteps
  <2> HIDE DEF t
  <2>2. CASE N = 1 /\ bytes[1] # FF
    <3>1. t = s /\ o + 1 = N
      BY <1>4, <2>1, <2>2
    <3> QED BY <3>1, <1>4, <1>s, <1>1
  <2>3. CASE \E m \in 2 .. N : HasMarkerAt(bytes, m)
    <3>1. PICK m \in 2 .. N : HasMarkerAt(bytes, m)
      BY <2>3
    <3>2. 1 \in 1 .. (m - 1) /\ m \in Nat /\ 1 < N
      BY <1>1
    <3>3. b = FF
      BY <3>1, <3>2, <1>4 DEF HasMarkerAt
    <3>4. t = [s EXCEPT !.marker_state = 3]
      BY <2>1, <3>3
    <3>5. KeepsRest(s, t) /\ t.marker_state = 3
      BY <3>4 DEF KeepsRest, ParseState
    <3>6. SegmentAt(bytes, 1, t)
      BY <3>1, <3>2, <3>5 DEF SegmentAt, N
    <3> QED BY <3>2, <3>5, <3>6, <1>4
  <2> QED BY <2>2, <2>3 DEF IsSegment, N
<1>5. ASSUME NEW m \in 2 .. N, HasMarkerAt(bytes, m), o \in 1 .. (m - 1), s.marker_state = 3
      PROVE  Goal
  <2>1. t = MarkerFound(s, b)
    BY <1>2, <1>5, MarkerSteps
  <2> HIDE DEF t
  <2>2. m \in Nat /\ m <= N
    BY <1>1
  <2>3. CASE o + 1 < m
    <3>1. o + 1 \in 1 .. (m - 1) /\ o + 1 < N
      BY <1>1, <2>2, <2>3
    <3>2. b = FF
      BY <3>1, <1>5 DEF HasMarkerAt
    <3>3. t = s
      BY <2>1, <3>2, <1>3 DEF MarkerFound
    <3>4. SegmentAt(bytes, o + 1, t)
      BY <3>1, <3>3, <1>5 DEF SegmentAt, N
    <3> QED BY <3>1, <3>3, <3>4, <1>s
  <2>4. CASE o + 1 = m
    <3>1. b \notin {FF, SOI, EOI} /\ b = bytes[m]
      BY <2>4, <1>5 DEF HasMarkerAt
    <3>2. CASE IsEmptyMarker(b)
      <4>1. t = [s EXCEPT !.marker_state = 2]
        BY <2>1, <3>1, <3>2 DEF MarkerFound
      <4>2. N = m
        BY <3>1, <3>2, <1>5 DEF HasMarkerAt, N
      <4>3. KeepsRest(s, t) /\ t.marker_state = 2
        BY <4>1 DEF KeepsRest, ParseState
      <4> QED BY <4>2, <4>3, <2>2, <2>4
    <3>3. CASE ~IsEmptyMarker(b)
      <4>1. t = [s EXCEPT !.marker_state = 4, !.have_len_byte1 = FALSE, !.have_len_byte2 = FALSE,
                          !.skip_count = 0]
        BY <2>1, <3>1, <3>3 DEF MarkerFound
      <4>2. N >= m + 2
        BY <3>1, <3>3, <1>5 DEF HasMarkerAt, N
      <4>3. /\ KeepsRest(s, t) /\ t.marker_state = 4 /\ t.have_len_byte1 = FALSE
            /\ t.have_len_byte2 = FALSE /\ t.skip_count = 0
          <5>1. PICK c \in BOOLEAN : c = FALSE
            OBVIOUS
          <5>d. PICK d \in BOOLEAN : d = FALSE
            OBVIOUS
          <5>k. PICK k \in Nat : k = 0
            OBVIOUS
          <5>m. PICK ms \in MarkerStates : ms = 4
            BY DEF MarkerStates
          <5>2. t = LengthRead(s, c, d, k, ms)
            BY <5>1, <5>d, <5>k, <5>m, <4>1 DEF LengthRead
          <5>r. /\ KeepsRest(s, LengthRead(s, c, d, k, ms))
              /\ LengthRead(s, c, d, k, ms).have_len_byte1 = c
              /\ LengthRead(s, c, d, k, ms).have_len_byte2 = d
              /\ LengthRead(s, c, d, k, ms).skip_count = k
              /\ LengthRead(s, c, d, k, ms).marker_state = ms
            BY LengthStates
          <5> HIDE DEF Goal
          <5>3. /\ KeepsRest(s, t) /\ t.have_len_byte1 = c /\ t.have_len_byte2 = d
              /\ t.skip_count = k /\ t.marker_state = ms
            BY <5>2, <5>r
          <5> QED BY <5>1, <5>d, <5>k, <5>m, <5>3
      <4>4. m \in m .. (N - 1) /\ o + 1 < N /\ ~(m > m) /\ ~(m > m + 1)
        BY <4>2, <2>2, <2>4, <1>1
      <4>5. LengthAt(bytes, m, m, t)
        BY <4>3, <4>4 DEF LengthAt
      <4>6. SegmentAt(bytes, o + 1, t)
        BY <4>3, <4>4, <4>5, <2>4, <1>5 DEF SegmentAt, N
      <4> QED BY <4>3, <4>4, <4>6
    <3> QED BY <3>2, <3>3
  <2>5. o + 1 < m \/ o + 1 = m
    BY <1>5, <2>2
  <2> QED BY <2>3, <2>4, <2>5
<1>6. ASSUME NEW m \in 2 .. N, HasMarkerAt(bytes, m), o \in m .. (N - 1), s.marker_state = 4,
             LengthAt(bytes, m, o, s)
      PROVE  Goal
  <2>1. t = SegmentByte(s, b)
    BY <1>2, <1>6, MarkerSteps
  <2> HIDE DEF t
  <2>2. m \in Nat /\ m <= o /\ o < N
    BY <1>1, <1>6
  <2>3. N >= m + 2 /\ N = m + bytes[m + 1] * 256 + bytes[m + 2]
    BY <2>2, <1>6, <1>1 DEF HasMarkerAt, N
  <2>4. m + 1 \in 1 .. N /\ m + 2 \in 1 .. N
    BY <1>1, <2>2, <2>3
  <2>5. bytes[m + 1] \in Nat /\ bytes[m + 2] \in Nat
    <3>1. bytes[m + 1] \in Byte /\ bytes[m + 2] \in Byte
      BY <2>4, <1>1
    <3>2. Byte \subseteq Nat
      BY DEF Byte
    <3> QED BY <3>1, <3>2
  <2>6. CASE o = m
    <3>1. s.have_len_byte1 = FALSE /\ o + 1 < N /\ o + 1 \in m .. (N - 1)
      BY <2>2, <2>3, <2>6, <1>1, <1>6 DEF LengthAt, ParseState
    <3>2. t = [s EXCEPT !.have_len_byte1 = TRUE, !.have_len_byte2 = FALSE,
                        !.skip_count = b * 256, !.marker_state = 4]
      BY <2>1, <3>1 DEF SegmentByte
    <3>3. b = bytes[m + 1] /\ b * 256 \in Nat
      BY <2>5, <2>6
    <3>4. /\ KeepsRest(s, t) /\ t.marker_state = 4 /\ t.have_len_byte1 = TRUE
          /\ t.have_len_byte2 = FALSE /\ t.skip_count = b * 256
        <4>1. PICK c \in BOOLEAN : c = TRUE
          OBVIOUS
        <4>d. PICK d \in BOOLEAN : d = FALSE
          OBVIOUS
        <4>k. PICK k \in Nat : k = b * 256
          BY <3>3
        <4>m. PICK ms \in MarkerStates : ms = 4
          BY DEF MarkerStates
        <4>2. t = LengthRead(s, c, d, k, ms)
          BY <4>1, <4>d, <4>k, <4>m, <3>2 DEF LengthRead
        <4>r. /\ KeepsRest(s, LengthRead(s, c, d, k, ms))
            /\ LengthRead(s, c, d, k, ms).have_len_byte1 = c
            /\ LengthRead(s, c, d, k, ms).have_len_byte2 = d
            /\ LengthRead(s, c, d, k, ms).skip_count = k
            /\ LengthRead(s, c, d, k, ms).marker_state = ms
          BY LengthStates
        <4> HIDE DEF Goal
        <4>3. /\ KeepsRest(s, t) /\ t.have_len_byte1 = c /\ t.have_len_byte2 = d
            /\ t.skip_count = k /\ t.marker_state = ms
          BY <4>2, <4>r
        <4> QED BY <4>1, <4>d, <4>k, <4>m, <4>3
    <3>5. LengthAt(bytes, m, o + 1, t)
      BY <3>3, <3>4, <2>2, <2>6 DEF LengthAt
    <3>6. SegmentAt(bytes, o + 1, t)
      BY <3>1, <3>4, <3>5, <1>6 DEF SegmentAt, N
    <3> QED BY <3>1, <3>4, <3>6
  <2>7. ASSUME o > m, s.have_len_byte1 = TRUE, NEW left \in Nat, left = N - (o + 1),
               t = [s EXCEPT !.have_len_byte1 = TRUE, !.have_len_byte2 = TRUE,
                             !.skip_count = left, !.marker_state = IF left = 0 THEN 2 ELSE 4]
        PROVE  Goal
    <3>1. /\ KeepsRest(s, t) /\ t.have_len_byte1 = TRUE /\ t.have_len_byte2 = TRUE
          /\ t.skip_count = left /\ t.marker_state = IF left = 0 THEN 2 ELSE 4
        <4>1. PICK c \in BOOLEAN : c = TRUE
          OBVIOUS
        <4>d. PICK d \in BOOLEAN : d = TRUE
          OBVIOUS
        <4>k. PICK k \in Nat : k = left
          BY <2>7
        <4>m. PICK ms \in MarkerStates : ms = IF left = 0 THEN 2 ELSE 4
          BY DEF MarkerStates
        <4>2. t = LengthRead(s, c, d, k, ms)
          BY <4>1, <4>d, <4>k, <4>m, <2>7 DEF LengthRead
        <4>r. /\ KeepsRest(s, LengthRead(s, c, d, k, ms))
            /\ LengthRead(s, c, d, k, ms).have_len_byte1 = c
            /\ LengthRead(s, c, d, k, ms).have_len_byte2 = d
            /\ LengthRead(s, c, d, k, ms).skip_count = k
            /\ LengthRead(s, c, d, k, ms).marker_state = ms
          BY LengthStates
        <4> HIDE DEF Goal
        <4>3. /\ KeepsRest(s, t) /\ t.have_len_byte1 = c /\ t.have_len_byte2 = d
            /\ t.skip_count = k /\ t.marker_state = ms
          BY <4>2, <4>r
        <4> QED BY <4>1, <4>d, <4>k, <4>m, <4>3
    <3>a. left \in Nat /\ left = N - (o + 1) /\ o > m
      BY <2>7
    <3>2. CASE left = 0
      <4>1. o + 1 = N /\ t.marker_state = 2
        BY <3>1, <3>2, <2>2, <3>a, <1>1
      <4> QED BY <4>1, <3>1, <1>1
    <3>3. CASE left # 0
      <4>1. o + 1 < N /\ o + 1 \in m .. (N - 1) /\ t.marker_state = 4 /\ o + 1 > m + 1 /\ o + 1 > m
            /\ o + 1 # m /\ o + 1 # m + 1
        BY <3>1, <3>3, <2>2, <3>a, <1>1
      <4>2. LengthAt(bytes, m, o + 1, t)
        BY <3>1, <4>1, <2>7 DEF LengthAt, N
      <4>3. SegmentAt(bytes, o + 1, t)
        BY <4>1, <4>2, <1>6 DEF SegmentAt, N
      <4> QED BY <3>1, <4>1, <4>3
    <3> QED BY <3>2, <3>3
  <2>8. CASE o = m + 1
    <3>1. s.have_len_byte1 = TRUE /\ s.have_len_byte2 = FALSE /\ s.skip_count = bytes[m + 1] * 256
      BY <2>2, <2>8, <1>6 DEF LengthAt, ParseState
    <3>2. b = bytes[m + 2]
      BY <2>8, <2>2
    <3> DEFINE left == (s.skip_count + b - 1) - 1
    <3>3. left \in Nat /\ left = N - (o + 1) /\ o > m
      <4>1. \A h, l, x \in Nat : x = m + h * 256 + l /\ x >= m + 2 =>
              /\ (h * 256 + l - 1) - 1 \in Nat
              /\ (h * 256 + l - 1) - 1 = x - ((m + 1) + 1) /\ m + 1 > m
        BY <2>2
      <4>2. left = (bytes[m + 1] * 256 + bytes[m + 2] - 1) - 1
        BY <3>1, <3>2
      <4> HIDE DEF left
      <4> QED BY <4>1, <4>2, <2>3, <2>5, <2>8, <1>1
    <3>4. t = [s EXCEPT !.have_len_byte1 = TRUE, !.have_len_byte2 = TRUE,
                        !.skip_count = left, !.marker_state = IF left = 0 THEN 2 ELSE 4]
      BY <2>1, <3>1 DEF SegmentByte
    <3> HIDE DEF left, Goal
    <3> QED BY <3>1, <3>3, <3>4, <2>7
  <2>9. CASE o > m + 1
    <3>1. s.have_len_byte1 = TRUE /\ s.have_len_byte2 = TRUE /\ s.skip_count = N - o
      BY <2>2, <2>9, <1>6 DEF LengthAt, ParseState, N
    <3> DEFINE left == s.skip_count - 1
    <3>3. left \in Nat /\ left = N - (o + 1) /\ o > m
      BY <3>1, <2>2, <2>9, <1>1
    <3>4. t = [s EXCEPT !.have_len_byte1 = TRUE, !.have_len_byte2 = TRUE,
                        !.skip_count = left, !.marker_state = IF left = 0 THEN 2 ELSE 4]
      BY <2>1, <3>1 DEF SegmentByte
    <3> HIDE DEF left, Goal
    <3> QED BY <3>1, <3>3, <3>4, <2>7
  <2>10. o = m \/ o = m + 1 \/ o > m + 1
    BY <2>2
  <2> HIDE DEF Goal
  <2> QED BY <2>6, <2>8, <2>9, <2>10
<1>7. Goal
  <2> HIDE DEF Goal, t, b
  <2> QED BY <1>4, <1>5, <1>6 DEF SegmentAt, N
<1> QED BY <1>7 DEF N
\* Where a segment of a field starts, or the end of the field.
LEMMA SegmentStarts ==
  ASSUME NEW s \in ParseState, NEW segments \in Seq(Seq(Byte)),
         \A j \in 1 .. Len(segments) : IsSegment(segments[j]),
         NEW j \in 0 .. Len(segments), s.marker_state = 2
  PROVE  FieldAt(segments, 2 + Offsets(segments)[j], s)
<1> DEFINE n == Len(segments)
           starts == Offsets(segments)
<1>1. n \in Nat /\ starts[j] \in Nat
  BY LenProperties, OffsetsAre
<1>2. CASE j = n
  <2>1. (2 + starts[j]) - (2 + starts[n]) + 2 = 2
    BY <1>1, <1>2
  <2> QED BY <2>1, <1>2 DEF FieldAt
<1>3. CASE j # n
  <2>1. j + 1 \in 1 .. n /\ (j + 1) - 1 = j /\ 0 \in Nat
    BY <1>1, <1>3
  <2>2. IsSegment(segments[j + 1])
    BY <2>1
  <2>3. Len(segments[j + 1]) \in Nat
    <3>1. segments[j + 1] \in Seq(Byte)
      BY <2>1, ElementOfSeq
    <3> QED BY <3>1, LenProperties
  <2>4. 0 < Len(segments[j + 1])
    <3>1. CASE Len(segments[j + 1]) = 1
      BY <3>1
    <3>2. CASE \E m \in 2 .. Len(segments[j + 1]) : TRUE
      BY <3>2, <2>3
    <3> QED BY <3>1, <3>2, <2>2 DEF IsSegment
  <2>5. SegmentAt(segments[j + 1], 0, s)
    BY DEF SegmentAt
  <2>6. 2 + starts[j] = 2 + starts[(j + 1) - 1] + 0
    BY <2>1, <1>1
  <2> HIDE DEF starts
  <2>7. \E i \in 1 .. n, o \in Nat :
          /\ 2 + starts[j] = 2 + starts[i - 1] + o /\ o < Len(segments[i])
          /\ SegmentAt(segments[i], o, s)
    BY <2>1, <2>4, <2>5, <2>6
  <2> QED BY <2>7 DEF FieldAt, starts, n
<1> QED BY <1>2, <1>3

\* A byte of a field takes the machine to the next, and the last ends the field.
LEMMA FieldStep ==
  ASSUME NEW s \in ParseState, NEW segments \in Seq(Seq(Byte)),
         \A j \in 1 .. Len(segments) : IsSegment(segments[j]),
         NEW x \in Nat, FieldAt(segments, x, s)
  PROVE  LET bytes == FieldBytes(segments)
             t == MarkerStep(s, bytes[x + 1])
         IN /\ bytes[x + 1] \in Byte
            /\ \/ x + 1 < Len(bytes) /\ KeepsRest(s, t) /\ FieldAt(segments, x + 1, t)
               \/ x + 1 = Len(bytes) /\ t = [s EXCEPT !.marker_state = 0, !.end_of_field = TRUE]
<1> DEFINE bytes == FieldBytes(segments)
           b == bytes[x + 1]
           t == MarkerStep(s, b)
           n == Len(segments)
           starts == Offsets(segments)
           end == 2 + starts[n]
           Goal == /\ b \in Byte
                   /\ \/ x + 1 < Len(bytes) /\ KeepsRest(s, t) /\ FieldAt(segments, x + 1, t)
                      \/ x + 1 = Len(bytes) /\ t = [s EXCEPT !.marker_state = 0, !.end_of_field = TRUE]
<1> SUFFICES Goal
  OBVIOUS
<1>1. /\ bytes \in Seq(Byte) /\ starts[n] \in Nat /\ Len(bytes) = end + 2
      /\ bytes[1] = FF /\ bytes[2] = SOI /\ bytes[end + 1] = FF /\ bytes[end + 2] = EOI
      /\ \A j \in 1 .. n, o \in Nat :
           o \in 1 .. Len(segments[j]) => bytes[2 + starts[j - 1] + o] = segments[j][o]
  BY FieldBytesAre
<1>2. n \in Nat /\ \A j \in 1 .. n : segments[j] \in Seq(Byte) /\ Len(segments[j]) \in Nat
  <2>1. \A j \in 1 .. n : segments[j] \in Seq(Byte)
    BY ElementOfSeq
  <2> QED BY <2>1, LenProperties
<1>3. /\ starts[0] = 0 /\ \A j \in 0 .. n : starts[j] \in Nat /\ starts[j] <= starts[n]
      /\ \A j \in 1 .. n : starts[j] = starts[j - 1] + Len(segments[j])
  <2>1. \A j \in 0 .. n : n \in j .. n
    BY <1>2
  <2> QED BY <2>1, OffsetsAre, OffsetsGrow
<1>4. \A r \in ParseState : \A j \in 0 .. n : r.marker_state = 2 => FieldAt(segments, 2 + starts[j], r)
  BY SegmentStarts
<1>5. FF = 255 /\ SOI = 216 /\ EOI = 217 /\ FF \in Byte /\ SOI \in Byte /\ EOI \in Byte
  BY DEF FF, SOI, EOI, Byte
<1>6. end \in Nat /\ end >= 2
  BY <1>1
<1> HIDE DEF bytes, n, starts, end
<1>7. ASSUME x + 1 < Len(bytes), b \in Byte, NEW m \in 0 .. 4, t = [s EXCEPT !.marker_state = m],
             FieldAt(segments, x + 1, t)
      PROVE  Goal
  <2>1. KeepsRest(s, t)
    <3> HIDE DEF t
    <3> QED BY <1>7 DEF KeepsRest, ParseState
  <2> QED BY <2>1, <1>7
<1>k. \A m \in 0 .. 4 : [s EXCEPT !.marker_state = m] \in ParseState
                        /\ [s EXCEPT !.marker_state = m].marker_state = m
  BY DEF ParseState
<1>8. CASE x = 0 /\ s.marker_state = 0
  <2>1. b = FF /\ x + 1 = 1 /\ x + 1 < Len(bytes)
    BY <1>1, <1>6, <1>8
  <2>2. t = [s EXCEPT !.marker_state = 1]
    BY <2>1, <1>5, <1>8, MarkerSteps
  <2>3. FieldAt(segments, x + 1, t)
    <3>1. t.marker_state = 1 /\ 1 \in 0 .. 4
      BY <2>2, <1>k
    <3> HIDE DEF t
    <3> QED BY <2>1, <3>1 DEF FieldAt
  <2>4. 1 \in 0 .. 4 /\ b \in Byte
    BY <2>1, <1>5
  <2> HIDE DEF t, b, Goal
  <2> QED BY <2>1, <2>2, <2>3, <2>4, <1>7
<1>9. CASE x = 1 /\ s.marker_state = 1
  <2>1. b = SOI /\ x + 1 = 2 /\ x + 1 < Len(bytes)
    BY <1>1, <1>6, <1>9
  <2>2. t = [s EXCEPT !.marker_state = 2]
    BY <2>1, <1>5, <1>9, MarkerSteps
  <2>3. FieldAt(segments, x + 1, t)
    <3>1. t \in ParseState /\ t.marker_state = 2
      <4>1. 2 \in 0 .. 4
        OBVIOUS
      <4> QED BY <4>1, <2>2, <1>k
    <3>2. 0 \in 0 .. n /\ 2 + starts[0] = x + 1
      BY <2>1, <1>2, <1>3
    <3> HIDE DEF t
    <3> QED BY <3>1, <3>2, <1>4
  <2>4. 2 \in 0 .. 4 /\ b \in Byte
    BY <2>1, <1>5
  <2> HIDE DEF t, b, Goal
  <2> QED BY <2>1, <2>2, <2>3, <2>4, <1>7
<1>10. ASSUME NEW j \in 1 .. n, NEW o \in Nat, x = 2 + starts[j - 1] + o, o < Len(segments[j]),
              SegmentAt(segments[j], o, s)
       PROVE  Goal
  <2>1. j \in 0 .. n /\ j - 1 \in 0 .. n /\ Len(segments[j]) \in Nat /\ segments[j] \in Seq(Byte)
    BY <1>2
  <2>2. starts[j - 1] \in Nat /\ starts[j] \in Nat /\ starts[j] = starts[j - 1] + Len(segments[j])
        /\ starts[j] <= starts[n]
    BY <2>1, <1>3
  <2>3. o + 1 \in Nat /\ o + 1 \in 1 .. Len(segments[j]) /\ x + 1 = 2 + starts[j - 1] + (o + 1)
    <3> DEFINE a == starts[j - 1]
               l == Len(segments[j])
    <3>1. a \in Nat /\ l \in Nat /\ x = 2 + a + o /\ o < l
      BY <2>1, <2>2, <1>10
    <3> HIDE DEF a, l
    <3>2. o + 1 \in Nat /\ o + 1 \in 1 .. l /\ x + 1 = 2 + a + (o + 1)
      BY ONLY <3>1, x \in Nat, o \in Nat
    <3> QED BY <3>2 DEF a, l
  <2>4. b = segments[j][o + 1] /\ b \in Byte
    <3>1. b = segments[j][o + 1]
      BY <2>3, <1>1
    <3> QED BY <3>1, <2>1, <2>3, ElementOfSeq
  <2>5. x + 1 < Len(bytes)
    <3>1. \A a, c, d, l, y, z, e \in Nat :
            c = a + l /\ c <= d /\ e = 2 + d /\ y + 1 <= l /\ z + 1 = 2 + a + (y + 1) => z + 1 < e + 2
      OBVIOUS
    <3>2. o + 1 <= Len(segments[j]) /\ x + 1 = 2 + starts[j - 1] + (o + 1)
      BY <2>1, <2>3
    <3>3. Len(bytes) = end + 2 /\ starts[n] \in Nat /\ end \in Nat
      BY <1>1, <1>6
    <3>4. end = 2 + starts[n]
      BY DEF end
    <3>5. x + 1 < end + 2
      BY ONLY Zenon, <2>1, <2>2, <3>1, <3>2, <3>3, <3>4, x \in Nat, o \in Nat
    <3> QED BY ONLY <3>3, <3>5
  <2>6. /\ KeepsRest(s, t)
        /\ IF o + 1 < Len(segments[j]) THEN SegmentAt(segments[j], o + 1, t)
           ELSE o + 1 = Len(segments[j]) /\ t.marker_state = 2
    <3>1. IsSegment(segments[j])
      BY DEF n
    <3> HIDE DEF Goal
    <3> QED BY <3>1, <2>1, <2>4, <1>10, SegmentStep
  <2> HIDE DEF t, b
  <2>7. FieldAt(segments, x + 1, t)
    <3>1. CASE o + 1 < Len(segments[j])
      <4>1. \E i \in 1 .. n, p \in Nat :
              /\ x + 1 = 2 + starts[i - 1] + p /\ p < Len(segments[i])
              /\ SegmentAt(segments[i], p, t)
        BY <3>1, <2>3, <2>6
      <4> QED BY <4>1 DEF FieldAt, starts, n
    <3>2. CASE ~(o + 1 < Len(segments[j]))
      <4>1. x + 1 = 2 + starts[j]
        BY <3>2, <2>2, <2>3, <2>6
      <4>2. t \in ParseState /\ t.marker_state = 2
        BY <3>2, <2>6 DEF KeepsRest
      <4> QED BY <4>1, <4>2, <2>1, <1>4
    <3> QED BY <3>1, <3>2
  <2> QED BY <2>4, <2>5, <2>6, <2>7
<1>11. CASE x = end /\ s.marker_state = 2
  <2>1. b = FF /\ x + 1 < Len(bytes) /\ x + 1 = end + 1
    BY <1>1, <1>6, <1>11
  <2>2. t = [s EXCEPT !.marker_state = 3]
    BY <2>1, <1>5, <1>11, MarkerSteps
  <2>3. FieldAt(segments, x + 1, t)
    <3>1. t.marker_state = 3
      <4>1. 3 \in 0 .. 4
        OBVIOUS
      <4> QED BY <4>1, <2>2, <1>k
    <3>2. (end + 1) - end + 2 = 3
      BY <1>6
    <3> HIDE DEF t
    <3> QED BY <2>1, <3>1, <3>2 DEF FieldAt, end, starts, n
  <2>4. 3 \in 0 .. 4 /\ b \in Byte
    BY <2>1, <1>5
  <2> HIDE DEF t, b, Goal
  <2> QED BY <2>1, <2>2, <2>3, <2>4, <1>7
<1>12. CASE x = end + 1 /\ s.marker_state = 3
  <2>1. b = EOI /\ x + 1 = Len(bytes)
    <3>1. x + 1 = end + 2
      BY <1>6, <1>12
    <3> QED BY <3>1, <1>1
  <2>2. t = MarkerFound(s, EOI)
    BY <2>1, <1>5, <1>12, MarkerSteps
  <2>3. t = [s EXCEPT !.marker_state = 0, !.end_of_field = TRUE]
    BY <2>2 DEF MarkerFound
  <2> HIDE DEF t
  <2> QED BY <2>1, <2>3, <1>5
<1>13. \/ x \in {0, 1} /\ s.marker_state = x
       \/ \E j \in 1 .. n, o \in Nat :
            /\ x = 2 + starts[j - 1] + o /\ o < Len(segments[j])
            /\ SegmentAt(segments[j], o, s)
       \/ x \in {end, end + 1} /\ s.marker_state = x - end + 2
  BY DEF FieldAt, n, starts, end
<1>14. x = end => x - end + 2 = 2
  BY <1>6
<1>15. x = end + 1 => x - end + 2 = 3
  BY <1>6
<1> HIDE DEF Goal
<1> QED BY <1>8, <1>9, <1>10, <1>11, <1>12, <1>13, <1>14, <1>15
\* What of the state says where the machine is in a field.
SamePlace(s, u) ==
  /\ u.marker_state = s.marker_state /\ u.skip_count = s.skip_count
  /\ u.have_len_byte1 = s.have_len_byte1 /\ u.have_len_byte2 = s.have_len_byte2

LEMMA FieldAtSamePlace ==
  ASSUME NEW s, NEW u, SamePlace(s, u), NEW segments, NEW x, FieldAt(segments, x, s)
  PROVE  FieldAt(segments, x, u)
<1>1. \A bytes, o : SegmentAt(bytes, o, s) => SegmentAt(bytes, o, u)
  BY DEF SegmentAt, LengthAt, SamePlace
<1>2. u.marker_state = s.marker_state
  BY DEF SamePlace
<1> QED BY <1>1, <1>2 DEF FieldAt

\* What the loop body adds to MarkerStep: the position, and the end of a field.
LEMMA ByteSteps ==
  ASSUME NEW s \in ParseState, NEW b, ~s.end_of_field, ~s.rejected, ~s.have_image,
         stream.singleField \in BOOLEAN
  PROVE  LET t == MarkerStep(s, b)
             u == ByteStep(s, b)
             Moves == /\ u \in ParseState /\ u.position = s.position + 1
                      /\ u.prev_position = s.prev_position /\ ~u.end_of_field /\ ~u.rejected
         IN /\ KeepsRest(s, t) =>
                 Moves /\ SamePlace(t, u) /\ u.field2 = s.field2 /\ ~u.have_image
            /\ t = [s EXCEPT !.marker_state = 0, !.end_of_field = TRUE] =>
                 /\ Moves /\ u.marker_state = 0 /\ u.field2 = ~s.field2
                 /\ u.have_image <=> (stream.singleField \/ s.field2)
<1> DEFINE t == MarkerStep(s, b)
           u == ByteStep(s, b)
           next == [t EXCEPT !.position = t.position + 1]
<1>1. u = IF t.rejected THEN t ELSE IF next.end_of_field THEN FieldEnded(next) ELSE next
  BY DEF ByteStep
<1> HIDE DEF t, u
<1>2. ASSUME KeepsRest(s, t)
      PROVE  /\ u \in ParseState /\ u.position = s.position + 1
             /\ u.prev_position = s.prev_position /\ ~u.end_of_field /\ ~u.rejected
             /\ SamePlace(t, u) /\ u.field2 = s.field2 /\ ~u.have_image
  <2>1. t \in ParseState /\ t.position = s.position /\ t.prev_position = s.prev_position
        /\ ~t.end_of_field /\ ~t.rejected /\ ~t.have_image /\ t.field2 = s.field2
    BY <1>2 DEF KeepsRest
  <2>2. u = next
    BY <2>1, <1>1 DEF ParseState
  <2>3. u \in ParseState /\ u.position = t.position + 1 /\ SamePlace(t, u)
        /\ u.prev_position = t.prev_position /\ u.end_of_field = t.end_of_field
        /\ u.rejected = t.rejected /\ u.have_image = t.have_image /\ u.field2 = t.field2
    BY <2>1, <2>2 DEF ParseState, SamePlace
  <2> QED BY <2>1, <2>3
<1>3. ASSUME t = [s EXCEPT !.marker_state = 0, !.end_of_field = TRUE]
      PROVE  /\ u \in ParseState /\ u.position = s.position + 1
             /\ u.prev_position = s.prev_position /\ ~u.end_of_field /\ ~u.rejected
             /\ u.marker_state = 0 /\ u.field2 = ~s.field2
             /\ u.have_image <=> (stream.singleField \/ s.field2)
  <2>0. PICK c \in BOOLEAN : c = TRUE
    OBVIOUS
  <2>1. /\ t \in ParseState /\ t.position = s.position /\ t.prev_position = s.prev_position
        /\ t.end_of_field = c /\ ~t.rejected /\ t.field2 = s.field2 /\ t.marker_state = 0
    <3> DEFINE r == [s EXCEPT !.marker_state = 0]
    <3>1. /\ r \in ParseState /\ r.position = s.position /\ r.prev_position = s.prev_position
          /\ r.rejected = s.rejected /\ r.field2 = s.field2 /\ r.marker_state = 0
      BY DEF ParseState
    <3>2. t = [r EXCEPT !.end_of_field = c]
      BY <1>3, <2>0
    <3> HIDE DEF r
    <3> QED BY <3>1, <3>2 DEF ParseState
  <2>2. next \in ParseState /\ next.position = t.position + 1
        /\ next.prev_position = t.prev_position /\ next.end_of_field = c
        /\ next.rejected = t.rejected /\ next.field2 = t.field2 /\ next.marker_state = 0
    BY <2>1 DEF ParseState
  <2>3. u = FieldEnded(next)
    BY <2>0, <2>1, <2>2, <1>1
  <2> HIDE DEF next
  <2> DEFINE h == stream.singleField \/ next.field2
             g == ~next.field2
  <2>4. PICK e \in BOOLEAN, f \in BOOLEAN, d \in BOOLEAN :
          (e <=> h) /\ e = h /\ d = FALSE /\ (f <=> g) /\ f = g
    <3>1. h \in BOOLEAN /\ g \in BOOLEAN
      OBVIOUS
    <3> QED BY <3>1
  <2>5. u = [next EXCEPT !.have_image = e, !.end_of_field = d, !.field2 = f]
    BY <2>3, <2>4 DEF FieldEnded
  <2>6. /\ u \in ParseState /\ u.position = next.position /\ u.prev_position = next.prev_position
        /\ u.end_of_field = d /\ u.rejected = next.rejected /\ u.marker_state = next.marker_state
        /\ u.field2 = f /\ u.have_image = e
    <3> HIDE DEF h, g
    <3> QED BY <2>2, <2>5 DEF ParseState
  <2> QED BY <2>0, <2>1, <2>2, <2>4, <2>6
<1> QED BY <1>2, <1>3 DEF t, u
-----------------------------------------------------------------------------
(* The bytes of an image *)

\* Where its fields are.
LEMMA FieldsAre ==
  ASSUME NEW single, NEW fields, IsImage(fields, single)
  PROVE  LET starts == Offsets(FieldsBytes(fields))
             n == Len(fields)
             bytes == ImageBytes(fields)
         IN /\ n = (IF single THEN 1 ELSE 2) /\ fields \in Seq(Seq(Seq(Byte)))
            /\ bytes \in Seq(Byte) /\ Len(bytes) = starts[n] /\ starts[0] = 0
            /\ \A f \in 0 .. n : starts[f] \in Nat /\ starts[f] <= starts[n]
            /\ \A f \in 1 .. n :
                 /\ fields[f] \in Seq(Seq(Byte)) /\ \A j \in 1 .. Len(fields[f]) : IsSegment(fields[f][j])
                 /\ Len(FieldBytes(fields[f])) \in Nat /\ Len(FieldBytes(fields[f])) > 0
                 /\ starts[f] = starts[f - 1] + Len(FieldBytes(fields[f]))
                 /\ \A o \in 1 .. Len(FieldBytes(fields[f])) :
                      bytes[starts[f - 1] + o] = FieldBytes(fields[f])[o]
<1> DEFINE seqs == FieldsBytes(fields)
           starts == Offsets(seqs)
           n == Len(fields)
<1>1. fields \in Seq(Seq(Seq(Byte))) /\ n = (IF single THEN 1 ELSE 2)
  BY DEF IsImage
<1>2. n \in Nat /\ \A f \in 0 .. n : n \in f .. n
  BY <1>1
<1>3. /\ seqs \in Seq(Seq(Byte)) /\ Len(seqs) = n
      /\ \A f \in 1 .. n : fields[f] \in Seq(Seq(Byte)) /\ seqs[f] = FieldBytes(fields[f])
      /\ ImageBytes(fields) = FlattenSeq(seqs) /\ ImageBytes(fields) \in Seq(Byte)
  BY <1>1, ImageBytesAre
<1>4. DOMAIN fields = 1 .. n /\ \A f \in 1 .. n : DOMAIN fields[f] = 1 .. Len(fields[f])
  BY <1>1, <1>3, LenProperties
<1>5. \A f \in 1 .. n : \A j \in 1 .. Len(fields[f]) : IsSegment(fields[f][j])
  BY <1>4 DEF IsImage
<1>6. \A f \in 1 .. n : Len(FieldBytes(fields[f])) \in Nat /\ Len(FieldBytes(fields[f])) > 0
  <2>1. \A f \in 1 .. n : /\ Offsets(fields[f])[Len(fields[f])] \in Nat
                          /\ Len(FieldBytes(fields[f])) = 2 + Offsets(fields[f])[Len(fields[f])] + 2
    BY <1>3, FieldBytesAre
  <2>2. \A a, b \in Nat : b = 2 + a + 2 => b > 0
    OBVIOUS
  <2>3. \A a \in Nat : 2 + a + 2 \in Nat
    OBVIOUS
  <2> QED BY ONLY <2>1, <2>2, <2>3
<1>7. /\ starts[0] = 0 /\ \A f \in 0 .. n : starts[f] \in Nat /\ starts[f] <= starts[n]
      /\ \A f \in 1 .. n : starts[f] = starts[f - 1] + Len(seqs[f])
  BY <1>2, <1>3, OffsetsAre, OffsetsGrow
<1>8. /\ Len(FlattenSeq(seqs)) = starts[n]
      /\ \A f \in 1 .. n, o \in Nat :
           o \in 1 .. Len(seqs[f]) => FlattenSeq(seqs)[starts[f - 1] + o] = seqs[f][o]
  BY <1>3, Flattened
<1> HIDE DEF seqs, starts, n
<1>9. \A f \in 1 .. n : \A o \in 1 .. Len(FieldBytes(fields[f])) :
        ImageBytes(fields)[starts[f - 1] + o] = FieldBytes(fields[f])[o]
  <2>1. \A f \in 1 .. n : \A o \in 1 .. Len(FieldBytes(fields[f])) : o \in Nat
    BY <1>6
  <2> QED BY <2>1, <1>3, <1>8
<1>10. \A f \in 1 .. n : starts[f] = starts[f - 1] + Len(FieldBytes(fields[f]))
  BY <1>3, <1>7
<1> QED BY <1>1, <1>3, <1>5, <1>6, <1>7, <1>8, <1>9, <1>10 DEF n, starts, seqs

\* The machine is at the start of a field of the image.
LEMMA FieldStarts ==
  ASSUME NEW s, NEW single, NEW fields, IsImage(fields, single),
         NEW f \in 1 .. Len(fields), s.marker_state = 0, ~single => (s.field2 <=> f = 2)
  PROVE  ImageAt(fields, single, Offsets(FieldsBytes(fields))[f - 1], s)
<1>1. /\ Offsets(FieldsBytes(fields))[f - 1] \in Nat
      /\ Len(FieldBytes(fields[f])) > 0
  <2>1. f - 1 \in 0 .. Len(fields)
    <3>1. Len(fields) \in Nat
      BY FieldsAre
    <3> QED BY <3>1
  <2> QED BY <2>1, FieldsAre
<1>2. FieldAt(fields[f], 0, s)
  BY DEF FieldAt
<1>3. \A a \in Nat : a = a + 0 /\ 0 \in Nat
  OBVIOUS
<1> QED BY <1>1, <1>2, <1>3 DEF ImageAt

LEMMA ImageStart ==
  ASSUME NEW s, NEW single, NEW fields, IsImage(fields, single),
         s.marker_state = 0, ~single => ~s.field2
  PROVE  ImageAt(fields, single, 0, s)
<1>1. 1 \in 1 .. Len(fields) /\ Offsets(FieldsBytes(fields))[0] = 0 /\ 1 - 1 = 0
  BY FieldsAre
<1> QED BY <1>1, FieldStarts

\* The machine is in an image before its last byte.
LEMMA ImageEnds ==
  ASSUME NEW s, NEW single, NEW fields, IsImage(fields, single), NEW x \in Nat, ImageAt(fields, single, x, s)
  PROVE  x + 1 \in 1 .. Len(ImageBytes(fields))
<1> DEFINE starts == Offsets(FieldsBytes(fields))
           n == Len(fields)
           L == Len(ImageBytes(fields))
<1>1. PICK f \in 1 .. n, y \in Nat : x = starts[f - 1] + y /\ y < Len(FieldBytes(fields[f]))
  BY DEF ImageAt
<1>2. /\ n \in {1, 2} /\ L = starts[n]
      /\ \A i \in 0 .. n : starts[i] \in Nat /\ starts[i] <= starts[n]
      /\ \A i \in 1 .. n : /\ Len(FieldBytes(fields[i])) \in Nat
                           /\ starts[i] = starts[i - 1] + Len(FieldBytes(fields[i]))
  BY FieldsAre
<1> DEFINE l == Len(FieldBytes(fields[f]))
           a == starts[f - 1]
           d == starts[f]
<1>3. f \in 0 .. n /\ f - 1 \in 0 .. n /\ n \in 0 .. n
  BY <1>2
<1>4. l \in Nat /\ a \in Nat /\ d \in Nat /\ d = a + l /\ d <= L /\ L \in Nat /\ x = a + y /\ y < l
  <2> HIDE DEF starts, n, L
  <2> QED BY <1>1, <1>2, <1>3
<1> HIDE DEF l, a, d, L
<1>5. x + 1 \in 1 .. L
  BY ONLY <1>4, x \in Nat, y \in Nat
<1> QED BY <1>5 DEF L

\* A byte of an image takes the machine to the next, and the last gives the image.
LEMMA ImageStep ==
  ASSUME NEW s \in ParseState, ~s.end_of_field, ~s.rejected, ~s.have_image,
         stream.singleField \in BOOLEAN,
         NEW fields, IsImage(fields, stream.singleField),
         NEW x \in Nat, ImageAt(fields, stream.singleField, x, s)
  PROVE  LET bytes == ImageBytes(fields)
             u == ByteStep(s, bytes[x + 1])
         IN /\ x + 1 \in 1 .. Len(bytes)
            /\ u \in ParseState /\ u.position = s.position + 1
            /\ u.prev_position = s.prev_position /\ ~u.end_of_field /\ ~u.rejected
            /\ \/ /\ x + 1 < Len(bytes) /\ ~u.have_image
                  /\ ImageAt(fields, stream.singleField, x + 1, u)
               \/ /\ x + 1 = Len(bytes) /\ u.have_image /\ u.marker_state = 0
                  /\ ~stream.singleField => ~u.field2
<1> DEFINE single == stream.singleField
           bytes == ImageBytes(fields)
           starts == Offsets(FieldsBytes(fields))
           n == Len(fields)
           L == Len(bytes)
           u == ByteStep(s, bytes[x + 1])
           Goal == /\ x + 1 \in 1 .. L
                   /\ u \in ParseState /\ u.position = s.position + 1
                   /\ u.prev_position = s.prev_position /\ ~u.end_of_field /\ ~u.rejected
                   /\ \/ /\ x + 1 < L /\ ~u.have_image /\ ImageAt(fields, single, x + 1, u)
                      \/ /\ x + 1 = L /\ u.have_image /\ u.marker_state = 0
                         /\ ~single => ~u.field2
<1> SUFFICES Goal
  OBVIOUS
<1>1. /\ n = (IF single THEN 1 ELSE 2)
      /\ L = starts[n] /\ starts[0] = 0
      /\ \A f \in 0 .. n : starts[f] \in Nat /\ starts[f] <= starts[n]
      /\ \A f \in 1 .. n :
           /\ fields[f] \in Seq(Seq(Byte)) /\ \A j \in 1 .. Len(fields[f]) : IsSegment(fields[f][j])
           /\ Len(FieldBytes(fields[f])) \in Nat
           /\ starts[f] = starts[f - 1] + Len(FieldBytes(fields[f]))
           /\ \A o \in 1 .. Len(FieldBytes(fields[f])) :
                bytes[starts[f - 1] + o] = FieldBytes(fields[f])[o]
  BY FieldsAre
<1>2. PICK f \in 1 .. n, y \in Nat :
        /\ x = starts[f - 1] + y /\ y < Len(FieldBytes(fields[f]))
        /\ FieldAt(fields[f], y, s) /\ (~single => (s.field2 <=> f = 2))
  BY DEF ImageAt
<1> HIDE DEF starts, bytes, n, L
<1>3. /\ f \in 1 .. 2 /\ n \in Nat /\ f \in 0 .. n /\ f - 1 \in 0 .. n
      /\ f # n => f = 1 /\ n = 2 /\ ~single
  BY <1>1
<1> DEFINE fb == FieldBytes(fields[f])
           l == Len(fb)
           b == fb[y + 1]
           t == MarkerStep(s, b)
<1>4. l \in Nat /\ starts[f - 1] \in Nat /\ starts[f] \in Nat /\ starts[f] = starts[f - 1] + l
      /\ starts[f] <= L /\ L \in Nat
  <2>1. n \in 0 .. n
    BY <1>3
  <2> QED BY <2>1, <1>1, <1>3
<1>5. /\ b \in Byte
      /\ \/ y + 1 < l /\ KeepsRest(s, t) /\ FieldAt(fields[f], y + 1, t)
         \/ y + 1 = l /\ t = [s EXCEPT !.marker_state = 0, !.end_of_field = TRUE]
  <2>1. fields[f] \in Seq(Seq(Byte)) /\ (\A j \in 1 .. Len(fields[f]) : IsSegment(fields[f][j]))
        /\ FieldAt(fields[f], y, s)
    BY <1>1, <1>2
  <2> HIDE DEF Goal, u
  <2> QED BY <2>1, FieldStep
<1> HIDE DEF fb, l, b, t
<1>6. /\ y + 1 \in 1 .. l /\ x + 1 = starts[f - 1] + (y + 1) /\ x + 1 \in 1 .. L
      /\ y + 1 < l => x + 1 < L
      /\ y + 1 = l => x + 1 = starts[f]
  <2> DEFINE a == starts[f - 1]
             d == starts[f]
  <2>1. y < l /\ x = a + y
    BY <1>2 DEF l, fb
  <2>2. l \in Nat /\ a \in Nat /\ d \in Nat /\ d = a + l /\ d <= L /\ L \in Nat
    BY <1>4
  <2> HIDE DEF a, d, Goal
  <2>3. /\ y + 1 \in 1 .. l /\ x + 1 = a + (y + 1) /\ x + 1 \in 1 .. L
        /\ y + 1 < l => x + 1 < L
        /\ y + 1 = l => x + 1 = d
    BY ONLY <2>1, <2>2, x \in Nat, y \in Nat
  <2> QED BY <2>3 DEF a, d
<1>7. u = ByteStep(s, b)
  <2>1. \A o \in 1 .. l : bytes[starts[f - 1] + o] = fb[o]
    BY <1>1 DEF l, fb
  <2>2. bytes[x + 1] = b
    BY <2>1, <1>6 DEF b
  <2> QED BY <2>2
<1> HIDE DEF u
<1>8. CASE y + 1 < l
  <2>1. KeepsRest(s, t) /\ FieldAt(fields[f], y + 1, t)
    BY <1>5, <1>8
  <2>2. /\ u \in ParseState /\ u.position = s.position + 1
        /\ u.prev_position = s.prev_position /\ ~u.end_of_field /\ ~u.rejected
        /\ SamePlace(t, u) /\ u.field2 = s.field2 /\ ~u.have_image
    BY <2>1, <1>7, ByteSteps DEF t
  <2>3. FieldAt(fields[f], y + 1, u)
    BY <2>1, <2>2, FieldAtSamePlace
  <2>4. ImageAt(fields, single, x + 1, u)
    BY <2>2, <2>3, <1>2, <1>6, <1>8 DEF ImageAt, n, starts, l, fb
  <2> QED BY <2>2, <2>4, <1>6, <1>8
<1>9. CASE y + 1 = l
  <2>1. t = [s EXCEPT !.marker_state = 0, !.end_of_field = TRUE]
    BY <1>5, <1>9
  <2>2. /\ u \in ParseState /\ u.position = s.position + 1
        /\ u.prev_position = s.prev_position /\ ~u.end_of_field /\ ~u.rejected
        /\ u.marker_state = 0 /\ u.field2 = ~s.field2
        /\ u.have_image <=> (single \/ s.field2)
    BY <2>1, <1>7, ByteSteps DEF t
  <2>3. CASE f = n
    <3>1. x + 1 = L
      BY <2>3, <1>1, <1>6, <1>9
    <3>2. u.have_image /\ (~single => ~u.field2)
      <4>1. CASE single
        BY <4>1, <2>2
      <4>2. CASE ~single
        <5>1. s.field2
          BY <4>2, <2>3, <1>1, <1>2
        <5> QED BY <5>1, <4>2, <2>2
      <4> QED BY <4>1, <4>2
    <3> QED BY <3>1, <3>2, <2>2, <1>6
  <2>4. CASE f # n
    <3>1. f = 1 /\ n = 2 /\ ~single /\ ~s.field2
      BY <2>4, <1>2, <1>3
    <3>2. ~u.have_image /\ u.field2
      BY <3>1, <2>2
    <3>3. ImageAt(fields, single, x + 1, u)
      <4>1. 2 \in 1 .. Len(fields) /\ 2 - 1 = 1 /\ x + 1 = starts[1]
        BY <3>1, <1>6, <1>9 DEF n
      <4>2. ImageAt(fields, single, starts[2 - 1], u)
        BY <4>1, <3>2, <2>2, FieldStarts DEF starts
      <4> QED BY <4>1, <4>2
    <3>4. x + 1 < L
      <4>1. 2 \in 1 .. n /\ Len(FieldBytes(fields[2])) > 0
        BY <3>1, FieldsAre DEF n
      <4>2. starts[2] = starts[2 - 1] + Len(FieldBytes(fields[2])) /\ Len(FieldBytes(fields[2])) \in Nat
            /\ L = starts[2] /\ x + 1 = starts[1] /\ 2 - 1 = 1
        BY <4>1, <3>1, <1>1, <1>6, <1>9
      <4> QED BY <4>1, <4>2, <3>1, <1>4
    <3> QED BY <3>2, <3>3, <3>4, <2>2, <1>6
  <2> QED BY <2>3, <2>4
<1>10. y + 1 < l \/ y + 1 = l
  BY <1>5
<1> HIDE DEF Goal
<1> QED BY <1>8, <1>9, <1>10
-----------------------------------------------------------------------------
(* Where the search is *)

\* The image that follows k images, in the file and in what is found.
LEMMA AfterImages ==
  ASSUME NEW s, IsStream(s), NEW k \in 0 .. Len(s.images)
  PROVE  LET n == Len(s.images)
             bytes == StreamBytes(s)
             next == ImageAfter(s, k)
             start == StartAfter(s, k)
         IN /\ n \in Nat /\ bytes \in Seq(Byte) /\ start \in Nat /\ start <= Len(bytes)
            /\ IsImage(next, s.singleField) /\ s.singleField \in BOOLEAN /\ s.kept \in Nat
            /\ ImageBytes(next) \in Seq(Byte) /\ Len(ImageBytes(next)) \in Nat
            /\ k < n => /\ next = s.images[k + 1] /\ k + 1 \in 0 .. n
                        /\ StartAfter(s, k + 1) = start + Len(ImageBytes(next))
                        /\ start + Len(ImageBytes(next)) <= Len(bytes)
                        /\ \A o \in 1 .. Len(ImageBytes(next)) : bytes[start + o] = ImageBytes(next)[o]
            /\ k = n => /\ s.kept < Len(ImageBytes(next)) /\ start + s.kept <= Len(bytes)
                        /\ \A o \in 1 .. s.kept : bytes[start + o] = ImageBytes(next)[o]
                        /\ start + s.kept < Len(bytes) => s.kept = 0 /\ bytes[start + 1] # FF
<1> DEFINE n == Len(s.images)
           bytes == StreamBytes(s)
           next == ImageAfter(s, k)
           starts == Offsets(ImagesBytes(s.images))
           start == starts[k]
           l == Len(ImageBytes(next))
<1>1. /\ n \in Nat /\ s.kept \in Nat /\ bytes \in Seq(Byte)
      /\ starts[0] = 0 /\ \A i \in 0 .. n : starts[i] \in Nat /\ starts[i] <= starts[n]
      /\ \A i \in 1 .. n : /\ starts[i] = starts[i - 1] + Len(ImageBytes(s.images[i]))
                           /\ \A o \in 1 .. Len(ImageBytes(s.images[i])) :
                                bytes[starts[i - 1] + o] = ImageBytes(s.images[i])[o]
      /\ starts[n] + s.kept <= Len(bytes)
      /\ \A o \in 1 .. s.kept : bytes[starts[n] + o] = ImageBytes(s.cutShort)[o]
      /\ s.kept < Len(ImageBytes(s.cutShort))
      /\ starts[n] + s.kept < Len(bytes) => s.kept = 0 /\ bytes[starts[n] + 1] # FF
  BY StreamBytesAre
<1>2. Len(bytes) \in Nat
  BY <1>1, LenProperties
<1>3. /\ s.singleField \in BOOLEAN /\ IsImage(s.cutShort, s.singleField)
      /\ \A i \in 1 .. n : IsImage(s.images[i], s.singleField)
  <2>1. DOMAIN s.images = 1 .. n
    BY LenProperties DEF IsStream
  <2> QED BY <2>1 DEF IsStream
<1> HIDE DEF bytes, starts, n
<1>4. k \in 0 .. n /\ n \in 0 .. n /\ (k < n => k + 1 \in 1 .. n /\ k + 1 \in 0 .. n /\ (k + 1) - 1 = k)
  BY <1>1 DEF n
<1>5. start \in Nat /\ starts[n] \in Nat /\ start <= starts[n]
  BY <1>1, <1>4
<1>6. k < n => next = s.images[k + 1]
  BY DEF ImageAfter, n
<1>7. k = n => next = s.cutShort
  BY <1>1 DEF ImageAfter, n
<1>8. k < n \/ k = n
  BY <1>1, <1>4
<1>9. IsImage(next, s.singleField)
  BY <1>3, <1>4, <1>6, <1>7, <1>8
<1>10. ImageBytes(next) \in Seq(Byte) /\ l \in Nat
  <2>1. ImageBytes(next) \in Seq(Byte)
    BY <1>9, FieldsAre
  <2> QED BY <2>1, LenProperties
<1> HIDE DEF next, start, l
<1>11. start <= Len(bytes)
  BY <1>1, <1>2, <1>5
<1>12. ASSUME k < n
       PROVE  /\ starts[k + 1] = start + l /\ start + l <= Len(bytes)
              /\ \A o \in 1 .. l : bytes[start + o] = ImageBytes(next)[o]
  <2>1. starts[k + 1] = start + l
    BY <1>1, <1>4, <1>6, <1>12 DEF start, l
  <2>2. starts[k + 1] \in Nat /\ starts[k + 1] <= starts[n]
    BY <1>1, <1>4, <1>12
  <2>3. starts[k + 1] <= Len(bytes)
    BY <2>2, <1>1, <1>2, <1>5
  <2>4. \A o \in 1 .. l : bytes[start + o] = ImageBytes(next)[o]
    <3>1. k + 1 \in 1 .. n /\ (k + 1) - 1 = k /\ next = s.images[k + 1]
      BY <1>4, <1>6, <1>12
    <3>2. \A o \in 1 .. Len(ImageBytes(s.images[k + 1])) :
            bytes[starts[(k + 1) - 1] + o] = ImageBytes(s.images[k + 1])[o]
      BY <3>1, <1>1
    <3> QED BY ONLY <3>1, <3>2 DEF start, l
  <2> QED BY <2>1, <2>3, <2>4
<1>13. ASSUME k = n
       PROVE  /\ s.kept < l /\ start + s.kept <= Len(bytes)
              /\ \A o \in 1 .. s.kept : bytes[start + o] = ImageBytes(next)[o]
              /\ start + s.kept < Len(bytes) => s.kept = 0 /\ bytes[start + 1] # FF
  BY <1>1, <1>7, <1>13 DEF start, l
<1> QED BY <1>1, <1>3, <1>4, <1>5, <1>6, <1>9, <1>10, <1>11, <1>12, <1>13 DEF n, bytes, starts, start, l, next, StartAfter

\* Where a machine is that has no byte of the image.
LEMMA NoByte ==
  ASSUME NEW s, NEW single, NEW fields, IsImage(fields, single), ImageAt(fields, single, 0, s)
  PROVE  s.marker_state = 0
<1> DEFINE starts == Offsets(FieldsBytes(fields))
           n == Len(fields)
<1>1. PICK f \in 1 .. n, y \in Nat : 0 = starts[f - 1] + y /\ FieldAt(fields[f], y, s)
  BY DEF ImageAt
<1>2. /\ n = (IF single THEN 1 ELSE 2) /\ (\A i \in 0 .. n : starts[i] \in Nat) /\ fields[f] \in Seq(Seq(Byte))
  BY FieldsAre
<1>3. starts[f - 1] \in Nat
  BY <1>2
<1>4. y = 0
  BY <1>1, <1>3
<1> HIDE DEF starts
<1> DEFINE offs == Offsets(fields[f])
           m == Len(fields[f])
<1>5. m \in Nat /\ \A j \in 0 .. m : offs[j] \in Nat
  BY <1>2, OffsetsAre, LenProperties
<1> HIDE DEF offs, m
<1>6. /\ m \in 0 .. m /\ \A j \in 1 .. m : j - 1 \in 0 .. m
  BY <1>5
<1>7. \A a, b \in Nat : 0 # 2 + a + b /\ 0 # 2 + a /\ 0 # (2 + a) + 1
  OBVIOUS
<1>8. \A j \in 1 .. m, o \in Nat : 0 # 2 + offs[j - 1] + o
  BY <1>5, <1>6, <1>7
<1>9. 0 # 2 + offs[m] /\ 0 # (2 + offs[m]) + 1
  BY <1>5, <1>6, <1>7
<1>10. 0 \in {0, 1} /\ s.marker_state = 0
  <2>1. \/ 0 \in {0, 1} /\ s.marker_state = 0
        \/ \E j \in 1 .. m, o \in Nat : 0 = 2 + offs[j - 1] + o
        \/ 0 \in {2 + offs[m], (2 + offs[m]) + 1}
    BY <1>1, <1>4 DEF FieldAt, offs, m
  <2> QED BY <2>1, <1>8, <1>9
<1> QED BY <1>10
\* The state before the loop body.
Before == [state EXCEPT !.have_image = FALSE]

\* While it runs, the byte at the position and what it does.
LEMMA SearchStep ==
  ASSUME IInv, result = "running", state.position < BufferSize
  PROVE  LET k == Len(found)
             n == Len(stream.images)
             l == Len(ImageBytes(Searched))
             at == bufferStart + state.position
             u == ByteStep(Before, file[at + 1])
         IN \/ k = n /\ u \in ParseState /\ u.rejected
               /\ u.position = state.position /\ u.prev_position = state.prev_position
            \/ /\ u \in ParseState /\ u.position = state.position + 1
               /\ u.prev_position = state.prev_position /\ ~u.end_of_field /\ ~u.rejected
               /\ \/ /\ ~u.have_image
                     /\ \E x \in Nat : /\ at = SearchedStart + x
                                       /\ ImageAt(Searched, stream.singleField, x + 1, u)
                                       /\ k = n => x + 1 <= stream.kept
                  \/ /\ u.have_image /\ u.marker_state = 0 /\ (~stream.singleField => ~u.field2)
                     /\ k < n /\ at + 1 = SearchedStart + l
<1> DEFINE k == Len(found)
           n == Len(stream.images)
           bytes == ImageBytes(Searched)
           l == Len(bytes)
           at == bufferStart + state.position
           b == file[at + 1]
           u == ByteStep(Before, b)
           single == stream.singleField
<1>1. IsStream(stream) /\ file = StreamBytes(stream) /\ state \in ParseState /\ Searching
  BY DEF IInv, TypeOK
<1>2. k \in 0 .. n
  BY <1>1, LenProperties DEF IInv, ImagesAreWhole, IsStream
<1>3. /\ n \in Nat /\ file \in Seq(Byte) /\ SearchedStart \in Nat
      /\ IsImage(Searched, single) /\ single \in BOOLEAN /\ stream.kept \in Nat /\ l \in Nat
      /\ k < n => /\ SearchedStart + l <= Len(file)
                  /\ \A o \in 1 .. l : file[SearchedStart + o] = bytes[o]
      /\ k = n => /\ stream.kept < l
                  /\ \A o \in 1 .. stream.kept : file[SearchedStart + o] = bytes[o]
                  /\ SearchedStart + stream.kept < Len(file) => stream.kept = 0 /\ file[SearchedStart + 1] # FF
  <2> DEFINE next == ImageAfter(stream, k)
             start == StartAfter(stream, k)
             all == StreamBytes(stream)
  <2>1. /\ n \in Nat /\ all \in Seq(Byte) /\ start \in Nat
        /\ IsImage(next, single) /\ single \in BOOLEAN /\ stream.kept \in Nat
        /\ Len(ImageBytes(next)) \in Nat
        /\ k < n => /\ start + Len(ImageBytes(next)) <= Len(all)
                    /\ \A o \in 1 .. Len(ImageBytes(next)) : all[start + o] = ImageBytes(next)[o]
        /\ k = n => /\ stream.kept < Len(ImageBytes(next))
                    /\ \A o \in 1 .. stream.kept : all[start + o] = ImageBytes(next)[o]
                    /\ start + stream.kept < Len(all) => stream.kept = 0 /\ all[start + 1] # FF
    <3>1. IsStream(stream) /\ k \in 0 .. Len(stream.images)
      BY <1>1, <1>2
    <3> HIDE DEF k
    <3> QED BY ONLY <3>1, AfterImages
  <2>2. next = Searched /\ start = SearchedStart /\ all = file
    BY <1>1 DEF Searched, SearchedStart
  <2> HIDE DEF next, start, all, k, n
  <2> QED BY ONLY <2>1, <2>2
<1>4. PICK x \in Nat : at = SearchedStart + x /\ ImageAt(Searched, single, x, state)
                       /\ (k = n => x <= stream.kept)
  BY <1>1 DEF Searching, Within
<1>5. /\ Before \in ParseState /\ ~Before.end_of_field /\ ~Before.rejected /\ ~Before.have_image
      /\ Before.position = state.position /\ Before.prev_position = state.prev_position
      /\ SamePlace(state, Before) /\ Before.field2 = state.field2
  <2>1. PICK c \in BOOLEAN : c = FALSE
    OBVIOUS
  <2>2. Before = [state EXCEPT !.have_image = c]
    BY <2>1 DEF Before
  <2> QED BY <1>1, <2>1, <2>2 DEF ParseState, SamePlace, Searching
<1>6. ImageAt(Searched, single, x, Before)
  <2>1. \A segments, y : FieldAt(segments, y, state) => FieldAt(segments, y, Before)
    BY <1>5, FieldAtSamePlace
  <2> QED BY <2>1, <1>4, <1>5 DEF ImageAt
<1>7. at < Len(file) /\ Len(file) \in Nat
  <2>1. bufferStart \in Nat /\ filePos \in Nat /\ filePos <= Len(file) /\ Len(file) \in Nat
    BY <1>3, LenProperties DEF IInv, TypeOK
  <2> QED BY <2>1, <1>1 DEF BufferSize, ParseState
<1> HIDE DEF Before, u, b, at, bytes, l, k, n
<1>8. k = n => stream.kept < l
  BY <1>3
<1>9. ASSUME b = bytes[x + 1]
      PROVE  /\ x + 1 \in 1 .. l
             /\ u \in ParseState /\ u.position = state.position + 1
             /\ u.prev_position = state.prev_position /\ ~u.end_of_field /\ ~u.rejected
             /\ \/ /\ x + 1 < l /\ ~u.have_image /\ ImageAt(Searched, single, x + 1, u)
                \/ /\ x + 1 = l /\ u.have_image /\ u.marker_state = 0
                   /\ ~single => ~u.field2
  <2>1. u = ByteStep(Before, bytes[x + 1])
    BY <1>9 DEF u
  <2>2. LET v == ByteStep(Before, bytes[x + 1])
        IN /\ x + 1 \in 1 .. Len(bytes)
           /\ v \in ParseState /\ v.position = Before.position + 1
           /\ v.prev_position = Before.prev_position /\ ~v.end_of_field /\ ~v.rejected
           /\ \/ /\ x + 1 < Len(bytes) /\ ~v.have_image
                 /\ ImageAt(Searched, stream.singleField, x + 1, v)
              \/ /\ x + 1 = Len(bytes) /\ v.have_image /\ v.marker_state = 0
                 /\ ~stream.singleField => ~v.field2
    BY <1>3, <1>5, <1>6, ImageStep DEF bytes
  <2> QED BY ONLY <2>1, <2>2, <1>5 DEF l
<1>10. ASSUME k < n
       PROVE  \/ /\ ~u.have_image /\ ImageAt(Searched, single, x + 1, u)
                 /\ u \in ParseState /\ u.position = state.position + 1
                 /\ u.prev_position = state.prev_position /\ ~u.end_of_field /\ ~u.rejected
              \/ /\ u.have_image /\ u.marker_state = 0 /\ (~single => ~u.field2)
                 /\ u \in ParseState /\ u.position = state.position + 1
                 /\ u.prev_position = state.prev_position /\ ~u.end_of_field /\ ~u.rejected
                 /\ at + 1 = SearchedStart + l
  <2>1. at + 1 = SearchedStart + (x + 1)
    BY <1>3, <1>4
  <2>2. x + 1 \in 1 .. l
    BY <1>3, <1>5, <1>6, ImageStep DEF l, bytes
  <2>3. b = bytes[x + 1]
    BY <2>1, <2>2, <1>3, <1>10 DEF b
  <2> QED BY <2>1, <2>3, <1>9
<1>11. ASSUME k = n, x < stream.kept
       PROVE  /\ ~u.have_image /\ ImageAt(Searched, single, x + 1, u) /\ x + 1 <= stream.kept
              /\ u \in ParseState /\ u.position = state.position + 1
              /\ u.prev_position = state.prev_position /\ ~u.end_of_field /\ ~u.rejected
  <2>1. at + 1 = SearchedStart + (x + 1) /\ x + 1 \in 1 .. stream.kept /\ x + 1 < l
    BY <1>3, <1>4, <1>11
  <2>2. b = bytes[x + 1]
    BY <2>1, <1>3, <1>11 DEF b
  <2> QED BY <2>1, <2>2, <1>9, <1>3
<1>12. ASSUME k = n, ~(x < stream.kept)
       PROVE  /\ u \in ParseState /\ u.rejected
              /\ u.position = state.position /\ u.prev_position = state.prev_position
  <2>1. x = stream.kept
    BY <1>3, <1>4, <1>12
  <2>2. stream.kept = 0 /\ file[SearchedStart + 1] # FF
    BY <2>1, <1>3, <1>4, <1>7, <1>12
  <2>3. b # FF
    BY <2>1, <2>2, <1>3, <1>4 DEF b
  <2>4. b \in Byte
    <3>1. at + 1 \in 1 .. Len(file)
      BY <1>3, <1>4, <1>7
    <3> QED BY <3>1, <1>3, ElementOfSeq DEF b
  <2>5. Before.marker_state = 0
    BY <2>1, <2>2, <1>3, <1>6, NoByte
  <2>6. MarkerStep(Before, b) = [Before EXCEPT !.rejected = TRUE]
    BY <2>3, <2>4, <2>5, <1>5, MarkerSteps
  <2>7. PICK c \in BOOLEAN : c = TRUE
    OBVIOUS
  <2> DEFINE t == [Before EXCEPT !.rejected = c]
  <2>8. t \in ParseState /\ t.rejected = c /\ t.position = Before.position
        /\ t.prev_position = Before.prev_position
    BY <1>5 DEF ParseState
  <2>9. MarkerStep(Before, b) = t
    BY <2>6, <2>7
  <2> HIDE DEF t
  <2>10. u = t
    BY <2>7, <2>8, <2>9 DEF u, ByteStep
  <2> QED BY <2>7, <2>8, <2>10, <1>5
<1>13. k < n \/ k = n
  BY <1>2, <1>3 DEF k, n
<1>14. at = SearchedStart + x /\ (k < n => k # n)
  BY <1>3, <1>4, <1>2 DEF k, n
<1> QED BY <1>10, <1>11, <1>12, <1>13, <1>14 DEF k, n, l, bytes, at, b, u
-----------------------------------------------------------------------------
(* The inductive invariant *)

\* What the steps keep need not be said of each: where the search is from the
\* parts of a state it depends on.
LEMMA SearchStart ==
  ASSUME IsStream(stream), NEW k \in 0 .. Len(stream.images), NEW s,
         s.marker_state = 0, ~stream.singleField => ~s.field2
  PROVE  ImageAt(ImageAfter(stream, k), stream.singleField, 0, s)
<1>1. IsImage(ImageAfter(stream, k), stream.singleField)
  BY AfterImages
<1> QED BY <1>1, ImageStart

LEMMA InitIInv == Init => IInv
<1> SUFFICES ASSUME Init PROVE IInv
  OBVIOUS
<1>1. stream \in Streams /\ file = StreamBytes(stream) /\ IsStream(stream)
  BY StreamsAssumption DEF Init
<1>2. filePos = 0 /\ bufferStart = 0 /\ state = MJPEGParseState /\ image = <<>> /\ found = <<>>
      /\ result = "running"
  BY DEF Init
<1>3. /\ state \in ParseState /\ state.position = 0 /\ state.prev_position = 0 /\ state.marker_state = 0
      /\ ~state.field2 /\ ~state.end_of_field /\ ~state.rejected
  BY <1>2 DEF MJPEGParseState, ParseState
<1>4. Len(found) = 0 /\ DOMAIN found = {} /\ found \in Seq(Seq(Byte)) /\ Len(stream.images) \in Nat
  <2>1. <<>> \in Seq(Seq(Byte)) /\ Len(<<>>) = 0
    BY EmptySeq
  <2>2. DOMAIN found = 1 .. 0
    BY <1>2, <2>1, LenProperties
  <2>3. Len(stream.images) \in Nat
    BY <1>1, LenProperties DEF IsStream
  <2> QED BY <1>2, <2>1, <2>2, <2>3
<1>5. 0 \in 0 .. Len(stream.images)
  BY <1>4
<1>6. SearchedStart = 0 /\ file \in Seq(Byte) /\ stream.kept \in Nat
  BY <1>1, <1>4, StreamBytesAre DEF SearchedStart, StartAfter
<1>7. Len(file) \in Nat
  BY <1>6, LenProperties
<1>8. TypeOK
  <2>1. image \in Seq(Byte)
    BY <1>2, EmptySeq
  <2> QED BY <2>1, <1>1, <1>2, <1>3, <1>4, <1>6, <1>7 DEF TypeOK
<1>9. Within
  <2>1. ImageAt(Searched, stream.singleField, 0, state)
    BY <1>1, <1>3, <1>4, <1>5, SearchStart DEF Searched
  <2> QED BY <2>1, <1>2, <1>3, <1>6 DEF Within
<1>10. AppendedFromStart
  <2>1. SubSeq(file, 0 + 1, 0 + 0) = <<>>
    BY SubSeqEmpty
  <2> QED BY <2>1, <1>2, <1>3, <1>6 DEF AppendedFromStart
<1>11. ImagesAreWhole /\ AllImagesFound
  BY <1>2, <1>4 DEF ImagesAreWhole, AllImagesFound
<1>12. state.position <= BufferSize
  BY <1>2, <1>3 DEF BufferSize
<1> QED BY <1>1, <1>3, <1>8, <1>9, <1>10, <1>11, <1>12 DEF IInv, Searching

\* One turn of the loop.
LEMMA ByteIInv == IInv /\ ProcessByte => IInv'
<1> SUFFICES ASSUME IInv, ProcessByte PROVE IInv'
  OBVIOUS
<1> DEFINE k == Len(found)
           n == Len(stream.images)
           single == stream.singleField
           l == Len(ImageBytes(Searched))
           at == bufferStart + state.position
           u == ByteStep(Before, file[at + 1])
           start == SearchedStart
           done == u.have_image \/ u.position = BufferSize
           app == image \o SubSeq(file, bufferStart + u.prev_position + 1, bufferStart + u.position)
<1>1. /\ result = "running" /\ state.position < BufferSize
      /\ IF u.rejected
         THEN result' = "false" /\ state' = u /\ UNCHANGED <<image, found>>
         ELSE /\ state' = IF done THEN [u EXCEPT !.prev_position = u.position] ELSE u
              /\ image' = IF done THEN app ELSE image
              /\ IF u.have_image
                 THEN result' = "true" /\ found' = Append(found, app)
                 ELSE UNCHANGED <<result, found>>
      /\ UNCHANGED <<stream, file, filePos, bufferStart>>
  <2>1. \A a, b, c : InBuffer(a, b) = SubSeq(file, bufferStart + a, bufferStart + b)
    BY DEF InBuffer
  <2>2. bufferStart + (u.prev_position + 1) = bufferStart + u.prev_position + 1
    <3>1. u.prev_position \in Nat /\ bufferStart \in Nat
      <4>1. bufferStart \in Nat
        <5>1. bufferStart \in 0 .. filePos /\ filePos \in 0 .. Len(file)
          BY DEF IInv, TypeOK
        <5> QED BY <5>1
      <4>2. u \in ParseState
        BY SearchStep DEF ProcessByte
      <4> QED BY <4>1, <4>2 DEF ParseState
    <3> HIDE DEF u
    <3> QED BY <3>1
  <2>3. Appended(u) = app
    BY <2>2 DEF Appended, InBuffer
  <2> HIDE DEF app
  <2> QED BY <2>3 DEF ProcessByte, Before
<1>2. \/ k = n /\ u \in ParseState /\ u.rejected
         /\ u.position = state.position /\ u.prev_position = state.prev_position
      \/ /\ u \in ParseState /\ u.position = state.position + 1
         /\ u.prev_position = state.prev_position /\ ~u.end_of_field /\ ~u.rejected
         /\ \/ /\ ~u.have_image
               /\ \E x \in Nat : /\ at = start + x
                                 /\ ImageAt(Searched, single, x + 1, u)
                                 /\ k = n => x + 1 <= stream.kept
            \/ /\ u.have_image /\ u.marker_state = 0 /\ (~single => ~u.field2)
               /\ k < n /\ at + 1 = start + l
  BY <1>1, SearchStep
<1>3. /\ stream' = stream /\ file' = file /\ filePos' = filePos /\ bufferStart' = bufferStart
      /\ BufferSize' = BufferSize
  BY <1>1 DEF BufferSize
<1>4. IsStream(stream) /\ file = StreamBytes(stream) /\ found \in Seq(Seq(Byte))
      /\ ImagesAreWhole /\ Searching /\ AllImagesFound
  BY <1>1 DEF IInv, TypeOK
<1>5. /\ k \in 0 .. n /\ n \in Nat /\ file \in Seq(Byte) /\ start \in Nat
      /\ ImageBytes(Searched) \in Seq(Byte) /\ l \in Nat
  <2>1. k \in Nat /\ n \in Nat /\ k <= n
    BY <1>4, LenProperties DEF IsStream, ImagesAreWhole
  <2>2. k \in 0 .. n
    BY <2>1
  <2> QED BY <2>1, <2>2, <1>4, AfterImages DEF Searched, SearchedStart
<1>6. k < n => /\ Searched = stream.images[k + 1] /\ k + 1 \in 0 .. n
               /\ StartAfter(stream, k + 1) = start + l
               /\ start + l <= Len(file)
               /\ \A o \in 1 .. l : file[start + o] = ImageBytes(Searched)[o]
  <2> HIDE DEF n
  <2> QED BY <1>4, <1>5, AfterImages DEF Searched, SearchedStart, n
<1>7. /\ bufferStart \in 0 .. filePos /\ filePos \in 0 .. Len(file) /\ Len(file) \in Nat
      /\ state.position \in Nat /\ state.prev_position \in 0 .. state.position
      /\ state.position < BufferSize /\ BufferSize \in Nat /\ bufferStart + BufferSize = filePos
  <2>1. Len(file) \in Nat
    BY <1>5, LenProperties
  <2> QED BY <2>1, <1>1 DEF IInv, TypeOK, ParseState, BufferSize
<1>t. image \in Seq(Byte)
  BY DEF IInv, TypeOK
<1>8. start <= bufferStart + state.prev_position
      /\ image = SubSeq(file, start + 1, bufferStart + state.prev_position)
  BY <1>1, <1>4 DEF Searching, AppendedFromStart
<1> HIDE DEF u, k, n, l, at, start, app, done
<1>9. CASE u.rejected
  <2>1. k = n /\ u \in ParseState /\ u.position = state.position /\ u.prev_position = state.prev_position
    BY <1>2, <1>9
  <2>2. result' = "false" /\ state' = u /\ found' = found
    BY <1>1, <1>9
  <2>3. TypeOK'
    BY <2>1, <2>2, <1>1, <1>3, <1>4, <1>5, <1>7, <1>9, <1>t DEF TypeOK
  <2>4. ImagesAreWhole' /\ AllImagesFound'
    BY <2>1, <2>2, <1>3, <1>4 DEF ImagesAreWhole, AllImagesFound, k, n
  <2> QED BY <2>1, <2>2, <2>3, <2>4, <1>3, <1>4 DEF IInv
<1>10. CASE ~u.rejected
  <2>1. /\ u \in ParseState /\ u.position = state.position + 1
        /\ u.prev_position = state.prev_position /\ ~u.end_of_field
    BY <1>2, <1>10
  <2>2. /\ state' = IF done THEN [u EXCEPT !.prev_position = u.position] ELSE u
        /\ image' = IF done THEN app ELSE image
        /\ IF u.have_image
           THEN result' = "true" /\ found' = Append(found, app)
           ELSE UNCHANGED <<result, found>>
    BY <1>1, <1>10
  <2>3. /\ state' \in ParseState /\ SamePlace(u, state') /\ state'.position = u.position
        /\ state'.prev_position = (IF done THEN u.position ELSE u.prev_position)
        /\ state'.field2 = u.field2 /\ ~state'.end_of_field /\ ~state'.rejected
    <3> DEFINE v == [u EXCEPT !.prev_position = u.position]
    <3>1. v \in ParseState /\ SamePlace(u, v) /\ v.position = u.position /\ v.prev_position = u.position
          /\ v.field2 = u.field2 /\ v.end_of_field = u.end_of_field /\ v.rejected = u.rejected
      BY <2>1 DEF ParseState, SamePlace
    <3>2. state' = IF done THEN v ELSE u
      BY <2>2
    <3> HIDE DEF v
    <3> QED BY <3>1, <3>2, <2>1, <1>10 DEF SamePlace
  <2>4. state'.position <= BufferSize /\ state'.prev_position \in 0 .. state'.position
        /\ state'.position = state.position + 1
    BY <2>1, <2>3, <1>7
  <2>5. /\ start <= bufferStart + state'.prev_position
        /\ app = SubSeq(file, start + 1, bufferStart + u.position)
    <3> DEFINE p == bufferStart + u.prev_position
               q == bufferStart + u.position
    <3>1. p \in Nat /\ q \in Nat /\ p <= q /\ q <= Len(file) /\ start <= p
      BY <2>1, <1>7, <1>8
    <3>2. app = SubSeq(file, start + 1, p) \o SubSeq(file, p + 1, q)
      BY <2>1, <1>8 DEF app
    <3> HIDE DEF p, q
    <3>3. start + 1 \in 1 .. (Len(file) + 1) /\ p \in ((start + 1) - 1) .. Len(file) /\ q \in p .. Len(file)
      BY <3>1, <1>5, <1>7
    <3>4. app = SubSeq(file, start + 1, q)
      BY <3>2, <3>3, <1>5, ConcatAdjacentSubSeq
    <3>5. start <= bufferStart + state'.prev_position
      <4>1. bufferStart + state'.prev_position = IF done THEN q ELSE p
        BY <2>3 DEF p, q
      <4> QED BY <4>1, <3>1, <1>5
    <3> QED BY <3>4, <3>5 DEF q
  <2>i. image' \in Seq(Byte)
    <3>1. start + 1 \in Nat /\ bufferStart + u.position \in Nat
      BY <2>1, <1>5, <1>7
    <3>2. bufferStart + u.position <= Len(file)
      BY <2>1, <1>7
    <3>3. \A i \in (start + 1) .. (bufferStart + u.position) : file[i] \in Byte
      <4>1. \A i \in (start + 1) .. (bufferStart + u.position) : i \in 1 .. Len(file)
        BY <3>1, <3>2, <1>5, <1>7
      <4> QED BY <4>1, <1>5, ElementOfSeq
    <3>4. app \in Seq(Byte)
      BY <2>5, <3>1, <3>3, SubSeqProperties
    <3> QED BY <3>4, <2>2, <1>t
  <2>6. CASE u.have_image
    <3>1. k < n /\ at + 1 = start + l /\ u.marker_state = 0 /\ (~single => ~u.field2)
      BY <1>2, <1>10, <2>6
    <3>2. done /\ result' = "true" /\ found' = Append(found, app)
      BY <2>2, <2>6 DEF done
    <3>3. bufferStart + u.position = start + l
      BY <2>1, <3>1, <1>7 DEF at
    <3>4. app = ImageBytes(Searched)
      <4>1. app = SubSeq(file, start + 1, start + l)
        BY <2>5, <3>3
      <4>2. \A i \in (start + 1) .. (start + l) : file[i] \in Byte
        <5>1. \A i \in (start + 1) .. (start + l) : i \in 1 .. Len(file)
          BY <1>5, <1>6, <1>7, <3>1
        <5> QED BY <5>1, <1>5, ElementOfSeq
      <4>3. /\ app \in Seq(Byte)
            /\ Len(app) = IF start + 1 <= start + l THEN (start + l) - (start + 1) + 1 ELSE 0
            /\ \A i \in 1 .. ((start + l) - (start + 1) + 1) : app[i] = file[(start + 1) + i - 1]
        <5>1. start + 1 \in Int /\ start + l \in Int
          BY <1>5
        <5> QED BY <4>1, <4>2, <5>1, SubSeqProperties
      <4>4. (start + l) - (start + 1) + 1 = l /\ \A i \in 1 .. l : (start + 1) + i - 1 = start + i
        BY <1>5
      <4>5. Len(app) = l
        BY <4>3, <4>4, <1>5
      <4>6. \A i \in 1 .. l : app[i] = ImageBytes(Searched)[i]
        BY <4>3, <4>4, <1>6, <3>1
      <4> QED BY <4>3, <4>5, <4>6, <1>5, SeqEqual DEF l
    <3>5. /\ found' \in Seq(Seq(Byte)) /\ Len(found') = k + 1 /\ k + 1 \in 0 .. n
          /\ \A i \in 1 .. k : found'[i] = found[i]
          /\ found'[k + 1] = app
          /\ DOMAIN found' = 1 .. (k + 1) /\ DOMAIN found = 1 .. k
      <4>1. app \in Seq(Byte)
        BY <3>4, <1>5
      <4>2. DOMAIN found = 1 .. k
        BY <1>4, LenProperties DEF k
      <4>3. found' \in Seq(Seq(Byte)) /\ DOMAIN found' = 1 .. Len(found')
        BY <4>1, <3>2, <1>4, AppendProperties, LenProperties
      <4> QED BY <4>1, <4>2, <4>3, <3>1, <3>2, <1>4, <1>6, AppendProperties DEF k
    <3>6. ImagesAreWhole'
      <4>1. \A i \in 1 .. k : found[i] = ImageBytes(stream.images[i])
        BY <3>5, <1>4 DEF ImagesAreWhole
      <4>2. \A i \in 1 .. (k + 1) : i = k + 1 \/ i \in 1 .. k
        BY <1>5
      <4>3. \A i \in 1 .. (k + 1) : found'[i] = ImageBytes(stream.images[i])
        BY <4>1, <4>2, <3>1, <3>4, <3>5, <1>6
      <4>4. k + 1 <= n
        BY <3>5, <1>5
      <4> QED BY <4>3, <4>4, <3>5, <1>3 DEF ImagesAreWhole, n
    <3>7. Searched' = ImageAfter(stream, k + 1) /\ SearchedStart' = start + l
      BY <3>1, <3>5, <1>3, <1>6 DEF Searched, SearchedStart
    <3>8. Within'
      <4>1. ImageAt(ImageAfter(stream, k + 1), single, 0, state')
        <5>1. state'.marker_state = 0 /\ (~single => ~state'.field2)
          BY <3>1, <2>3 DEF SamePlace
        <5> QED BY <5>1, <3>5, <1>4, SearchStart DEF n
      <4>2. bufferStart' + state'.position = SearchedStart' + 0
        BY <3>3, <3>7, <2>3, <1>3, <1>5
      <4>3. stream.kept \in Nat
        BY <1>4 DEF IsStream
      <4>4. 0 <= stream.kept
        BY <4>3
      <4> QED BY <4>1, <4>2, <4>4, <3>7, <1>3 DEF Within
    <3>9. AppendedFromStart'
      BY <3>2, <3>3, <3>7, <2>3, <1>3, <1>5 DEF AppendedFromStart
    <3>10. TypeOK'
      BY <3>2, <3>5, <2>3, <2>4, <2>i, <1>3, <1>4, <1>5, <1>7 DEF TypeOK
    <3>11. AllImagesFound'
      BY <3>2 DEF AllImagesFound
    <3>12. Searching'
      BY <3>8, <3>9, <2>3 DEF Searching
    <3>13. state'.position <= BufferSize'
      BY <2>4, <1>3
    <3> QED BY <3>5, <3>6, <3>10, <3>11, <3>12, <3>13, <2>3, <1>3, <1>4 DEF IInv
  <2>7. CASE ~u.have_image
    <3>1. PICK x \in Nat : /\ at = start + x /\ ImageAt(Searched, single, x + 1, u)
                           /\ k = n => x + 1 <= stream.kept
      BY <1>2, <1>10, <2>7
    <3>2. result' = "running" /\ found' = found /\ (done <=> u.position = BufferSize)
      BY <2>2, <2>7, <1>1 DEF done
    <3>3. Searched' = Searched /\ SearchedStart' = start /\ Len(found') = k
      BY <3>2, <1>3 DEF Searched, SearchedStart, start, k
    <3>4. Within'
      <4>1. ImageAt(Searched, single, x + 1, state')
        <5>1. \A segments, y : FieldAt(segments, y, u) => FieldAt(segments, y, state')
          BY <2>3, FieldAtSamePlace
        <5> QED BY <5>1, <3>1, <2>3 DEF ImageAt
      <4>2. bufferStart' + state'.position = start + (x + 1) /\ x + 1 \in Nat
        BY <3>1, <2>1, <2>3, <1>3, <1>5, <1>7 DEF at
      <4> QED BY <4>1, <4>2, <3>1, <3>3, <1>3 DEF Within, n
    <3>5. AppendedFromStart'
      <4>1. state'.position = BufferSize => state'.prev_position = state'.position
        BY <3>2, <2>3
      <4>2. image' = SubSeq(file, start + 1, bufferStart + state'.prev_position)
        BY <2>1, <2>2, <2>3, <2>5, <1>8
      <4> QED BY <4>1, <4>2, <3>2, <3>3, <2>5, <1>3 DEF AppendedFromStart
    <3>6. TypeOK'
      BY <3>2, <2>3, <2>4, <2>i, <1>3, <1>4, <1>5, <1>7 DEF TypeOK
    <3>7. ImagesAreWhole' /\ AllImagesFound'
      BY <3>2, <1>3, <1>4 DEF ImagesAreWhole, AllImagesFound
    <3>8. Searching'
      BY <3>4, <3>5, <2>3 DEF Searching
    <3>9. state'.position <= BufferSize'
      BY <2>4, <1>3
    <3> QED BY <3>2, <3>6, <3>7, <3>8, <3>9, <2>3, <1>3, <1>4 DEF IInv
  <2> QED BY <2>6, <2>7
<1> QED BY <1>9, <1>10
\* The buffer is filled again: the search is where it was.
LEMMA FillIInv == IInv /\ (\E n \in Reads : Fill(n)) => IInv'
<1> SUFFICES ASSUME IInv, NEW r \in Reads, Fill(r) PROVE IInv'
  OBVIOUS
<1>1. /\ result = "running" /\ state.position = BufferSize /\ filePos < Len(file)
      /\ bufferStart' = filePos
      /\ filePos' = IF filePos + r < Len(file) THEN filePos + r ELSE Len(file)
      /\ state' = [state EXCEPT !.position = 0, !.prev_position = 0]
      /\ stream' = stream /\ file' = file /\ image' = image /\ found' = found /\ result' = result
  BY DEF Fill
<1>2. /\ IsStream(stream) /\ file = StreamBytes(stream) /\ found \in Seq(Seq(Byte))
      /\ ImagesAreWhole /\ Searching /\ AllImagesFound /\ TypeOK /\ state \in ParseState
  BY <1>1 DEF IInv, TypeOK
<1>3. r \in Nat /\ Len(file) \in Nat
  <2>1. file \in Seq(Byte)
    BY <1>2, StreamBytesAre
  <2> QED BY <2>1, LenProperties, ReadsAssumption
<1>4. /\ bufferStart \in Nat /\ filePos \in 0 .. Len(file) /\ state.position \in Nat
      /\ bufferStart + state.position = filePos
  BY <1>1, <1>2, <1>3 DEF TypeOK, BufferSize, ParseState
<1>5. /\ state' \in ParseState /\ state'.position = 0 /\ state'.prev_position = 0 /\ SamePlace(state, state')
      /\ state'.field2 = state.field2 /\ ~state'.end_of_field /\ ~state'.rejected
  <2> DEFINE t == [state EXCEPT !.position = 0]
  <2>1. t \in ParseState /\ t.position = 0 /\ SamePlace(state, t) /\ t.field2 = state.field2
        /\ t.end_of_field = state.end_of_field /\ t.rejected = state.rejected
    BY <1>2 DEF ParseState, SamePlace
  <2>2. state' = [t EXCEPT !.prev_position = 0]
    BY <1>1
  <2>3. ~state.end_of_field /\ ~state.rejected
    BY <1>2 DEF Searching
  <2> HIDE DEF t
  <2> QED BY <2>1, <2>2, <2>3 DEF ParseState, SamePlace
<1>6. filePos' \in 0 .. Len(file) /\ filePos <= filePos'
  BY <1>1, <1>3, <1>4
<1>7. TypeOK'
  BY <1>1, <1>2, <1>4, <1>5, <1>6 DEF TypeOK
<1>8. PICK x \in Nat : /\ bufferStart + state.position = SearchedStart + x
                       /\ ImageAt(Searched, stream.singleField, x, state)
                       /\ Len(found) = Len(stream.images) => x <= stream.kept
  BY <1>2 DEF Searching, Within
<1>9. Searched' = Searched /\ SearchedStart' = SearchedStart
  BY <1>1 DEF Searched, SearchedStart
<1>10. SearchedStart \in Nat
  <2>1. Len(found) \in 0 .. Len(stream.images)
    BY <1>2, LenProperties DEF ImagesAreWhole, IsStream
  <2> QED BY <2>1, <1>2, AfterImages DEF SearchedStart
<1>11. Within'
  <2>1. ImageAt(Searched, stream.singleField, x, state')
    <3>1. \A segments, y : FieldAt(segments, y, state) => FieldAt(segments, y, state')
      BY <1>5, FieldAtSamePlace
    <3> QED BY <3>1, <1>5, <1>8 DEF ImageAt
  <2>2. bufferStart' + state'.position = SearchedStart' + x
    BY <1>1, <1>4, <1>5, <1>8, <1>9
  <2> QED BY <2>1, <2>2, <1>1, <1>8, <1>9 DEF Within
<1>12. AppendedFromStart'
  <2>1. SearchedStart <= filePos + 0 /\ bufferStart' + state'.prev_position = filePos
    BY <1>1, <1>4, <1>5, <1>8, <1>10
  <2>2. image = SubSeq(file, SearchedStart + 1, filePos)
    BY <1>1, <1>2, <1>4 DEF Searching, AppendedFromStart
  <2> QED BY <2>1, <2>2, <1>1, <1>4, <1>5, <1>9 DEF AppendedFromStart
<1>13. Searching'
  BY <1>5, <1>11, <1>12 DEF Searching
<1>14. state'.position <= BufferSize'
  BY <1>1, <1>4, <1>5, <1>6 DEF BufferSize
<1>15. ImagesAreWhole' /\ AllImagesFound'
  BY <1>1, <1>2 DEF ImagesAreWhole, AllImagesFound
<1> QED BY <1>1, <1>2, <1>5, <1>7, <1>13, <1>14, <1>15 DEF IInv

\* At the end of the file the search isn't within an image that's all in it.
LEMMA EndIInv == IInv /\ EndOfFile => IInv'
<1> SUFFICES ASSUME IInv, EndOfFile PROVE IInv'
  OBVIOUS
<1> DEFINE k == Len(found)
           n == Len(stream.images)
           l == Len(ImageBytes(Searched))
<1>1. /\ result = "running" /\ state.position = BufferSize /\ filePos = Len(file)
      /\ bufferStart' = filePos /\ result' = "false"
      /\ stream' = stream /\ file' = file /\ filePos' = filePos /\ state' = state
      /\ image' = image /\ found' = found
  BY DEF EndOfFile
<1>2. /\ IsStream(stream) /\ file = StreamBytes(stream) /\ found \in Seq(Seq(Byte))
      /\ ImagesAreWhole /\ Searching /\ TypeOK /\ state \in ParseState
  BY <1>1 DEF IInv, TypeOK
<1>3. k \in 0 .. n /\ n \in Nat
  BY <1>2, LenProperties DEF ImagesAreWhole, IsStream
<1>4. /\ SearchedStart \in Nat /\ l \in Nat /\ Len(file) \in Nat /\ stream.singleField \in BOOLEAN
      /\ IsImage(Searched, stream.singleField)
      /\ k < n => SearchedStart + l <= Len(file)
  <2>1. file \in Seq(Byte)
    BY <1>2, StreamBytesAre
  <2>2. Len(file) \in Nat
    BY <2>1, LenProperties
  <2> QED BY <2>2, <1>2, <1>3, AfterImages DEF Searched, SearchedStart
<1>5. ~(k < n)
  <2> SUFFICES ASSUME k < n PROVE FALSE
    OBVIOUS
  <2>1. PICK x \in Nat : /\ bufferStart + state.position = SearchedStart + x
                         /\ ImageAt(Searched, stream.singleField, x, state)
    BY <1>2 DEF Searching, Within
  <2>2. x + 1 \in 1 .. l
    BY <2>1, <1>4, ImageEnds
  <2>3. SearchedStart + x = Len(file)
    BY <2>1, <1>1, <1>2 DEF TypeOK, BufferSize, ParseState
  <2> HIDE DEF l, k, n
  <2> QED BY <2>2, <2>3, <1>4
<1>6. k = n
  BY <1>3, <1>5
<1>7. ImagesAreWhole' /\ AllImagesFound'
  BY <1>1, <1>2, <1>6 DEF ImagesAreWhole, AllImagesFound
<1>8. TypeOK'
  BY <1>1, <1>2, <1>4 DEF TypeOK
<1> QED BY <1>1, <1>2, <1>7, <1>8 DEF IInv

\* The next call starts with nothing appended.
LEMMA NextIInv == IInv /\ ParseNext => IInv'
<1> SUFFICES ASSUME IInv, ParseNext PROVE IInv'
  OBVIOUS
<1>1. /\ result = "true" /\ image' = <<>> /\ result' = "running"
      /\ stream' = stream /\ file' = file /\ filePos' = filePos /\ bufferStart' = bufferStart
      /\ state' = state /\ found' = found
  BY DEF ParseNext
<1>2. /\ IsStream(stream) /\ file = StreamBytes(stream) /\ found \in Seq(Seq(Byte))
      /\ ImagesAreWhole /\ Searching /\ TypeOK /\ state \in ParseState
      /\ state.position <= BufferSize
  BY <1>1 DEF IInv, TypeOK
<1>3. Searched' = Searched /\ SearchedStart' = SearchedStart /\ BufferSize' = BufferSize
  BY <1>1 DEF Searched, SearchedStart, BufferSize
<1>4. SearchedStart \in Nat
  <2>1. Len(found) \in 0 .. Len(stream.images)
    BY <1>2, LenProperties DEF ImagesAreWhole, IsStream
  <2> QED BY <2>1, <1>2, AfterImages DEF SearchedStart
<1>5. Within'
  BY <1>1, <1>2, <1>3 DEF Searching, Within
<1>6. AppendedFromStart'
  <2>1. SearchedStart = bufferStart + state.prev_position /\ state.prev_position = state.position
    BY <1>1, <1>2 DEF Searching, AppendedFromStart
  <2>2. SubSeq(file, SearchedStart + 1, SearchedStart) = <<>>
    <3>1. SearchedStart + 1 \in Int /\ SearchedStart \in Int /\ SearchedStart < SearchedStart + 1
      BY <1>4
    <3> QED BY <3>1, SubSeqEmpty
  <2>3. SearchedStart <= SearchedStart
    BY <1>4
  <2> QED BY <2>1, <2>2, <2>3, <1>1, <1>3 DEF AppendedFromStart
<1>7. Searching'
  BY <1>1, <1>2, <1>5, <1>6 DEF Searching
<1>8. TypeOK' /\ ImagesAreWhole' /\ AllImagesFound'
  BY <1>1, <1>2 DEF TypeOK, ImagesAreWhole, AllImagesFound
<1> QED BY <1>1, <1>2, <1>3, <1>7, <1>8 DEF IInv

LEMMA StutterIInv == IInv /\ UNCHANGED vars => IInv'
<1> SUFFICES ASSUME IInv, UNCHANGED vars PROVE IInv'
  OBVIOUS
<1>1. /\ stream' = stream /\ file' = file /\ filePos' = filePos /\ bufferStart' = bufferStart
      /\ state' = state /\ image' = image /\ found' = found /\ result' = result
  BY DEF vars
<1> QED BY <1>1 DEF IInv, TypeOK, ImagesAreWhole, AllImagesFound, Searching, Within, AppendedFromStart,
                    Searched, SearchedStart, BufferSize

\* IInv is inductive and gives the properties.
LEMMA Invariant == Spec => []IInv
<1>1. IInv /\ [Next]_vars => IInv'
  BY ByteIInv, FillIInv, EndIInv, NextIInv, StutterIInv DEF Next
<1> QED BY InitIInv, <1>1, PTL DEF Spec

-----------------------------------------------------------------------------
(* The theorems *)

\* The parser's state and the positions in the file and its buffer have their types.
THEOREM ParserTypeCorrect == Spec => []TypeOK
<1>1. IInv => TypeOK
  BY DEF IInv
<1> QED BY <1>1, Invariant, PTL

\* ParseMJPEGImage returns the images of the stream, each with all of its bytes and no
\* others and in their order, for every stream, whatever its segments contain,
\* and every way the reads divide it.
THEOREM FoundImagesAreWhole == Spec => []ImagesAreWhole
<1>1. IInv => ImagesAreWhole
  BY DEF IInv
<1> QED BY <1>1, Invariant, PTL

\* ParseMJPEGImage returns false only when every image that is all in the file was found.
THEOREM NoImageIsMissed == Spec => []AllImagesFound
<1>1. IInv => AllImagesFound
  BY DEF IInv
<1> QED BY <1>1, Invariant, PTL

-----------------------------------------------------------------------------
(* Progress *)

\* A bound on the steps that are left: bytes to look at, bytes to read, and returns.
ToDo ==
  IF result = "false" THEN 0
  ELSE 2 * (Len(file) - (bufferStart + state.position)) + (Len(file) - filePos)
         + (IF result = "true" THEN 2 ELSE 1)

LEMMA PlacesAre ==
  ASSUME IInv
  PROVE  /\ Len(file) \in Nat /\ filePos \in Nat /\ filePos <= Len(file)
         /\ bufferStart \in Nat /\ bufferStart <= filePos /\ state.position \in Nat
         /\ result # "false" => bufferStart + state.position <= filePos
<1>1. file \in Seq(Byte)
  BY StreamBytesAre DEF IInv, TypeOK
<1>2. Len(file) \in Nat
  BY <1>1, LenProperties
<1> QED BY <1>2 DEF IInv, TypeOK, ParseState, BufferSize

\* ParsingEnds rests on this: every step of the search, in the loop or between two
\* calls, leaves less to do, whatever the stream and the reads; so that it takes no
\* more steps than three for each byte of the file, and one.
THEOREM SearchAdvances == Spec => [][(ToDo \in Nat) /\ ToDo' \in Nat /\ ToDo' < ToDo]_vars
<1> DEFINE Advances == ToDo \in Nat /\ ToDo' \in Nat /\ ToDo' < ToDo
<1>1. ASSUME IInv PROVE ToDo \in Nat /\ (result # "false" => ToDo >= 1)
  BY <1>1, PlacesAre DEF ToDo
<1>2. ASSUME IInv, ToDo' \in Nat, Next PROVE ToDo' < ToDo
  <2>1. CASE ProcessByte
    <3> DEFINE u == ByteStep(Before, file[bufferStart + state.position + 1])
    <3>1. /\ result = "running" /\ UNCHANGED <<file, filePos, bufferStart>>
          /\ IF u.rejected THEN result' = "false"
             ELSE /\ state' \in {u, [u EXCEPT !.prev_position = u.position]}
                  /\ result' \in {"running", "true"}
      BY <2>1 DEF ProcessByte, Before
    <3>2. u \in ParseState /\ (u.rejected \/ u.position = state.position + 1)
      BY <1>2, <2>1, SearchStep DEF ProcessByte
    <3> HIDE DEF u
    <3>3. CASE u.rejected
      BY <1>1, <1>2, <3>1, <3>3 DEF ToDo
    <3>4. CASE ~u.rejected
      <4>1. state'.position = state.position + 1
        BY <3>1, <3>2, <3>4 DEF ParseState
      <4>2. ToDo = 2 * (Len(file) - (bufferStart + state.position)) + (Len(file) - filePos) + 1
        BY <3>1 DEF ToDo
      <4>3. /\ result' \in {"running", "true"}
            /\ file' = file /\ filePos' = filePos /\ bufferStart' = bufferStart
        BY <3>1, <3>4
      <4>4. PICK r \in {1, 2} :
              ToDo' = 2 * (Len(file) - (bufferStart + (state.position + 1)))
                        + (Len(file) - filePos) + r
        BY <4>1, <4>3 DEF ToDo
      <4>5. /\ Len(file) \in Nat /\ filePos \in Nat
            /\ bufferStart \in Nat /\ state.position \in Nat
        BY <1>2, PlacesAre
      <4>6. \A l, f, b, p \in Nat, k \in {1, 2} :
              2 * (l - (b + (p + 1))) + (l - f) + k < 2 * (l - (b + p)) + (l - f) + 1
        OBVIOUS
      <4> QED BY ONLY <4>2, <4>4, <4>5, <4>6
    <3> QED BY <3>3, <3>4
  <2>2. ASSUME NEW n \in Reads, Fill(n) PROVE ToDo' < ToDo
    <3>1. /\ result = "running" /\ result' = result /\ file' = file /\ bufferStart' = filePos
          /\ state.position = BufferSize /\ filePos < Len(file)
          /\ filePos' = IF filePos + n < Len(file) THEN filePos + n ELSE Len(file)
      BY <2>2 DEF Fill
    <3>2. state'.position = 0
      BY <1>2, <2>2 DEF Fill, IInv, ParseState
    <3>3. n \in Nat \ {0}
      BY ReadsAssumption
    <3>4. ToDo = 2 * (Len(file) - (bufferStart + state.position)) + (Len(file) - filePos) + 1
      BY <3>1 DEF ToDo
    <3>5. ToDo' = 2 * (Len(file) - (filePos + 0)) + (Len(file) - filePos') + 1
      BY <3>1, <3>2 DEF ToDo
    <3>6. filePos' \in Nat /\ filePos' > filePos
      BY <1>2, <3>1, <3>3, PlacesAre
    <3>7. bufferStart + state.position = filePos
      BY <1>2, <3>1, PlacesAre DEF BufferSize
    <3>8. Len(file) \in Nat /\ filePos \in Nat
      BY <1>2, PlacesAre
    <3> QED BY ONLY <3>4, <3>5, <3>6, <3>7, <3>8, SMT
  <2>3. CASE EndOfFile
    BY <1>1, <1>2, <2>3 DEF EndOfFile, ToDo
  <2>4. CASE ParseNext
    BY <1>2, <2>4, PlacesAre DEF ParseNext, ToDo
  <2> QED BY <1>2, <2>1, <2>2, <2>3, <2>4 DEF Next
<1>3. ASSUME IInv, IInv', Next PROVE Advances
  <2>1. (IInv => ToDo \in Nat)'
    BY <1>1, PTL
  <2> QED BY <1>1, <1>2, <1>3, <2>1
<1>4. IInv /\ IInv' /\ [Next]_vars => [Advances]_vars
  BY <1>3
<1> QED BY <1>4, Invariant, PTL DEF Spec
=============================================================================
