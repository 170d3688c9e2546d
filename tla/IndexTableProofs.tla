--------------------------- MODULE IndexTableProofs ---------------------------
(***************************************************************************)
(* Proofs about IndexTable, for any width of the counters and any number   *)
(* of entries and elements.                                                *)
(***************************************************************************)
EXTENDS IndexTable, InductionFacts, SequenceTheorems

-----------------------------------------------------------------------------
(* The invariant: how far the call that runs has copied its vectors *)

Entries ==
  [sliceOffset : Seq(Int), posTable : Seq(Int), from : Seq(Int) \X Seq(Int)]

RunningCalls ==
  [ op : {"append", "write"}, copying : {"sliceOffset", "posTable", "nothing"},
    i : 0 .. Byte - 1, sliceOffset : Seq(Int), posTable : Seq(Int),
    cSliceOffset : Seq(Int), cPosTable : Seq(Int) ]

\* An array has as many elements as the vector it is copied from.
CallOK ==
  call = Idle \/ /\ call \in RunningCalls
                 /\ Len(call.cSliceOffset) = Len(call.sliceOffset)
                 /\ Len(call.cPosTable) = Len(call.posTable)

TypeInv ==
  /\ sliceCount \in 0 .. Byte - 1
  /\ posTableCount \in 0 .. Byte - 1
  /\ deltaEntries \in Seq([slice : Slices, elementData : Deltas])
  /\ indexEntries \in Seq(Entries)
  /\ file \in Seq(Entries)
  /\ CallOK

\* The first n elements of a vector are in its array.
CopiedTo(array, vector, n) == n <= Len(vector) /\ \A k \in 1 .. n : array[k] = vector[k]

CopiedSoFar ==
  /\ call.copying = "sliceOffset" => CopiedTo(call.cSliceOffset, call.sliceOffset, call.i)
  /\ call.copying # "sliceOffset" => call.cSliceOffset = call.sliceOffset
  /\ call.copying = "posTable" => CopiedTo(call.cPosTable, call.posTable, call.i)
  /\ call.copying = "nothing" => call.cPosTable = call.posTable

\* An entry that is appended has as many elements as the segment's counts say.
CountsFit ==
  call.op = "append" =>
    Len(call.sliceOffset) = sliceCount /\ Len(call.posTable) = posTableCount

CallInv ==
  call # Idle => CountsFit /\ (InByte(<<call.sliceOffset, call.posTable>>) => CopiedSoFar)

EntryIsAsGiven(entry) ==
  InByte(entry.from) => <<entry.sliceOffset, entry.posTable>> = entry.from

EntriesInv ==
  /\ \A k \in DOMAIN indexEntries : EntryIsAsGiven(indexEntries[k])
  /\ \A k \in DOMAIN file : EntryIsAsGiven(file[k])

IInv == TypeInv /\ CallInv /\ EntriesInv

-----------------------------------------------------------------------------
(* Lemmas *)

LEMMA VectorsAreSequences ==
  ASSUME NEW v \in Vectors
  PROVE  v \in Seq(Int)
<1>1. PICK n \in 0 .. MaxCount : v = [k \in 1 .. n |-> k]
  BY DEF Vectors, Vector
<1>2. n \in Nat
  BY ConstantsAssumption
<1> QED BY <1>1, <1>2, IsASeq

\* Two sequences of the same length with the same elements are the same.
LEMMA CopiedIsEqual ==
  ASSUME NEW a \in Seq(Int), NEW v \in Seq(Int), Len(a) = Len(v),
         CopiedTo(a, v, Len(v))
  PROVE  a = v
BY SeqEqual DEF CopiedTo

\* One more element is copied.
LEMMA CopyOne ==
  ASSUME NEW a \in Seq(Int), NEW v \in Seq(Int), Len(a) = Len(v),
         NEW i \in Nat, i < Len(v)
  PROVE  LET b == [a EXCEPT ![i + 1] = v[i + 1]]
         IN /\ b \in Seq(Int) /\ Len(b) = Len(a)
            /\ CopiedTo(a, v, i) => CopiedTo(b, v, i + 1)
<1> DEFINE b == [a EXCEPT ![i + 1] = v[i + 1]]
<1>1. i + 1 \in 1 .. Len(a) /\ i + 1 \in 1 .. Len(v) /\ v[i + 1] \in Int
  BY LenProperties, ElementOfSeq
<1>2. b \in Seq(Int) /\ Len(b) = Len(a) /\ b[i + 1] = v[i + 1]
      /\ \A k \in 1 .. Len(a) : k # i + 1 => b[k] = a[k]
  BY <1>1, ExceptSeq
<1> HIDE DEF b
<1>3. ASSUME CopiedTo(a, v, i) PROVE CopiedTo(b, v, i + 1)
  <2>1. ASSUME NEW k \in 1 .. i + 1 PROVE b[k] = v[k]
    <3>1. CASE k = i + 1
      BY <1>2, <3>1
    <3>2. CASE k # i + 1
      <4>1. k \in 1 .. i /\ k \in 1 .. Len(a)
        BY <1>1, <3>2
      <4> QED BY <1>2, <1>3, <3>2, <4>1 DEF CopiedTo
    <3> QED BY <3>1, <3>2
  <2> QED BY <2>1, LenProperties DEF CopiedTo
<1> QED BY <1>2, <1>3 DEF b

\* What the segment, or the file, gets at the end of a call.
LEMMA EntryOfCall ==
  ASSUME TypeInv, CallInv, call # Idle, call.copying = "nothing",
         NEW nSlices \in Nat, NEW nPositions \in Nat,
         nSlices <= Len(call.sliceOffset), nPositions <= Len(call.posTable),
         InByte(<<call.sliceOffset, call.posTable>>) =>
           nSlices = Len(call.sliceOffset) /\ nPositions = Len(call.posTable)
  PROVE  /\ Entry(nSlices, nPositions) \in Entries
         /\ EntryIsAsGiven(Entry(nSlices, nPositions))
<1> DEFINE a == call.cSliceOffset
           b == call.cPosTable
           e == Entry(nSlices, nPositions)
<1>1. /\ call \in RunningCalls
      /\ a \in Seq(Int) /\ b \in Seq(Int)
      /\ call.sliceOffset \in Seq(Int) /\ call.posTable \in Seq(Int)
      /\ Len(a) = Len(call.sliceOffset) /\ Len(b) = Len(call.posTable)
  BY DEF TypeInv, CallOK, RunningCalls
<1>2. SubSeq(a, 1, nSlices) \in Seq(Int) /\ SubSeq(b, 1, nPositions) \in Seq(Int)
  <2>1. \A k \in 1 .. nSlices : a[k] \in Int
    BY SMTT(60), <1>1
  <2>2. \A k \in 1 .. nPositions : b[k] \in Int
    BY <1>1
  <2> QED BY SMTT(60), <1>1, <2>1, <2>2, SubSeqProperties
<1>3. e \in Entries
  BY <1>1, <1>2 DEF Entry, Entries
<1>4. ASSUME InByte(<<call.sliceOffset, call.posTable>>)
      PROVE  SubSeq(a, 1, nSlices) = call.sliceOffset /\ SubSeq(b, 1, nPositions) = call.posTable
  <2>1. a = call.sliceOffset /\ b = call.posTable
    BY <1>4 DEF CallInv, CopiedSoFar
  <2> HIDE DEF a, b
  <2>2. nSlices = Len(a) /\ nPositions = Len(b)
    BY <1>1, <1>4
  <2>3. SubSeq(a, 1, nSlices) = a /\ SubSeq(b, 1, nPositions) = b
    BY <1>1, <2>2, SubSeqFull
  <2> QED BY <2>1, <2>3
<1>5. EntryIsAsGiven(e)
  BY <1>4 DEF EntryIsAsGiven, Entry
<1> QED BY <1>3, <1>5

\* A list to which an entry is appended that is as it was given.
LEMMA AppendedEntries ==
  ASSUME NEW list \in Seq(Entries), NEW entry \in Entries, EntryIsAsGiven(entry),
         \A k \in DOMAIN list : EntryIsAsGiven(list[k])
  PROVE  /\ Append(list, entry) \in Seq(Entries)
         /\ \A k \in DOMAIN Append(list, entry) : EntryIsAsGiven(Append(list, entry)[k])
<1> HIDE DEF EntryIsAsGiven, Entries
<1> QED BY AppendProperties, LenProperties

\* Narrowing to a counter's width.
LEMMA Narrowed ==
  ASSUME NEW n \in Nat
  PROVE  /\ n % Byte \in 0 .. Byte - 1
         /\ n % Byte <= n
         /\ n < Byte => n % Byte = n
BY ConstantsAssumption

\* A call does not depend on the loops' order: one turn of either.
LEMMA CallAfterCopy ==
  ASSUME IInv, copySliceOffset \/ copyPosTable
  PROVE  CallOK' /\ CallInv'
<1> USE DEF IInv
<1>1. /\ call \in RunningCalls /\ call # Idle
      /\ Len(call.cSliceOffset) = Len(call.sliceOffset)
      /\ Len(call.cPosTable) = Len(call.posTable)
      /\ Byte \in Nat
  BY ConstantsAssumption DEF TypeInv, CallOK, copySliceOffset, copyPosTable
<1>2. /\ call.i \in Nat /\ call.i < Byte
      /\ call.sliceOffset \in Seq(Int) /\ call.posTable \in Seq(Int)
      /\ call.cSliceOffset \in Seq(Int) /\ call.cPosTable \in Seq(Int)
      /\ call.op \in {"append", "write"}
      /\ Len(call.sliceOffset) \in Nat /\ Len(call.posTable) \in Nat
  BY <1>1 DEF RunningCalls
<1>3. ASSUME NEW n \in Nat, ~CopyEnds(call.op, call.i, n)
      PROVE  /\ call.i < n
             /\ NextCount(call.i) \in 0 .. Byte - 1
             /\ n < Byte => NextCount(call.i) = call.i + 1
  <2>1. n % Byte <= n
    BY Narrowed
  <2>2. call.i < n
    <3>1. CASE call.op = "append"
      <4>1. ~(call.i >= n % Byte) /\ n % Byte \in Nat
        BY <1>3, <3>1, Narrowed, ConstantsAssumption DEF CopyEnds
      <4> QED BY <1>2, <2>1, <4>1
    <3>2. CASE call.op # "append"
      BY <1>2, <1>3, <3>2 DEF CopyEnds
    <3> QED BY <3>1, <3>2
  <2>3. call.i + 1 \in Nat /\ (n < Byte => call.i + 1 < Byte)
    BY <1>1, <1>2, <2>2
  <2> QED BY <2>2, <2>3, Narrowed DEF NextCount
<1>4. ASSUME NEW n \in Nat, n < Byte, CopyEnds(call.op, call.i, n)
      PROVE  call.i >= n
  BY <1>2, <1>4, Narrowed DEF CopyEnds
<1>5. CASE copySliceOffset /\ CopyEnds(call.op, call.i, Len(call.sliceOffset))
  <2>1. call' = [call EXCEPT !.copying = "posTable", !.i = 0]
    BY <1>5 DEF copySliceOffset
  <2>2. CallOK'
    <3>1. 0 \in 0 .. Byte - 1
      BY ConstantsAssumption
    <3>2. /\ call' \in RunningCalls
          /\ call'.sliceOffset = call.sliceOffset /\ call'.posTable = call.posTable
          /\ call'.cSliceOffset = call.cSliceOffset /\ call'.cPosTable = call.cPosTable
      BY <1>1, <2>1, <3>1 DEF RunningCalls
    <3> QED BY <1>1, <3>2 DEF CallOK
  <2>3. CountsFit'
    BY <1>1, <1>5, <2>1 DEF CallInv, CountsFit, RunningCalls, copySliceOffset
  <2>4. ASSUME InByte(<<call.sliceOffset, call.posTable>>)'
        PROVE  CopiedSoFar'
    <3>1. InByte(<<call.sliceOffset, call.posTable>>)
      BY <1>1, <2>1, <2>4 DEF RunningCalls
    <3>2. CopiedTo(call.cSliceOffset, call.sliceOffset, Len(call.sliceOffset))
      <4>1. CopiedTo(call.cSliceOffset, call.sliceOffset, call.i)
        BY <1>1, <1>5, <3>1 DEF CallInv, CopiedSoFar, copySliceOffset
      <4>2. call.i >= Len(call.sliceOffset)
        BY <1>2, <1>4, <1>5, <3>1 DEF InByte
      <4> QED BY <1>2, <4>1, <4>2 DEF CopiedTo
    <3>3. call.cSliceOffset = call.sliceOffset
      BY <1>1, <1>2, <3>2, CopiedIsEqual
    <3>4. CopiedTo(call'.cPosTable, call'.posTable, 0)
      BY <1>1, <1>2, <2>1 DEF CopiedTo, RunningCalls
    <3>5. /\ call'.cSliceOffset = call'.sliceOffset
          /\ call'.copying = "posTable" /\ call'.i = 0
      BY <1>1, <2>1, <3>3 DEF RunningCalls
    <3> QED BY <3>4, <3>5 DEF CopiedSoFar
  <2> QED BY <2>2, <2>3, <2>4 DEF CallInv
<1>6. CASE copySliceOffset /\ ~CopyEnds(call.op, call.i, Len(call.sliceOffset))
  <2> DEFINE array == [call.cSliceOffset EXCEPT ![call.i + 1] = call.sliceOffset[call.i + 1]]
  <2>1. call' = [call EXCEPT !.cSliceOffset = array, !.i = NextCount(call.i)]
    BY <1>1, <1>6 DEF copySliceOffset, RunningCalls
  <2>2. /\ call.i < Len(call.sliceOffset)
        /\ NextCount(call.i) \in 0 .. Byte - 1
        /\ Len(call.sliceOffset) < Byte => NextCount(call.i) = call.i + 1
    BY <1>2, <1>3, <1>6
  <2>3. /\ array \in Seq(Int) /\ Len(array) = Len(call.sliceOffset)
        /\ CopiedTo(call.cSliceOffset, call.sliceOffset, call.i) =>
             CopiedTo(array, call.sliceOffset, call.i + 1)
    BY <1>1, <1>2, <2>2, CopyOne
  <2> HIDE DEF array
  <2>4. /\ call'.op = call.op /\ call'.copying = "sliceOffset" /\ call'.i = NextCount(call.i)
        /\ call'.sliceOffset = call.sliceOffset /\ call'.posTable = call.posTable
        /\ call'.cSliceOffset = array /\ call'.cPosTable = call.cPosTable
        /\ call' \in RunningCalls
    BY <1>1, <1>6, <2>1, <2>2, <2>3 DEF RunningCalls, copySliceOffset
  <2>5. CallOK'
    BY <1>1, <2>3, <2>4 DEF CallOK
  <2>6. CountsFit'
    BY <1>1, <1>6, <2>4 DEF CallInv, CountsFit, copySliceOffset
  <2>7. ASSUME InByte(<<call.sliceOffset, call.posTable>>)'
        PROVE  CopiedSoFar'
    <3>1. InByte(<<call.sliceOffset, call.posTable>>)
      BY <2>4, <2>7
    <3>2. CopiedTo(call.cSliceOffset, call.sliceOffset, call.i)
      BY <1>1, <1>6, <3>1 DEF CallInv, CopiedSoFar, copySliceOffset
    <3>3. NextCount(call.i) = call.i + 1
      BY <2>2, <3>1 DEF InByte
    <3> QED BY <2>3, <2>4, <3>2, <3>3 DEF CopiedSoFar
  <2> QED BY <2>5, <2>6, <2>7 DEF CallInv
<1>7. CASE copyPosTable /\ CopyEnds(call.op, call.i, Len(call.posTable))
  <2>1. call' = [call EXCEPT !.copying = "nothing"]
    BY <1>7 DEF copyPosTable
  <2>2. CallOK'
    BY <1>1, <2>1 DEF CallOK, RunningCalls
  <2>3. CountsFit'
    BY <1>1, <1>7, <2>1 DEF CallInv, CountsFit, RunningCalls, copyPosTable
  <2>4. ASSUME InByte(<<call.sliceOffset, call.posTable>>)'
        PROVE  CopiedSoFar'
    <3>1. InByte(<<call.sliceOffset, call.posTable>>)
      BY <1>1, <2>1, <2>4 DEF RunningCalls
    <3>2. /\ CopiedTo(call.cPosTable, call.posTable, call.i)
          /\ call.cSliceOffset = call.sliceOffset
      BY <1>1, <1>7, <3>1 DEF CallInv, CopiedSoFar, copyPosTable
    <3>3. call.i >= Len(call.posTable)
      BY <1>2, <1>4, <1>7, <3>1 DEF InByte
    <3>4. call.cPosTable = call.posTable
      <4>1. CopiedTo(call.cPosTable, call.posTable, Len(call.posTable))
        BY <1>2, <3>2, <3>3 DEF CopiedTo
      <4> QED BY <1>1, <1>2, <4>1, CopiedIsEqual
    <3> QED BY <1>1, <2>1, <3>2, <3>4 DEF CopiedSoFar, RunningCalls
  <2> QED BY <2>2, <2>3, <2>4 DEF CallInv
<1>8. CASE copyPosTable /\ ~CopyEnds(call.op, call.i, Len(call.posTable))
  <2> DEFINE array == [call.cPosTable EXCEPT ![call.i + 1] = call.posTable[call.i + 1]]
  <2>1. call' = [call EXCEPT !.cPosTable = array, !.i = NextCount(call.i)]
    BY <1>1, <1>8 DEF copyPosTable, RunningCalls
  <2>2. /\ call.i < Len(call.posTable)
        /\ NextCount(call.i) \in 0 .. Byte - 1
        /\ Len(call.posTable) < Byte => NextCount(call.i) = call.i + 1
    BY <1>2, <1>3, <1>8
  <2>3. /\ array \in Seq(Int) /\ Len(array) = Len(call.posTable)
        /\ CopiedTo(call.cPosTable, call.posTable, call.i) =>
             CopiedTo(array, call.posTable, call.i + 1)
    BY <1>1, <1>2, <2>2, CopyOne
  <2> HIDE DEF array
  <2>4. /\ call'.op = call.op /\ call'.copying = "posTable" /\ call'.i = NextCount(call.i)
        /\ call'.sliceOffset = call.sliceOffset /\ call'.posTable = call.posTable
        /\ call'.cSliceOffset = call.cSliceOffset /\ call'.cPosTable = array
        /\ call' \in RunningCalls
    BY <1>1, <1>8, <2>1, <2>2, <2>3 DEF RunningCalls, copyPosTable
  <2>5. CallOK'
    BY <1>1, <2>3, <2>4 DEF CallOK
  <2>6. CountsFit'
    BY <1>1, <1>8, <2>4 DEF CallInv, CountsFit, copyPosTable
  <2>7. ASSUME InByte(<<call.sliceOffset, call.posTable>>)'
        PROVE  CopiedSoFar'
    <3>1. InByte(<<call.sliceOffset, call.posTable>>)
      BY <2>4, <2>7
    <3>2. /\ CopiedTo(call.cPosTable, call.posTable, call.i)
          /\ call.cSliceOffset = call.sliceOffset
      BY <1>1, <1>8, <3>1 DEF CallInv, CopiedSoFar, copyPosTable
    <3>3. NextCount(call.i) = call.i + 1
      BY <2>2, <3>1 DEF InByte
    <3> QED BY <2>3, <2>4, <3>2, <3>3 DEF CopiedSoFar
  <2> QED BY <2>5, <2>6, <2>7 DEF CallInv
<1> QED BY <1>5, <1>6, <1>7, <1>8

-----------------------------------------------------------------------------
(* The invariant is inductive *)

LEMMA InitEstablishesIInv == Init => IInv
<1> SUFFICES ASSUME Init PROVE IInv
  OBVIOUS
<1>1. 0 \in 0 .. Byte - 1
  BY ConstantsAssumption
<1> QED BY <1>1 DEF Init, IInv, TypeInv, CallOK, CallInv, EntriesInv

LEMMA NextPreservesIInv == IInv /\ [Next]_vars => IInv'
<1> SUFFICES ASSUME IInv, [Next]_vars PROVE IInv'
  OBVIOUS
<1> USE DEF IInv
<1>1. ASSUME NEW n \in 0 .. MaxCount \cap 0 .. Byte - 1, setSliceCount(n) \/ setPosTableCount(n)
      PROVE  IInv'
  BY <1>1 DEF setSliceCount, setPosTableCount, TypeInv, CallOK, CallInv, EntriesInv, Idle
<1>2. ASSUME NEW slice \in Slices, NEW delta \in Deltas, appendDeltaEntry(slice, delta)
      PROVE  IInv'
  <2>1. deltaEntries' \in Seq([slice : Slices, elementData : Deltas])
    BY <1>2, AppendProperties DEF appendDeltaEntry, TypeInv
  <2> QED BY <1>2, <2>1 DEF appendDeltaEntry, TypeInv, CallOK, CallInv, EntriesInv, Idle
<1>3. ASSUME NEW sliceOffset \in Vectors, NEW posTable \in Vectors,
             appendIndexEntry(sliceOffset, posTable) \/ writeIndexEntry(sliceOffset, posTable)
      PROVE  IInv'
  <2>1. sliceOffset \in Seq(Int) /\ posTable \in Seq(Int)
    BY VectorsAreSequences
  <2> DEFINE a == [k \in DOMAIN sliceOffset |-> Uninitialised]
             b == [k \in DOMAIN posTable |-> Uninitialised]
  <2>2. a \in Seq(Int) /\ b \in Seq(Int) /\ Len(a) = Len(sliceOffset) /\ Len(b) = Len(posTable)
    BY <2>1, LenProperties, IsASeq DEF Uninitialised
  <2>3. PICK op \in {"append", "write"} : call' = Called(op, sliceOffset, posTable)
    BY <1>3 DEF appendIndexEntry, writeIndexEntry
  <2>4. 0 \in 0 .. Byte - 1
    BY ConstantsAssumption
  <2>5. /\ call'.copying = "sliceOffset" /\ call'.i = 0 /\ call'.op = op
        /\ call'.sliceOffset = sliceOffset /\ call'.posTable = posTable
        /\ call'.cSliceOffset = a /\ call'.cPosTable = b
    BY <2>3 DEF Called
  <2>6. call' \in RunningCalls
    BY <2>1, <2>2, <2>3, <2>4 DEF RunningCalls, Called
  <2> HIDE DEF a, b
  <2>7. CallOK'
    BY <2>2, <2>5, <2>6 DEF CallOK
  <2>8. CountsFit'
    BY <1>3, <2>3, <2>5 DEF CountsFit, appendIndexEntry, writeIndexEntry, Called
  <2>9. CopiedSoFar'
    BY <2>1, <2>5, LenProperties DEF CopiedSoFar, CopiedTo
  <2>10. UNCHANGED <<sliceCount, posTableCount, deltaEntries, indexEntries, file>>
    BY <1>3 DEF appendIndexEntry, writeIndexEntry
  <2> QED BY <2>7, <2>8, <2>9, <2>10 DEF TypeInv, CallInv, EntriesInv
<1>4. CASE copySliceOffset \/ copyPosTable
  <2>1. CallOK' /\ CallInv'
    BY <1>4, CallAfterCopy
  <2>2. UNCHANGED <<sliceCount, posTableCount, deltaEntries, indexEntries, file>>
    BY <1>4 DEF copySliceOffset, copyPosTable
  <2> QED BY <2>1, <2>2 DEF TypeInv, EntriesInv
<1>5. CASE addEntry
  <2>1. /\ call # Idle /\ call \in RunningCalls /\ call.op = "append" /\ call.copying = "nothing"
    BY <1>5 DEF addEntry, TypeInv, CallOK
  <2>2. Len(call.sliceOffset) = sliceCount /\ Len(call.posTable) = posTableCount
        /\ sliceCount \in Nat /\ posTableCount \in Nat
    BY <2>1 DEF CallInv, CountsFit, TypeInv
  <2>3. Entry(sliceCount, posTableCount) \in Entries
        /\ EntryIsAsGiven(Entry(sliceCount, posTableCount))
    BY <2>1, <2>2, EntryOfCall
  <2>4. indexEntries' \in Seq(Entries)
        /\ \A k \in DOMAIN indexEntries' : EntryIsAsGiven(indexEntries'[k])
    <3>1. indexEntries' = Append(indexEntries, Entry(sliceCount, posTableCount))
      BY <1>5 DEF addEntry
    <3>2. indexEntries \in Seq(Entries)
          /\ \A k \in DOMAIN indexEntries : EntryIsAsGiven(indexEntries[k])
      BY DEF TypeInv, EntriesInv
    <3> QED BY <2>3, <3>1, <3>2, AppendedEntries
  <2>5. call' = Idle /\ UNCHANGED <<sliceCount, posTableCount, deltaEntries, file>>
    BY <1>5 DEF addEntry
  <2> QED BY <2>4, <2>5 DEF TypeInv, CallOK, CallInv, EntriesInv
<1>6. CASE writeEntry
  <2> DEFINE n == Len(call.sliceOffset) % Byte
             m == Len(call.posTable) % Byte
  <2>1. call # Idle /\ call \in RunningCalls /\ call.copying = "nothing"
    BY <1>6 DEF writeEntry, TypeInv, CallOK
  <2>2. /\ Len(call.sliceOffset) \in Nat /\ Len(call.posTable) \in Nat
        /\ n \in Nat /\ n <= Len(call.sliceOffset)
        /\ m \in Nat /\ m <= Len(call.posTable)
        /\ InByte(<<call.sliceOffset, call.posTable>>) =>
             n = Len(call.sliceOffset) /\ m = Len(call.posTable)
    <3>1. Len(call.sliceOffset) \in Nat /\ Len(call.posTable) \in Nat
      BY <2>1 DEF RunningCalls
    <3>2. ASSUME NEW l \in Nat
          PROVE  l % Byte \in Nat /\ l % Byte <= l /\ (l < Byte => l % Byte = l)
      BY Narrowed, ConstantsAssumption
    <3> QED BY <3>1, <3>2 DEF InByte
  <2> HIDE DEF n, m
  <2>3. Entry(n, m) \in Entries /\ EntryIsAsGiven(Entry(n, m))
    BY <2>1, <2>2, EntryOfCall
  <2>4. file' \in Seq(Entries) /\ \A k \in DOMAIN file' : EntryIsAsGiven(file'[k])
    <3>1. file' = Append(file, Entry(n, m))
      BY <1>6 DEF writeEntry, n, m
    <3>2. file \in Seq(Entries) /\ \A k \in DOMAIN file : EntryIsAsGiven(file[k])
      BY DEF TypeInv, EntriesInv
    <3> QED BY <2>3, <3>1, <3>2, AppendedEntries
  <2>5. call' = Idle /\ UNCHANGED <<sliceCount, posTableCount, deltaEntries, indexEntries>>
    BY <1>6 DEF writeEntry
  <2> QED BY <2>4, <2>5 DEF TypeInv, CallOK, CallInv, EntriesInv
<1>7. CASE UNCHANGED vars
  BY <1>7 DEF vars, TypeInv, CallOK, CallInv, CountsFit, CopiedSoFar, EntriesInv
<1> QED BY <1>1, <1>2, <1>3, <1>4, <1>5, <1>6, <1>7 DEF Next

-----------------------------------------------------------------------------
(* Looking delta entries up *)

NotAfter(e, f) ==
  \/ e.slice < f.slice
  \/ e.slice = f.slice /\ e.elementData <= f.elementData

LEMMA NotAfterIsTransitive ==
  ASSUME NEW a \in [slice : Nat, elementData : Nat], NEW b \in [slice : Nat, elementData : Nat],
         NEW c \in [slice : Nat, elementData : Nat], NotAfter(a, b), NotAfter(b, c)
  PROVE  NotAfter(a, c)
<1>1. /\ a.slice \in Nat /\ a.elementData \in Nat /\ b.slice \in Nat /\ b.elementData \in Nat
      /\ c.slice \in Nat /\ c.elementData \in Nat
  OBVIOUS
<1> QED BY <1>1 DEF NotAfter

\* Entries of which none is after the next are in order throughout.
LEMMA OrderedThroughout ==
  ASSUME NEW list \in Seq([slice : Nat, elementData : Nat]), InOrder(list)
  PROVE  \A m \in 1 .. Len(list) : \A k \in 1 .. m : NotAfter(list[k], list[m])
<1> DEFINE S == {m \in Nat : m <= Len(list) => \A k \in 1 .. m : NotAfter(list[k], list[m])}
<1>1. 0 \in S
  OBVIOUS
<1>2. ASSUME NEW m \in Nat, m \in S PROVE m + 1 \in S
  <2> SUFFICES ASSUME m + 1 <= Len(list), NEW k \in 1 .. m + 1
               PROVE  NotAfter(list[k], list[m + 1])
    OBVIOUS
  <2>1. k \in 1 .. Len(list) /\ m + 1 \in 1 .. Len(list)
    BY LenProperties
  <2>2. list[k] \in [slice : Nat, elementData : Nat]
        /\ list[m + 1] \in [slice : Nat, elementData : Nat]
    BY <2>1, ElementOfSeq
  <2>3. CASE k = m + 1
    BY <2>2, <2>3 DEF NotAfter
  <2>4. CASE k # m + 1
    <3>1. k \in 1 .. m /\ m \in 1 .. Len(list) /\ m + 1 \in 2 .. Len(list)
      BY <2>1, <2>4, LenProperties
    <3>2. NotAfter(list[k], list[m])
      BY <1>2, <3>1
    <3>3. NotAfter(list[m], list[m + 1])
      <4>1. (m + 1) - 1 = m
        OBVIOUS
      <4> QED BY <3>1, <4>1 DEF InOrder, NotAfter
    <3>4. list[m] \in [slice : Nat, elementData : Nat]
      BY <3>1, ElementOfSeq
    <3> QED BY <2>2, <3>2, <3>3, <3>4, NotAfterIsTransitive
  <2> QED BY <2>3, <2>4
<1>3. \A m \in Nat : m \in S
  BY <1>1, <1>2, InductionOnNat
<1> QED BY <1>3, LenProperties

\* The lookup finds an entry only if it was added, and finds each that was if
\* they are in order.
LEMMA LookupIsExact ==
  ASSUME TypeInv, NEW slice \in Slices, NEW delta \in Deltas
  PROVE  LET added == [slice |-> slice, elementData |-> delta] \in ToSet(deltaEntries)
         IN /\ haveDeltaEntryAtDelta(delta, slice) => added
            /\ InOrder(deltaEntries) /\ added => haveDeltaEntryAtDelta(delta, slice)
<1> DEFINE entry == [slice |-> slice, elementData |-> delta]
           found == {k \in 1 .. Len(deltaEntries) : ~Before(deltaEntries[k], delta, slice)}
           at == IF found # {} THEN Min(found) ELSE 0
<1>1. /\ deltaEntries \in Seq([slice : Nat, elementData : Nat])
      /\ slice \in Nat /\ delta \in Nat
      /\ Len(deltaEntries) \in Nat /\ DOMAIN deltaEntries = 1 .. Len(deltaEntries)
  <2>1. Slices \subseteq Nat /\ Deltas \subseteq Nat
    BY ConstantsAssumption
  <2>2. [slice : Slices, elementData : Deltas] \subseteq [slice : Nat, elementData : Nat]
    BY <2>1
  <2>3. deltaEntries \in Seq([slice : Slices, elementData : Deltas])
    BY DEF TypeInv
  <2> QED BY <2>1, <2>2, <2>3, SeqMonotonic, LenProperties
<1>2. \A k \in 1 .. Len(deltaEntries) :
        deltaEntries[k] \in [slice : Nat, elementData : Nat]
  BY <1>1, ElementOfSeq
<1>3. EntryAt(delta, slice) =
        IF at = 0 THEN 0
        ELSE IF deltaEntries[at].slice = slice /\ deltaEntries[at].elementData = delta THEN at
        ELSE 0
  BY DEF EntryAt, SelectInSeq
<1>4. found # {} => at \in found /\ \A k \in found : at <= k
  <2>1. found \in SUBSET Nat
    BY <1>1
  <2> HIDE DEF found
  <2> QED BY <2>1, MinIsLeast
<1>5. found # {} => at # 0
  BY <1>1, <1>4
<1>6. ASSUME haveDeltaEntryAtDelta(delta, slice) PROVE entry \in ToSet(deltaEntries)
  <2>1. at # 0 /\ deltaEntries[at].slice = slice /\ deltaEntries[at].elementData = delta
    BY <1>3, <1>6 DEF haveDeltaEntryAtDelta
  <2>2. at \in 1 .. Len(deltaEntries)
    BY <1>4, <2>1
  <2>3. deltaEntries[at] = entry
    BY <1>2, <2>1, <2>2
  <2> QED BY <1>1, <2>2, <2>3 DEF ToSet
<1>7. ASSUME InOrder(deltaEntries), entry \in ToSet(deltaEntries)
      PROVE  haveDeltaEntryAtDelta(delta, slice)
  <2>1. PICK k \in 1 .. Len(deltaEntries) : deltaEntries[k] = entry
    BY <1>1, <1>7 DEF ToSet
  <2>2. k \in found
    BY <1>1, <2>1 DEF Before
  <2>3. at \in found /\ at <= k /\ at # 0
    BY <1>4, <1>5, <2>2
  <2>4. at \in 1 .. Len(deltaEntries) /\ ~Before(deltaEntries[at], delta, slice)
    BY <2>3
  <2> HIDE DEF at, found
  <2>5. NotAfter(deltaEntries[at], deltaEntries[k])
    <3>1. at \in 1 .. k
      BY <1>1, <2>3, <2>4
    <3> QED BY <1>1, <1>7, <3>1, OrderedThroughout
  <2>6. deltaEntries[at].slice = slice /\ deltaEntries[at].elementData = delta
    BY <1>1, <1>2, <2>1, <2>4, <2>5 DEF NotAfter, Before
  <2> QED BY <1>3, <2>3, <2>6 DEF haveDeltaEntryAtDelta
<1> QED BY <1>6, <1>7

-----------------------------------------------------------------------------
(* Results *)

\* The copies of a running call are as far as its counter says, and what is
\* finished is whole.
THEOREM Invariance == Spec => []IInv
<1>1. Init => IInv
  BY InitEstablishesIInv
<1>2. IInv /\ [Next]_vars => IInv'
  BY NextPreservesIInv
<1> QED BY <1>1, <1>2, PTL DEF Spec

\* SegmentIsAsGiven: the entries of a segment, and those written on their own,
\* have the vectors they were given, and the lookup is exact, for a counter of any
\* width and any number of entries (appendIndexEntry, writeIndexEntry,
\* haveDeltaEntryAtDelta).
THEOREM SegmentAsGiven == Spec => []SegmentIsAsGiven
<1>1. IInv => SegmentIsAsGiven
  BY LookupIsExact DEF IInv, EntriesInv, EntryIsAsGiven, SegmentIsAsGiven
<1> QED BY <1>1, Invariance, PTL

-----------------------------------------------------------------------------
(* Progress *)

\* The steps that a call has left, at most: elements to copy, ends of the loops, and
\* its return.
StepsLeft ==
  IF call = Idle THEN 0
  ELSE IF call.copying = "sliceOffset"
  THEN (Len(call.sliceOffset) - call.i) + Len(call.posTable) + 3
  ELSE IF call.copying = "posTable" THEN (Len(call.posTable) - call.i) + 2
  ELSE 1

\* CallsEnd rests on this: each turn of the copying loops of appendIndexEntry and
\* writeIndexEntry brings a call with vectors that eight bits can count nearer to
\* its end.
THEOREM CallAdvances ==
  Spec => [][(call # Idle /\ InByte(<<call.sliceOffset, call.posTable>>)) =>
               (StepsLeft \in Nat /\ StepsLeft' \in Nat /\ StepsLeft' < StepsLeft)]_vars
<1> DEFINE Advances == (call # Idle /\ InByte(<<call.sliceOffset, call.posTable>>)) =>
                         (StepsLeft \in Nat /\ StepsLeft' \in Nat /\ StepsLeft' < StepsLeft)
<1>1. ASSUME IInv, Next, call # Idle, InByte(<<call.sliceOffset, call.posTable>>)
      PROVE  StepsLeft \in Nat /\ StepsLeft' \in Nat /\ StepsLeft' < StepsLeft
  <2>1. /\ call \in RunningCalls /\ CopiedSoFar
        /\ call.i \in Nat /\ call.copying \in {"sliceOffset", "posTable", "nothing"}
        /\ call.op \in {"append", "write"}
        /\ Len(call.sliceOffset) \in Nat /\ Len(call.posTable) \in Nat
        /\ Len(call.sliceOffset) < Byte /\ Len(call.posTable) < Byte /\ Byte \in Nat
    BY <1>1, ConstantsAssumption DEF IInv, TypeInv, CallOK, CallInv, RunningCalls, InByte
  <2>2. ASSUME NEW n \in Nat, n < Byte, call.i <= n, ~CopyEnds(call.op, call.i, n)
        PROVE  call.i < n /\ NextCount(call.i) = call.i + 1
    <3>1. n % Byte = n
      BY <2>2, Narrowed
    <3>2. call.i < n
      BY <2>1, <2>2, <3>1 DEF CopyEnds
    <3>3. call.i + 1 \in Nat /\ call.i + 1 < Byte
      BY <2>1, <2>2, <3>2
    <3> QED BY <3>2, <3>3, Narrowed DEF NextCount
  <2>a. \A n, i, k \in Nat : i <= n =>
          /\ (n - i) + k + 3 \in Nat /\ (k - 0) + 2 \in Nat /\ (k - 0) + 2 < (n - i) + k + 3
          /\ i < n => /\ (n - (i + 1)) + k + 3 \in Nat /\ (n - (i + 1)) + k + 3 < (n - i) + k + 3
                      /\ (n - (i + 1)) + 2 \in Nat /\ (n - (i + 1)) + 2 < (n - i) + 2
          /\ (n - i) + 2 \in Nat
    OBVIOUS
  <2>3. CASE copySliceOffset
    <3>1. call.copying = "sliceOffset" /\ call.i <= Len(call.sliceOffset)
      BY <2>1, <2>3 DEF copySliceOffset, CopiedSoFar, CopiedTo
    <3>2. StepsLeft = (Len(call.sliceOffset) - call.i) + Len(call.posTable) + 3
      BY <1>1, <3>1 DEF StepsLeft
    <3>3. CASE CopyEnds(call.op, call.i, Len(call.sliceOffset))
      <4>1. call' = [call EXCEPT !.copying = "posTable", !.i = 0]
        BY <2>3, <3>3 DEF copySliceOffset
      <4>2. call'.copying = "posTable" /\ call'.i = 0 /\ call'.posTable = call.posTable
            /\ call' # Idle
        BY <2>1, <4>1 DEF RunningCalls, Idle
      <4>3. StepsLeft' = (Len(call.posTable) - 0) + 2
        BY <4>2 DEF StepsLeft
      <4> QED BY <2>1, <2>a, <3>1, <3>2, <4>3
    <3>4. CASE ~CopyEnds(call.op, call.i, Len(call.sliceOffset))
      <4>1. /\ call'.copying = "sliceOffset" /\ call'.i = NextCount(call.i) /\ call' # Idle
            /\ call'.sliceOffset = call.sliceOffset /\ call'.posTable = call.posTable
        BY <2>1, <2>3, <3>1, <3>4 DEF copySliceOffset, RunningCalls, Idle
      <4>2. call.i < Len(call.sliceOffset) /\ call'.i = call.i + 1
        BY <2>1, <2>2, <3>1, <3>4, <4>1
      <4>3. StepsLeft' = (Len(call.sliceOffset) - (call.i + 1)) + Len(call.posTable) + 3
        BY <4>1, <4>2 DEF StepsLeft
      <4> QED BY <2>1, <2>a, <3>1, <3>2, <4>2, <4>3
    <3> QED BY <3>3, <3>4
  <2>4. CASE copyPosTable
    <3>1. call.copying = "posTable" /\ call.i <= Len(call.posTable)
      BY <2>1, <2>4 DEF copyPosTable, CopiedSoFar, CopiedTo
    <3>2. StepsLeft = (Len(call.posTable) - call.i) + 2
      BY <1>1, <3>1 DEF StepsLeft
    <3>3. CASE CopyEnds(call.op, call.i, Len(call.posTable))
      <4>1. call' = [call EXCEPT !.copying = "nothing"]
        BY <2>4, <3>3 DEF copyPosTable
      <4>2. call'.copying = "nothing" /\ call' # Idle
        BY <2>1, <4>1 DEF RunningCalls, Idle
      <4>3. StepsLeft' = 1
        BY <4>2 DEF StepsLeft
      <4> QED BY <2>1, <3>1, <3>2, <4>3
    <3>4. CASE ~CopyEnds(call.op, call.i, Len(call.posTable))
      <4>1. /\ call'.copying = "posTable" /\ call'.i = NextCount(call.i) /\ call' # Idle
            /\ call'.posTable = call.posTable
        BY <2>1, <2>4, <3>1, <3>4 DEF copyPosTable, RunningCalls, Idle
      <4>2. call.i < Len(call.posTable) /\ call'.i = call.i + 1
        BY <2>1, <2>2, <3>1, <3>4, <4>1
      <4>3. StepsLeft' = (Len(call.posTable) - (call.i + 1)) + 2
        BY <4>1, <4>2 DEF StepsLeft
      <4> QED BY <2>1, <2>a, <3>1, <3>2, <4>2, <4>3
    <3> QED BY <3>3, <3>4
  <2>5. CASE addEntry \/ writeEntry
    BY <1>1, <2>5 DEF addEntry, writeEntry, StepsLeft
  <2> QED
    BY <1>1, <2>3, <2>4, <2>5
    DEF Next, setSliceCount, setPosTableCount, appendDeltaEntry, appendIndexEntry, writeIndexEntry
<1>2. IInv /\ [Next]_vars => [Advances]_vars
  <2> SUFFICES ASSUME IInv, Next PROVE Advances
    OBVIOUS
  <2> QED BY <1>1
<1> QED BY <1>2, Invariance, PTL DEF Spec
=============================================================================
