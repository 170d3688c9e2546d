----------------------------- MODULE IndexTable -----------------------------
(***************************************************************************)
(* IndexTableSegment (libMXF++/IndexTable.cpp): an index table segment     *)
(* that a client fills, looks entries up in and writes, whole or entry by  *)
(* entry.                                                                  *)
(*                                                                         *)
(* An index entry has a vector of slice offsets and one of positions.      *)
(* Both are copied by a loop whose counter has eight bits to an array,     *)
(* which is given to libMXF.  The segment's own counts say how much of it  *)
(* libMXF takes when an entry is appended, and the client sets them before *)
(* and gives as many; when an entry is written the counts are those of the *)
(* vectors, narrowed to eight bits.                                        *)
(***************************************************************************)
EXTENDS Integers, Sequences, SequencesExt

CONSTANTS
  Byte,        \* the number of values of an uint8_t, 256 in the code
  MaxCount,    \* bound: the elements of a vector
  MaxEntries,  \* bound: delta, index and written entries together
  Slices,      \* slices of the delta entries
  Deltas       \* element data of the delta entries

ASSUME ConstantsAssumption ==
  /\ Byte \in Nat \ {0, 1} /\ MaxCount \in Nat /\ MaxEntries \in Nat
  /\ Slices \subseteq Nat /\ Deltas \subseteq Nat

VARIABLES
  sliceCount, posTableCount,
  deltaEntries,  \* deltaEntryArray, a list in the order the entries were added
  indexEntries,  \* indexEntryArray
  call,          \* the call of appendIndexEntry or writeIndexEntry that runs, or Idle
  file           \* what was written: segments, and entries written on their own

vars == <<sliceCount, posTableCount, deltaEntries, indexEntries, call, file>>

Idle == [op |-> "idle"]
Uninitialised == -1

MayAdd == Len(deltaEntries) + Len(indexEntries) + Len(file) < MaxEntries

\* A vector of n elements, each known by its index.
Vector(n) == [k \in 1 .. n |-> k]
Vectors == {Vector(n) : n \in 0 .. MaxCount}

Init ==
  /\ sliceCount = 0 /\ posTableCount = 0
  /\ deltaEntries = <<>> /\ indexEntries = <<>>
  /\ call = Idle
  /\ file = <<>>

-----------------------------------------------------------------------------
(* Delta entries *)

\* Fault: entries of an earlier slice are not passed over for their element data.
Before_Delta(entry, delta, slice) == entry.elementData < delta

Before(entry, delta, slice) ==
  \/ entry.slice < slice
  \/ entry.slice = slice /\ entry.elementData < delta

\* The first entry that is not before the one that is looked for.
EntryAt(delta, slice) ==
  LET k == SelectInSeq(deltaEntries, LAMBDA entry : ~Before(entry, delta, slice))
  IN IF k = 0 THEN 0
     ELSE IF deltaEntries[k].slice = slice /\ deltaEntries[k].elementData = delta THEN k ELSE 0

haveDeltaEntryAtDelta(delta, slice) == EntryAt(delta, slice) # 0

appendDeltaEntry(slice, delta) ==
  /\ call = Idle
  /\ MayAdd
  /\ deltaEntries' = Append(deltaEntries, [slice |-> slice, elementData |-> delta])
  /\ UNCHANGED <<sliceCount, posTableCount, indexEntries, call, file>>

-----------------------------------------------------------------------------
(* Index entries *)

\* The counts are set before there are entries.
setSliceCount(n) ==
  /\ call = Idle /\ indexEntries = <<>>
  /\ sliceCount' = n
  /\ UNCHANGED <<posTableCount, deltaEntries, indexEntries, call, file>>

setPosTableCount(n) ==
  /\ call = Idle /\ indexEntries = <<>>
  /\ posTableCount' = n
  /\ UNCHANGED <<sliceCount, deltaEntries, indexEntries, call, file>>

\* The counter and the arrays of a call; an array is new and not initialised.
Called(op, sliceOffset, posTable) ==
  [ op |-> op, copying |-> "sliceOffset", i |-> 0,
    sliceOffset |-> sliceOffset, posTable |-> posTable,
    cSliceOffset |-> [k \in DOMAIN sliceOffset |-> Uninitialised],
    cPosTable |-> [k \in DOMAIN posTable |-> Uninitialised] ]

appendIndexEntry(sliceOffset, posTable) ==
  /\ call = Idle
  /\ MayAdd
  /\ Len(sliceOffset) = sliceCount /\ Len(posTable) = posTableCount
  /\ call' = Called("append", sliceOffset, posTable)
  /\ UNCHANGED <<sliceCount, posTableCount, deltaEntries, indexEntries, file>>

writeIndexEntry(sliceOffset, posTable) ==
  /\ call = Idle
  /\ MayAdd
  /\ call' = Called("write", sliceOffset, posTable)
  /\ UNCHANGED <<sliceCount, posTableCount, deltaEntries, indexEntries, file>>

\* Fault: the last element is not copied.
CopyEnds_Early(op, i, n) == i + 1 >= n

\* appendIndexEntry compares the counter with the size narrowed to eight bits,
\* writeIndexEntry with the size.
CopyEnds(op, i, n) == i >= IF op = "append" THEN n % Byte ELSE n

\* Fault: a counter of seven bits.
NextCount_Seven(i) == (i + 1) % (Byte \div 2)

NextCount(i) == (i + 1) % Byte

copySliceOffset ==
  /\ call # Idle /\ call.copying = "sliceOffset"
  /\ call' = IF CopyEnds(call.op, call.i, Len(call.sliceOffset))
               THEN [call EXCEPT !.copying = "posTable", !.i = 0]
             ELSE [call EXCEPT !.cSliceOffset[call.i + 1] = call.sliceOffset[call.i + 1],
                               !.i = NextCount(call.i)]
  /\ UNCHANGED <<sliceCount, posTableCount, deltaEntries, indexEntries, file>>

copyPosTable ==
  /\ call # Idle /\ call.copying = "posTable"
  /\ call' = IF CopyEnds(call.op, call.i, Len(call.posTable))
               THEN [call EXCEPT !.copying = "nothing"]
             ELSE [call EXCEPT !.cPosTable[call.i + 1] = call.posTable[call.i + 1],
                               !.i = NextCount(call.i)]
  /\ UNCHANGED <<sliceCount, posTableCount, deltaEntries, indexEntries, file>>

\* An entry, with the vectors it was made from.
Entry(nSlices, nPositions) ==
  [ sliceOffset |-> SubSeq(call.cSliceOffset, 1, nSlices),
    posTable |-> SubSeq(call.cPosTable, 1, nPositions),
    from |-> <<call.sliceOffset, call.posTable>> ]

\* mxf_default_add_index_entry takes as many elements as the segment's counts say.
addEntry ==
  /\ call # Idle /\ call.op = "append" /\ call.copying = "nothing"
  /\ indexEntries' = Append(indexEntries, Entry(sliceCount, posTableCount))
  /\ call' = Idle
  /\ UNCHANGED <<sliceCount, posTableCount, deltaEntries, file>>

writeEntry ==
  /\ call # Idle /\ call.op = "write" /\ call.copying = "nothing"
  /\ file' = Append(file, Entry(Len(call.sliceOffset) % Byte, Len(call.posTable) % Byte))
  /\ call' = Idle
  /\ UNCHANGED <<sliceCount, posTableCount, deltaEntries, indexEntries>>

Next ==
  \/ \E n \in 0 .. MaxCount \cap 0 .. Byte - 1 : setSliceCount(n) \/ setPosTableCount(n)
  \/ \E slice \in Slices, delta \in Deltas : appendDeltaEntry(slice, delta)
  \/ \E sliceOffset, posTable \in Vectors :
       appendIndexEntry(sliceOffset, posTable) \/ writeIndexEntry(sliceOffset, posTable)
  \/ copySliceOffset \/ copyPosTable \/ addEntry \/ writeEntry

\* A call that runs goes on.
Spec ==
  Init /\ [][Next]_vars /\ WF_vars(copySliceOffset \/ copyPosTable \/ addEntry \/ writeEntry)

-----------------------------------------------------------------------------
(* Properties *)

InByte(vectors) == Len(vectors[1]) < Byte /\ Len(vectors[2]) < Byte

InOrder(entries) ==
  \A k \in 2 .. Len(entries) :
    \/ entries[k - 1].slice < entries[k].slice
    \/ entries[k - 1].slice = entries[k].slice
         /\ entries[k - 1].elementData <= entries[k].elementData

\* SegmentIsAsGiven: the entries of the segment, and those written on their own,
\* have the offsets and positions of the vectors they were given, when these have
\* as many elements as eight bits can count, no element left uninitialised; and
\* the lookup finds an entry only if it was added, and finds each that was if
\* they were added in the order of slices and element data, which it relies on.
SegmentIsAsGiven ==
  /\ \A entries \in {indexEntries, file} : \A k \in DOMAIN entries :
       InByte(entries[k].from) =>
         <<entries[k].sliceOffset, entries[k].posTable>> = entries[k].from
  /\ \A slice \in Slices, delta \in Deltas :
       LET added == [slice |-> slice, elementData |-> delta] \in ToSet(deltaEntries)
       IN /\ haveDeltaEntryAtDelta(delta, slice) => added
          /\ InOrder(deltaEntries) /\ added => haveDeltaEntryAtDelta(delta, slice)

\* CallsEnd: a call with vectors that eight bits can count ends, whatever the
\* length up to the counter's last value (with one element more the counter of
\* writeIndexEntry begins again at 0 and never reaches the size).
CallsEnd ==
  (call # Idle /\ InByte(<<call.sliceOffset, call.posTable>>)) ~> call = Idle
=============================================================================
