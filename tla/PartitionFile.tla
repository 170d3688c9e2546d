---------------------------- MODULE PartitionFile ----------------------------
(***************************************************************************)
(* The partition list of mxfpp::File (libMXF++/File.cpp, Partition.cpp)    *)
(* and the files below it.                                                 *)
(*                                                                         *)
(* A writer creates and inserts Partition objects, writes their packs,     *)
(* essence and a random index pack (RIP), may divert writing to a memory   *)
(* file that is flushed to disk later, and rewrites the packs in place     *)
(* once the positions of the other partitions are known.  The writer may   *)
(* stop at any point, in the middle of a rewrite or a flush too, and the   *)
(* disk may lose the tail of the file.  A reader then opens what is on     *)
(* disk and rebuilds the list, from the RIP or by walking the chain of     *)
(* previous-partition offsets back from the footer partition.              *)
(*                                                                         *)
(* A file is a sequence of cells, one per pack, essence container unit or  *)
(* RIP; cell number p + 1 starts at offset p.  Partition list indexes are  *)
(* those of the code, from 0; NPos stands for (size_t)(-1).                *)
(***************************************************************************)
EXTENDS Integers, Sequences, FiniteSets, FiniteSetsExt, SequencesExt

CONSTANTS
  MaxPartitions,  \* bound: Partition objects in the list
  MaxCells,       \* bound: cells in a file
  MaxEssence,     \* bound: essence cells in a file
  MaxDamaged,     \* bound: cells of the file that are damaged on disk
  MaxParsed,      \* bound: partitions in the list when a reader reads one more
  Objects,        \* bound: the Partition objects that can be allocated
  MinLLens,       \* minimum length-field sizes a client asks for
  MemoryIndexes,  \* bound: the list indexes a client gives setMemoryPartitionIndexes
  InOrderClient,  \* the client creates a partition only when the last is written
  AnyMemoryLLen   \* a memory file given to setMemoryFile may have another min llen

DefaultLLen == 0  \* the min llen of a file on which none was set

ASSUME ConstantsAssumption ==
  /\ MaxPartitions \in Nat
  /\ MaxCells \in Nat
  /\ MaxEssence \in Nat
  /\ MaxDamaged \in Nat
  /\ MaxParsed \in Nat
  /\ MinLLens \subseteq Nat /\ DefaultLLen \in MinLLens
  /\ MemoryIndexes \subseteq Nat
  /\ InOrderClient \in BOOLEAN
  /\ AnyMemoryLLen \in BOOLEAN

VARIABLES
  state,       \* what the client is doing with the File
  partitions,  \* File::_partitions
  heap,        \* the Partition objects that are allocated
  disk,        \* the cells of the file on disk
  minLLen,     \* min llen of the file on disk
  memory,      \* the memory file, when one is open
  firstMemoryPartitionIndex, lastMemoryPartitionIndex,
  call         \* the last call and its outcome

fileVars == <<disk, minLLen, memory>>
indexVars == <<firstMemoryPartitionIndex, lastMemoryPartitionIndex>>
vars == <<state, partitions, heap, fileVars, indexVars, call>>

-----------------------------------------------------------------------------
(* Data *)

NPos == MaxPartitions + 1

Kinds == {"header", "body", "stream", "footer"}
States == {"writing", "closed", "reading"}
Offsets == Nat

\* What a partition pack carries: the key (its kind, and whether the partition
\* is open or closed) and the three offsets that link partitions.
Packs == [kind : Kinds, closed : BOOLEAN,
          thisPartition : Offsets, previousPartition : Offsets, footerPartition : Offsets]

\* A Partition object; `written` is what its user knows, not a field.
Partitions == [id : Objects, written : BOOLEAN, pack : Packs]

Cells == [type : {"pack"}, pack : Packs, llen : MinLLens]
           \cup [type : {"essence", "damaged"}]
           \cup [type : {"rip"}, entries : Seq(Offsets)]

NoMemory == [open |-> FALSE]
Memories == {NoMemory} \cup
  [open : {TRUE}, start : Offsets, cells : Seq(Cells), llen : MinLLens]

Calls == {"other", "update", "updateBody", "updateStream", "readTrue", "readFalse"}

NewPack(kind) == [kind |-> kind, closed |-> FALSE,
                  thisPartition |-> 0, previousPartition |-> 0, footerPartition |-> 0]

ObjectsOf(list) == {list[i].id : i \in DOMAIN list}

\* n objects that are not among the live ones.
Allocations(live, n) ==
  {f \in [1 .. n -> Objects \ live] : \A i, j \in 1 .. n : f[i] = f[j] => i = j}
CanAllocate(live, n) == Allocations(live, n) # {}
NewObjects(live, n) == CHOOSE f \in Allocations(live, n) : TRUE
NewObject(live) == NewObjects(live, 1)[1]

isBody(p) == p.pack.kind \in {"body", "stream"}
isGenericStream(p) == p.pack.kind = "stream"
isHeader(p) == p.pack.kind = "header"

AllWritten == \A i \in DOMAIN partitions : partitions[i].written

-----------------------------------------------------------------------------
(* The current file, _cFile: the memory file while one is open. *)

CurrentStart == IF memory.open THEN memory.start ELSE 0
CurrentCells == IF memory.open THEN memory.cells ELSE disk
CurrentLLen == IF memory.open THEN memory.llen ELSE minLLen
Tell == CurrentStart + Len(CurrentCells)

\* The current file holds the cells c.
SetCurrentCells(c) ==
  IF memory.open
  THEN memory' = [memory EXCEPT !.cells = c] /\ UNCHANGED <<disk, minLLen>>
  ELSE disk' = c /\ UNCHANGED <<minLLen, memory>>

\* Both files together, as they will be after the memory file is flushed.
WholeFile == IF memory.open THEN disk \o memory.cells ELSE disk

-----------------------------------------------------------------------------
(* Writing *)

Init ==
  /\ state = "writing"
  /\ partitions = <<>> /\ heap = {}
  /\ disk = <<>> /\ minLLen = DefaultLLen /\ memory = NoMemory
  /\ firstMemoryPartitionIndex = NPos /\ lastMemoryPartitionIndex = NPos
  /\ call = "other"

setMinLLen(llen) ==
  /\ state = "writing" /\ WholeFile = <<>> /\ ~memory.open
  /\ minLLen' = llen
  /\ call' = "other"
  /\ UNCHANGED <<state, partitions, heap, disk, memory, indexVars>>

\* A file starts with its header partition, and ends with its footer partition.
KindFits(kind, index) ==
  /\ (kind = "header") <=> (index = 0)
  /\ \A i \in 1 .. index : partitions[i].pack.kind # "footer"
  /\ kind = "footer" => index = Len(partitions)

\* Fault: the new partition is not linked to the one before it.
createPartition_Unlinked(kind) ==
  /\ state = "writing" /\ Len(partitions) < MaxPartitions
  /\ KindFits(kind, Len(partitions)) /\ CanAllocate(heap, 1)
  /\ InOrderClient => AllWritten
  /\ partitions' = Append(partitions,
                     [id |-> NewObject(heap), written |-> FALSE, pack |-> NewPack(kind)])
  /\ heap' = heap \cup {NewObject(heap)}
  /\ call' = "other"
  /\ UNCHANGED <<state, fileVars, indexVars>>

\* createPartition, and the setKey that follows it.
createPartition(kind) ==
  /\ state = "writing" /\ Len(partitions) < MaxPartitions
  /\ KindFits(kind, Len(partitions)) /\ CanAllocate(heap, 1)
  /\ InOrderClient => AllWritten
  /\ LET id == NewObject(heap)
         previous == IF partitions = <<>> THEN 0
                     ELSE partitions[Len(partitions)].pack.thisPartition
         pack == [NewPack(kind) EXCEPT !.previousPartition = previous]
     IN /\ partitions' = Append(partitions, [id |-> id, written |-> FALSE, pack |-> pack])
        /\ heap' = heap \cup {id}
  /\ call' = "other"
  /\ UNCHANGED <<state, fileVars, indexVars>>

\* A partition is inserted anywhere after the header partition, also before one
\* that is on disk already: the list is then not in the order of the file.  The
\* one after it is made to link to the new partition, which has no offset before
\* it is written.  (At the end of the list this is createPartition.)
insertPartition(index, kind) ==
  /\ state = "writing" /\ Len(partitions) < MaxPartitions /\ ~InOrderClient
  /\ index \in 1 .. Len(partitions) - 1
  /\ KindFits(kind, index) /\ CanAllocate(heap, 1)
  /\ LET id == NewObject(heap)
         pack == [NewPack(kind) EXCEPT
                    !.previousPartition = partitions[index].pack.thisPartition]
         linked == [partitions EXCEPT
                      ![index + 1].pack.previousPartition = pack.thisPartition]
     IN /\ partitions' = SubSeq(linked, 1, index)
                           \o <<[id |-> id, written |-> FALSE, pack |-> pack]>>
                           \o SubSeq(linked, index + 1, Len(linked))
        /\ heap' = heap \cup {id}
  /\ call' = "other"
  /\ UNCHANGED <<state, fileVars, indexVars>>

\* Fault: the offset is taken one cell too early.
WrittenPack_Early(pack) == [pack EXCEPT !.thisPartition = Tell - 1]

\* mxf_write_partition: the pack goes to the current position, which the
\* object remembers; a footer partition is its own footer.
WrittenPack(pack) ==
  [pack EXCEPT !.thisPartition = Tell,
               !.footerPartition = IF pack.kind = "footer" THEN Tell ELSE @]

\* Partition::write.  Partitions are written in the order of the list.
writePartition(i) ==
  /\ state = "writing" /\ Tell < MaxCells
  /\ i \in DOMAIN partitions /\ ~partitions[i].written
  /\ \A j \in 1 .. i - 1 : partitions[j].written
  /\ LET pack == WrittenPack(partitions[i].pack)
     IN /\ partitions' = [partitions EXCEPT ![i].pack = pack, ![i].written = TRUE]
        /\ SetCurrentCells(Append(CurrentCells,
                             [type |-> "pack", pack |-> pack, llen |-> CurrentLLen]))
  /\ call' = "other"
  /\ UNCHANGED <<state, heap, indexVars>>

writeEssence ==
  /\ state = "writing" /\ Tell < MaxCells
  /\ partitions # <<>> /\ AllWritten
  /\ Cardinality({c \in DOMAIN WholeFile : WholeFile[c].type = "essence"}) < MaxEssence
  /\ SetCurrentCells(Append(CurrentCells, [type |-> "essence"]))
  /\ call' = "other"
  /\ UNCHANGED <<state, partitions, heap, indexVars>>

writeRIP ==
  /\ state = "writing" /\ Tell < MaxCells
  /\ partitions # <<>> /\ AllWritten
  /\ LET entries == [i \in DOMAIN partitions |-> partitions[i].pack.thisPartition]
     IN SetCurrentCells(Append(CurrentCells, [type |-> "rip", entries |-> entries]))
  /\ call' = "other"
  /\ UNCHANGED <<state, partitions, heap, indexVars>>


-----------------------------------------------------------------------------
(* The memory file *)

\* Fault: the last partition on disk counts as the first in memory.
openMemoryFile_OneTooMany ==
  /\ state = "writing" /\ ~memory.open /\ partitions # <<>>
  /\ memory' = [open |-> TRUE, start |-> Tell, cells |-> <<>>, llen |-> minLLen]
  /\ firstMemoryPartitionIndex' = Len(partitions) - 1
  /\ lastMemoryPartitionIndex' = NPos
  /\ call' = "other"
  /\ UNCHANGED <<state, partitions, heap, disk, minLLen>>

\* Fault: the memory file keeps its default min llen.
openMemoryFile_NoLLen ==
  /\ state = "writing" /\ ~memory.open /\ partitions # <<>>
  /\ memory' = [open |-> TRUE, start |-> Tell, cells |-> <<>>, llen |-> DefaultLLen]
  /\ firstMemoryPartitionIndex' = Len(partitions)
  /\ lastMemoryPartitionIndex' = NPos
  /\ call' = "other"
  /\ UNCHANGED <<state, partitions, heap, disk, minLLen>>

\* openMemoryFile carries the min llen over to the memory file.
openMemoryFile ==
  /\ state = "writing" /\ ~memory.open /\ partitions # <<>>
  /\ memory' = [open |-> TRUE, start |-> Tell, cells |-> <<>>, llen |-> minLLen]
  /\ firstMemoryPartitionIndex' = Len(partitions)
  /\ lastMemoryPartitionIndex' = NPos
  /\ call' = "other"
  /\ UNCHANGED <<state, partitions, heap, disk, minLLen>>

\* setMemoryFile takes the caller's memory file, with the min llen it has.
setMemoryFile(llen) ==
  /\ state = "writing" /\ ~memory.open /\ partitions # <<>>
  /\ llen = minLLen \/ AnyMemoryLLen
  /\ memory' = [open |-> TRUE, start |-> Tell, cells |-> <<>>, llen |-> llen]
  /\ firstMemoryPartitionIndex' = Len(partitions)
  /\ lastMemoryPartitionIndex' = NPos
  /\ call' = "other"
  /\ UNCHANGED <<state, partitions, heap, disk, minLLen>>

\* The client names the partitions that updates rewrite while the memory file is
\* open; nothing checks that they are in it, or in the list at all.  (Without a
\* memory file the indexes are not looked at, and opening one sets them.)
setMemoryPartitionIndexes(first, last) ==
  /\ state = "writing" /\ memory.open
  /\ firstMemoryPartitionIndex' = first
  /\ lastMemoryPartitionIndex' = last
  /\ call' = "other"
  /\ UNCHANGED <<state, partitions, heap, fileVars>>

\* The File goes away, its memory file with it; `cells` are left on disk.
Stop(cells) ==
  /\ state' = "closed"
  /\ partitions' = <<>> /\ heap' = heap \ ObjectsOf(partitions)
  /\ disk' = cells /\ minLLen' = DefaultLLen /\ memory' = NoMemory
  /\ firstMemoryPartitionIndex' = NPos /\ lastMemoryPartitionIndex' = NPos
  /\ call' = "other"

\* closeMemoryFile: the memory file is appended to the file on disk.
closeMemoryFile ==
  /\ state = "writing" /\ memory.open
  /\ disk' = disk \o memory.cells
  /\ minLLen' = memory.llen
  /\ memory' = NoMemory
  /\ firstMemoryPartitionIndex' = NPos /\ lastMemoryPartitionIndex' = NPos
  /\ call' = "other"
  /\ UNCHANGED <<state, partitions, heap>>

\* The flush fails or is interrupted after n cells, and the client gives up.
closeMemoryFileFails(n) ==
  /\ state = "writing" /\ memory.open
  /\ n \in 0 .. Len(memory.cells) - 1
  /\ Stop(disk \o SubSeq(memory.cells, 1, n))

-----------------------------------------------------------------------------
(* Rewriting partition packs in place *)

\* mxf_update_partitions_in_memory: every partition links to the one before it
\* and, when the last is a footer partition, to that.
UpdatedInMemory(list) ==
  LET last == list[Len(list)].pack
      footer == IF last.kind = "footer" THEN last.thisPartition ELSE 0
  IN [i \in DOMAIN list |->
        [list[i] EXCEPT
          !.pack.previousPartition = IF i = 1 THEN 0 ELSE list[i - 1].pack.thisPartition,
          !.pack.footerPartition = footer]]

\* The list indexes, from 1, of a PartitionList from `first` to `last`.
PartitionList(first, last) ==
  LET end == IF last # NPos /\ last + 1 < Len(partitions) THEN last + 1
             ELSE Len(partitions)
  IN [k \in 1 .. end - first |-> first + k]

InCurrentFile(offset) == offset \in CurrentStart .. Tell - 1

\* mxf_rewrite_partitions: the current file when the first n packs of `order`
\* have been rewritten at their offsets.
Rewritten(list, order, n) ==
  [c \in DOMAIN CurrentCells |->
     LET here == {k \in 1 .. n :
                    list[order[k]].pack.thisPartition = CurrentStart + c - 1}
     IN IF here = {} THEN CurrentCells[c]
        ELSE [type |-> "pack", pack |-> list[order[Max(here)]].pack, llen |-> CurrentLLen]]

\* A call that rewrites the partitions of `order`, taken from the list after
\* it was updated in memory.
RewriteAll(list, order, name) ==
  /\ \A k \in DOMAIN order : InCurrentFile(list[order[k]].pack.thisPartition)
  /\ partitions' = list
  /\ SetCurrentCells(Rewritten(list, order, Len(order)))
  /\ call' = name
  /\ UNCHANGED <<state, heap, indexVars>>

\* The same call, stopped after some of the packs: a write failed, or there is
\* no room for the pack in the current file, or the process died.
RewriteSome(list, order) ==
  \E n \in 0 .. Len(order) - 1 :
    /\ \A k \in 1 .. n : InCurrentFile(list[order[k]].pack.thisPartition)
    /\ Stop(IF memory.open THEN disk ELSE Rewritten(list, order, n))

\* The range of list indexes that updateBodyPartitions and
\* updateGenericStreamPartitions look at.
ScanFirst == IF memory.open THEN firstMemoryPartitionIndex ELSE 0
ScanLast ==
  IF memory.open /\ ~(lastMemoryPartitionIndex = NPos
                        \/ lastMemoryPartitionIndex >= Len(partitions))
  THEN lastMemoryPartitionIndex
  ELSE Len(partitions) - 1

\* Their loops: the runs of adjacent partitions of the wanted sort, as the list
\* indexes that updatePartitions(first, last) is called with, one run after
\* the other.
RunsOf(wanted) ==
  LET last == ScanLast
      scan[first \in 0 .. last + 2] ==
        IF first > last THEN <<>>
        ELSE LET from == Min(((first .. last) \cap wanted) \cup {last + 1})
                 to == Min({j \in from .. last + 1 :
                              ~(j + 1 <= last /\ j + 1 \in wanted)})
             IN (IF to <= last THEN PartitionList(from, to) ELSE <<>>) \o scan[to + 1]
  IN scan[IF ScanFirst > last THEN last + 1 ELSE ScanFirst]

\* Fault: the header partition is not rewritten.
UpdateOrder_NoHeader == PartitionList(1, NPos)

\* updatePartitions with no arguments: nothing to do when no partition was
\* created since the memory file was opened.
UpdateOrder ==
  IF ~memory.open THEN PartitionList(0, NPos)
  ELSE IF firstMemoryPartitionIndex >= Len(partitions) THEN <<>>
  ELSE PartitionList(firstMemoryPartitionIndex, lastMemoryPartitionIndex)

UpdateList ==
  IF memory.open /\ firstMemoryPartitionIndex >= Len(partitions) THEN partitions
  ELSE UpdatedInMemory(partitions)

\* Fault: generic stream partitions pass for body partitions.
BodyWanted_Streams(p) == isBody(p)

BodyWanted(p) == isBody(p) /\ ~isGenericStream(p)
BodyOrder == RunsOf({i \in 0 .. Len(partitions) - 1 : BodyWanted(partitions[i + 1])})

StreamWanted(p) == isGenericStream(p)
StreamOrder == RunsOf({i \in 0 .. Len(partitions) - 1 : StreamWanted(partitions[i + 1])})

\* The list after the runs of `order`: setKey on each of them when a key is
\* given, and the update in memory before each run is rewritten.
BodyList(order, setKey) ==
  LET keyed == [i \in DOMAIN partitions |->
                  IF setKey /\ i \in ToSet(order)
                  THEN [partitions[i] EXCEPT !.pack.closed = TRUE]
                  ELSE partitions[i]]
  IN IF order = <<>> THEN partitions ELSE UpdatedInMemory(keyed)

StreamList(order) ==
  IF order = <<>> THEN partitions ELSE UpdatedInMemory(partitions)

CanUpdate == state = "writing" /\ partitions # <<>> /\ AllWritten

updatePartitions ==
  /\ CanUpdate
  /\ \/ RewriteAll(UpdateList, UpdateOrder, "update")
     \/ RewriteSome(UpdateList, UpdateOrder)

updateBodyPartitions(setKey) ==
  /\ CanUpdate
  /\ LET order == BodyOrder
         list == BodyList(order, setKey)
     IN \/ RewriteAll(list, order, "updateBody")
        \/ RewriteSome(list, order)

updateGenericStreamPartitions ==
  /\ CanUpdate
  /\ LET order == StreamOrder
         list == StreamList(order)
     IN \/ RewriteAll(list, order, "updateStream")
        \/ RewriteSome(list, order)

-----------------------------------------------------------------------------
(* The writer stops *)

\* ~File: a memory file that is still open is closed without a flush.
destroyFile ==
  /\ state = "writing"
  /\ Stop(disk)

\* The tail of the file never reached the disk.
loseTail(n) ==
  /\ state = "closed"
  /\ n \in 0 .. Len(disk) - 1
  /\ disk' = SubSeq(disk, 1, n)
  /\ call' = "other"
  /\ UNCHANGED <<state, partitions, heap, minLLen, memory, indexVars>>

\* A cell was damaged on the disk, and is not recognised any more.
damageCell(c) ==
  /\ state = "closed"
  /\ c \in DOMAIN disk /\ disk[c].type # "damaged"
  /\ Cardinality({d \in DOMAIN disk : disk[d].type = "damaged"}) < MaxDamaged
  /\ disk' = [disk EXCEPT ![c] = [type |-> "damaged"]]
  /\ call' = "other"
  /\ UNCHANGED <<state, partitions, heap, minLLen, memory, indexVars>>

-----------------------------------------------------------------------------
(* Reading *)

openRead ==
  /\ state = "closed"
  /\ state' = "reading"
  /\ call' = "other"
  /\ UNCHANGED <<partitions, heap, fileVars, indexVars>>

\* The pack at an offset can be read.
Readable(offset) == offset + 1 \in DOMAIN disk /\ disk[offset + 1].type = "pack"
PackAt(offset) == disk[offset + 1].pack

HeaderReadable == Readable(0) /\ PackAt(0).kind = "header"

ReadObject(id, offset) == [id |-> id, written |-> TRUE, pack |-> PackAt(offset)]

\* readHeaderPartition deletes all partitions, then reads the header; the
\* objects that are allocated afterwards, and the list.
HeapWithoutList == heap \ ObjectsOf(partitions)
NewHeader == ReadObject(NewObject(heap), 0)

readHeaderPartition ==
  /\ state = "reading"
  /\ \/ /\ HeaderReadable /\ CanAllocate(heap, 1)
        /\ partitions' = <<NewHeader>>
        /\ heap' = HeapWithoutList \cup {NewHeader.id}
     \/ /\ ~HeaderReadable
        /\ partitions' = <<>>
        /\ heap' = HeapWithoutList
  /\ call' = "other"
  /\ UNCHANGED <<state, fileVars, indexVars>>

\* readNextPartition: the client found a partition pack's key while it parsed.
readNextPartition(offset) ==
  /\ state = "reading" /\ Len(partitions) < MaxParsed
  /\ Readable(offset) /\ CanAllocate(heap, 1)
  /\ LET id == NewObject(heap)
     IN /\ partitions' = Append(partitions, ReadObject(id, offset))
        /\ heap' = heap \cup {id}
  /\ call' = "other"
  /\ UNCHANGED <<state, fileVars, indexVars>>

HasRIP == disk # <<>> /\ disk[Len(disk)].type = "rip"

\* Fault: the RIP's entry for the header partition is not skipped.
RIPOffsets_WithHeader(header) == disk[Len(disk)].entries

\* The offsets the RIP lists after the header partition.
RIPOffsets(header) ==
  LET entries == disk[Len(disk)].entries
      after[i \in 0 .. Len(entries)] ==
        IF i = 0 THEN <<>>
        ELSE IF entries[i] > header.pack.thisPartition THEN Append(after[i - 1], entries[i])
        ELSE after[i - 1]
  IN after[Len(entries)]

\* mxf_find_footer_partition: the footer partition nearest the end of the file.
Footers == {p \in 0 .. Len(disk) - 1 : Readable(p) /\ PackAt(p).kind = "footer"}

ChainStart(header) ==
  IF header.pack.footerPartition > header.pack.thisPartition
  THEN {header.pack.footerPartition}
  ELSE IF Footers = {} THEN {} ELSE {Max(Footers)}

\* Fault: the loop stops unless the chain passes the header.
ChainContinues_Swapped(header, pack) ==
  /\ pack.previousPartition < pack.thisPartition
  /\ pack.previousPartition < header.pack.thisPartition

\* Fault: an offset that points forward is followed.
ChainContinues_Forward(header, pack) ==
  pack.previousPartition > header.pack.thisPartition

\* The do-while loop from the footer partition back: the offsets it reads, in
\* the order of the file.
ChainContinues(header, pack) ==
  /\ pack.previousPartition < pack.thisPartition
  /\ pack.previousPartition > header.pack.thisPartition

Chain(header, start) ==
  LET back[p \in Offsets] ==
        IF Readable(p) /\ ChainContinues(header, PackAt(p))
        THEN Append(back[PackAt(p).previousPartition], p)
        ELSE <<p>>
  IN back[start]

\* The offsets readPartitions reads after the header; none when it can find
\* neither a RIP nor a footer partition.
ReadOffsets(header) ==
  IF HasRIP THEN {RIPOffsets(header)}
  ELSE {Chain(header, start) : start \in ChainStart(header)}

\* Fault: the header partition is read again when the list has one.
KeptHeader_Reread == IF HeaderReadable THEN {NewHeader} ELSE {}

\* The header partition that readPartitions keeps, or reads after deleting
\* the others, as a set of at most one.
KeptHeader ==
  IF partitions # <<>> /\ isHeader(partitions[1]) THEN {partitions[1]}
  ELSE IF HeaderReadable THEN {NewHeader}
  ELSE {}

\* The objects that are left when all but the kept header are deleted.
HeapWithHeader(header) == HeapWithoutList \cup {header.id}

\* The list readPartitions builds: the header, then a new object per offset.
ReadList(header, offsets) ==
  LET ids == NewObjects(HeapWithHeader(header), Len(offsets))
  IN <<header>> \o [k \in DOMAIN offsets |-> ReadObject(ids[k], offsets[k])]

\* The read that fails: the first of a RIP, the last of the chain to be reached.
ReadFails(offsets) == \E k \in DOMAIN offsets : ~Readable(offsets[k])

\* The part of the list that was read when it fails.
PartialList(header, offsets) ==
  LET bad == {k \in DOMAIN offsets : ~Readable(offsets[k])}
  IN IF HasRIP THEN ReadList(header, SubSeq(offsets, 1, Min(bad) - 1))
     ELSE ReadList(header, SubSeq(offsets, Max(bad) + 1, Len(offsets)))

\* Fault: the catch block only clears the list.
HeapAfterFailure_Leak(header, offsets) ==
  HeapWithHeader(header) \cup ObjectsOf(PartialList(header, offsets))

\* The catch block deletes what was read, but not the header.
HeapAfterFailure(header, offsets) ==
  LET read == ObjectsOf(PartialList(header, offsets))
  IN (HeapWithHeader(header) \cup read) \ (read \ {header.id})

\* Fault: the header is deleted with the rest when a read fails.
readPartitionsFails_ClearsAll ==
  /\ KeptHeader = {} \/ \E header \in KeptHeader : \A o \in ReadOffsets(header) : ReadFails(o)
  /\ partitions' = <<>>
  /\ heap' = HeapWithoutList

readPartitionsFails ==
  \/ /\ KeptHeader = {}
     /\ partitions' = <<>>
     /\ heap' = HeapWithoutList
  \/ \E header \in KeptHeader :
       /\ partitions' = <<header>>
       /\ \/ /\ ReadOffsets(header) = {}
             /\ heap' = HeapWithHeader(header)
          \/ \E offsets \in ReadOffsets(header) :
               /\ ReadFails(offsets)
               /\ heap' = HeapAfterFailure(header, offsets)

readPartitionsSucceeds ==
  \E header \in KeptHeader : \E offsets \in ReadOffsets(header) :
    /\ ~ReadFails(offsets)
    /\ partitions' = ReadList(header, offsets)
    /\ heap' = HeapWithHeader(header) \cup ObjectsOf(ReadList(header, offsets))

readPartitions ==
  /\ state = "reading" /\ CanAllocate(heap, 1)
  /\ \A header \in KeptHeader : \A offsets \in ReadOffsets(header) :
       CanAllocate(HeapWithHeader(header), Len(offsets))
  /\ \/ readPartitionsSucceeds /\ call' = "readTrue"
     \/ readPartitionsFails /\ call' = "readFalse"
  /\ UNCHANGED <<state, fileVars, indexVars>>

-----------------------------------------------------------------------------

Next ==
  \/ \E llen \in MinLLens : setMinLLen(llen)
  \/ \E kind \in Kinds : createPartition(kind)
  \/ \E index \in 1 .. MaxPartitions, kind \in Kinds : insertPartition(index, kind)
  \/ \E i \in 1 .. MaxPartitions : writePartition(i)
  \/ writeEssence
  \/ writeRIP
  \/ openMemoryFile
  \/ \E llen \in MinLLens : setMemoryFile(llen)
  \/ \E first \in MemoryIndexes, last \in MemoryIndexes \cup {NPos} :
       setMemoryPartitionIndexes(first, last)
  \/ closeMemoryFile
  \/ \E n \in 0 .. MaxCells : closeMemoryFileFails(n)
  \/ updatePartitions
  \/ \E setKey \in BOOLEAN : updateBodyPartitions(setKey)
  \/ updateGenericStreamPartitions
  \/ destroyFile
  \/ \E n \in 0 .. MaxCells : loseTail(n)
  \/ \E c \in 1 .. MaxCells : damageCell(c)
  \/ openRead
  \/ readHeaderPartition
  \/ \E offset \in 0 .. MaxCells : readNextPartition(offset)
  \/ readPartitions

Spec == Init /\ [][Next]_vars

-----------------------------------------------------------------------------
(* Properties *)

\* Every variable has its type.
TypeOK ==
  /\ state \in States
  /\ partitions \in Seq(Partitions)
  /\ heap \subseteq Objects
  /\ disk \in Seq(Cells)
  /\ minLLen \in MinLLens
  /\ memory \in Memories
  /\ firstMemoryPartitionIndex \in Nat
  /\ lastMemoryPartitionIndex \in Nat
  /\ call \in Calls

\* Each allocated Partition is in the list, once, and each listed one is
\* allocated: no call leaks a partition, lets the list refer to a deleted one,
\* or leaves one to be deleted twice by ~File, also when readPartitions fails
\* in the middle of a RIP or of the chain.
OwnedOnce ==
  /\ heap = ObjectsOf(partitions)
  /\ \A i, j \in DOMAIN partitions : partitions[i].id = partitions[j].id => i = j

\* The partitions on file come in the list before the others and in the order of
\* their offsets, which an insertion before one of them upsets.
InFileOrder(list) ==
  \A i, j \in DOMAIN list : (i < j /\ list[j].written) =>
    /\ list[i].written
    /\ list[i].pack.thisPartition < list[j].pack.thisPartition

\* The slice of the list that updates rewrite while a memory file is open: none
\* of its partitions has an offset that only the file on disk has.
SliceInMemory ==
  memory.open =>
    \A i \in firstMemoryPartitionIndex + 1 .. Len(partitions) :
      partitions[i].written => partitions[i].pack.thisPartition >= memory.start

\* No call moves a partition that is on disk into the slice that updates rewrite
\* in the memory file (firstMemoryPartitionIndex is not adjusted when the list
\* changes), so long as the list stays in the order of the file and the client
\* leaves the indexes of an open memory file alone.  Partitions may be inserted
\* before and after the memory file is opened; only an insertion before a
\* partition that was written already can push one of the disk into the slice,
\* where the next update fails.
SliceKeepsToMemory ==
  [][(/\ SliceInMemory
      /\ InFileOrder(partitions')
      /\ memory.open => UNCHANGED indexVars) => SliceInMemory']_vars

\* The offsets of the partition packs in a file.
PackOffsets(file) == {p \in 0 .. Len(file) - 1 : file[p + 1].type = "pack"}

\* A list stands for the whole file: it has each pack of the file once.
IsComplete(list, file) ==
  /\ Len(list) = Cardinality(PackOffsets(file))
  /\ {list[i].pack.thisPartition : i \in DOMAIN list} = PackOffsets(file)

\* The RIP lists the partitions in the order of the file.
RIPInOrder ==
  LET entries == disk[Len(disk)].entries
  IN \A i, j \in DOMAIN entries : i < j => entries[i] < entries[j]

\* Whatever the writer left, and wherever it stopped, a successful
\* readPartitions gives the header partition and then partitions of the file,
\* each once and as it is in the file: a RIP or a chain of stale offsets, or of
\* offsets that point forward, never yields a pack twice.  They come in the
\* order of their offsets, unless a RIP lists them in another order.
ReadIsFaithful ==
  call = "readTrue" =>
    /\ isHeader(partitions[1])
    /\ \A i \in DOMAIN partitions :
         /\ partitions[i].pack.thisPartition \in PackOffsets(disk)
         /\ partitions[i].pack = PackAt(partitions[i].pack.thisPartition)
    /\ \A i, j \in DOMAIN partitions :
         i # j => partitions[i].pack.thisPartition # partitions[j].pack.thisPartition
    /\ (HasRIP => RIPInOrder) =>
         \A i, j \in DOMAIN partitions :
           i < j => partitions[i].pack.thisPartition < partitions[j].pack.thisPartition

\* A failed readPartitions leaves just the header partition, or nothing when
\* there is no header partition to read.
FailedReadKeepsHeader ==
  call = "readFalse" =>
    \/ partitions = <<>> /\ ~HeaderReadable
    \/ Len(partitions) = 1 /\ isHeader(partitions[1])

\* The packs of a file are linked to each other, and to the footer partition.
Settled(file) ==
  LET packs == PackOffsets(file)
  IN /\ packs # {}
     /\ file[Max(packs) + 1].pack.kind = "footer"
     /\ \A p \in packs :
          LET before == {q \in packs : q < p}
              pack == file[p + 1].pack
          IN /\ pack.previousPartition = IF before = {} THEN 0 ELSE Max(before)
             /\ pack.footerPartition = Max(packs)

\* updatePartitions on a file with a footer partition and no memory file leaves
\* every pack on disk with its final links, whatever order the partitions were
\* created, inserted and written in, when the list is in the order of the file.
UpdateSettlesFile ==
  (/\ call = "update" /\ ~memory.open /\ InFileOrder(partitions)
   /\ partitions[Len(partitions)].pack.kind = "footer") => Settled(disk)

Intact(file) == \A c \in DOMAIN file : file[c].type # "damaged"

\* All partitions of such a file are read again, with or without a RIP.
SettledFileReadsComplete ==
  (Settled(disk) /\ Intact(disk)) =>
    /\ call # "readFalse"
    /\ call = "readTrue" => IsComplete(partitions, disk)

\* A client that writes each partition before it creates the next leaves a file
\* whose partitions can all be found at any time: when the header does not name
\* the footer partition yet, when some packs were rewritten and some not, and
\* when the file lost its tail, readPartitions gives all partitions or fails.
InOrderFileReadsComplete ==
  (InOrderClient /\ call = "readTrue") => IsComplete(partitions, disk)

\* The header partition object outlives readPartitions: the client's reference
\* to it stays valid, whether or not the other partitions can be read.
HeaderSurvivesRead ==
  [][(call' \in {"readTrue", "readFalse"} /\ partitions # <<>> /\ isHeader(partitions[1]))
       => partitions' # <<>> /\ partitions'[1].id = partitions[1].id]_vars

\* updateBodyPartitions and updateGenericStreamPartitions bring exactly the
\* wanted partitions of the current file up to date, each pack in its place,
\* and leave every other cell as it was.
RewritesExactly(kind) ==
  \A c \in DOMAIN CurrentCells :
    LET owners == {i \in ScanFirst + 1 .. ScanLast + 1 :
                     /\ partitions[i].pack.kind = kind
                     /\ partitions[i].pack.thisPartition = CurrentStart + c - 1}
        cell == CurrentCells'[c]
    IN IF owners = {} THEN cell = CurrentCells[c]
       ELSE \E i \in owners : cell.pack = partitions'[i].pack

UpdatesWantedOnly ==
  [][/\ call' = "updateBody" => RewritesExactly("body")
     /\ call' = "updateStream" => RewritesExactly("stream")]_vars

\* A pack that is rewritten, on disk or in memory, has the size it was written
\* with: the length field of every pack keeps the min llen through the opening,
\* flushing and closing of memory files.
RewriteKeepsLLen ==
  [][\A c \in DOMAIN disk \cap DOMAIN disk' :
       (disk[c].type = "pack" /\ disk'[c].type = "pack") => disk[c].llen = disk'[c].llen]_vars

\* Closing a memory file on which no min llen was set leaves that of the file
\* on disk alone: "set min llen on original file if it was set on the memory
\* file" (closeMemoryFile).
UnsetLLenNotCarriedOver ==
  [][(memory.open /\ memory.llen = DefaultLLen /\ call' = "other")
       => minLLen' = minLLen]_vars

=============================================================================
