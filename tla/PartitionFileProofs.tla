--------------------------- MODULE PartitionFileProofs ---------------------------
(***************************************************************************)
(* The safety properties of PartitionFile, for every value of the bounds   *)
(* and whatever the client does.                                           *)
(*                                                                         *)
(* The invariant they rest on says what a file on disk is like when no     *)
(* pack has its final links, or only some have: every pack is at the       *)
(* offset it names and the RIPs list the packs before them (Sound), and,   *)
(* while it is written, the list describes the file (Describes).           *)
(*                                                                         *)
(* First come the lemmas about what the operators of PartitionFile give,   *)
(* for files and partition lists on their own and about one call at a      *)
(* time.                                                                   *)
(***************************************************************************)
EXTENDS PartitionFile, InductionFacts, SequenceTheorems

-----------------------------------------------------------------------------
(* Data *)

PackCells == [type : {"pack"}, pack : Packs, llen : MinLLens]

LEMMA CellFields ==
  ASSUME NEW cell \in Cells
  PROVE  /\ cell.type \in {"pack", "essence", "damaged", "rip"}
         /\ cell.type = "pack" => cell.pack \in Packs /\ cell.llen \in MinLLens
         /\ cell.type = "rip" => cell.entries \in Seq(Nat)
BY DEF Cells, Offsets

LEMMA CellsToWrite ==
  /\ \A pack \in Packs, llen \in MinLLens :
       [type |-> "pack", pack |-> pack, llen |-> llen] \in Cells
  /\ \A entries \in Seq(Nat) : [type |-> "rip", entries |-> entries] \in Cells
  /\ [type |-> "essence"] \in Cells /\ [type |-> "damaged"] \in Cells
BY DEF Cells, Offsets

LEMMA PackFields ==
  ASSUME NEW pack \in Packs
  PROVE  /\ pack.kind \in Kinds /\ pack.thisPartition \in Nat
         /\ pack.previousPartition \in Nat /\ pack.footerPartition \in Nat
BY DEF Packs, Offsets

LEMMA PartitionFields ==
  ASSUME NEW p \in Partitions
  PROVE  p.id \in Objects /\ p.written \in BOOLEAN /\ p.pack \in Packs
BY DEF Partitions

LEMMA MemoryFields ==
  ASSUME NEW m \in Memories, m.open
  PROVE  /\ m \in [open : {TRUE}, start : Offsets, cells : Seq(Cells), llen : MinLLens]
         /\ m.start \in Nat /\ m.cells \in Seq(Cells) /\ m.llen \in MinLLens
<1> DEFINE R == [open : {TRUE}, start : Offsets, cells : Seq(Cells), llen : MinLLens]
<1>1. ~NoMemory.open
  BY DEF NoMemory
<1>2. m \in R
  BY <1>1 DEF Memories
<1>3. m \in R => m.start \in Nat /\ m.cells \in Seq(Cells) /\ m.llen \in MinLLens
  BY DEF Offsets
<1> HIDE DEF R
<1>4. m.start \in Nat /\ m.cells \in Seq(Cells) /\ m.llen \in MinLLens
  BY <1>2, <1>3
<1> QED BY <1>2, <1>4 DEF R

LEMMA MemoryWithCells ==
  ASSUME NEW m \in Memories, m.open, NEW cells \in Seq(Cells)
  PROVE  LET n == [m EXCEPT !.cells = cells]
         IN n \in Memories /\ n.open /\ n.start = m.start /\ n.cells = cells /\ n.llen = m.llen
<1> DEFINE R == [open : {TRUE}, start : Offsets, cells : Seq(Cells), llen : MinLLens]
           n == [m EXCEPT !.cells = cells]
<1>1. m \in R
  BY MemoryFields
<1>2. n \in R /\ n.start = m.start /\ n.cells = cells /\ n.llen = m.llen
  BY <1>1
<1>3. n.open
  BY <1>1
<1>4. n \in Memories
  BY <1>2 DEF Memories
<1> QED BY <1>2, <1>3, <1>4

LEMMA NewMemory ==
  ASSUME NEW start \in Nat, NEW llen \in MinLLens
  PROVE  LET m == [open |-> TRUE, start |-> start, cells |-> <<>>, llen |-> llen]
         IN m \in Memories /\ m.open /\ m.start = start /\ m.cells = <<>> /\ m.llen = llen
<1>1. <<>> \in Seq(Cells)
  OBVIOUS
<1>2. [open |-> TRUE, start |-> start, cells |-> <<>>, llen |-> llen] \in Memories
  BY <1>1 DEF Memories, Offsets
<1> QED BY <1>2

LEMMA NoMemoryIsClosed == NoMemory \in Memories /\ ~NoMemory.open
<1>1. ~NoMemory.open
  BY DEF NoMemory
<1> QED BY <1>1 DEF Memories

LEMMA ClosedMemory ==
  ASSUME NEW m \in Memories, ~m.open
  PROVE  m = NoMemory
<1>1. CASE m \in [open : {TRUE}, start : Offsets, cells : Seq(Cells), llen : MinLLens]
  <2>1. m.open
    BY <1>1
  <2> QED BY <2>1
<1> QED BY <1>1 DEF Memories

LEMMA PacksInFile ==
  ASSUME NEW f \in Seq(Cells)
  PROVE  \A p : p \in PackOffsets(f) <=>
                  /\ p \in Nat /\ p < Len(f) /\ p + 1 \in DOMAIN f /\ p + 1 \in 1 .. Len(f)
                  /\ f[p + 1].type = "pack"
<1>1. Len(f) \in Nat /\ DOMAIN f = 1 .. Len(f)
  BY LenProperties
<1> QED BY <1>1 DEF PackOffsets

LEMMA PackInFile ==
  ASSUME NEW f \in Seq(Cells), NEW p \in PackOffsets(f)
  PROVE  /\ p \in Nat /\ f[p + 1] \in Cells
         /\ f[p + 1].pack \in Packs /\ f[p + 1].llen \in MinLLens
         /\ f[p + 1].pack.kind \in Kinds
         /\ f[p + 1].pack.previousPartition \in Nat /\ f[p + 1].pack.footerPartition \in Nat
<1>1. p \in Nat /\ p + 1 \in 1 .. Len(f) /\ f[p + 1].type = "pack"
  BY PacksInFile
<1>2. f[p + 1] \in Cells
  BY <1>1, ElementOfSeq
<1> QED BY <1>1, <1>2, CellFields, PackFields

-----------------------------------------------------------------------------
(* Partition objects *)

LEMMA Created ==
  ASSUME NEW id \in Objects, NEW kind \in Kinds, NEW previous \in Nat
  PROVE  LET p == [id |-> id, written |-> FALSE,
                   pack |-> [NewPack(kind) EXCEPT !.previousPartition = previous]]
         IN /\ p \in Partitions /\ p.id = id /\ ~p.written
            /\ p.pack.kind = kind /\ p.pack.thisPartition = 0
            /\ p.pack.previousPartition = previous /\ p.pack.footerPartition = 0
<1> DEFINE pack == [NewPack(kind) EXCEPT !.previousPartition = previous]
           p == [id |-> id, written |-> FALSE, pack |-> pack]
<1>1. NewPack(kind) \in Packs
  BY DEF NewPack, Packs, Offsets
<1>2. NewPack(kind).kind = kind /\ NewPack(kind).thisPartition = 0
      /\ NewPack(kind).footerPartition = 0
  BY DEF NewPack
<1>3. /\ pack \in Packs /\ pack.kind = NewPack(kind).kind
      /\ pack.thisPartition = NewPack(kind).thisPartition
      /\ pack.previousPartition = previous
      /\ pack.footerPartition = NewPack(kind).footerPartition
  BY <1>1 DEF Packs, Offsets
<1> HIDE DEF pack
<1>4. p \in Partitions /\ p.id = id /\ p.pack = pack
  BY <1>3 DEF Partitions
<1>5. ~p.written
  OBVIOUS
<1> QED BY <1>2, <1>3, <1>4, <1>5 DEF pack

LEMMA WithPrevious ==
  ASSUME NEW p \in Partitions, NEW previous \in Nat
  PROVE  LET q == [p EXCEPT !.pack.previousPartition = previous]
         IN /\ q \in Partitions /\ q.id = p.id /\ q.written = p.written
            /\ q.pack.kind = p.pack.kind /\ q.pack.thisPartition = p.pack.thisPartition
            /\ q.pack.previousPartition = previous
            /\ q.pack.footerPartition = p.pack.footerPartition
<1> DEFINE pack == [p.pack EXCEPT !.previousPartition = previous]
           q == [p EXCEPT !.pack.previousPartition = previous]
<1>1. p.pack \in Packs /\ p.id \in Objects /\ p.written \in BOOLEAN
  BY PartitionFields
<1>2. /\ pack \in Packs /\ pack.kind = p.pack.kind
      /\ pack.thisPartition = p.pack.thisPartition
      /\ pack.previousPartition = previous
      /\ pack.footerPartition = p.pack.footerPartition
  BY <1>1 DEF Packs, Offsets
<1>3. q.pack = pack /\ q.id = p.id /\ q.written = p.written
  BY DEF Partitions
<1>4. q \in Partitions
  BY <1>1, <1>2 DEF Partitions
<1> QED BY <1>2, <1>3, <1>4

LEMMA WithFooter ==
  ASSUME NEW p \in Partitions, NEW footer \in Nat
  PROVE  LET q == [p EXCEPT !.pack.footerPartition = footer]
         IN /\ q \in Partitions /\ q.id = p.id /\ q.written = p.written
            /\ q.pack.kind = p.pack.kind /\ q.pack.thisPartition = p.pack.thisPartition
            /\ q.pack.previousPartition = p.pack.previousPartition
            /\ q.pack.footerPartition = footer
<1> DEFINE pack == [p.pack EXCEPT !.footerPartition = footer]
           q == [p EXCEPT !.pack.footerPartition = footer]
<1>1. p.pack \in Packs /\ p.id \in Objects /\ p.written \in BOOLEAN
  BY PartitionFields
<1>2. /\ pack \in Packs /\ pack.kind = p.pack.kind
      /\ pack.thisPartition = p.pack.thisPartition
      /\ pack.previousPartition = p.pack.previousPartition
      /\ pack.footerPartition = footer
  BY <1>1 DEF Packs, Offsets
<1>3. q.pack = pack /\ q.id = p.id /\ q.written = p.written
  BY DEF Partitions
<1>4. q \in Partitions
  BY <1>1, <1>2 DEF Partitions
<1> QED BY <1>2, <1>3, <1>4

LEMMA WithKey ==
  ASSUME NEW p \in Partitions
  PROVE  LET q == [p EXCEPT !.pack.closed = TRUE]
         IN /\ q \in Partitions /\ q.id = p.id /\ q.written = p.written
            /\ q.pack.kind = p.pack.kind /\ q.pack.thisPartition = p.pack.thisPartition
            /\ q.pack.previousPartition = p.pack.previousPartition
            /\ q.pack.footerPartition = p.pack.footerPartition
<1> DEFINE pack == [p.pack EXCEPT !.closed = TRUE]
           q == [p EXCEPT !.pack.closed = TRUE]
<1>1. p.pack \in Packs /\ p.id \in Objects /\ p.written \in BOOLEAN
  BY PartitionFields
<1>2. /\ pack \in Packs /\ pack.kind = p.pack.kind
      /\ pack.thisPartition = p.pack.thisPartition
      /\ pack.previousPartition = p.pack.previousPartition
      /\ pack.footerPartition = p.pack.footerPartition
  BY <1>1 DEF Packs, Offsets
<1>3. q.pack = pack /\ q.id = p.id /\ q.written = p.written
  BY DEF Partitions
<1>4. q \in Partitions
  BY <1>1, <1>2 DEF Partitions
<1> QED BY <1>2, <1>3, <1>4

\* A partition pack that is written.
LEMMA PackWritten ==
  ASSUME NEW p \in Partitions, Tell \in Nat
  PROVE  LET w == WrittenPack(p.pack)
             q == [[p EXCEPT !.pack = w] EXCEPT !.written = TRUE]
         IN /\ w \in Packs /\ w.kind = p.pack.kind /\ w.thisPartition = Tell
            /\ w.previousPartition = p.pack.previousPartition
            /\ w.footerPartition =
                 IF p.pack.kind = "footer" THEN Tell ELSE p.pack.footerPartition
            /\ q \in Partitions /\ q.id = p.id /\ q.written /\ q.pack = w
<1> DEFINE w == WrittenPack(p.pack)
           at == [p.pack EXCEPT !.thisPartition = Tell]
           q == [[p EXCEPT !.pack = w] EXCEPT !.written = TRUE]
<1>1. p.pack \in Packs /\ p.id \in Objects /\ p.written \in BOOLEAN
  BY PartitionFields
<1>2. /\ at \in Packs /\ at.kind = p.pack.kind /\ at.thisPartition = Tell
      /\ at.previousPartition = p.pack.previousPartition
      /\ at.footerPartition = p.pack.footerPartition
  BY <1>1 DEF Packs, Offsets
<1> HIDE DEF at
<1>3. w = [at EXCEPT !.footerPartition =
             IF p.pack.kind = "footer" THEN Tell ELSE at.footerPartition]
  BY DEF WrittenPack, at
<1>4. /\ w \in Packs /\ w.kind = at.kind /\ w.thisPartition = at.thisPartition
      /\ w.previousPartition = at.previousPartition
      /\ w.footerPartition = IF p.pack.kind = "footer" THEN Tell ELSE at.footerPartition
  BY <1>2, <1>3 DEF Packs, Offsets
<1> HIDE DEF w
<1>5. q \in Partitions /\ q.id = p.id /\ q.pack = w
  BY <1>1, <1>4 DEF Partitions
<1>6. q.written
  BY <1>1 DEF Partitions
<1> QED BY <1>2, <1>4, <1>5, <1>6 DEF w

-----------------------------------------------------------------------------
(* Both files, and the current one *)

\* The memory file starts where the file on disk ends.
MemoryFollowsDisk == memory.open => memory.start = Len(disk)

FilesOK ==
  disk \in Seq(Cells) /\ memory \in Memories /\ minLLen \in MinLLens /\ MemoryFollowsDisk

LEMMA CurrentFile ==
  ASSUME FilesOK
  PROVE  /\ CurrentCells \in Seq(Cells) /\ Len(CurrentCells) \in Nat
         /\ DOMAIN CurrentCells = 1 .. Len(CurrentCells)
         /\ CurrentStart \in Nat /\ CurrentStart <= Len(disk) /\ CurrentLLen \in MinLLens
         /\ Tell \in Nat /\ Tell = CurrentStart + Len(CurrentCells)
         /\ WholeFile \in Seq(Cells) /\ Len(WholeFile) = Tell
         /\ DOMAIN WholeFile = 1 .. Tell
         /\ \A c \in 1 .. CurrentStart : WholeFile[c] = disk[c]
         /\ \A c \in 1 .. Len(CurrentCells) : WholeFile[CurrentStart + c] = CurrentCells[c]
         /\ Len(disk) \in Nat /\ Len(disk) <= Tell
         /\ \A c \in 1 .. Len(disk) : WholeFile[c] = disk[c]
<1>1. CASE memory.open
  <2>1. memory.cells \in Seq(Cells) /\ memory.start = Len(disk) /\ memory.llen \in MinLLens
    BY <1>1, MemoryFields DEF FilesOK, MemoryFollowsDisk
  <2>2. disk \in Seq(Cells) /\ Len(disk) \in Nat /\ Len(memory.cells) \in Nat
    BY <2>1, LenProperties DEF FilesOK
  <2>3. CurrentCells = memory.cells /\ CurrentStart = Len(disk) /\ CurrentLLen = memory.llen
        /\ WholeFile = disk \o memory.cells
    BY <1>1, <2>1 DEF CurrentCells, CurrentStart, CurrentLLen, WholeFile
  <2>4. /\ WholeFile \in Seq(Cells) /\ Len(WholeFile) = Len(disk) + Len(memory.cells)
        /\ \A c \in 1 .. Len(disk) + Len(memory.cells) :
             WholeFile[c] = IF c <= Len(disk) THEN disk[c] ELSE memory.cells[c - Len(disk)]
    BY <2>1, <2>2, <2>3, ConcatProperties
  <2>5. Tell = Len(disk) + Len(memory.cells)
    BY <2>3 DEF Tell
  <2>6. \A c \in 1 .. Len(disk) : WholeFile[c] = disk[c]
    BY <2>2, <2>4
  <2>7. \A c \in 1 .. Len(memory.cells) : WholeFile[Len(disk) + c] = memory.cells[c]
    BY <2>2, <2>4
  <2>8. DOMAIN memory.cells = 1 .. Len(memory.cells) /\ DOMAIN WholeFile = 1 .. Len(WholeFile)
    BY <2>1, <2>4, LenProperties
  <2> QED BY <2>1, <2>2, <2>3, <2>4, <2>5, <2>6, <2>7, <2>8
<1>2. CASE ~memory.open
  <2>1. disk \in Seq(Cells) /\ minLLen \in MinLLens /\ Len(disk) \in Nat
        /\ DOMAIN disk = 1 .. Len(disk)
    BY LenProperties DEF FilesOK
  <2>2. CurrentCells = disk /\ CurrentStart = 0 /\ CurrentLLen = minLLen /\ WholeFile = disk
    BY <1>2 DEF CurrentCells, CurrentStart, CurrentLLen, WholeFile
  <2>3. Tell = Len(disk)
    BY <2>1, <2>2 DEF Tell
  <2> QED BY <2>1, <2>2, <2>3
<1> QED BY <1>1, <1>2

LEMMA CurrentFileSet ==
  ASSUME FilesOK, NEW cells \in Seq(Cells), SetCurrentCells(cells)
  PROVE  /\ FilesOK'
         /\ memory'.open <=> memory.open
         /\ memory.open => memory'.start = memory.start /\ memory'.llen = memory.llen
                           /\ disk' = disk
         /\ ~memory.open => disk' = cells
         /\ minLLen' = minLLen /\ CurrentLLen' = CurrentLLen
         /\ CurrentStart' = CurrentStart /\ CurrentCells' = cells
         /\ WholeFile' \in Seq(Cells) /\ Len(WholeFile') = CurrentStart + Len(cells)
         /\ \A c \in 1 .. CurrentStart : WholeFile'[c] = WholeFile[c]
         /\ \A c \in 1 .. Len(cells) : WholeFile'[CurrentStart + c] = cells[c]
<1>1. CASE memory.open
  <2>1. memory' = [memory EXCEPT !.cells = cells] /\ disk' = disk /\ minLLen' = minLLen
    BY <1>1 DEF SetCurrentCells
  <2>2. /\ memory' \in Memories /\ memory'.open /\ memory'.start = memory.start
        /\ memory'.cells = cells /\ memory'.llen = memory.llen
    BY <1>1, <2>1, MemoryWithCells DEF FilesOK
  <2>3. FilesOK'
    BY <1>1, <2>1, <2>2 DEF FilesOK, MemoryFollowsDisk
  <2>4. CurrentStart' = CurrentStart /\ CurrentCells' = cells /\ CurrentLLen' = CurrentLLen
    BY <1>1, <2>1, <2>2 DEF CurrentStart, CurrentCells, CurrentLLen
  <2>5. CurrentStart = Len(disk)
    BY <1>1 DEF CurrentStart, FilesOK, MemoryFollowsDisk
  <2>6. /\ (WholeFile \in Seq(Cells))' /\ (Len(WholeFile) = Tell)'
        /\ (Tell = CurrentStart + Len(CurrentCells))'
        /\ (\A c \in 1 .. CurrentStart : WholeFile[c] = disk[c])'
        /\ (\A c \in 1 .. Len(CurrentCells) : WholeFile[CurrentStart + c] = CurrentCells[c])'
    BY <2>3, CurrentFile, PTL
  <2>7. \A c \in 1 .. CurrentStart : WholeFile[c] = disk[c]
    BY CurrentFile
  <2> QED BY <1>1, <2>1, <2>2, <2>3, <2>4, <2>6, <2>7
<1>2. CASE ~memory.open
  <2>1. disk' = cells /\ minLLen' = minLLen /\ memory' = memory
    BY <1>2 DEF SetCurrentCells
  <2>2. FilesOK'
    BY <1>2, <2>1 DEF FilesOK, MemoryFollowsDisk
  <2>3. CurrentStart = 0 /\ CurrentStart' = 0 /\ CurrentCells' = cells
        /\ CurrentLLen' = CurrentLLen /\ WholeFile' = cells
    BY <1>2, <2>1 DEF CurrentStart, CurrentCells, CurrentLLen, WholeFile
  <2>4. Len(cells) \in Nat
    BY LenProperties
  <2> QED BY <1>2, <2>1, <2>2, <2>3, <2>4
<1> QED BY <1>1, <1>2

-----------------------------------------------------------------------------
(* What holds of a file, whatever was lost of it *)

IsLost(cell) == cell.type = "damaged"
IsPackOrLost(cell) == cell.type \in {"pack", "damaged"}

\* Each pack is at the offset it names, the header pack at the start of the file.
PackPlaced(f, p) ==
  LET pack == f[p + 1].pack
  IN /\ pack.thisPartition = p
     /\ pack.kind = "header" <=> p = 0

WellPlaced(f) ==
  /\ f # <<>> => IsPackOrLost(f[1])
  /\ \A p \in PackOffsets(f) : PackPlaced(f, p)

\* A RIP lists the packs before it, each once, and nothing that never was a pack.
RIPFits(f, c) ==
  LET entries == f[c].entries
  IN /\ \A i, j \in DOMAIN entries : i # j => entries[i] # entries[j]
     /\ \A i \in DOMAIN entries : entries[i] + 1 < c /\ IsPackOrLost(f[entries[i] + 1])
     /\ \A p \in PackOffsets(f) : p + 1 < c => \E i \in DOMAIN entries : entries[i] = p

RIPsFit(f) == \A c \in DOMAIN f : f[c].type = "rip" => RIPFits(f, c)

\* No pack is between another and the one it names as the previous one.
Linked(f) ==
  \A p \in PackOffsets(f) : p > 0 =>
    /\ f[p + 1].pack.previousPartition < p
    /\ \A q \in PackOffsets(f) : ~(f[p + 1].pack.previousPartition < q /\ q < p)

\* The footer pack is after the others, and so is the offset that a pack names as
\* that of the footer partition.
FooterLast(f) ==
  \A p \in PackOffsets(f) :
    LET pack == f[p + 1].pack
    IN /\ pack.kind = "footer" => \A q \in PackOffsets(f) : q <= p
       /\ pack.footerPartition > 0 => \A q \in PackOffsets(f) : q <= pack.footerPartition

\* The order of the packs is known of a client that writes them as it creates
\* them; partitions that are inserted can be written anywhere.
Sound(f) ==
  /\ WellPlaced(f) /\ RIPsFit(f)
  /\ InOrderClient => Linked(f) /\ FooterLast(f)

\* g is what remains of f when its tail is lost and cells are damaged.
Remains(f, g) ==
  Len(g) <= Len(f) /\ \A c \in 1 .. Len(g) : g[c] = f[c] \/ IsLost(g[c])

LEMMA PacksThatRemain ==
  ASSUME NEW f \in Seq(Cells), NEW g \in Seq(Cells), Remains(f, g)
  PROVE  \A p \in PackOffsets(g) : p \in PackOffsets(f) /\ g[p + 1] = f[p + 1]
<1> SUFFICES ASSUME NEW p \in PackOffsets(g)
             PROVE  p \in PackOffsets(f) /\ g[p + 1] = f[p + 1]
  OBVIOUS
<1>1. p \in Nat /\ p < Len(g) /\ p + 1 \in 1 .. Len(g) /\ g[p + 1].type = "pack"
  BY PacksInFile
<1>2. g[p + 1] = f[p + 1]
  BY <1>1 DEF Remains, IsLost
<1>3. p < Len(f) /\ p + 1 \in 1 .. Len(f) /\ Len(f) \in Nat /\ DOMAIN f = 1 .. Len(f)
  BY <1>1, LenProperties DEF Remains
<1> QED BY <1>1, <1>2, <1>3, PacksInFile

LEMMA RemainsSound ==
  ASSUME NEW f \in Seq(Cells), NEW g \in Seq(Cells), Remains(f, g), Sound(f)
  PROVE  Sound(g)
<1>1. \A p \in PackOffsets(g) : p \in PackOffsets(f) /\ g[p + 1] = f[p + 1]
  BY PacksThatRemain
<1>2. /\ Len(f) \in Nat /\ DOMAIN f = 1 .. Len(f)
      /\ Len(g) \in Nat /\ DOMAIN g = 1 .. Len(g) /\ Len(g) <= Len(f)
  BY LenProperties DEF Remains
<1>3. WellPlaced(g)
  <2>1. ASSUME g # <<>> PROVE IsPackOrLost(g[1])
    <3>1. Len(g) > 0
      BY <2>1, <1>2, EmptySeq
    <3>2. 1 \in 1 .. Len(g) /\ f # <<>>
      BY <3>1, <1>2, EmptySeq
    <3> QED BY <3>2 DEF Sound, WellPlaced, Remains, IsLost, IsPackOrLost
  <2>2. ASSUME NEW p \in PackOffsets(g) PROVE PackPlaced(g, p)
    <3>1. PackPlaced(f, p)
      BY <1>1 DEF Sound, WellPlaced
    <3> QED BY <3>1, <1>1 DEF PackPlaced
  <2> QED BY <2>1, <2>2 DEF WellPlaced
<1>4. RIPsFit(g)
  <2> SUFFICES ASSUME NEW c \in DOMAIN g, g[c].type = "rip" PROVE RIPFits(g, c)
    BY DEF RIPsFit
  <2>1. c \in 1 .. Len(g) /\ c \in DOMAIN f /\ g[c] = f[c]
    BY <1>2 DEF Remains, IsLost
  <2>2. RIPFits(f, c)
    BY <2>1 DEF Sound, RIPsFit
  <2> DEFINE entries == g[c].entries
  <2>3. entries \in Seq(Nat) /\ entries = f[c].entries
    BY <2>1, ElementOfSeq, CellFields
  <2> HIDE DEF entries
  <2>4. ASSUME NEW i \in DOMAIN entries PROVE entries[i] + 1 < c /\ IsPackOrLost(g[entries[i] + 1])
    <3>1. entries[i] \in Nat
      BY <2>3, LenProperties, ElementOfSeq
    <3>2. entries[i] + 1 < c /\ IsPackOrLost(f[entries[i] + 1])
      BY <2>2, <2>3 DEF RIPFits
    <3>3. entries[i] + 1 \in 1 .. Len(g)
      BY <3>1, <3>2, <2>1, <1>2
    <3> QED BY <3>2, <3>3 DEF Remains, IsLost, IsPackOrLost
  <2>5. \A p \in PackOffsets(g) : p + 1 < c => \E i \in DOMAIN entries : entries[i] = p
    BY <2>2, <2>3, <1>1 DEF RIPFits
  <2>6. \A i, j \in DOMAIN entries : i # j => entries[i] # entries[j]
    BY <2>2, <2>3 DEF RIPFits
  <2> QED BY <2>4, <2>5, <2>6 DEF RIPFits, entries
<1>5. InOrderClient => Linked(g) /\ FooterLast(g)
  BY <1>1 DEF Sound, Linked, FooterLast
<1> QED BY <1>3, <1>4, <1>5 DEF Sound

-----------------------------------------------------------------------------
(* A partition list and the file that is written from it *)

LastIsFooterAt(list, offset) ==
  /\ list # <<>>
  /\ list[Len(list)].pack.kind = "footer" /\ list[Len(list)].written
  /\ list[Len(list)].pack.thisPartition = offset

\* No two partitions were written at the same offset.
OwnOffsets(list) ==
  \A i, j \in DOMAIN list : (list[i].written /\ list[j].written /\ i # j) =>
    list[i].pack.thisPartition # list[j].pack.thisPartition

KindsFit(list) ==
  \A i \in DOMAIN list :
    /\ list[i].pack.kind = "header" <=> i = 1
    /\ list[i].pack.kind = "footer" => i = Len(list)
    /\ list[i].pack.footerPartition > 0 => LastIsFooterAt(list, list[i].pack.footerPartition)

\* The packs of the file are those of the written partitions; nothing is in the
\* file before the header partition is.
PartitionInFile(p, f) ==
  p.written => /\ p.pack.thisPartition \in PackOffsets(f)
               /\ f[p.pack.thisPartition + 1].pack.kind = p.pack.kind

PackInList(list, f, p) ==
  /\ \E i \in DOMAIN list : list[i].written /\ list[i].pack.thisPartition = p
  /\ f[p + 1].pack.footerPartition > 0 => LastIsFooterAt(list, f[p + 1].pack.footerPartition)

Matches(list, f) ==
  /\ \A i \in DOMAIN list : PartitionInFile(list[i], f)
  /\ \A p \in PackOffsets(f) : PackInList(list, f, p)
  /\ f = <<>> \/ (list # <<>> /\ list[1].written)

\* What InOrderClient makes of the list, which is in the order of the file too.
LinkedInOrder(list) ==
  \A i \in 1 .. Len(list) - 1 :
    list[i].written /\ list[i + 1].pack.previousPartition = list[i].pack.thisPartition

Describes(list, f) ==
  /\ OwnOffsets(list) /\ KindsFit(list) /\ Matches(list, f)
  /\ InOrderClient => InFileOrder(list) /\ LinkedInOrder(list)

\* The header partition is at the start of the file.
LEMMA HeaderPlaced ==
  ASSUME NEW list \in Seq(Partitions), NEW f \in Seq(Cells), Sound(f), Describes(list, f)
  PROVE  \A i \in DOMAIN list : list[i].written =>
           (list[i].pack.thisPartition = 0 <=> i = 1)
BY DEF Sound, WellPlaced, PackPlaced, Describes, Matches, PartitionInFile, KindsFit

-----------------------------------------------------------------------------
(* Appending a cell *)

IsAppended(f, g, cell) ==
  /\ g \in Seq(Cells) /\ Len(g) = Len(f) + 1 /\ g[Len(f) + 1] = cell
  /\ \A c \in 1 .. Len(f) : g[c] = f[c]

LEMMA PacksAfterAppend ==
  ASSUME NEW f \in Seq(Cells), NEW cell \in Cells,
         NEW g \in Seq(Cells), IsAppended(f, g, cell)
  PROVE  \A p : p \in PackOffsets(g) <=>
                  p \in PackOffsets(f) \/ (cell.type = "pack" /\ p = Len(f))
<1> SUFFICES ASSUME NEW p
             PROVE  p \in PackOffsets(g) <=>
                      p \in PackOffsets(f) \/ (cell.type = "pack" /\ p = Len(f))
  OBVIOUS
<1>1. Len(f) \in Nat /\ Len(g) \in Nat /\ DOMAIN f = 1 .. Len(f) /\ DOMAIN g = 1 .. Len(g)
  BY LenProperties
<1>a. Len(g) = Len(f) + 1 /\ g[Len(f) + 1] = cell /\ \A c \in 1 .. Len(f) : g[c] = f[c]
  BY DEF IsAppended
<1>2. p \in PackOffsets(g) => p \in PackOffsets(f) \/ (cell.type = "pack" /\ p = Len(f))
  BY <1>1, <1>a, PacksInFile
<1>3. p \in PackOffsets(f) => p \in PackOffsets(g)
  BY <1>1, <1>a, PacksInFile
<1>4. cell.type = "pack" /\ p = Len(f) => p \in PackOffsets(g)
  BY <1>1, <1>a, PacksInFile
<1> QED BY <1>2, <1>3, <1>4

\* The RIPs of a file fit when another cell, not a RIP, follows.
LEMMA RIPsAfterAppend ==
  ASSUME NEW f \in Seq(Cells), NEW cell \in Cells,
         NEW g \in Seq(Cells), IsAppended(f, g, cell), RIPsFit(f)
  PROVE  \A c \in 1 .. Len(f) : g[c].type = "rip" => RIPFits(g, c)
<1> SUFFICES ASSUME NEW c \in 1 .. Len(f), g[c].type = "rip" PROVE RIPFits(g, c)
  OBVIOUS
<1>1. Len(f) \in Nat /\ DOMAIN f = 1 .. Len(f) /\ \A k \in 1 .. Len(f) : g[k] = f[k]
  BY LenProperties DEF IsAppended
<1>2. RIPFits(f, c)
  BY <1>1 DEF RIPsFit
<1> DEFINE entries == g[c].entries
<1>3. entries \in Seq(Nat) /\ entries = f[c].entries
  BY <1>1, ElementOfSeq, CellFields
<1> HIDE DEF entries
<1>4. ASSUME NEW i \in DOMAIN entries PROVE entries[i] + 1 < c /\ IsPackOrLost(g[entries[i] + 1])
  <2>1. entries[i] \in Nat
    BY <1>3, LenProperties, ElementOfSeq
  <2>2. entries[i] + 1 < c /\ IsPackOrLost(f[entries[i] + 1])
    BY <1>2, <1>3 DEF RIPFits
  <2>3. entries[i] + 1 \in 1 .. Len(f)
    BY <2>1, <2>2, <1>1
  <2> QED BY <2>2, <2>3, <1>1
<1>5. ASSUME NEW p \in PackOffsets(g), p + 1 < c PROVE \E i \in DOMAIN entries : entries[i] = p
  <2>1. p \in PackOffsets(f)
    BY <1>5, <1>1, PacksAfterAppend
  <2> QED BY <2>1, <1>5, <1>2, <1>3 DEF RIPFits
<1>6. \A i, j \in DOMAIN entries : i # j => entries[i] # entries[j]
  BY <1>2, <1>3 DEF RIPFits
<1> QED BY <1>4, <1>5, <1>6 DEF RIPFits, entries

\* A cell that is not a pack, in a file that has its header.
LEMMA AppendOther ==
  ASSUME NEW list \in Seq(Partitions), NEW f \in Seq(Cells), NEW cell \in Cells,
         NEW g \in Seq(Cells), IsAppended(f, g, cell),
         f # <<>>, cell.type # "pack", Sound(f), Describes(list, f),
         cell.type = "rip" => RIPFits(g, Len(f) + 1)
  PROVE  Sound(g) /\ Describes(list, g)
<1>1. Len(f) \in Nat /\ Len(f) > 0 /\ DOMAIN f = 1 .. Len(f) /\ DOMAIN g = 1 .. Len(f) + 1
      /\ g[Len(f) + 1] = cell /\ \A c \in 1 .. Len(f) : g[c] = f[c]
  BY LenProperties, EmptySeq DEF IsAppended
<1>2. PackOffsets(g) = PackOffsets(f)
  BY PacksAfterAppend
<1>3. \A p \in PackOffsets(f) : g[p + 1] = f[p + 1]
  BY <1>1, PacksInFile
<1>4. WellPlaced(g)
  <2>1. 1 \in 1 .. Len(f)
    BY <1>1
  <2>2. IsPackOrLost(g[1])
    BY <2>1, <1>1 DEF Sound, WellPlaced
  <2>3. ASSUME NEW p \in PackOffsets(g) PROVE PackPlaced(g, p)
    <3>1. PackPlaced(f, p)
      BY <1>2 DEF Sound, WellPlaced
    <3> QED BY <3>1, <1>2, <1>3 DEF PackPlaced
  <2> QED BY <2>2, <2>3 DEF WellPlaced
<1>5. RIPsFit(g)
  <2>1. \A c \in 1 .. Len(f) : g[c].type = "rip" => RIPFits(g, c)
    BY RIPsAfterAppend DEF Sound
  <2>2. \A c \in DOMAIN g : c \in 1 .. Len(f) \/ c = Len(f) + 1
    BY <1>1
  <2> QED BY <2>1, <2>2, <1>1 DEF RIPsFit
<1>6. InOrderClient => Linked(g) /\ FooterLast(g)
  BY <1>2, <1>3 DEF Sound, Linked, FooterLast
<1>7. Matches(list, g)
  <2>1. ASSUME NEW i \in DOMAIN list PROVE PartitionInFile(list[i], g)
    BY <1>2, <1>3 DEF Describes, Matches, PartitionInFile
  <2>2. ASSUME NEW p \in PackOffsets(g) PROVE PackInList(list, g, p)
    BY <1>2, <1>3 DEF Describes, Matches, PackInList
  <2>3. list # <<>> /\ list[1].written
    BY DEF Describes, Matches
  <2> QED BY <2>1, <2>2, <2>3 DEF Matches
<1> QED BY <1>4, <1>5, <1>6, <1>7 DEF Sound, Describes

\* Partition i of the list is written, as the cell after the file.
IsWrittenNext(old, new, i, f, cell) ==
  /\ i \in 1 .. Len(old) /\ ~old[i].written
  /\ \A j \in 1 .. i - 1 : old[j].written
  /\ Len(new) = Len(old) /\ \A j \in 1 .. Len(old) : j # i => new[j] = old[j]
  /\ new[i].written /\ new[i].pack.thisPartition = Len(f)
  /\ new[i].pack.kind = old[i].pack.kind
  /\ new[i].pack.previousPartition = old[i].pack.previousPartition
  /\ new[i].pack.footerPartition =
       IF old[i].pack.kind = "footer" THEN Len(f) ELSE old[i].pack.footerPartition
  /\ cell.type = "pack" /\ cell.pack = new[i].pack

LEMMA AppendPack ==
  ASSUME NEW old \in Seq(Partitions), NEW new \in Seq(Partitions),
         NEW f \in Seq(Cells), NEW cell \in Cells,
         NEW g \in Seq(Cells), IsAppended(f, g, cell),
         Sound(f), Describes(old, f), NEW i, IsWrittenNext(old, new, i, f, cell)
  PROVE  Sound(g) /\ Describes(new, g)
<1>0. /\ i \in 1 .. Len(old) /\ ~old[i].written
      /\ \A j \in 1 .. i - 1 : old[j].written
      /\ Len(new) = Len(old) /\ \A j \in 1 .. Len(old) : j # i => new[j] = old[j]
      /\ new[i].written /\ new[i].pack.thisPartition = Len(f)
      /\ new[i].pack.kind = old[i].pack.kind
      /\ new[i].pack.previousPartition = old[i].pack.previousPartition
      /\ new[i].pack.footerPartition =
           IF old[i].pack.kind = "footer" THEN Len(f) ELSE old[i].pack.footerPartition
      /\ cell.type = "pack" /\ cell.pack = new[i].pack
  BY DEF IsWrittenNext
<1>1. Len(f) \in Nat /\ DOMAIN f = 1 .. Len(f) /\ DOMAIN g = 1 .. Len(f) + 1
      /\ DOMAIN old = 1 .. Len(old) /\ DOMAIN new = 1 .. Len(old) /\ Len(old) \in Nat
      /\ g[Len(f) + 1] = cell /\ \A c \in 1 .. Len(f) : g[c] = f[c]
  BY <1>0, LenProperties DEF IsAppended
<1>L. Len(old) \in Nat
  BY <1>1
<1>i. i \in Nat /\ 1 <= i /\ i <= Len(old)
  BY <1>0, <1>1
<1>2. \A p : p \in PackOffsets(g) <=> p \in PackOffsets(f) \/ p = Len(f)
  BY <1>0, PacksAfterAppend
<1>3. \A p \in PackOffsets(f) : p \in Nat /\ p < Len(f) /\ g[p + 1] = f[p + 1]
  BY <1>1, PacksInFile
\* a footer partition that was written, and named, stays the last
<1>5. ASSUME NEW offset, LastIsFooterAt(old, offset) PROVE LastIsFooterAt(new, offset)
  <2>1. Len(old) \in 1 .. Len(old) /\ Len(old) # i
    BY <1>i, <1>L, <1>0, <1>5 DEF LastIsFooterAt
  <2>2. new[Len(old)] = old[Len(old)] /\ Len(new) = Len(old)
    BY <2>1, <1>0
  <2>3. new # <<>>
    BY <2>1, <2>2, <1>L, EmptySeq
  <2> QED BY <2>2, <2>3, <1>5 DEF LastIsFooterAt
<1>7. \A j \in 1 .. Len(old) :
        old[j].pack.footerPartition > 0 => LastIsFooterAt(new, old[j].pack.footerPartition)
  BY <1>1, <1>5 DEF Describes, KindsFit
<1>8. \A p \in PackOffsets(f) :
        f[p + 1].pack.footerPartition > 0 => LastIsFooterAt(new, f[p + 1].pack.footerPartition)
  BY <1>5 DEF Describes, Matches, PackInList
\* the header is the first cell
<1>10. Len(f) = 0 <=> i = 1
  <2>1. Len(f) = 0 <=> f = <<>>
    BY EmptySeq
  <2>2. ASSUME f = <<>> PROVE i = 1
    <3>1. PackOffsets(f) = {}
      BY <2>1, <2>2, <1>3
    <3>2. ~old[1].written
      BY <1>0, <1>i, <3>1, <1>1 DEF Describes, Matches, PartitionInFile
    <3> QED BY <1>0, <1>i, <3>2, <1>1
  <2>3. ASSUME i = 1 PROVE f = <<>>
    BY <1>0, <2>3 DEF Describes, Matches
  <2> QED BY <2>1, <2>2, <2>3
<1>11. old[i].pack.kind = "header" <=> i = 1
  BY <1>0, <1>i, <1>1 DEF Describes, KindsFit
<1>12. WellPlaced(g)
  <2>1. IsPackOrLost(g[1])
    <3>1. CASE Len(f) = 0
      <4>1. g[1] = cell
        BY <1>1, <3>1
      <4> QED BY <1>0, <4>1 DEF IsPackOrLost
    <3>2. CASE Len(f) # 0
      <4>1. 1 \in 1 .. Len(f) /\ f # <<>>
        BY <3>2, <1>1, EmptySeq
      <4>2. IsPackOrLost(f[1]) /\ g[1] = f[1]
        BY <4>1, <1>1 DEF Sound, WellPlaced
      <4> QED BY <4>2
    <3> QED BY <3>1, <3>2
  <2>2. PackPlaced(g, Len(f))
    BY <1>0, <1>1, <1>10, <1>11 DEF PackPlaced
  <2>3. ASSUME NEW p \in PackOffsets(f) PROVE PackPlaced(g, p)
    <3>1. PackPlaced(f, p)
      BY DEF Sound, WellPlaced
    <3> QED BY <3>1, <1>3 DEF PackPlaced
  <2> QED BY <2>1, <2>2, <2>3, <1>2 DEF WellPlaced
<1>13. RIPsFit(g)
  <2>1. \A c \in 1 .. Len(f) : g[c].type = "rip" => RIPFits(g, c)
    BY RIPsAfterAppend DEF Sound
  <2>2. \A c \in DOMAIN g : c \in 1 .. Len(f) \/ c = Len(f) + 1
    BY <1>1
  <2> QED BY <1>0, <1>1, <2>1, <2>2 DEF RIPsFit
\* the partitions written before have their offsets below the new one
<1>14. ASSUME NEW j \in DOMAIN new, new[j].written, j # i
       PROVE  /\ new[j] = old[j] /\ old[j].written
              /\ new[j].pack.thisPartition \in PackOffsets(f)
              /\ new[j].pack.thisPartition \in Nat /\ new[j].pack.thisPartition < Len(f)
  <2>1. new[j] = old[j] /\ old[j].written
    BY <1>0, <1>14, <1>1
  <2>2. old[j].pack.thisPartition \in PackOffsets(f)
    BY <2>1, <1>1, <1>14 DEF Describes, Matches, PartitionInFile
  <2> QED BY <2>1, <2>2, <1>3
<1>o. OwnOffsets(new)
  <2> SUFFICES ASSUME NEW j \in DOMAIN new, NEW k \in DOMAIN new,
                      new[j].written, new[k].written, j # k
               PROVE  new[j].pack.thisPartition # new[k].pack.thisPartition
    BY DEF OwnOffsets
  <2>1. CASE j # i /\ k # i
    BY <2>1, <1>14, <1>1 DEF Describes, OwnOffsets
  <2>2. CASE j = i
    BY <2>2, <1>14, <1>0, <1>L, <1>1
  <2>3. CASE k = i
    BY <2>3, <1>14, <1>0, <1>L, <1>1
  <2> QED BY <2>1, <2>2, <2>3
<1>15. \A j \in DOMAIN new : new[j].pack.kind = old[j].pack.kind
  BY SMTT(60), <1>0, <1>i, <1>1
<1>16. ASSUME old[i].pack.kind = "footer" PROVE LastIsFooterAt(new, Len(f))
  <2>1. i = Len(old)
    BY <1>0, <1>i, <1>16, <1>1 DEF Describes, KindsFit
  <2>2. new # <<>>
    BY <1>0, <1>i, <1>1
  <2> QED BY <1>0, <1>i, <2>1, <2>2, <1>16 DEF LastIsFooterAt
<1>17. KindsFit(new)
  <2> SUFFICES ASSUME NEW j \in DOMAIN new
               PROVE  /\ new[j].pack.kind = "header" <=> j = 1
                      /\ new[j].pack.kind = "footer" => j = Len(new)
                      /\ new[j].pack.footerPartition > 0
                           => LastIsFooterAt(new, new[j].pack.footerPartition)
    BY DEF KindsFit
  <2>1. (new[j].pack.kind = "header" <=> j = 1) /\ (new[j].pack.kind = "footer" => j = Len(new))
    BY <1>0, <1>i, <1>1, <1>15 DEF Describes, KindsFit
  <2>2. new[j].pack.footerPartition > 0 => LastIsFooterAt(new, new[j].pack.footerPartition)
    BY <1>0, <1>i, <1>1, <1>7, <1>16
  <2> QED BY <2>1, <2>2
<1>18. Matches(new, g)
  <2>1. ASSUME NEW j \in DOMAIN new PROVE PartitionInFile(new[j], g)
    <3>1. CASE j = i
      BY <1>0, <1>1, <3>1, <1>2 DEF PartitionInFile
    <3>2. CASE j # i
      <4>1. PartitionInFile(old[j], f) /\ new[j] = old[j]
        BY <1>0, <1>i, <3>2, <1>1 DEF Describes, Matches
      <4> QED BY ZenonT(60), <1>0, <1>i, <4>1, <1>2, <1>3 DEF PartitionInFile
    <3> QED BY <3>1, <3>2
  <2>2. ASSUME NEW p \in PackOffsets(f) PROVE PackInList(new, g, p)
    <3>1. PICK j \in DOMAIN old : old[j].written /\ old[j].pack.thisPartition = p
      BY DEF Describes, Matches, PackInList
    <3>2. j \in DOMAIN new /\ new[j] = old[j]
      BY <1>0, <1>i, <3>1, <1>1
    <3> QED BY <1>0, <1>i, <3>1, <3>2, <1>3, <1>8 DEF PackInList
  <2>3. PackInList(new, g, Len(f))
    <3>1. new[i].pack.footerPartition > 0 => LastIsFooterAt(new, new[i].pack.footerPartition)
      BY <1>0, <1>i, <1>7, <1>16
    <3> QED BY <1>0, <1>i, <3>1, <1>1 DEF PackInList
  <2>4. new # <<>> /\ new[1].written
    BY <1>0, <1>i, <1>1
  <2> QED BY <2>1, <2>2, <2>3, <2>4, <1>2 DEF Matches
<1>19. ASSUME InOrderClient
       PROVE  InFileOrder(new) /\ LinkedInOrder(new) /\ Linked(g) /\ FooterLast(g)
  <2>1. i = Len(old)
    <3>1. i < Len(old) => i \in 1 .. Len(old) - 1
      BY <1>i, <1>L
    <3>2. i \in 1 .. Len(old) - 1 => old[i].written
      BY <1>19 DEF Describes, LinkedInOrder
    <3> QED BY <1>0, <1>i, <1>L, <3>1, <3>2
  <2>9. InFileOrder(new)
    <3> SUFFICES ASSUME NEW j \in DOMAIN new, NEW k \in DOMAIN new, j < k, new[k].written
                 PROVE  new[j].written /\ new[j].pack.thisPartition < new[k].pack.thisPartition
      BY DEF InFileOrder
    <3>1. j # i
      BY <2>1, <1>1, <1>L
    <3>5. j \in 1 .. Len(old) /\ j \in 1 .. i - 1
      BY <3>1, <1>1, <1>L, <2>1
    <3>2. new[j] = old[j] /\ old[j].written
      BY <3>1, <3>5, <1>0
    <3>3. CASE k = i
      BY <3>1, <3>2, <3>3, <1>14, <1>0
    <3>4. CASE k # i
      BY <3>2, <3>4, <1>14, <1>1, <1>19 DEF Describes, InFileOrder
    <3> QED BY <3>3, <3>4
  \* no footer partition was written, and none is named
  <2>10. \A offset : ~LastIsFooterAt(old, offset)
    BY <2>1, <1>0 DEF LastIsFooterAt
  <2>11. /\ ~(new[i].pack.footerPartition > 0) \/ new[i].pack.footerPartition = Len(f)
    BY <1>0, <2>10, <1>1 DEF Describes, KindsFit
  <2>12. ASSUME NEW p \in PackOffsets(f)
         PROVE  f[p + 1].pack.kind # "footer" /\ ~(f[p + 1].pack.footerPartition > 0)
    <3>1. ~(f[p + 1].pack.footerPartition > 0)
      BY <2>10 DEF Describes, Matches, PackInList
    <3>2. PICK j \in DOMAIN old : old[j].written /\ old[j].pack.thisPartition = p
      BY DEF Describes, Matches, PackInList
    <3>3. f[p + 1].pack.kind = old[j].pack.kind
      BY <3>2 DEF Describes, Matches, PartitionInFile
    <3>4. j # Len(old)
      BY <3>2, <2>1, <1>0
    <3> QED BY <3>1, <3>3, <3>4 DEF Describes, KindsFit
  <2>13. FooterLast(g)
    <3>1. \A q \in PackOffsets(g) : q <= Len(f)
      BY <1>L, <1>1, <1>2, <1>3
    <3>2. g[Len(f) + 1].pack = new[i].pack
      BY <1>0, <1>1
    <3> SUFFICES ASSUME NEW p \in PackOffsets(g)
                 PROVE  /\ g[p + 1].pack.kind = "footer" => \A q \in PackOffsets(g) : q <= p
                        /\ g[p + 1].pack.footerPartition > 0
                             => \A q \in PackOffsets(g) : q <= g[p + 1].pack.footerPartition
      BY DEF FooterLast
    <3>3. CASE p = Len(f)
      BY <3>1, <3>2, <3>3, <2>11
    <3>4. CASE p \in PackOffsets(f)
      BY <3>4, <2>12, <1>3
    <3> QED BY <3>3, <3>4, <1>2
  <2>2. \A j \in 1 .. Len(old) - 1 : j \in 1 .. Len(old) /\ j # i /\ new[j] = old[j]
    <3>1. \A j \in 1 .. Len(old) - 1 : j \in 1 .. Len(old) /\ j # i
      BY <1>L, <2>1
    <3> QED BY <1>0, <3>1
  <2>3. \A j \in 1 .. Len(old) : new[j].pack.previousPartition = old[j].pack.previousPartition
    BY <1>0, <1>i, <1>1
  <2>4. LinkedInOrder(old)
    BY <1>19 DEF Describes
  <2>5. LinkedInOrder(new)
    <3> SUFFICES ASSUME NEW j \in 1 .. Len(new) - 1
                 PROVE  new[j].written
                        /\ new[j + 1].pack.previousPartition = new[j].pack.thisPartition
      BY DEF LinkedInOrder
    <3>1. Len(new) = Len(old)
      BY <1>0
    <3>2. j \in 1 .. Len(old) - 1 /\ j + 1 \in 1 .. Len(old)
      BY <1>L, <3>1
    <3>3. old[j].written /\ old[j + 1].pack.previousPartition = old[j].pack.thisPartition
      BY <3>2, <2>4 DEF LinkedInOrder
    <3> QED BY <3>2, <3>3, <2>2, <2>3
  <2>6. ASSUME Len(f) > 0
        PROVE  /\ new[i].pack.previousPartition < Len(f)
               /\ \A q \in PackOffsets(f) : ~(new[i].pack.previousPartition < q)
    <3>1. i - 1 \in 1 .. Len(old) - 1 /\ (i - 1) + 1 = i
      <4>1. i # 1
        BY <2>6, <1>10
      <4> QED BY <4>1, <1>i, <1>L, <2>1
    <3>2. old[i - 1].written /\ old[i].pack.previousPartition = old[i - 1].pack.thisPartition
      BY <1>0, <1>i, <3>1, <2>4 DEF LinkedInOrder
    <3>3. old[i - 1].pack.thisPartition \in PackOffsets(f)
      BY <1>0, <1>i, <3>1, <3>2, <1>1 DEF Describes, Matches, PartitionInFile
    <3>4. ASSUME NEW q \in PackOffsets(f) PROVE q <= old[i - 1].pack.thisPartition
      <4>1. PICK j \in DOMAIN old : old[j].written /\ old[j].pack.thisPartition = q
        BY DEF Describes, Matches, PackInList
      <4>2. j # i
        BY <1>0, <1>i, <4>1
      <4>4. j <= i - 1
        <5>1. j \in 1 .. Len(old)
          BY <1>1
        <5> QED BY <5>1, <4>2, <2>1, <1>L
      <4>3. j < i - 1 => old[j].pack.thisPartition < old[i - 1].pack.thisPartition
        BY <1>0, <1>i, <3>1, <3>2, <1>1, <1>19 DEF Describes, InFileOrder
      <4> QED BY <1>0, <1>i, <4>1, <4>4, <4>3, <3>3, <1>1, <1>3
    <3> QED BY <1>0, <1>i, <3>2, <3>3, <3>4, <1>3
  <2>7. Linked(f)
    BY <1>19 DEF Sound
  <2>8. ASSUME NEW p \in PackOffsets(g), p > 0
        PROVE  /\ g[p + 1].pack.previousPartition < p
               /\ \A q \in PackOffsets(g) : ~(g[p + 1].pack.previousPartition < q /\ q < p)
    <3>1. CASE p = Len(f)
      BY <1>0, <1>i, <3>1, <2>6, <2>8, <1>1, <1>2, <1>3
    <3>2. CASE p \in PackOffsets(f)
      <4>1. /\ f[p + 1].pack.previousPartition < p
            /\ \A q \in PackOffsets(f) : ~(f[p + 1].pack.previousPartition < q /\ q < p)
        BY <3>2, <2>7, <2>8 DEF Linked
      <4> QED BY <1>0, <1>i, <4>1, <3>2, <1>1, <1>2, <1>3
    <3> QED BY <3>1, <3>2, <1>2
  <2>14. Linked(g)
    BY <2>8 DEF Linked
  <2> QED BY <2>5, <2>9, <2>13, <2>14
<1> QED BY <1>12, <1>13, <1>o, <1>17, <1>18, <1>19 DEF Sound, Describes

\* The RIP that is written lists what is in the file.
LEMMA NewRIPFits ==
  ASSUME NEW list \in Seq(Partitions), NEW f \in Seq(Cells), NEW cell \in Cells,
         NEW g \in Seq(Cells), IsAppended(f, g, cell), Describes(list, f),
         \A i \in DOMAIN list : list[i].written, cell.type = "rip",
         cell.entries = [i \in DOMAIN list |-> list[i].pack.thisPartition]
  PROVE  RIPFits(g, Len(f) + 1)
<1>1. Len(f) \in Nat /\ g[Len(f) + 1] = cell /\ \A c \in 1 .. Len(f) : g[c] = f[c]
  BY LenProperties DEF IsAppended
<1>2. PackOffsets(g) = PackOffsets(f)
  BY ZenonT(60), PacksAfterAppend
<1> DEFINE entries == g[Len(f) + 1].entries
<1>3. DOMAIN entries = DOMAIN list /\ \A i \in DOMAIN list : entries[i] = list[i].pack.thisPartition
  BY <1>1
<1> HIDE DEF entries
<1>4. ASSUME NEW i \in DOMAIN entries, NEW j \in DOMAIN entries, i # j
      PROVE  entries[i] # entries[j]
  BY <1>3, <1>4 DEF Describes, OwnOffsets
<1>5. ASSUME NEW i \in DOMAIN entries
      PROVE  entries[i] + 1 < Len(f) + 1 /\ IsPackOrLost(g[entries[i] + 1])
  <2>1. entries[i] \in PackOffsets(f)
    BY <1>3 DEF Describes, Matches, PartitionInFile
  <2>2. entries[i] \in Nat /\ entries[i] < Len(f) /\ entries[i] + 1 \in 1 .. Len(f)
        /\ f[entries[i] + 1].type = "pack"
    BY <2>1, PacksInFile
  <2>3. g[entries[i] + 1] = f[entries[i] + 1]
    BY <2>2, <1>1
  <2> QED BY <2>2, <2>3, <1>1 DEF IsPackOrLost
<1>6. ASSUME NEW p \in PackOffsets(g) PROVE \E i \in DOMAIN entries : entries[i] = p
  BY <1>2, <1>3 DEF Describes, Matches, PackInList
<1> QED BY <1>4, <1>5, <1>6 DEF RIPFits, entries

-----------------------------------------------------------------------------
(* Rewriting packs *)

\* An update in memory changes nothing but keys and links, and the links to
\* those that the other partitions make right.
FooterOf(list) ==
  IF list[Len(list)].pack.kind = "footer" THEN list[Len(list)].pack.thisPartition ELSE 0
PreviousOf(list, i) == IF i = 1 THEN 0 ELSE list[i - 1].pack.thisPartition

SamePartition(p, q) ==
  /\ q.id = p.id /\ (q.written <=> p.written)
  /\ q.pack.kind = p.pack.kind /\ q.pack.thisPartition = p.pack.thisPartition

IsRelinked(old, new) ==
  /\ Len(new) = Len(old)
  /\ \A i \in DOMAIN old :
       /\ SamePartition(old[i], new[i])
       /\ new[i].pack.footerPartition \in {old[i].pack.footerPartition, FooterOf(old)}
       /\ new[i].pack.previousPartition \in {old[i].pack.previousPartition, PreviousOf(old, i)}

\* Cells of f whose offset a partition of the list names are replaced by its pack.
IsRewritten(list, f, g) ==
  /\ Len(g) = Len(f)
  /\ \A c \in 1 .. Len(f) :
       \/ g[c] = f[c]
       \/ /\ g[c].type = "pack"
          /\ \E i \in DOMAIN list : list[i].pack.thisPartition + 1 = c /\ g[c].pack = list[i].pack

LEMMA RewrittenFile ==
  ASSUME NEW old \in Seq(Partitions), NEW new \in Seq(Partitions), IsRelinked(old, new),
         \A i \in DOMAIN old : old[i].written, old # <<>>,
         NEW f \in Seq(Cells), NEW g \in Seq(Cells), IsRewritten(new, f, g),
         Sound(f), Describes(old, f)
  PROVE  /\ Sound(g) /\ Describes(new, g) /\ PackOffsets(g) = PackOffsets(f)
         /\ \A c \in 1 .. Len(f) : g[c].type = f[c].type
<1>0. Len(new) = Len(old) /\ Len(g) = Len(f)
  BY DEF IsRelinked, IsRewritten
<1>L. Len(old) \in Nat /\ Len(old) > 0
  BY LenProperties, EmptySeq
<1>F. Len(f) \in Nat
  BY LenProperties
<1>1. DOMAIN old = 1 .. Len(old) /\ DOMAIN new = 1 .. Len(old)
      /\ DOMAIN f = 1 .. Len(f) /\ DOMAIN g = 1 .. Len(f)
  BY <1>0, LenProperties
<1>2. \A i \in 1 .. Len(old) : new[i].written /\ old[i].written
        /\ new[i].pack.kind = old[i].pack.kind
        /\ new[i].pack.thisPartition = old[i].pack.thisPartition
  BY <1>1 DEF IsRelinked, SamePartition
<1>3. \A i \in 1 .. Len(old) : old[i].pack.thisPartition \in PackOffsets(f)
        /\ f[old[i].pack.thisPartition + 1].pack.kind = old[i].pack.kind
  BY <1>1, <1>2 DEF Describes, Matches, PartitionInFile
\* a cell is as it was, or a pack that is rewritten
<1>4. ASSUME NEW c \in 1 .. Len(f)
      PROVE  \/ g[c] = f[c]
             \/ /\ g[c].type = "pack" /\ f[c].type = "pack"
                /\ \E i \in 1 .. Len(old) :
                     old[i].pack.thisPartition + 1 = c /\ g[c].pack = new[i].pack
  <2> SUFFICES ASSUME g[c] # f[c] PROVE
                /\ g[c].type = "pack" /\ f[c].type = "pack"
                /\ \E i \in 1 .. Len(old) :
                     old[i].pack.thisPartition + 1 = c /\ g[c].pack = new[i].pack
    OBVIOUS
  <2>1. g[c].type = "pack"
    BY DEF IsRewritten
  <2>2. PICK i \in DOMAIN new : new[i].pack.thisPartition + 1 = c /\ g[c].pack = new[i].pack
    BY DEF IsRewritten
  <2>3. i \in 1 .. Len(old) /\ old[i].pack.thisPartition + 1 = c
    BY <2>2, <1>1, <1>2
  <2>4. f[c].type = "pack"
    BY <2>3, <1>3, PacksInFile
  <2> QED BY <2>1, <2>2, <2>3, <2>4
<1>5. \A c \in 1 .. Len(f) : g[c].type = f[c].type
  BY <1>4
<1>6. PackOffsets(g) = PackOffsets(f)
  BY <1>5, <1>0, <1>F DEF PackOffsets
<1>7. ASSUME NEW p \in PackOffsets(f)
      PROVE  \/ g[p + 1] = f[p + 1]
             \/ \E i \in 1 .. Len(old) :
                  old[i].pack.thisPartition = p /\ g[p + 1].pack = new[i].pack
  <2>1. p \in Nat /\ p + 1 \in 1 .. Len(f)
    BY PacksInFile
  <2>2. CASE g[p + 1] = f[p + 1]
    BY <2>2
  <2>3. CASE \E i \in 1 .. Len(old) :
               old[i].pack.thisPartition + 1 = p + 1 /\ g[p + 1].pack = new[i].pack
    <3>1. PICK i \in 1 .. Len(old) :
               old[i].pack.thisPartition + 1 = p + 1 /\ g[p + 1].pack = new[i].pack
      BY <2>3
    <3>2. old[i].pack.thisPartition \in Nat
      BY <1>3, PacksInFile
    <3>3. old[i].pack.thisPartition = p
      BY <3>1, <3>2, <2>1
    <3> QED BY <3>1, <3>3
  <2> QED BY <2>1, <2>2, <2>3, <1>4
\* the last partition
<1>8. Len(old) \in 1 .. Len(old)
  BY <1>L
<1>9. \A offset : LastIsFooterAt(old, offset) <=> LastIsFooterAt(new, offset)
  <2>1. new # <<>>
    BY <1>0, <1>L
  <2> QED BY <2>1, <1>0, <1>2, <1>8 DEF LastIsFooterAt
<1>10. FooterOf(old) > 0 => LastIsFooterAt(old, FooterOf(old))
  BY <1>2, <1>8 DEF FooterOf, LastIsFooterAt
<1>11. \A i \in 1 .. Len(old) : new[i].pack.footerPartition > 0
         => LastIsFooterAt(new, new[i].pack.footerPartition)
  <2> SUFFICES ASSUME NEW i \in 1 .. Len(old), new[i].pack.footerPartition > 0
               PROVE  LastIsFooterAt(old, new[i].pack.footerPartition)
    BY <1>9
  <2>1. new[i].pack.footerPartition \in {old[i].pack.footerPartition, FooterOf(old)}
    BY <1>1 DEF IsRelinked
  <2> QED BY <2>1, <1>1, <1>10 DEF Describes, KindsFit
<1>12. \A p \in PackOffsets(f) : g[p + 1].pack.footerPartition > 0
         => LastIsFooterAt(new, g[p + 1].pack.footerPartition)
  <2> SUFFICES ASSUME NEW p \in PackOffsets(f), g[p + 1].pack.footerPartition > 0
               PROVE  LastIsFooterAt(new, g[p + 1].pack.footerPartition)
    OBVIOUS
  <2>1. CASE g[p + 1] = f[p + 1]
    BY <2>1, <1>9 DEF Describes, Matches, PackInList
  <2> QED BY <2>1, <1>7, <1>11
<1>14. \A p \in PackOffsets(f) : g[p + 1].pack.kind = f[p + 1].pack.kind
         /\ g[p + 1].pack.thisPartition = p
  <2> SUFFICES ASSUME NEW p \in PackOffsets(f)
               PROVE  g[p + 1].pack.kind = f[p + 1].pack.kind
                      /\ g[p + 1].pack.thisPartition = p
    OBVIOUS
  <2>1. CASE g[p + 1] = f[p + 1]
    BY <2>1 DEF Sound, WellPlaced, PackPlaced
  <2>2. ASSUME NEW i \in 1 .. Len(old), old[i].pack.thisPartition = p,
               g[p + 1].pack = new[i].pack
        PROVE  g[p + 1].pack.kind = f[p + 1].pack.kind /\ g[p + 1].pack.thisPartition = p
    BY <2>2, <1>2, <1>3
  <2> QED BY <2>1, <2>2, <1>7
<1>15. WellPlaced(g)
  <2>1. ASSUME g # <<>> PROVE IsPackOrLost(g[1])
    <3>1. Len(f) # 0
      BY <2>1, <1>0, EmptySeq
    <3>2. 1 \in 1 .. Len(f) /\ f # <<>>
      BY <3>1, <1>F, EmptySeq
    <3>3. IsPackOrLost(f[1])
      BY <3>2 DEF Sound, WellPlaced
    <3> QED BY <3>2, <3>3, <1>5 DEF IsPackOrLost
  <2>2. ASSUME NEW p \in PackOffsets(g) PROVE PackPlaced(g, p)
    <3>1. PackPlaced(f, p)
      BY <1>6 DEF Sound, WellPlaced
    <3>2. g[p + 1].pack.kind = f[p + 1].pack.kind /\ g[p + 1].pack.thisPartition = p
      BY <1>6, <1>14
    <3> QED BY <3>1, <3>2 DEF PackPlaced
  <2> QED BY <2>1, <2>2 DEF WellPlaced
<1>16. RIPsFit(g)
  <2> SUFFICES ASSUME NEW c \in DOMAIN g, g[c].type = "rip" PROVE RIPFits(g, c)
    BY DEF RIPsFit
  <2>1. c \in 1 .. Len(f) /\ g[c] = f[c]
    BY <1>1, <1>4
  <2>2. RIPFits(f, c)
    BY <2>1, <1>1 DEF Sound, RIPsFit
  <2> DEFINE entries == g[c].entries
  <2>3. entries \in Seq(Nat) /\ entries = f[c].entries
    BY <2>1, ElementOfSeq, CellFields
  <2> HIDE DEF entries
  <2>4. ASSUME NEW i \in DOMAIN entries
        PROVE  entries[i] + 1 < c /\ IsPackOrLost(g[entries[i] + 1])
    <3>1. entries[i] \in Nat
      BY <2>3, LenProperties, ElementOfSeq
    <3>2. entries[i] + 1 < c /\ IsPackOrLost(f[entries[i] + 1])
      BY <2>2, <2>3 DEF RIPFits
    <3>3. entries[i] + 1 \in 1 .. Len(f)
      BY <3>1, <3>2, <2>1, <1>F
    <3> QED BY <3>2, <3>3, <1>5 DEF IsPackOrLost
  <2>5. \A p \in PackOffsets(g) : p + 1 < c => \E i \in DOMAIN entries : entries[i] = p
    BY <2>2, <2>3, <1>6 DEF RIPFits
  <2>6. \A i, j \in DOMAIN entries : i # j => entries[i] # entries[j]
    BY <2>2, <2>3 DEF RIPFits
  <2> QED BY <2>4, <2>5, <2>6 DEF RIPFits, entries
<1>17. OwnOffsets(new)
  BY <1>1, <1>2 DEF Describes, OwnOffsets
<1>18. KindsFit(new)
  BY <1>0, <1>1, <1>2, <1>11 DEF Describes, KindsFit
<1>19. Matches(new, g)
  <2>1. ASSUME NEW i \in DOMAIN new PROVE PartitionInFile(new[i], g)
    BY SMTT(60), <1>1, <1>2, <1>3, <1>6, <1>14 DEF PartitionInFile
  <2>2. ASSUME NEW p \in PackOffsets(g) PROVE PackInList(new, g, p)
    <3>1. PICK i \in DOMAIN old : old[i].pack.thisPartition = p
      BY <1>6 DEF Describes, Matches, PackInList
    <3>2. i \in DOMAIN new /\ new[i].written /\ new[i].pack.thisPartition = p
      BY <3>1, <1>1, <1>2
    <3>3. g[p + 1].pack.footerPartition > 0
            => LastIsFooterAt(new, g[p + 1].pack.footerPartition)
      BY <1>6, <1>12
    <3> QED BY <3>2, <3>3 DEF PackInList
  <2>3. new # <<>> /\ new[1].written
    <3>1. 1 \in 1 .. Len(old)
      BY <1>L
    <3> QED BY <3>1, <1>0, <1>L, <1>2
  <2> QED BY <2>1, <2>2, <2>3 DEF Matches
\* the links of a client that writes in order are right already
<1>20. ASSUME InOrderClient
       PROVE  InFileOrder(new) /\ LinkedInOrder(new) /\ Linked(g) /\ FooterLast(g)
  <2>1. InFileOrder(old) /\ LinkedInOrder(old) /\ Linked(f) /\ FooterLast(f)
    BY <1>20 DEF Describes, Sound
  <2>6. InFileOrder(new)
    BY <1>1, <1>2, <2>1 DEF InFileOrder
  \* a footer partition that is named is beyond all packs
  <2>7. ASSUME NEW offset, LastIsFooterAt(old, offset)
        PROVE  \A q \in PackOffsets(f) : q <= offset
    <3>1. offset \in PackOffsets(f) /\ f[offset + 1].pack.kind = "footer"
      BY <2>7, <1>3, <1>8 DEF LastIsFooterAt
    <3> QED BY <3>1, <2>1 DEF FooterLast
  <2>8. FooterLast(g)
    <3> SUFFICES ASSUME NEW p \in PackOffsets(f)
                 PROVE  /\ g[p + 1].pack.kind = "footer" => \A q \in PackOffsets(f) : q <= p
                        /\ g[p + 1].pack.footerPartition > 0
                             => \A q \in PackOffsets(f) : q <= g[p + 1].pack.footerPartition
      BY <1>6 DEF FooterLast
    <3>1. g[p + 1].pack.kind = "footer" => \A q \in PackOffsets(f) : q <= p
      BY <1>14, <2>1 DEF FooterLast
    <3>2. g[p + 1].pack.footerPartition > 0
            => \A q \in PackOffsets(f) : q <= g[p + 1].pack.footerPartition
      BY <1>9, <1>12, <2>7
    <3> QED BY <3>1, <3>2
  <2>2. ASSUME NEW i \in 1 .. Len(old), i > 1
        PROVE  /\ i - 1 \in 1 .. Len(old) - 1 /\ i - 1 \in 1 .. Len(old)
               /\ new[i].pack.previousPartition = old[i - 1].pack.thisPartition
    <3>1. i - 1 \in 1 .. Len(old) - 1 /\ i - 1 \in 1 .. Len(old) /\ (i - 1) + 1 = i
      BY <2>2, <1>L
    <3>2. old[i].pack.previousPartition = old[i - 1].pack.thisPartition
      BY <3>1, <2>1 DEF LinkedInOrder
    <3>3. new[i].pack.previousPartition \in {old[i].pack.previousPartition, PreviousOf(old, i)}
      BY <1>1 DEF IsRelinked
    <3>4. PreviousOf(old, i) = old[i - 1].pack.thisPartition
      BY <2>2 DEF PreviousOf
    <3> QED BY <3>1, <3>2, <3>3, <3>4
  <2>3. LinkedInOrder(new)
    <3> SUFFICES ASSUME NEW i \in 1 .. Len(new) - 1
                 PROVE  new[i].written
                        /\ new[i + 1].pack.previousPartition = new[i].pack.thisPartition
      BY DEF LinkedInOrder
    <3>1. i \in 1 .. Len(old) /\ i + 1 \in 1 .. Len(old) /\ i + 1 > 1 /\ (i + 1) - 1 = i
      BY <1>0, <1>L
    <3>2. new[i + 1].pack.previousPartition = old[(i + 1) - 1].pack.thisPartition
      BY <3>1, <2>2
    <3> QED BY <3>1, <3>2, <1>2
  <2>4. ASSUME NEW i \in 1 .. Len(old), old[i].pack.thisPartition > 0
        PROVE  /\ new[i].pack.previousPartition < old[i].pack.thisPartition
               /\ \A q \in PackOffsets(f) : ~(/\ new[i].pack.previousPartition < q
                                              /\ q < old[i].pack.thisPartition)
    <3>1. i # 1
      BY <2>4, <1>1, <1>2, HeaderPlaced
    <3>2. i > 1
      BY <3>1, <1>L
    <3>3. /\ i - 1 \in 1 .. Len(old) /\ i - 1 < i
          /\ new[i].pack.previousPartition = old[i - 1].pack.thisPartition
      BY <3>2, <2>2
    <3>4. old[i - 1].pack.thisPartition < old[i].pack.thisPartition
      BY <3>3, <1>1, <1>2, <2>1 DEF InFileOrder
    <3>5. ASSUME NEW q \in PackOffsets(f), old[i - 1].pack.thisPartition < q,
                 q < old[i].pack.thisPartition
          PROVE  FALSE
      <4>1. PICK j \in DOMAIN old : old[j].written /\ old[j].pack.thisPartition = q
        BY DEF Describes, Matches, PackInList
      <4>2. j \in 1 .. Len(old)
        BY <1>1
      <4>3. \A k, m \in 1 .. Len(old) : k < m
              => old[k].pack.thisPartition < old[m].pack.thisPartition
        BY <1>1, <1>2, <2>1 DEF InFileOrder
      <4>4. q \in Nat /\ old[i].pack.thisPartition \in Nat /\ old[i - 1].pack.thisPartition \in Nat
        BY <3>3, <1>3, PacksInFile
      <4>5. ~(j < i - 1)
        <5> SUFFICES ASSUME j < i - 1 PROVE FALSE
          OBVIOUS
        <5>1. old[j].pack.thisPartition < old[i - 1].pack.thisPartition
          BY <4>2, <4>3, <3>3
        <5> QED BY SMTT(60), <5>1, <4>1, <4>4, <3>5
      <4>6. ~(i < j)
        BY <4>1, <4>2, <4>3, <4>4, <3>5
      <4>7. j # i /\ j # i - 1
        BY <4>1, <4>4, <3>5
      <4> QED BY <4>2, <4>5, <4>6, <4>7, <1>L
    <3> QED BY <3>3, <3>4, <3>5
  <2>5. ASSUME NEW p \in PackOffsets(f), p > 0
        PROVE  /\ g[p + 1].pack.previousPartition < p
               /\ \A q \in PackOffsets(f) : ~(g[p + 1].pack.previousPartition < q /\ q < p)
    <3>1. CASE g[p + 1] = f[p + 1]
      BY <3>1, <2>1, <2>5 DEF Linked
    <3> QED BY SMTT(60), <3>1, <1>7, <2>4, <2>5
  <2>9. Linked(g)
    BY <2>5, <1>6 DEF Linked
  <2> QED BY <2>3, <2>6, <2>8, <2>9
<1> QED BY <1>5, <1>6, <1>15, <1>16, <1>17, <1>18, <1>19, <1>20 DEF Sound, Describes

LEMMA Updated ==
  ASSUME NEW list \in Seq(Partitions), list # <<>>
  PROVE  LET new == UpdatedInMemory(list)
         IN /\ new \in Seq(Partitions) /\ Len(new) = Len(list)
            /\ \A i \in DOMAIN list :
                 /\ SamePartition(list[i], new[i])
                 /\ new[i].pack.footerPartition = FooterOf(list)
                 /\ new[i].pack.previousPartition = PreviousOf(list, i)
<1> DEFINE new == UpdatedInMemory(list)
           last == list[Len(list)].pack
           footer == IF last.kind = "footer" THEN last.thisPartition ELSE 0
           one(i) == [list[i] EXCEPT !.pack.previousPartition = PreviousOf(list, i)]
           both(i) == [one(i) EXCEPT !.pack.footerPartition = footer]
<1>1. DOMAIN list = 1 .. Len(list) /\ Len(list) \in Nat /\ Len(list) \in 1 .. Len(list)
  BY LenProperties, EmptySeq
<1>2. \A i \in 1 .. Len(list) : list[i] \in Partitions /\ list[i].pack.thisPartition \in Nat
  BY ElementOfSeq, PartitionFields, PackFields
<1>3. footer \in Nat /\ footer = FooterOf(list)
  BY <1>1, <1>2 DEF FooterOf
<1>4. ASSUME NEW i \in 1 .. Len(list) PROVE PreviousOf(list, i) \in Nat
  <2>1. CASE i = 1
    BY <2>1 DEF PreviousOf
  <2>2. CASE i # 1
    <3>1. i - 1 \in 1 .. Len(list)
      BY <2>2, <1>1
    <3> QED BY <3>1, <2>2, <1>2 DEF PreviousOf
  <2> QED BY <2>1, <2>2
<1>5. new = [i \in 1 .. Len(list) |-> both(i)]
  BY <1>1 DEF UpdatedInMemory, PreviousOf
<1> HIDE DEF new, footer
<1>6. ASSUME NEW i \in 1 .. Len(list)
      PROVE  /\ both(i) \in Partitions /\ SamePartition(list[i], both(i))
             /\ both(i).pack.footerPartition = footer
             /\ both(i).pack.previousPartition = PreviousOf(list, i)
  <2>1. /\ one(i) \in Partitions /\ SamePartition(list[i], one(i))
        /\ one(i).pack.previousPartition = PreviousOf(list, i)
    <3>1. list[i] \in Partitions /\ PreviousOf(list, i) \in Nat
      BY <1>2, <1>4
    <3>2. /\ one(i) \in Partitions /\ one(i).id = list[i].id
          /\ one(i).written = list[i].written /\ one(i).pack.kind = list[i].pack.kind
          /\ one(i).pack.thisPartition = list[i].pack.thisPartition
          /\ one(i).pack.previousPartition = PreviousOf(list, i)
      BY <3>1, WithPrevious
    <3> QED BY <3>2 DEF SamePartition
  <2> HIDE DEF one
  <2>2. /\ both(i) \in Partitions /\ SamePartition(one(i), both(i))
        /\ both(i).pack.footerPartition = footer
        /\ both(i).pack.previousPartition = one(i).pack.previousPartition
    BY ZenonT(60), <2>1, <1>3, WithFooter DEF SamePartition
  <2> QED BY <2>1, <2>2 DEF SamePartition
<1> HIDE DEF both
<1>7. new \in Seq(Partitions)
  BY <1>1, <1>5, <1>6, IsASeq
<1>8. Len(new) = Len(list) /\ \A i \in 1 .. Len(list) : new[i] = both(i)
  BY <1>1, <1>5
<1> QED BY <1>1, <1>3, <1>6, <1>7, <1>8 DEF new

LEMMA UpdatedIsRelinked ==
  ASSUME NEW list \in Seq(Partitions), list # <<>>
  PROVE  UpdatedInMemory(list) \in Seq(Partitions) /\ IsRelinked(list, UpdatedInMemory(list))
BY Updated DEF IsRelinked

LEMMA UnchangedIsRelinked ==
  ASSUME NEW list \in Seq(Partitions)
  PROVE  IsRelinked(list, list)
BY DEF IsRelinked, SamePartition

LEMMA UpdateListIsRelinked ==
  ASSUME partitions \in Seq(Partitions), partitions # <<>>
  PROVE  UpdateList \in Seq(Partitions) /\ IsRelinked(partitions, UpdateList)
BY UpdatedIsRelinked, UnchangedIsRelinked DEF UpdateList

LEMMA StreamListIsRelinked ==
  ASSUME partitions \in Seq(Partitions), partitions # <<>>, NEW order
  PROVE  StreamList(order) \in Seq(Partitions) /\ IsRelinked(partitions, StreamList(order))
BY UpdatedIsRelinked, UnchangedIsRelinked DEF StreamList

LEMMA BodyListIsRelinked ==
  ASSUME partitions \in Seq(Partitions), partitions # <<>>, NEW order, NEW setKey \in BOOLEAN
  PROVE  BodyList(order, setKey) \in Seq(Partitions)
         /\ IsRelinked(partitions, BodyList(order, setKey))
<1> DEFINE isKeyed(i) == setKey /\ i \in ToSet(order)
           keyed == [i \in DOMAIN partitions |->
                       IF isKeyed(i) THEN [partitions[i] EXCEPT !.pack.closed = TRUE]
                       ELSE partitions[i]]
<1>1. DOMAIN partitions = 1 .. Len(partitions) /\ Len(partitions) \in Nat
      /\ Len(partitions) \in 1 .. Len(partitions)
  BY LenProperties, EmptySeq
<1> HIDE DEF isKeyed
<1>2. ASSUME NEW i \in 1 .. Len(partitions)
      PROVE  /\ keyed[i] \in Partitions /\ SamePartition(partitions[i], keyed[i])
             /\ keyed[i].pack.footerPartition = partitions[i].pack.footerPartition
             /\ keyed[i].pack.previousPartition = partitions[i].pack.previousPartition
  <2>1. partitions[i] \in Partitions
    BY ElementOfSeq
  <2>2. CASE isKeyed(i)
    <3>1. keyed[i] = [partitions[i] EXCEPT !.pack.closed = TRUE]
      BY <2>2, <1>1
    <3> HIDE DEF keyed
    <3> QED BY <3>1, <2>1, WithKey DEF SamePartition
  <2>3. CASE ~isKeyed(i)
    <3>1. keyed[i] = partitions[i]
      BY <2>3, <1>1
    <3> HIDE DEF keyed
    <3> QED BY <3>1, <2>1 DEF SamePartition
  <2> QED BY <2>2, <2>3
<1>3. keyed = [i \in 1 .. Len(partitions) |-> keyed[i]]
  BY <1>1
<1>4. BodyList(order, setKey) = IF order = <<>> THEN partitions ELSE UpdatedInMemory(keyed)
  BY DEF BodyList, isKeyed
<1> HIDE DEF keyed
<1>5. keyed \in Seq(Partitions)
  BY <1>1, <1>2, <1>3, IsASeq
<1>6. Len(keyed) = Len(partitions) /\ keyed # <<>> /\ DOMAIN keyed = 1 .. Len(partitions)
  BY <1>1, <1>3
<1>7. FooterOf(keyed) = FooterOf(partitions)
  BY <1>1, <1>2, <1>6 DEF FooterOf, SamePartition
<1>8. ASSUME NEW i \in 1 .. Len(partitions) PROVE PreviousOf(keyed, i) = PreviousOf(partitions, i)
  <2>1. CASE i = 1
    BY <2>1 DEF PreviousOf
  <2>2. CASE i # 1
    <3>1. i - 1 \in 1 .. Len(partitions)
      BY <2>2, <1>1
    <3> QED BY <3>1, <2>2, <1>2 DEF PreviousOf, SamePartition
  <2> QED BY <2>1, <2>2
<1> DEFINE new == UpdatedInMemory(keyed)
<1>9. /\ new \in Seq(Partitions) /\ Len(new) = Len(keyed)
      /\ \A i \in DOMAIN keyed :
           /\ SamePartition(keyed[i], new[i])
           /\ new[i].pack.footerPartition = FooterOf(keyed)
           /\ new[i].pack.previousPartition = PreviousOf(keyed, i)
  BY <1>5, <1>6, Updated
<1> HIDE DEF new
<1>10. \A i \in 1 .. Len(partitions) :
         /\ SamePartition(partitions[i], new[i])
         /\ new[i].pack.footerPartition = FooterOf(partitions)
         /\ new[i].pack.previousPartition = PreviousOf(partitions, i)
  BY <1>2, <1>6, <1>7, <1>8, <1>9 DEF SamePartition
<1>11. IsRelinked(partitions, new)
  BY <1>1, <1>6, <1>9, <1>10 DEF IsRelinked
<1> QED BY <1>4, <1>9, <1>11, UnchangedIsRelinked DEF new

\* The current file after a rewrite: a cell is rewritten with the pack of a
\* partition that is at its offset, or left as it was when there is none.
LEMMA RewrittenCells ==
  ASSUME FilesOK, NEW list \in Seq(Partitions), NEW order \in Seq(1 .. Len(list)),
         NEW n \in 0 .. Len(order)
  PROVE  LET cells == Rewritten(list, order, n)
         IN /\ cells \in Seq(Cells) /\ Len(cells) = Len(CurrentCells)
            /\ \A c \in 1 .. Len(CurrentCells) :
                 \/ /\ cells[c] = CurrentCells[c]
                    /\ \A k \in 1 .. n :
                         list[order[k]].pack.thisPartition # CurrentStart + c - 1
                 \/ \E k \in 1 .. n :
                      /\ list[order[k]].pack.thisPartition = CurrentStart + c - 1
                      /\ cells[c].type = "pack" /\ cells[c].pack = list[order[k]].pack
                      /\ cells[c].llen = CurrentLLen
<1> DEFINE here(c) == {k \in 1 .. n : list[order[k]].pack.thisPartition = CurrentStart + c - 1}
           new(c) == [type |-> "pack", pack |-> list[order[Max(here(c))]].pack, llen |-> CurrentLLen]
           cells == Rewritten(list, order, n)
<1>1. /\ CurrentCells \in Seq(Cells) /\ Len(CurrentCells) \in Nat /\ CurrentLLen \in MinLLens
      /\ DOMAIN CurrentCells = 1 .. Len(CurrentCells)
  BY CurrentFile
<1>2. n \in Nat /\ \A k \in 1 .. n : k \in 1 .. Len(order)
  BY LenProperties
<1>3. ASSUME NEW c, here(c) # {} PROVE Max(here(c)) \in here(c)
  <2>1. here(c) \in SUBSET Nat /\ \A y \in here(c) : y <= n
    BY <1>2
  <2> HIDE DEF here
  <2> QED BY <2>1, <1>2, <1>3, MaxIsGreatest
<1>4. cells = [c \in 1 .. Len(CurrentCells) |-> IF here(c) = {} THEN CurrentCells[c] ELSE new(c)]
  BY <1>1 DEF Rewritten
<1> HIDE DEF cells
<1>5. Len(cells) = Len(CurrentCells)
  BY SMTT(60), <1>1, <1>4
<1>6. ASSUME NEW c \in 1 .. Len(CurrentCells), here(c) # {}
      PROVE  /\ cells[c] = new(c) /\ new(c) \in Cells
             /\ Max(here(c)) \in 1 .. n
             /\ list[order[Max(here(c))]].pack.thisPartition = CurrentStart + c - 1
  <2>1. Max(here(c)) \in 1 .. n
        /\ list[order[Max(here(c))]].pack.thisPartition = CurrentStart + c - 1
    <3> HIDE DEF here
    <3>1. Max(here(c)) \in here(c)
      BY <1>3, <1>6
    <3> QED BY ONLY <3>1 DEF here
  <2> HIDE DEF here
  <2>2. order[Max(here(c))] \in 1 .. Len(list)
    BY <2>1, <1>2, ElementOfSeq
  <2>3. list[order[Max(here(c))]].pack \in Packs
    BY SMTT(60), <2>2, ElementOfSeq, PartitionFields
  <2>4. new(c) \in Cells
    BY ZenonT(60), <2>3, <1>1, CellsToWrite
  <2>5. cells[c] = new(c)
    BY <1>4, <1>6
  <2> HIDE DEF new
  <2> QED BY ONLY <2>1, <2>4, <2>5
<1>7. ASSUME NEW c \in 1 .. Len(CurrentCells), here(c) = {}
      PROVE  cells[c] = CurrentCells[c] /\ cells[c] \in Cells
  <2> HIDE DEF here, new
  <2>1. cells[c] = CurrentCells[c]
    BY <1>4, <1>7
  <2>2. CurrentCells[c] \in Cells
    BY SMTT(60), <1>1, ElementOfSeq
  <2> QED BY SMTT(60), <2>1, <2>2
<1>8. cells = [c \in 1 .. Len(CurrentCells) |-> cells[c]]
  BY <1>4
<1>9. cells \in Seq(Cells)
  <2> HIDE DEF here, new
  <2>1. \A c \in 1 .. Len(CurrentCells) : cells[c] \in Cells
    BY <1>6, <1>7
  <2> QED BY <2>1, <1>1, <1>8, IsASeq
<1>10. ASSUME NEW c \in 1 .. Len(CurrentCells)
       PROVE  \/ /\ cells[c] = CurrentCells[c]
                 /\ \A k \in 1 .. n :
                      list[order[k]].pack.thisPartition # CurrentStart + c - 1
              \/ \E k \in 1 .. n :
                   /\ list[order[k]].pack.thisPartition = CurrentStart + c - 1
                   /\ cells[c].type = "pack" /\ cells[c].pack = list[order[k]].pack
                   /\ cells[c].llen = CurrentLLen
  <2>1. CASE here(c) = {}
    BY SMTT(60), <2>1, <1>7
  <2>2. CASE here(c) # {}
    <3>1. cells[c] = new(c)
      BY <2>2, <1>6
    <3>3. new(c).type = "pack" /\ new(c).pack = list[order[Max(here(c))]].pack
          /\ new(c).llen = CurrentLLen
      BY SMTT(60)
    <3>4. Max(here(c)) \in 1 .. n
          /\ list[order[Max(here(c))]].pack.thisPartition = CurrentStart + c - 1
      BY <2>2, <1>6
    <3> HIDE DEF here, new
    <3> QED BY <3>1, <3>3, <3>4
  <2> QED BY <2>1, <2>2
<1> QED BY <1>5, <1>9, <1>10 DEF cells

LEMMA WholeFileRewritten ==
  ASSUME FilesOK, NEW list \in Seq(Partitions), NEW order \in Seq(1 .. Len(list)),
         NEW n \in 0 .. Len(order), SetCurrentCells(Rewritten(list, order, n))
  PROVE  IsRewritten(list, WholeFile, WholeFile')
<1> DEFINE cells == Rewritten(list, order, n)
<1>1. /\ cells \in Seq(Cells) /\ Len(cells) = Len(CurrentCells)
      /\ \A c \in 1 .. Len(CurrentCells) :
           \/ cells[c] = CurrentCells[c]
           \/ \E k \in 1 .. n :
                /\ list[order[k]].pack.thisPartition = CurrentStart + c - 1
                /\ cells[c].type = "pack" /\ cells[c].pack = list[order[k]].pack
  BY RewrittenCells
<1> HIDE DEF cells
<1>2. /\ CurrentStart \in Nat /\ Len(CurrentCells) \in Nat
      /\ Len(WholeFile) = CurrentStart + Len(CurrentCells)
      /\ \A c \in 1 .. Len(CurrentCells) : WholeFile[CurrentStart + c] = CurrentCells[c]
  BY CurrentFile
<1>3. /\ Len(WholeFile') = CurrentStart + Len(cells)
      /\ \A c \in 1 .. CurrentStart : WholeFile'[c] = WholeFile[c]
      /\ \A c \in 1 .. Len(cells) : WholeFile'[CurrentStart + c] = cells[c]
  BY <1>1, CurrentFileSet DEF cells
<1>4. ASSUME NEW k \in 1 .. n PROVE order[k] \in DOMAIN list
  <2>1. k \in 1 .. Len(order)
    BY LenProperties
  <2> QED BY <2>1, ElementOfSeq, LenProperties
<1>5. ASSUME NEW c \in 1 .. Len(WholeFile), WholeFile'[c] # WholeFile[c]
      PROVE  /\ WholeFile'[c].type = "pack"
             /\ \E i \in DOMAIN list : list[i].pack.thisPartition + 1 = c
                                       /\ WholeFile'[c].pack = list[i].pack
  <2> DEFINE d == c - CurrentStart
  <2>1. ~(c <= CurrentStart)
    BY <1>2, <1>3, <1>5
  <2>2. d \in 1 .. Len(CurrentCells) /\ CurrentStart + d = c /\ d \in 1 .. Len(cells)
    BY <2>1, <1>1, <1>2
  <2>3. WholeFile'[c] = cells[d] /\ WholeFile[c] = CurrentCells[d]
    BY <2>2, <1>2, <1>3
  <2>4. PICK k \in 1 .. n :
          /\ list[order[k]].pack.thisPartition = CurrentStart + d - 1
          /\ cells[d].type = "pack" /\ cells[d].pack = list[order[k]].pack
    BY <2>2, <2>3, <1>1, <1>5
  <2>5. CurrentStart + d - 1 = c - 1 /\ (c - 1) + 1 = c
    BY <1>2
  <2> QED BY <2>3, <2>4, <2>5, <1>4
<1> QED BY <1>1, <1>2, <1>3, <1>5 DEF IsRewritten

-----------------------------------------------------------------------------
(* The partitions that are rewritten *)

ListOK ==
  /\ partitions \in Seq(Partitions) /\ partitions # <<>> /\ Len(partitions) <= MaxPartitions
  /\ firstMemoryPartitionIndex \in Nat /\ lastMemoryPartitionIndex \in Nat

LEMMA ListLength ==
  ASSUME ListOK
  PROVE  /\ Len(partitions) \in Nat /\ Len(partitions) > 0
         /\ MaxPartitions \in Nat /\ NPos \in Nat /\ Len(partitions) < NPos
BY LenProperties, EmptySeq, ConstantsAssumption DEF ListOK, NPos

\* The whole list from an index on, or up to another.
ListEnd(last) ==
  IF last # NPos /\ last + 1 < Len(partitions) THEN last + 1 ELSE Len(partitions)

LEMMA PartitionListTo ==
  ASSUME ListOK, NEW first \in 0 .. Len(partitions), NEW last \in Nat
  PROVE  /\ PartitionList(first, last) \in Seq(1 .. Len(partitions))
         /\ DOMAIN PartitionList(first, last) = 1 .. ListEnd(last) - first
         /\ \A k \in 1 .. ListEnd(last) - first : PartitionList(first, last)[k] = first + k
<1> DEFINE end == ListEnd(last)
           n == IF first <= end THEN end - first ELSE 0
<1>1. Len(partitions) \in Nat /\ first \in Nat /\ last \in Nat
  BY ListLength
<1>2. end \in Nat /\ end <= Len(partitions)
  BY <1>1 DEF ListEnd
<1>3. PartitionList(first, last) = [k \in 1 .. end - first |-> first + k]
  BY DEF PartitionList, ListEnd
<1> HIDE DEF end
<1>4. n \in Nat /\ 1 .. end - first = 1 .. n
  BY <1>1, <1>2
<1>5. \A k \in 1 .. n : first + k \in 1 .. Len(partitions)
  BY <1>1, <1>2
<1>6. PartitionList(first, last) = [k \in 1 .. n |-> first + k]
  BY <1>3, <1>4
<1> HIDE DEF n
<1>7. PartitionList(first, last) \in Seq(1 .. Len(partitions))
  BY <1>4, <1>5, <1>6, IsASeq
<1> QED BY <1>3, <1>7 DEF end

\* One step of the scan: the next run of adjacent wanted partitions.
RunFrom(wanted, first) == Min(((first .. ScanLast) \cap wanted) \cup {ScanLast + 1})
RunTo(wanted, first) ==
  Min({j \in RunFrom(wanted, first) .. ScanLast + 1 :
         ~(j + 1 <= ScanLast /\ j + 1 \in wanted)})
Run(wanted, first) ==
  IF RunTo(wanted, first) <= ScanLast
  THEN PartitionList(RunFrom(wanted, first), RunTo(wanted, first)) ELSE <<>>

LEMMA ScanBounds ==
  ASSUME ListOK
  PROVE  /\ ScanLast \in 0 .. Len(partitions) - 1 /\ ScanLast \in Nat
         /\ ScanFirst \in Nat
<1>1. Len(partitions) \in Nat /\ Len(partitions) > 0 /\ NPos \in Nat
  BY ListLength
<1>2. firstMemoryPartitionIndex \in Nat /\ lastMemoryPartitionIndex \in Nat
  BY <1>1 DEF ListOK
<1>3. ScanFirst \in Nat
  BY <1>2 DEF ScanFirst
<1>4. ScanLast \in 0 .. Len(partitions) - 1
  BY <1>1, <1>2 DEF ScanLast
<1> QED BY <1>1, <1>3, <1>4

LEMMA RunIs ==
  ASSUME ListOK, NEW wanted \in SUBSET Nat, NEW first \in 0 .. ScanLast
  PROVE  /\ RunTo(wanted, first) \in Nat
         /\ first <= RunTo(wanted, first) /\ RunTo(wanted, first) <= ScanLast + 1
         /\ Run(wanted, first) \in Seq(1 .. Len(partitions))
         /\ \A i \in Nat : (\E k \in DOMAIN Run(wanted, first) : Run(wanted, first)[k] = i + 1)
                   <=> first <= i /\ i <= RunTo(wanted, first) /\ i <= ScanLast /\ i \in wanted
<1> DEFINE last == ScanLast
           from == RunFrom(wanted, first)
           to == RunTo(wanted, first)
<1>1. last \in Nat /\ last \in 0 .. Len(partitions) - 1 /\ first \in Nat /\ first <= last
      /\ Len(partitions) \in Nat /\ Len(partitions) < NPos /\ NPos \in Nat
  BY ScanBounds, ListLength
<1>2. /\ from \in Nat /\ first <= from /\ from <= last + 1
      /\ from <= last => from \in wanted
      /\ \A i \in Nat : first <= i /\ i <= last /\ i \in wanted => from <= i
  <2> DEFINE T == ((first .. last) \cap wanted) \cup {last + 1}
  <2>1. T \in SUBSET Nat /\ T # {} /\ last + 1 \in T
    BY <1>1
  <2>2. from = Min(T)
    BY DEF RunFrom
  <2>3. from \in T /\ \A y \in T : from <= y
    <3> HIDE DEF T, from
    <3> QED BY <2>1, <2>2, MinIsLeast
  <2> HIDE DEF from
  <2> QED BY <2>1, <2>3, <1>1
<1>3. /\ to \in Nat /\ from <= to /\ to <= last + 1
      /\ from <= last => to <= last
      /\ \A i \in Nat : from < i /\ i <= to => i <= last /\ i \in wanted
  <2> DEFINE T == {j \in from .. last + 1 : ~(j + 1 <= last /\ j + 1 \in wanted)}
  <2>1. T \in SUBSET Nat /\ last + 1 \in T /\ (from <= last => last \in T)
    <3> HIDE DEF from
    <3> QED BY <1>1, <1>2
  <2>2. to = Min(T)
    BY DEF RunTo
  <2>3. to \in T /\ \A y \in T : to <= y
    <3> HIDE DEF T, to
    <3> QED BY <2>1, <2>2, MinIsLeast
  <2> HIDE DEF to
  <2>4. to \in Nat /\ from <= to /\ to <= last + 1 /\ (from <= last => to <= last)
    BY <2>1, <2>3, <1>1, <1>2
  <2>5. ASSUME NEW i \in Nat, from < i, i <= to PROVE i <= last /\ i \in wanted
    <3>1. i - 1 \in from .. last + 1 /\ ~(to <= i - 1) /\ (i - 1) + 1 = i
      BY <2>4, <2>5, <1>1, <1>2
    <3>2. i - 1 \notin T
      BY <3>1, <2>3
    <3> QED BY <3>1, <3>2
  <2> QED BY <2>4, <2>5
<1> HIDE DEF from, to, last
<1>6. SUFFICES /\ to \in Nat /\ first <= to /\ to <= last + 1
               /\ Run(wanted, first) \in Seq(1 .. Len(partitions))
               /\ \A i \in Nat : (\E k \in DOMAIN Run(wanted, first) : Run(wanted, first)[k] = i + 1)
                       <=> first <= i /\ i <= to /\ i <= last /\ i \in wanted
  BY DEF to, last
<1>4. CASE to <= last
  <2>1. Run(wanted, first) = PartitionList(from, to)
    BY <1>4 DEF Run, from, to, last
  <2>2. from \in 0 .. Len(partitions) /\ to \in Nat /\ to + 1 <= Len(partitions) /\ to # NPos
    BY <1>1, <1>2, <1>3, <1>4
  <2>3. ListEnd(to) = to + 1
    BY <2>2, <1>1, <1>3 DEF ListEnd
  <2>4. /\ PartitionList(from, to) \in Seq(1 .. Len(partitions))
        /\ DOMAIN PartitionList(from, to) = 1 .. (to + 1) - from
        /\ \A k \in 1 .. (to + 1) - from : PartitionList(from, to)[k] = from + k
    BY <2>2, <2>3, PartitionListTo
  <2>5. ASSUME NEW i \in Nat
        PROVE  (\E k \in 1 .. (to + 1) - from : from + k = i + 1) <=> from <= i /\ i <= to
    <3>1. ASSUME from <= i, i <= to PROVE \E k \in 1 .. (to + 1) - from : from + k = i + 1
      <4>1. (i + 1) - from \in 1 .. (to + 1) - from /\ from + ((i + 1) - from) = i + 1
        BY <3>1, <1>2, <1>3
      <4> QED BY <4>1
    <3>2. ASSUME NEW k \in 1 .. (to + 1) - from, from + k = i + 1 PROVE from <= i /\ i <= to
      BY <3>2, <1>2, <1>3
    <3> QED BY <3>1, <3>2
  <2>6. ASSUME NEW i \in Nat
        PROVE  from <= i /\ i <= to <=> first <= i /\ i <= to /\ i <= last /\ i \in wanted
    BY <1>1, <1>2, <1>3, <1>4
  <2>7. ASSUME NEW i \in Nat
        PROVE  (\E k \in DOMAIN Run(wanted, first) : Run(wanted, first)[k] = i + 1)
                 <=> \E k \in 1 .. (to + 1) - from : from + k = i + 1
    BY <2>1, <2>4
  <2>8. \A i \in Nat : (\E k \in DOMAIN Run(wanted, first) : Run(wanted, first)[k] = i + 1)
                   <=> first <= i /\ i <= to /\ i <= last /\ i \in wanted
    BY <2>5, <2>6, <2>7
  <2> QED BY <2>1, <2>4, <2>8, <1>2, <1>3, <1>1
<1>5. CASE ~(to <= last)
  <2>1. Run(wanted, first) = <<>> /\ DOMAIN Run(wanted, first) = {}
    BY <1>5 DEF Run, to, last
  <2>2. from = last + 1
    BY <1>1, <1>2, <1>3, <1>5
  <2>3. ASSUME NEW i \in Nat, first <= i, i <= last, i \in wanted PROVE FALSE
    BY <2>2, <2>3, <1>1, <1>2
  <2>4. \A i \in Nat : (\E k \in DOMAIN Run(wanted, first) : Run(wanted, first)[k] = i + 1)
                   <=> first <= i /\ i <= to /\ i <= last /\ i \in wanted
    BY <2>1, <2>3
  <2>5. <<>> \in Seq(1 .. Len(partitions))
    OBVIOUS
  <2> QED BY <2>1, <2>4, <2>5, <1>1, <1>2, <1>3
<1> QED BY <1>4, <1>5

\* What is in two sequences put together.
Holds(s, x) == \E k \in DOMAIN s : s[k] = x

LEMMA ElementsOfConcat ==
  ASSUME NEW V, NEW a \in Seq(V), NEW b \in Seq(V)
  PROVE  \A x : Holds(a \o b, x) <=> Holds(a, x) \/ Holds(b, x)
<1> TAKE x
<1>1. /\ a \o b \in Seq(V) /\ Len(a \o b) = Len(a) + Len(b)
      /\ \A i \in 1 .. Len(a) + Len(b) : (a \o b)[i] = IF i <= Len(a) THEN a[i] ELSE b[i - Len(a)]
  BY ConcatProperties
<1>2. /\ Len(a) \in Nat /\ Len(b) \in Nat
      /\ DOMAIN (a \o b) = 1 .. Len(a) + Len(b) /\ DOMAIN a = 1 .. Len(a) /\ DOMAIN b = 1 .. Len(b)
  BY <1>1, LenProperties
<1> DEFINE ab == a \o b
<1> HIDE DEF ab
<1>3. \A i \in DOMAIN ab : ab[i] = IF i <= Len(a) THEN a[i] ELSE b[i - Len(a)]
  BY <1>1, <1>2 DEF ab
<1>4. DOMAIN ab = 1 .. Len(a) + Len(b)
  BY <1>2 DEF ab
<1>5. ASSUME NEW k \in DOMAIN ab, ab[k] = x
      PROVE  (\E j \in DOMAIN a : a[j] = x) \/ (\E j \in DOMAIN b : b[j] = x)
  <2>1. CASE k <= Len(a)
    <3>1. k \in DOMAIN a /\ a[k] = x
      BY <2>1, <1>5, <1>2, <1>3, <1>4
    <3> QED BY <3>1
  <2>2. CASE ~(k <= Len(a))
    <3>1. k - Len(a) \in DOMAIN b
      BY <2>2, <1>2, <1>4
    <3>2. b[k - Len(a)] = x
      BY <2>2, <1>5, <1>3
    <3> QED BY <3>1, <3>2
  <2> QED BY <2>1, <2>2
<1>6. ASSUME NEW k \in DOMAIN a, a[k] = x PROVE \E j \in DOMAIN ab : ab[j] = x
  <2>1. k \in DOMAIN ab /\ k <= Len(a)
    BY <1>2, <1>4
  <2> QED BY <2>1, <1>3, <1>6
<1>7. ASSUME NEW k \in DOMAIN b, b[k] = x PROVE \E j \in DOMAIN ab : ab[j] = x
  <2>1. Len(a) + k \in DOMAIN ab /\ ~(Len(a) + k <= Len(a)) /\ (Len(a) + k) - Len(a) = k
    BY <1>2, <1>4
  <2> QED BY <2>1, <1>3, <1>7
<1> QED BY <1>5, <1>6, <1>7 DEF ab, Holds

\* The scan: the runs from each index on.
ScanFrom(scan, wanted, first) ==
  IF first > ScanLast THEN <<>> ELSE Run(wanted, first) \o scan[RunTo(wanted, first) + 1]

IsScan(scan, wanted) ==
  scan = [first \in 0 .. ScanLast + 2 |-> ScanFrom(scan, wanted, first)]

LEMMA ScanExists ==
  ASSUME ListOK, NEW wanted \in SUBSET Nat
  PROVE  \E scan : IsScan(scan, wanted)
<1> DEFINE N == ScanLast + 2
           V == Seq(1 .. Len(partitions))
           Ends == {first \in 0 .. N : first > ScanLast}
           base == [first \in 0 .. N |-> <<>>]
           next == [first \in 0 .. N |-> IF first \in Ends THEN 0 ELSE RunTo(wanted, first) + 1]
           step == [p \in (0 .. N) \X V |-> IF p[1] \in Ends THEN <<>> ELSE Run(wanted, p[1]) \o p[2]]
<1>1. N \in Nat /\ ScanLast \in Nat
  BY ScanBounds
<1>v. <<>> \in V
  OBVIOUS
<1>2. base \in [0 .. N -> V]
  <2> HIDE DEF V
  <2> QED BY <1>v
<1>3. ASSUME NEW first \in 0 .. N, first \notin Ends
      PROVE  /\ RunTo(wanted, first) + 1 \in Nat
             /\ first < RunTo(wanted, first) + 1 /\ RunTo(wanted, first) + 1 <= N
             /\ Run(wanted, first) \in V
  <2>1. first \in 0 .. ScanLast
    BY <1>1, <1>3
  <2>2. /\ RunTo(wanted, first) \in Nat /\ first <= RunTo(wanted, first)
        /\ RunTo(wanted, first) <= ScanLast + 1 /\ Run(wanted, first) \in V
    BY <2>1, RunIs
  <2> QED BY <2>1, <2>2, <1>1
<1>4. next \in [0 .. N -> Nat]
  <2> HIDE DEF Ends, N
  <2> QED BY <1>3
<1>5. \A first \in 0 .. N : first \notin Ends => first < next[first] /\ next[first] <= N
  <2> HIDE DEF Ends, N
  <2> QED BY <1>3
<1>6. step \in [(0 .. N) \X V -> V]
  <2> SUFFICES ASSUME NEW p \in (0 .. N) \X V PROVE step[p] \in V
    <3> HIDE DEF V, N, Ends
    <3> QED OBVIOUS
  <2>1. p[1] \in 0 .. N /\ p[2] \in V
    OBVIOUS
  <2>2. CASE p[1] \in Ends
    <3> HIDE DEF V, Ends, N
    <3>1. step[p] = <<>>
      BY <2>2
    <3> QED BY <3>1, <1>v
  <2>3. CASE p[1] \notin Ends
    <3>1. step[p] = Run(wanted, p[1]) \o p[2]
      BY <2>3
    <3>2. Run(wanted, p[1]) \in V
      BY <2>1, <2>3, <1>3
    <3>3. Run(wanted, p[1]) \o p[2] \in V
      BY <3>2, <2>1, ConcatProperties
    <3> HIDE DEF step, V
    <3> QED BY <3>1, <3>3
  <2> QED BY <2>2, <2>3
<1>7. \A first \in 0 .. N, v \in V : first \notin Ends =>
        step[<<first, v>>] = Run(wanted, first) \o v
  <2> HIDE DEF V, N, Ends
  <2> QED OBVIOUS
<1>8. \A first \in 0 .. N : base[first] = <<>>
  OBVIOUS
<1>e. \A first \in 0 .. N : first \in Ends => first > ScanLast
  OBVIOUS
<1>f. \A first \in 0 .. N : first \notin Ends => ~(first > ScanLast)
  OBVIOUS
<1>n. \A first \in 0 .. N : first \notin Ends => next[first] = RunTo(wanted, first) + 1
  OBVIOUS
<1> HIDE DEF base, next, step, Ends, V, N
<1>9. PICK scan \in [0 .. N -> V] : IsFromAbove(scan, N, Ends, base, next, step)
  BY <1>1, <1>2, <1>4, <1>5, <1>6, RecursionFromAbove
<1>10. ASSUME NEW first \in 0 .. N PROVE scan[first] = ScanFrom(scan, wanted, first)
  <2>1. CASE first \in Ends
    <3>1. scan[first] = base[first]
      BY <2>1, <1>9 DEF IsFromAbove
    <3>2. base[first] = <<>>
      BY <1>8
    <3>3. first > ScanLast
      BY <2>1, <1>e
    <3> QED BY <3>1, <3>2, <3>3 DEF ScanFrom
  <2>2. CASE first \notin Ends
    <3>1. scan[first] = step[<<first, scan[next[first]]>>]
      BY <2>2, <1>9 DEF IsFromAbove
    <3>2. next[first] = RunTo(wanted, first) + 1
      BY <2>2, <1>n
    <3>7. ~(first > ScanLast)
      BY <2>2, <1>f
    <3>3. next[first] \in Nat /\ next[first] <= N
      BY <2>2, <1>4, <1>5
    <3>4. next[first] \in 0 .. N
      BY <3>3, <1>1
    <3>5. scan[next[first]] \in V
      BY <3>4
    <3>6. scan[first] = Run(wanted, first) \o scan[next[first]]
      BY <3>1, <3>5, <2>2, <1>7
    <3> QED BY <3>6, <3>2, <3>7 DEF ScanFrom
  <2> QED BY <2>1, <2>2
<1>11. scan = [first \in 0 .. N |-> ScanFrom(scan, wanted, first)]
  BY <1>10
<1> QED BY <1>11 DEF IsScan, N

\* The loops of updateBodyPartitions and updateGenericStreamPartitions rewrite
\* the wanted partitions of their range, all of them and no other.
ListsFrom(runs, wanted, first) ==
  /\ runs \in Seq(1 .. Len(partitions))
  /\ \A i \in Nat : (\E k \in DOMAIN runs : runs[k] = i + 1)
                      <=> first <= i /\ i <= ScanLast /\ i \in wanted

LEMMA RunsAreWanted ==
  ASSUME ListOK, NEW wanted \in SUBSET Nat
  PROVE  ListsFrom(RunsOf(wanted), wanted, ScanFirst)
<1> DEFINE scan == CHOOSE f : IsScan(f, wanted)
           start == IF ScanFirst > ScanLast THEN ScanLast + 1 ELSE ScanFirst
           N == ScanLast + 2
<1>1. ScanLast \in Nat /\ ScanFirst \in Nat /\ N \in Nat /\ start \in 0 .. N
  BY ScanBounds
<1>2. RunsOf(wanted) = scan[start]
  BY DEF RunsOf, IsScan, ScanFrom, Run, RunTo, RunFrom
<1>3. IsScan(scan, wanted)
  BY ScanExists
<1> HIDE DEF scan
<1>4. \A first \in 0 .. N : scan[first] = ScanFrom(scan, wanted, first)
  BY <1>3 DEF IsScan
<1> DEFINE S == {n \in Nat : n <= N => ListsFrom(scan[N - n], wanted, N - n)}
<1>5. ASSUME NEW n \in Nat, \A m \in Nat : m < n => m \in S PROVE n \in S
  <2> SUFFICES ASSUME n <= N, NEW first \in Nat, first = N - n
               PROVE  ListsFrom(scan[first], wanted, first)
    BY <1>1
  <2>1. first \in 0 .. N
    BY <1>1
  <2>2. CASE first > ScanLast
    <3>1. scan[first] = <<>>
      BY <2>1, <2>2, <1>4 DEF ScanFrom
    <3>2. \A i \in Nat : ~(first <= i /\ i <= ScanLast)
      BY <1>1, <2>1, <2>2
    <3>3. <<>> \in Seq(1 .. Len(partitions)) /\ DOMAIN <<>> = {}
      OBVIOUS
    <3> QED BY <3>1, <3>2, <3>3 DEF ListsFrom
  <2>3. CASE ~(first > ScanLast)
    <3> DEFINE to == RunTo(wanted, first)
               a == Run(wanted, first)
               b == scan[to + 1]
    <3>1. first \in 0 .. ScanLast
      BY <1>1, <2>1, <2>3
    <3>2. /\ to \in Nat /\ first <= to /\ to <= ScanLast + 1
          /\ a \in Seq(1 .. Len(partitions))
          /\ \A i \in Nat : (\E k \in DOMAIN a : a[k] = i + 1)
                   <=> first <= i /\ i <= to /\ i <= ScanLast /\ i \in wanted
      BY <3>1, RunIs
    <3> HIDE DEF to, a
    <3>3. N - (to + 1) \in Nat /\ N - (to + 1) < n /\ N - (to + 1) <= N
          /\ N - (N - (to + 1)) = to + 1
      BY <3>2, <1>1
    <3>4. N - (to + 1) \in S
      BY <3>3, <1>5
    <3>5. ListsFrom(b, wanted, to + 1)
      BY <3>3, <3>4
    <3>6. scan[first] = a \o b
      BY <2>1, <2>3, <1>4 DEF ScanFrom, to, a
    <3> HIDE DEF b
    <3>7. b \in Seq(1 .. Len(partitions))
      BY <3>5 DEF ListsFrom
    <3>8. a \o b \in Seq(1 .. Len(partitions))
      BY <3>2, <3>7, ConcatProperties
    <3>9. ASSUME NEW i \in Nat
          PROVE  (\E k \in DOMAIN (a \o b) : (a \o b)[k] = i + 1)
                    <=> first <= i /\ i <= ScanLast /\ i \in wanted
      <4>1. (\E k \in DOMAIN a : a[k] = i + 1)
              <=> first <= i /\ i <= to /\ i <= ScanLast /\ i \in wanted
        BY <3>2
      <4>2. (\E k \in DOMAIN b : b[k] = i + 1) <=> to + 1 <= i /\ i <= ScanLast /\ i \in wanted
        BY <3>5 DEF ListsFrom
      <4>5. \A x : Holds(a \o b, x) <=> Holds(a, x) \/ Holds(b, x)
        BY <3>2, <3>7, ElementsOfConcat
      <4>3. (\E k \in DOMAIN (a \o b) : (a \o b)[k] = i + 1)
              <=> (\E k \in DOMAIN a : a[k] = i + 1) \/ (\E k \in DOMAIN b : b[k] = i + 1)
        BY <4>5, Zenon DEF Holds
      <4>4. (first <= i /\ i <= to) \/ to + 1 <= i <=> first <= i
        BY <3>2
      <4> QED BY <4>1, <4>2, <4>3, <4>4
    <3> QED BY <3>6, <3>8, <3>9 DEF ListsFrom
  <2> QED BY <2>2, <2>3
<1> HIDE DEF S
<1>6. \A n \in Nat : n \in S
  BY <1>5, StrongInductionOnNat
<1>7. N - start \in Nat /\ N - start <= N /\ N - (N - start) = start
  BY <1>1
<1>8. ListsFrom(scan[start], wanted, start)
  BY <1>6, <1>7 DEF S
<1>9. \A i \in Nat : start <= i /\ i <= ScanLast <=> ScanFirst <= i /\ i <= ScanLast
  BY <1>1
<1> QED BY <1>2, <1>8, <1>9 DEF ListsFrom
-----------------------------------------------------------------------------
(* Lists of offsets *)

Increasing(s) == \A i, j \in DOMAIN s : i < j => s[i] < s[j]
OnceEach(s) == \A i, j \in DOMAIN s : i # j => s[i] # s[j]

IsOffsetList(s) == s \in Seq(Nat) /\ Increasing(s)

LEMMA IncreasingIsOnce ==
  ASSUME NEW s, IsOffsetList(s)
  PROVE  OnceEach(s)
<1> SUFFICES ASSUME NEW i \in DOMAIN s, NEW j \in DOMAIN s, i # j PROVE s[i] # s[j]
  BY DEF OnceEach
<1>1. i \in Nat /\ j \in Nat /\ s[i] \in Nat /\ s[j] \in Nat
  BY LenProperties, ElementOfSeq DEF IsOffsetList
<1>2. i < j => s[i] < s[j]
  BY DEF IsOffsetList, Increasing
<1>3. j < i => s[j] < s[i]
  BY DEF IsOffsetList, Increasing
<1> QED BY <1>1, <1>2, <1>3

\* A list with one more.
LEMMA OffsetAppended ==
  ASSUME NEW s \in Seq(Nat), NEW e \in Nat
  PROVE  /\ Append(s, e) \in Seq(Nat)
         /\ \A x : Holds(Append(s, e), x) <=> Holds(s, x) \/ x = e
         /\ OnceEach(s) /\ ~Holds(s, e) => OnceEach(Append(s, e))
         /\ Increasing(s) /\ (\A x : Holds(s, x) => x < e) => Increasing(Append(s, e))
<1> DEFINE t == Append(s, e)
<1>1. Len(s) \in Nat /\ DOMAIN s = 1 .. Len(s)
  BY LenProperties
<1>2. /\ t \in Seq(Nat) /\ Len(t) = Len(s) + 1 /\ t[Len(s) + 1] = e
      /\ \A i \in 1 .. Len(s) : t[i] = s[i]
  BY <1>1, AppendProperties
<1> HIDE DEF t
<1>3. DOMAIN t = 1 .. Len(s) + 1
      /\ \A i \in DOMAIN t : i \in 1 .. Len(s) \/ i = Len(s) + 1
  BY <1>1, <1>2, LenProperties
<1>h. \A i \in 1 .. Len(s) : Holds(s, s[i])
  BY <1>1 DEF Holds
<1>4. ASSUME Increasing(s), \A x : Holds(s, x) => x < e PROVE Increasing(t)
  <2> SUFFICES ASSUME NEW i \in DOMAIN t, NEW j \in DOMAIN t, i < j PROVE t[i] < t[j]
    BY DEF Increasing
  <2>1. i \in 1 .. Len(s) /\ t[i] = s[i]
    BY <1>1, <1>2, <1>3
  <2>2. CASE j \in 1 .. Len(s)
    <3>1. s[i] < s[j]
      BY <2>1, <2>2, <1>1, <1>4 DEF Increasing
    <3> QED BY <3>1, <2>1, <2>2, <1>2
  <2>3. CASE j = Len(s) + 1
    BY <2>1, <2>3, <1>2, <1>4, <1>h
  <2> QED BY <2>2, <2>3, <1>3
<1>5. ASSUME NEW x PROVE Holds(t, x) <=> Holds(s, x) \/ x = e
  <2>1. ASSUME Holds(t, x) PROVE Holds(s, x) \/ x = e
    <3>1. PICK k \in 1 .. Len(s) + 1 : t[k] = x
      BY <2>1, <1>3 DEF Holds
    <3>2. CASE k \in 1 .. Len(s)
      BY <3>1, <3>2, <1>1, <1>2 DEF Holds
    <3>3. CASE k = Len(s) + 1
      BY <3>1, <3>3, <1>2
    <3> QED BY <3>2, <3>3, <1>1
  <2>2. ASSUME Holds(s, x) PROVE Holds(t, x)
    <3>1. PICK k \in 1 .. Len(s) : s[k] = x
      BY <2>2, <1>1 DEF Holds
    <3>2. k \in DOMAIN t /\ t[k] = x
      BY <3>1, <1>1, <1>2, <1>3
    <3> QED BY <3>2 DEF Holds
  <2>3. ASSUME x = e PROVE Holds(t, x)
    <3>1. Len(s) + 1 \in DOMAIN t
      BY <1>1, <1>3
    <3> QED BY <3>1, <2>3, <1>2 DEF Holds
  <2> QED BY <2>1, <2>2, <2>3
<1>6. ASSUME OnceEach(s), ~Holds(s, e) PROVE OnceEach(t)
  <2> SUFFICES ASSUME NEW i \in DOMAIN t, NEW j \in DOMAIN t, i # j PROVE t[i] # t[j]
    BY DEF OnceEach
  <2>1. \A k \in 1 .. Len(s) : t[k] = s[k] /\ s[k] # e
    BY <1>2, <1>6, <1>h
  <2>2. CASE i \in 1 .. Len(s) /\ j \in 1 .. Len(s)
    BY <2>1, <2>2, <1>1, <1>6 DEF OnceEach
  <2>3. CASE ~(i \in 1 .. Len(s) /\ j \in 1 .. Len(s))
    BY <2>1, <2>3, <1>2, <1>3
  <2> QED BY <2>2, <2>3
<1> QED BY <1>2, <1>4, <1>5, <1>6 DEF t

LEMMA OneOffset ==
  ASSUME NEW e \in Nat
  PROVE  IsOffsetList(<<e>>) /\ \A x : Holds(<<e>>, x) <=> x = e
BY DEF IsOffsetList, Increasing, Holds

LEMMA NoOffset ==
  IsOffsetList(<<>>) /\ \A x : ~Holds(<<>>, x)
BY DEF IsOffsetList, Increasing, Holds

-----------------------------------------------------------------------------
(* What readPartitions looks for *)

DiskOK == disk \in Seq(Cells) /\ Sound(disk)

LEMMA ReadableIsPack ==
  ASSUME DiskOK, NEW p \in Nat
  PROVE  /\ Readable(p) <=> p \in PackOffsets(disk)
         /\ Readable(p) => /\ PackAt(p) \in Packs /\ PackAt(p).thisPartition = p
                           /\ PackAt(p).kind = "header" <=> p = 0
                           /\ PackAt(p).previousPartition \in Nat
                           /\ PackAt(p).footerPartition \in Nat
<1>1. disk \in Seq(Cells)
  BY DEF DiskOK
<1>2. Len(disk) \in Nat /\ DOMAIN disk = 1 .. Len(disk)
  BY <1>1, LenProperties
<1>3. Readable(p) <=> p \in PackOffsets(disk)
  BY <1>1, <1>2, PacksInFile DEF Readable
<1>4. ASSUME p \in PackOffsets(disk)
      PROVE  /\ PackAt(p) \in Packs /\ PackAt(p).thisPartition = p
             /\ PackAt(p).kind = "header" <=> p = 0
             /\ PackAt(p).previousPartition \in Nat
             /\ PackAt(p).footerPartition \in Nat
  <2>1. PackPlaced(disk, p)
    BY <1>4 DEF DiskOK, Sound, WellPlaced
  <2> QED BY <2>1, <1>1, <1>4, PackInFile DEF PackAt, PackPlaced
<1> QED BY <1>3, <1>4

\* The offsets that the first n entries of a RIP give.
RIPStep(entries, h) ==
  [p \in (1 .. Len(entries)) \X Seq(Nat) |->
     IF entries[p[1]] > h THEN Append(p[2], entries[p[1]]) ELSE p[2]]

LEMMA RIPScan ==
  ASSUME NEW entries \in Seq(Nat), NEW h \in Nat
  PROVE  \E after : after = [i \in 0 .. Len(entries) |->
                               IF i = 0 THEN <<>>
                               ELSE IF entries[i] > h THEN Append(after[i - 1], entries[i])
                               ELSE after[i - 1]]
<1> DEFINE V == Seq(Nat)
           N == Len(entries)
           step == RIPStep(entries, h)
<1>1. N \in Nat /\ \A i \in 1 .. N : entries[i] \in Nat
  BY LenProperties, ElementOfSeq
<1>2. step \in [(1 .. N) \X V -> V]
  <2> SUFFICES ASSUME NEW p \in (1 .. N) \X V PROVE step[p] \in V
    <3> HIDE DEF V
    <3>1. step = [p \in (1 .. N) \X V |-> step[p]]
      BY DEF RIPStep, V
    <3> HIDE DEF step
    <3> QED BY <3>1
  <2>1. p[1] \in 1 .. N /\ p[2] \in V
    OBVIOUS
  <2>2. CASE entries[p[1]] > h
    <3>1. step[p] = Append(p[2], entries[p[1]])
      BY <2>2 DEF RIPStep
    <3> QED BY <3>1, <2>1, <1>1, AppendProperties
  <2>3. CASE ~(entries[p[1]] > h)
    <3>1. step[p] = p[2]
      BY <2>3 DEF RIPStep
    <3> QED BY <3>1, <2>1
  <2> QED BY <2>2, <2>3
<1>3. <<>> \in V
  OBVIOUS
<1>4. \A n \in 1 .. N, v \in V :
        step[<<n, v>>] = IF entries[n] > h THEN Append(v, entries[n]) ELSE v
  BY DEF RIPStep
<1> HIDE DEF V, step, N
<1>5. PICK f \in [0 .. N -> V] : IsStepwiseTo(f, N, <<>>, step)
  BY <1>1, <1>2, <1>3, StepwiseRecursionTo
<1>6. ASSUME NEW i \in 0 .. N, i # 0
      PROVE  f[i] = IF entries[i] > h THEN Append(f[i - 1], entries[i]) ELSE f[i - 1]
  <2>1. i \in 1 .. N /\ i - 1 \in 0 .. N
    BY <1>1, <1>6
  <2>2. f[i] = step[<<i, f[i - 1]>>] /\ f[i - 1] \in V
    BY <2>1, <1>5 DEF IsStepwiseTo
  <2> QED BY <2>1, <2>2, <1>4
<1>7. f[0] = <<>>
  BY <1>5 DEF IsStepwiseTo
<1>8. f = [i \in 0 .. N |-> IF i = 0 THEN <<>>
                            ELSE IF entries[i] > h THEN Append(f[i - 1], entries[i])
                            ELSE f[i - 1]]
  BY <1>6, <1>7
<1> QED BY <1>8 DEF N

\* The offsets of the RIP after the header, once each and as they are ordered.
LEMMA RIPOffsetsAre ==
  ASSUME DiskOK, HasRIP, NEW header, header.pack.thisPartition = 0
  PROVE  /\ RIPOffsets(header) \in Seq(Nat) /\ OnceEach(RIPOffsets(header))
         /\ RIPInOrder => Increasing(RIPOffsets(header))
         /\ \A x : Holds(RIPOffsets(header), x) =>
              x \in Nat /\ x > 0 /\ x + 1 \in 1 .. Len(disk) /\ IsPackOrLost(disk[x + 1])
         /\ \A p \in PackOffsets(disk) : p > 0 => Holds(RIPOffsets(header), p)
<1> DEFINE entries == disk[Len(disk)].entries
           IsScanned(f) == f = [i \in 0 .. Len(entries) |->
                               IF i = 0 THEN <<>>
                               ELSE IF entries[i] > 0 THEN Append(f[i - 1], entries[i])
                               ELSE f[i - 1]]
           after == CHOOSE f : IsScanned(f)
<1>1. disk \in Seq(Cells) /\ disk # <<>> /\ Len(disk) \in Nat /\ Len(disk) > 0
      /\ DOMAIN disk = 1 .. Len(disk) /\ Len(disk) \in DOMAIN disk
  BY LenProperties, EmptySeq DEF DiskOK, HasRIP
<1>2. disk[Len(disk)].type = "rip" /\ disk[Len(disk)] \in Cells
  BY <1>1, ElementOfSeq DEF HasRIP
<1>3. RIPFits(disk, Len(disk))
  BY <1>1, <1>2 DEF DiskOK, Sound, RIPsFit
<1>4. entries \in Seq(Nat)
  BY <1>2, CellFields
<1>5. RIPOffsets(header) = after[Len(entries)]
  BY DEF RIPOffsets
<1>6. /\ \A i, j \in DOMAIN entries : i # j => entries[i] # entries[j]
      /\ \A i \in DOMAIN entries : entries[i] + 1 < Len(disk) /\ IsPackOrLost(disk[entries[i] + 1])
      /\ \A p \in PackOffsets(disk) : p + 1 < Len(disk) => \E i \in DOMAIN entries : entries[i] = p
  BY SMTT(60), <1>3 DEF RIPFits
<1>o. RIPInOrder => \A i, j \in DOMAIN entries : i < j => entries[i] < entries[j]
  BY DEF RIPInOrder
<1> HIDE DEF entries
<1>7. IsScanned(after)
  <2>1. 0 \in Nat
    OBVIOUS
  <2> QED BY <1>4, <2>1, RIPScan
<1>8. Len(entries) \in Nat /\ DOMAIN entries = 1 .. Len(entries)
      /\ \A i \in 1 .. Len(entries) : entries[i] \in Nat
  BY <1>4, LenProperties, ElementOfSeq
<1> HIDE DEF after
<1>9. after[0] = <<>>
  BY <1>7, <1>8
<1>10. ASSUME NEW i \in Nat, i + 1 <= Len(entries)
       PROVE  after[i + 1] = IF entries[i + 1] > 0 THEN Append(after[i], entries[i + 1])
                             ELSE after[i]
  <2>1. i + 1 \in 0 .. Len(entries) /\ (i + 1) - 1 = i /\ i + 1 # 0
    BY <1>10
  <2> QED BY <2>1, <1>7
<1> DEFINE Lists(i) == /\ after[i] \in Seq(Nat) /\ OnceEach(after[i])
                       /\ RIPInOrder => Increasing(after[i])
                       /\ \A x : Holds(after[i], x) <=>
                            \E k \in 1 .. i : entries[k] = x /\ entries[k] > 0
           S == {i \in Nat : i <= Len(entries) => Lists(i)}
<1>11. 0 \in S
  <2>1. /\ after[0] \in Seq(Nat) /\ OnceEach(after[0]) /\ Increasing(after[0])
        /\ \A x : ~Holds(after[0], x)
    BY <1>9, NoOffset, IncreasingIsOnce DEF IsOffsetList
  <2>2. \A k : k \notin 1 .. 0
    OBVIOUS
  <2>3. Lists(0)
    BY <2>1, <2>2
  <2> QED BY <2>3
<1>12. ASSUME NEW i \in Nat, i \in S PROVE i + 1 \in S
  <2> SUFFICES ASSUME i + 1 <= Len(entries) PROVE Lists(i + 1)
    OBVIOUS
  <2>1. i <= Len(entries) /\ i + 1 \in 1 .. Len(entries) /\ entries[i + 1] \in Nat
    BY <1>8
  <2>2. Lists(i)
    BY <2>1, <1>12
  <2>3. \A k \in 1 .. i : k \in DOMAIN entries /\ k < i + 1 /\ k # i + 1
    BY <2>1, <1>8
  <2>4. \A k \in 1 .. i : entries[k] # entries[i + 1]
    BY <2>1, <2>3, <1>6, <1>8
  <2>o. RIPInOrder => \A k \in 1 .. i : entries[k] < entries[i + 1]
    BY <2>1, <2>3, <1>o, <1>8
  <2>5. \A k : k \in 1 .. i + 1 <=> k \in 1 .. i \/ k = i + 1
    OBVIOUS
  <2>6. CASE entries[i + 1] > 0
    <3>1. after[i + 1] = Append(after[i], entries[i + 1])
      BY <2>6, <1>10
    <3>2. /\ ~Holds(after[i], entries[i + 1])
          /\ RIPInOrder => \A x : Holds(after[i], x) => x < entries[i + 1]
      BY <2>2, <2>4, <2>o
    <3>3. /\ after[i + 1] \in Seq(Nat) /\ OnceEach(after[i + 1])
          /\ RIPInOrder => Increasing(after[i + 1])
          /\ \A x : Holds(after[i + 1], x) <=> Holds(after[i], x) \/ x = entries[i + 1]
      BY <3>1, <3>2, <2>1, <2>2, OffsetAppended
    <3> QED BY <3>3, <2>2, <2>5, <2>6
  <2>7. CASE ~(entries[i + 1] > 0)
    <3>1. after[i + 1] = after[i]
      BY <2>7, <1>10
    <3> QED BY <3>1, <2>2, <2>5, <2>7
  <2> QED BY <2>6, <2>7
<1> HIDE DEF S
<1>13. \A i \in Nat : i \in S
  BY <1>11, <1>12, InductionOnNat
<1>14. Lists(Len(entries))
  <2> HIDE DEF Lists
  <2>1. Len(entries) \in S /\ Len(entries) <= Len(entries)
    BY <1>8, <1>13
  <2> QED BY <2>1 DEF S
<1> DEFINE offsets == RIPOffsets(header)
<1>15. /\ offsets \in Seq(Nat) /\ OnceEach(offsets) /\ (RIPInOrder => Increasing(offsets))
       /\ \A x : Holds(offsets, x) <=> \E k \in DOMAIN entries : entries[k] = x /\ entries[k] > 0
  BY <1>5, <1>8, <1>14
<1> HIDE DEF offsets, Lists
<1>16. ASSUME NEW x, Holds(offsets, x)
       PROVE  x \in Nat /\ x > 0 /\ x + 1 \in 1 .. Len(disk) /\ IsPackOrLost(disk[x + 1])
  <2>1. PICK k \in DOMAIN entries : entries[k] = x /\ entries[k] > 0
    BY <1>15, <1>16
  <2>2. x \in Nat /\ x + 1 < Len(disk) /\ IsPackOrLost(disk[x + 1])
    BY <2>1, <1>6, <1>8
  <2> QED BY <2>1, <2>2, <1>1
<1>17. ASSUME NEW p \in PackOffsets(disk), p > 0 PROVE Holds(offsets, p)
  <2>1. p \in Nat /\ p + 1 \in 1 .. Len(disk) /\ disk[p + 1].type = "pack"
    BY <1>1, PacksInFile
  <2>2. p + 1 < Len(disk)
    BY <2>1, <1>1, <1>2
  <2> QED BY <2>2, <1>6, <1>15, <1>17
<1> QED BY <1>15, <1>16, <1>17 DEF offsets

\* The walk along the chain, from each offset on.
StopsAt(h) ==
  {p \in Nat : ~(Readable(p) /\ PackAt(p).previousPartition < PackAt(p).thisPartition
                 /\ PackAt(p).previousPartition > h)}

IsChain(back, h) ==
  back = [p \in Nat |->
            IF Readable(p) /\ PackAt(p).previousPartition < PackAt(p).thisPartition
                 /\ PackAt(p).previousPartition > h
            THEN Append(back[PackAt(p).previousPartition], p)
            ELSE <<p>>]

LEMMA ChainGoesBack ==
  ASSUME DiskOK, NEW h \in Nat, NEW p \in Nat, p \notin StopsAt(h)
  PROVE  /\ Readable(p) /\ PackAt(p).previousPartition \in Nat
         /\ PackAt(p).previousPartition < p /\ PackAt(p).previousPartition > h
<1>1. /\ Readable(p) /\ PackAt(p).previousPartition < PackAt(p).thisPartition
      /\ PackAt(p).previousPartition > h
  BY DEF StopsAt
<1>2. PackAt(p).thisPartition = p /\ PackAt(p).previousPartition \in Nat
  BY <1>1, ReadableIsPack
<1> QED BY <1>1, <1>2

LEMMA ChainExists ==
  ASSUME DiskOK, NEW h \in Nat
  PROVE  \E back : IsChain(back, h)
<1> DEFINE V == Seq(Nat)
           base == [p \in Nat |-> <<p>>]
           next == [p \in Nat |-> IF p \in StopsAt(h) THEN 0 ELSE PackAt(p).previousPartition]
           step == [q \in Nat \X V |-> Append(q[2], q[1])]
<1>1. base \in [Nat -> V]
  OBVIOUS
<1>2. next \in [Nat -> Nat] /\ \A p \in Nat : p \notin StopsAt(h) => next[p] < p
  BY ChainGoesBack
<1>3. step \in [Nat \X V -> V]
  BY AppendProperties
<1>4. \A p \in Nat : base[p] = <<p>>
  OBVIOUS
<1>5. \A p \in Nat : p \notin StopsAt(h) => next[p] = PackAt(p).previousPartition
  OBVIOUS
<1>6. \A p \in Nat, v \in V : step[<<p, v>>] = Append(v, p)
  OBVIOUS
<1> HIDE DEF V, base, next, step
<1>7. PICK f \in [Nat -> V] : IsRecursion(f, StopsAt(h), base, next, step)
  BY <1>1, <1>2, <1>3, RecursionOnNat
<1>8. ASSUME NEW p \in Nat
      PROVE  f[p] = IF Readable(p) /\ PackAt(p).previousPartition < PackAt(p).thisPartition
                      /\ PackAt(p).previousPartition > h
                    THEN Append(f[PackAt(p).previousPartition], p)
                    ELSE <<p>>
  <2>1. CASE p \in StopsAt(h)
    <3>1. f[p] = base[p]
      BY <2>1, <1>7 DEF IsRecursion
    <3> QED BY <3>1, <2>1, <1>4 DEF StopsAt
  <2>2. CASE p \notin StopsAt(h)
    <3>1. f[p] = step[<<p, f[next[p]]>>]
      BY <2>2, <1>7 DEF IsRecursion
    <3>2. next[p] \in Nat /\ next[p] = PackAt(p).previousPartition
      BY <2>2, <1>2, <1>5
    <3>3. f[p] = Append(f[PackAt(p).previousPartition], p)
      BY <3>1, <3>2, <1>6
    <3> QED BY <3>3, <2>2 DEF StopsAt
  <2> QED BY <2>1, <2>2
<1>9. f = [p \in Nat |-> IF Readable(p) /\ PackAt(p).previousPartition < PackAt(p).thisPartition
                      /\ PackAt(p).previousPartition > h
                    THEN Append(f[PackAt(p).previousPartition], p)
                    ELSE <<p>>]
  BY <1>8
<1> QED BY <1>9 DEF IsChain

\* The offsets from the header up to `start`, in their order; when packs link to
\* the ones before them, and each of these can be read, all packs there are.
HasPacksTo(s, p) ==
  \A q \in PackOffsets(disk) : 0 < q /\ q <= p => Holds(s, q)

\* Each pack links to another one, or to none.
LinksToPacks(f) ==
  \A p \in PackOffsets(f) : f[p + 1].pack.previousPartition \in PackOffsets(f) \cup {0}

LEMMA ChainIs ==
  ASSUME DiskOK, NEW header, header.pack.thisPartition = 0, NEW start \in Nat, start > 0
  PROVE  /\ IsOffsetList(Chain(header, start))
         /\ \A x : Holds(Chain(header, start), x) => x \in Nat /\ 0 < x /\ x <= start
         /\ Linked(disk) /\ ~ReadFails(Chain(header, start)) => HasPacksTo(Chain(header, start), start)
         /\ LinksToPacks(disk) /\ Readable(start) => ~ReadFails(Chain(header, start))
<1> DEFINE back == CHOOSE f : IsChain(f, 0)
<1>0. 0 \in Nat
  OBVIOUS
<1>1. IsChain(back, 0)
  BY <1>0, ChainExists
<1>2. Chain(header, start) = back[start]
  BY DEF Chain, ChainContinues, IsChain, Offsets
<1> HIDE DEF back
<1>3. ASSUME NEW p \in Nat, p \in StopsAt(0) PROVE back[p] = <<p>>
  BY <1>1, <1>3 DEF IsChain, StopsAt
<1>4. ASSUME NEW p \in Nat, p \notin StopsAt(0)
      PROVE  back[p] = Append(back[PackAt(p).previousPartition], p)
  BY <1>1, <1>4 DEF IsChain, StopsAt
<1> DEFINE Lists(p) ==
             /\ IsOffsetList(back[p])
             /\ Holds(back[p], p)
             /\ \A x : Holds(back[p], x) => x \in Nat /\ 0 < x /\ x <= p
             /\ Linked(disk) /\ (\A x : Holds(back[p], x) => Readable(x)) => HasPacksTo(back[p], p)
             /\ LinksToPacks(disk) /\ Readable(p) => \A x : Holds(back[p], x) => Readable(x)
           S == {p \in Nat : p > 0 => Lists(p)}
<1>5. disk \in Seq(Cells)
  BY DEF DiskOK
<1>6. ASSUME NEW p \in Nat, \A q \in Nat : q < p => q \in S PROVE p \in S
  <2> SUFFICES ASSUME p > 0 PROVE Lists(p)
    OBVIOUS
  <2>1. CASE p \in StopsAt(0)
    <3>1. back[p] = <<p>>
      BY <2>1, <1>3
    <3>2. IsOffsetList(back[p]) /\ \A x : Holds(back[p], x) <=> x = p
      BY <3>1, OneOffset
    <3>3. ASSUME Linked(disk), Readable(p), NEW q \in PackOffsets(disk), 0 < q, q <= p PROVE q = p
      <4>1. p \in PackOffsets(disk) /\ PackAt(p).thisPartition = p
            /\ PackAt(p).previousPartition \in Nat
        BY <3>3, ReadableIsPack
      <4>2. PackAt(p).previousPartition < p /\ ~(PackAt(p).previousPartition < q /\ q < p)
        BY <3>3, <4>1 DEF Linked, PackAt
      <4>3. ~(PackAt(p).previousPartition > 0)
        BY <2>1, <4>1, <4>2, <3>3 DEF StopsAt
      <4>4. q \in Nat
        BY <1>5, PacksInFile
      <4> QED BY <3>3, <4>1, <4>2, <4>3, <4>4
    <3>4. Linked(disk) /\ (\A x : Holds(back[p], x) => Readable(x)) => HasPacksTo(back[p], p)
      BY <3>2, <3>3 DEF HasPacksTo
    <3> QED BY <3>2, <3>4
  <2>2. CASE p \notin StopsAt(0)
    <3> DEFINE b == PackAt(p).previousPartition
    <3>1. Readable(p) /\ b \in Nat /\ b < p /\ b > 0
      BY <2>2, <1>0, ChainGoesBack
    <3>2. Lists(b)
      BY <3>1, <1>6
    <3>3. back[p] = Append(back[b], p)
      BY <2>2, <1>4
    <3> HIDE DEF b
    <3>4. \A x : Holds(back[b], x) => x < p
      BY <3>1, <3>2
    <3>5. IsOffsetList(back[p]) /\ \A x : Holds(back[p], x) <=> Holds(back[b], x) \/ x = p
      BY <3>1, <3>2, <3>3, <3>4, OffsetAppended DEF IsOffsetList
    <3>6. \A x : Holds(back[p], x) => x \in Nat /\ 0 < x /\ x <= p
      BY <3>1, <3>2, <3>5
    <3>7. ASSUME Linked(disk), \A x : Holds(back[p], x) => Readable(x),
                 NEW q \in PackOffsets(disk), 0 < q, q <= p
          PROVE  Holds(back[p], q)
      <4>1. p \in PackOffsets(disk)
        BY <3>1, ReadableIsPack
      <4>2. ~(b < q /\ q < p)
        BY <3>7, <4>1 DEF Linked, PackAt, b
      <4>3. HasPacksTo(back[b], b)
        BY <3>2, <3>5, <3>7
      <4>4. q \in Nat
        BY <1>5, PacksInFile
      <4>5. CASE q = p
        BY <4>5, <3>5
      <4>6. CASE q <= b
        BY <4>6, <4>3, <3>5, <3>7 DEF HasPacksTo
      <4> QED BY <4>2, <4>4, <4>5, <4>6, <3>1, <3>7
    <3>8. Linked(disk) /\ (\A x : Holds(back[p], x) => Readable(x)) => HasPacksTo(back[p], p)
      BY <3>7 DEF HasPacksTo
    <3>9. LinksToPacks(disk) => Readable(b)
      BY <3>1, ReadableIsPack DEF LinksToPacks, PackAt, b
    <3>10. LinksToPacks(disk) => \A x : Holds(back[p], x) => Readable(x)
      BY <3>1, <3>2, <3>5, <3>9
    <3> QED BY <3>5, <3>6, <3>8, <3>10
  <2> QED BY <2>1, <2>2
<1> HIDE DEF S
<1>7. \A p \in Nat : p \in S
  BY <1>6, StrongInductionOnNat
<1>8. Lists(start)
  BY <1>7 DEF S
<1>9. ~ReadFails(back[start]) => \A x : Holds(back[start], x) => Readable(x)
  BY DEF ReadFails, Holds
<1>10. (\A x : Holds(back[start], x) => Readable(x)) => ~ReadFails(back[start])
  BY DEF ReadFails, Holds
<1> QED BY <1>2, <1>8, <1>9, <1>10

-----------------------------------------------------------------------------
(* The list that is read *)

LEMMA NewObjectsAre ==
  ASSUME NEW live, NEW n \in Nat, CanAllocate(live, n)
  PROVE  /\ \A k \in 1 .. n : NewObjects(live, n)[k] \in Objects \ live
         /\ \A i, j \in 1 .. n : NewObjects(live, n)[i] = NewObjects(live, n)[j] => i = j
<1>1. NewObjects(live, n) \in Allocations(live, n)
  BY DEF NewObjects, CanAllocate
<1> QED BY <1>1 DEF Allocations

LEMMA NewObjectIs ==
  ASSUME NEW live, CanAllocate(live, 1)
  PROVE  NewObject(live) \in Objects \ live
<1>1. 1 \in 1 .. 1 /\ 1 \in Nat
  OBVIOUS
<1>2. \A k \in 1 .. 1 : NewObjects(live, 1)[k] \in Objects \ live
  BY <1>1, NewObjectsAre
<1> QED BY <1>1, <1>2 DEF NewObject

\* What a list of partitions that was read is.
IsFromDisk(p) ==
  p.pack.thisPartition \in PackOffsets(disk) /\ p.pack = PackAt(p.pack.thisPartition)

LEMMA ObjectRead ==
  ASSUME DiskOK, NEW id \in Objects, NEW p \in Nat, Readable(p)
  PROVE  LET o == ReadObject(id, p)
         IN o \in Partitions /\ o.id = id /\ o.pack.thisPartition = p /\ IsFromDisk(o)
<1> DEFINE o == ReadObject(id, p)
<1>1. p \in PackOffsets(disk) /\ PackAt(p) \in Packs /\ PackAt(p).thisPartition = p
  BY ReadableIsPack
<1>2. o \in Partitions /\ o.id = id /\ o.pack = PackAt(p)
  BY <1>1 DEF ReadObject, Partitions
<1> QED BY <1>1, <1>2 DEF IsFromDisk

OwnsEach(list) == \A i, j \in DOMAIN list : list[i].id = list[j].id => i = j

IsReadList(list, header, offsets) ==
  /\ list \in Seq(Partitions) /\ Len(list) = Len(offsets) + 1
  /\ list[1] = header
  /\ \A k \in DOMAIN offsets : list[k + 1].pack.thisPartition = offsets[k]
  /\ \A i \in DOMAIN list : IsFromDisk(list[i])
  /\ OwnsEach(list)

LEMMA ReadListIs ==
  ASSUME DiskOK, NEW header \in Partitions, IsFromDisk(header),
         NEW offsets \in Seq(Nat), ~ReadFails(offsets),
         CanAllocate(HeapWithHeader(header), Len(offsets))
  PROVE  IsReadList(ReadList(header, offsets), header, offsets)
<1> DEFINE live == HeapWithHeader(header)
           ids == NewObjects(live, Len(offsets))
           new == [k \in DOMAIN offsets |-> ReadObject(ids[k], offsets[k])]
           list == <<header>> \o new
<1>1. Len(offsets) \in Nat /\ DOMAIN offsets = 1 .. Len(offsets)
      /\ \A k \in 1 .. Len(offsets) : offsets[k] \in Nat
  BY LenProperties, ElementOfSeq
<1>2. header.id \in live
  BY DEF HeapWithHeader
<1>3. /\ \A k \in 1 .. Len(offsets) : ids[k] \in Objects \ live
      /\ \A i, j \in 1 .. Len(offsets) : ids[i] = ids[j] => i = j
  BY <1>1, NewObjectsAre
<1>4. ReadList(header, offsets) = list
  BY DEF ReadList
<1> HIDE DEF ids, live
<1>5. new = [k \in 1 .. Len(offsets) |-> ReadObject(ids[k], offsets[k])]
  BY <1>1
<1>6. ASSUME NEW k \in 1 .. Len(offsets)
      PROVE  /\ new[k] \in Partitions /\ new[k].id = ids[k]
             /\ new[k].pack.thisPartition = offsets[k] /\ IsFromDisk(new[k])
  <2>1. Readable(offsets[k])
    BY <1>1 DEF ReadFails
  <2>2. new[k] = ReadObject(ids[k], offsets[k]) /\ ids[k] \in Objects /\ offsets[k] \in Nat
    BY <1>1, <1>3, <1>5
  <2> HIDE DEF new
  <2> QED BY <2>1, <2>2, ObjectRead
<1>7. Len(new) = Len(offsets) /\ new = [k \in 1 .. Len(offsets) |-> new[k]]
  BY <1>1, <1>5
<1> HIDE DEF new
<1>8. new \in Seq(Partitions)
  BY <1>1, <1>6, <1>7, IsASeq
<1>9. <<header>> \in Seq(Partitions) /\ Len(<<header>>) = 1 /\ <<header>>[1] = header
  OBVIOUS
<1>10. /\ list \in Seq(Partitions) /\ Len(list) = 1 + Len(offsets)
       /\ \A i \in 1 .. 1 + Len(offsets) : list[i] = IF i <= 1 THEN <<header>>[i] ELSE new[i - 1]
  BY <1>7, <1>8, <1>9, ConcatProperties
<1> HIDE DEF list
<1>11. DOMAIN list = 1 .. 1 + Len(offsets)
  BY <1>10, LenProperties
<1>12. list[1] = header
  BY <1>1, <1>9, <1>10
<1>13. ASSUME NEW k \in 1 .. Len(offsets) PROVE list[k + 1] = new[k]
  <2>1. k + 1 \in 1 .. 1 + Len(offsets) /\ ~(k + 1 <= 1) /\ (k + 1) - 1 = k
    BY <1>1
  <2> QED BY <2>1, <1>10
<1>14. ASSUME NEW i \in DOMAIN list, i # 1 PROVE i - 1 \in 1 .. Len(offsets) /\ list[i] = new[i - 1]
  <2>1. i - 1 \in 1 .. Len(offsets) /\ (i - 1) + 1 = i
    BY <1>1, <1>11, <1>14
  <2> QED BY <2>1, <1>13
<1>15. \A i \in DOMAIN list : IsFromDisk(list[i])
  BY <1>6, <1>12, <1>14
<1>16. ASSUME NEW i \in DOMAIN list, i # 1 PROVE list[i].id = ids[i - 1] /\ list[i].id # header.id
  BY <1>2, <1>3, <1>6, <1>14, <1>16
<1>17. OwnsEach(list)
  <2> SUFFICES ASSUME NEW i \in DOMAIN list, NEW j \in DOMAIN list, list[i].id = list[j].id
               PROVE  i = j
    BY DEF OwnsEach
  <2>1. CASE i = 1 \/ j = 1
    BY <2>1, <1>12, <1>16
  <2>2. CASE i # 1 /\ j # 1
    <3>1. ids[i - 1] = ids[j - 1] /\ i - 1 \in 1 .. Len(offsets) /\ j - 1 \in 1 .. Len(offsets)
      BY <2>2, <1>14, <1>16
    <3>2. i - 1 = j - 1
      BY <3>1, <1>3
    <3>3. i \in Nat /\ j \in Nat
      BY <1>11
    <3> QED BY <3>2, <3>3
  <2> QED BY <2>1, <2>2
<1>18. \A k \in DOMAIN offsets : list[k + 1].pack.thisPartition = offsets[k]
  BY <1>1, <1>6, <1>13
<1>19. Len(list) = Len(offsets) + 1
  BY <1>1, <1>10
<1> QED BY <1>4, <1>10, <1>12, <1>15, <1>17, <1>18, <1>19 DEF IsReadList

\* The header partition is kept when the list starts with it, and is read from
\* the start of the file otherwise.
ReadListOK ==
  /\ partitions \in Seq(Partitions) /\ heap = ObjectsOf(partitions)
  /\ \A i \in DOMAIN partitions : IsFromDisk(partitions[i])

IsHeaderOfFile(header) ==
  /\ header \in Partitions /\ isHeader(header)
  /\ header.pack.thisPartition = 0 /\ IsFromDisk(header) /\ Readable(0)

LEMMA HeapIsList ==
  ASSUME heap = ObjectsOf(partitions)
  PROVE  HeapWithoutList = {} /\ \A header : HeapWithHeader(header) = {header.id}
BY DEF HeapWithoutList, HeapWithHeader

LEMMA NewHeaderIs ==
  ASSUME DiskOK, HeaderReadable, CanAllocate(heap, 1)
  PROVE  IsHeaderOfFile(NewHeader) /\ NewHeader.id \in Objects
<1>1. 0 \in Nat /\ Readable(0) /\ PackAt(0).kind = "header"
  BY DEF HeaderReadable
<1>2. NewObject(heap) \in Objects
  BY NewObjectIs
<1>3. NewHeader \in Partitions /\ NewHeader.pack.thisPartition = 0 /\ IsFromDisk(NewHeader)
      /\ NewHeader.id = NewObject(heap)
  BY <1>1, <1>2, ObjectRead DEF NewHeader
<1>4. isHeader(NewHeader)
  BY <1>1, <1>3 DEF isHeader, IsFromDisk
<1> QED BY <1>1, <1>2, <1>3, <1>4 DEF IsHeaderOfFile

LEMMA KeptHeaderIs ==
  ASSUME DiskOK, ReadListOK, CanAllocate(heap, 1), NEW header \in KeptHeader
  PROVE  /\ IsHeaderOfFile(header)
         /\ partitions # <<>> /\ isHeader(partitions[1]) => header = partitions[1]
<1>1. CASE partitions # <<>> /\ isHeader(partitions[1])
  <2>1. header = partitions[1]
    BY <1>1 DEF KeptHeader
  <2>2. 1 \in DOMAIN partitions /\ header \in Partitions
    BY <1>1, <2>1, LenProperties, EmptySeq, ElementOfSeq DEF ReadListOK
  <2>3. IsFromDisk(header)
    BY <2>1, <2>2 DEF ReadListOK
  <2>4. header.pack.thisPartition \in Nat
    BY <2>2, PartitionFields, PackFields
  <2>5. Readable(header.pack.thisPartition)
    BY <2>3, <2>4, ReadableIsPack DEF IsFromDisk
  <2>6. header.pack.thisPartition = 0
    BY <1>1, <2>1, <2>3, <2>4, <2>5, ReadableIsPack DEF isHeader, IsFromDisk
  <2> QED BY <1>1, <2>1, <2>2, <2>3, <2>5, <2>6 DEF IsHeaderOfFile
<1>2. CASE ~(partitions # <<>> /\ isHeader(partitions[1]))
  <2>1. HeaderReadable /\ header = NewHeader
    BY <1>2 DEF KeptHeader
  <2> QED BY <1>2, <2>1, NewHeaderIs
<1> QED BY <1>1, <1>2

LEMMA NoKeptHeader ==
  ASSUME KeptHeader = {}
  PROVE  ~(partitions # <<>> /\ isHeader(partitions[1])) /\ ~HeaderReadable
BY DEF KeptHeader

\* The last pack of a settled file, which all packs name as the footer partition.
LEMMA LastOfSettled ==
  ASSUME DiskOK, Settled(disk)
  PROVE  LET last == Max(PackOffsets(disk))
         IN /\ last \in Nat /\ last > 0 /\ Readable(last)
            /\ \A p \in PackOffsets(disk) :
                 p <= last /\ disk[p + 1].pack.footerPartition = last
<1> DEFINE last == Max(PackOffsets(disk))
<1>1. /\ Len(disk) \in Nat /\ PackOffsets(disk) \in SUBSET Nat
      /\ \A p \in PackOffsets(disk) : p <= Len(disk)
  BY LenProperties, PacksInFile DEF DiskOK
<1>2. PackOffsets(disk) # {} /\ disk[last + 1].pack.kind = "footer"
      /\ \A p \in PackOffsets(disk) : disk[p + 1].pack.footerPartition = last
  BY DEF Settled
<1>3. last \in PackOffsets(disk) /\ \A p \in PackOffsets(disk) : p <= last
  BY <1>1, <1>2, MaxIsGreatest
<1> HIDE DEF last
<1>4. last \in Nat /\ Readable(last)
  BY <1>1, <1>3, ReadableIsPack
<1>5. last # 0
  BY <1>2, <1>4, ReadableIsPack DEF PackAt
<1> QED BY <1>2, <1>3, <1>4, <1>5 DEF last

\* In a settled file all packs name the last as the footer partition.
LEMMA SettledFile ==
  ASSUME DiskOK, Settled(disk)
  PROVE  Linked(disk) /\ LinksToPacks(disk)
<1> DEFINE packs == PackOffsets(disk)
           before(p) == {q \in packs : q < p}
<1>1. Len(disk) \in Nat /\ \A p \in packs : p \in Nat
  BY LenProperties, PacksInFile DEF DiskOK
<1>2. \A p \in packs :
        /\ disk[p + 1].pack.previousPartition = IF before(p) = {} THEN 0 ELSE Max(before(p))
        /\ disk[p + 1].pack.footerPartition = Max(packs)
  BY DEF Settled
<1> HIDE DEF packs
<1>3. ASSUME NEW p \in packs, before(p) # {}
      PROVE  Max(before(p)) \in before(p) /\ \A q \in before(p) : q <= Max(before(p))
  <2>1. before(p) \in SUBSET Nat /\ p \in Nat /\ \A q \in before(p) : q <= p
    BY <1>1
  <2> HIDE DEF before
  <2> QED BY <2>1, <1>3, MaxIsGreatest
<1>4. ASSUME NEW p \in packs, p > 0
      PROVE  /\ disk[p + 1].pack.previousPartition < p
             /\ \A q \in packs : ~(disk[p + 1].pack.previousPartition < q /\ q < p)
  <2>1. CASE before(p) = {}
    BY <2>1, <1>1, <1>2, <1>4
  <2>2. CASE before(p) # {}
    <3>1. disk[p + 1].pack.previousPartition = Max(before(p))
      BY <2>2, <1>2
    <3>2. Max(before(p)) \in packs /\ Max(before(p)) < p
          /\ \A q \in packs : q < p => q <= Max(before(p))
      BY <2>2, <1>3
    <3>3. Max(before(p)) \in Nat
      BY <3>2, <1>1
    <3> HIDE DEF before
    <3> QED BY <3>1, <3>2, <3>3, <1>1
  <2> QED BY <2>1, <2>2
<1>5. ASSUME NEW p \in packs PROVE disk[p + 1].pack.previousPartition \in packs \cup {0}
  BY <1>2, <1>3
<1> QED BY <1>4, <1>5 DEF Linked, LinksToPacks, packs

\* All packs can be reached from the footer partition, or from the offset that
\* the header names as that of the footer partition.
CanBeFollowed == Linked(disk) /\ (FooterLast(disk) \/ Settled(disk))

LEMMA FootersAre ==
  ASSUME DiskOK, Footers # {}
  PROVE  /\ Max(Footers) \in Nat /\ Max(Footers) > 0 /\ Readable(Max(Footers))
         /\ FooterLast(disk) => \A q \in PackOffsets(disk) : q <= Max(Footers)
<1>1. Len(disk) \in Nat
  BY LenProperties DEF DiskOK
<1>2. Footers \in SUBSET Nat /\ \A p \in Footers : p <= Len(disk)
  BY <1>1 DEF Footers
<1>3. Max(Footers) \in Footers
  BY <1>1, <1>2, MaxIsGreatest
<1> DEFINE m == Max(Footers)
<1>4. m \in Nat /\ Readable(m) /\ PackAt(m).kind = "footer"
  BY <1>2, <1>3 DEF Footers
<1> HIDE DEF m
<1>5. m \in PackOffsets(disk) /\ m # 0
  BY <1>4, ReadableIsPack
<1>6. FooterLast(disk) => \A q \in PackOffsets(disk) : q <= m
  BY <1>4, <1>5 DEF FooterLast, PackAt
<1> QED BY <1>4, <1>5, <1>6 DEF m

LEMMA ChainStartIs ==
  ASSUME DiskOK, NEW header, IsHeaderOfFile(header), NEW start \in ChainStart(header)
  PROVE  /\ start \in Nat /\ start > 0
         /\ CanBeFollowed => \A q \in PackOffsets(disk) : q <= start
<1>1. header.pack.thisPartition = 0 /\ header.pack = PackAt(0) /\ Readable(0) /\ 0 \in Nat
  BY DEF IsHeaderOfFile, IsFromDisk
<1>2. header.pack.footerPartition \in Nat /\ 0 \in PackOffsets(disk)
  BY <1>1, ReadableIsPack
<1>s. Settled(disk) =>
        /\ header.pack.footerPartition > 0
        /\ \A q \in PackOffsets(disk) : q <= header.pack.footerPartition
  BY <1>1, <1>2, LastOfSettled DEF PackAt
<1>3. CASE header.pack.footerPartition > 0
  <2>1. start = header.pack.footerPartition
    BY <1>1, <1>3 DEF ChainStart
  <2>2. FooterLast(disk) => \A q \in PackOffsets(disk) : q <= start
    BY <1>1, <1>2, <1>3, <2>1 DEF FooterLast, PackAt
  <2> QED BY <1>2, <1>3, <1>s, <2>1, <2>2 DEF CanBeFollowed
<1>4. CASE ~(header.pack.footerPartition > 0)
  <2>1. Footers # {} /\ start = Max(Footers)
    BY <1>1, <1>4 DEF ChainStart
  <2> QED BY <2>1, <1>4, <1>s, FootersAre DEF CanBeFollowed
<1> QED BY <1>3, <1>4

\* The offsets to read: beyond the header, each once, and in the order of the
\* file unless a RIP has another; and all the packs there are when the packs of
\* the RIP, or of the chain, can be read.
LEMMA ReadOffsetsAre ==
  ASSUME DiskOK, NEW header, IsHeaderOfFile(header), NEW offsets \in ReadOffsets(header)
  PROVE  /\ offsets \in Seq(Nat) /\ OnceEach(offsets)
         /\ (HasRIP => RIPInOrder) => Increasing(offsets)
         /\ \A x : Holds(offsets, x) => x \in Nat /\ x > 0
         /\ (HasRIP \/ CanBeFollowed) /\ ~ReadFails(offsets) =>
              \A p \in PackOffsets(disk) : p > 0 => Holds(offsets, p)
<1>1. header.pack.thisPartition = 0
  BY DEF IsHeaderOfFile
<1>2. CASE HasRIP
  <2>1. offsets = RIPOffsets(header)
    BY <1>2 DEF ReadOffsets
  <2> QED BY <1>1, <1>2, <2>1, RIPOffsetsAre
<1>3. CASE ~HasRIP
  <2>1. PICK start \in ChainStart(header) : offsets = Chain(header, start)
    BY <1>3 DEF ReadOffsets
  <2>2. /\ start \in Nat /\ start > 0
        /\ CanBeFollowed => Linked(disk) /\ \A q \in PackOffsets(disk) : q <= start
    BY <2>1, ChainStartIs DEF CanBeFollowed
  <2>3. /\ IsOffsetList(offsets)
        /\ \A x : Holds(offsets, x) => x \in Nat /\ 0 < x /\ x <= start
        /\ Linked(disk) /\ ~ReadFails(offsets) => HasPacksTo(offsets, start)
    BY <1>1, <2>1, <2>2, ChainIs
  <2>4. \A p \in PackOffsets(disk) : p \in Nat
    BY PacksInFile DEF DiskOK
  <2>5. offsets \in Seq(Nat) /\ Increasing(offsets) /\ OnceEach(offsets)
    BY <2>3, IncreasingIsOnce DEF IsOffsetList
  <2> QED BY <1>3, <2>2, <2>3, <2>4, <2>5 DEF HasPacksTo
<1> QED BY <1>2, <1>3

\* A settled file that is intact can be read.
LEMMA SettledFileCanBeRead ==
  ASSUME DiskOK, Settled(disk), Intact(disk)
  PROVE  /\ HeaderReadable
         /\ \A header : IsHeaderOfFile(header) =>
              ReadOffsets(header) # {} /\ \A offsets \in ReadOffsets(header) : ~ReadFails(offsets)
<1>1. /\ disk \in Seq(Cells) /\ Len(disk) \in Nat /\ DOMAIN disk = 1 .. Len(disk)
      /\ \A p : p \in PackOffsets(disk) => p \in Nat /\ p + 1 \in 1 .. Len(disk) /\ p < Len(disk)
  BY LenProperties, PacksInFile DEF DiskOK
<1>2. \A c \in 1 .. Len(disk) : IsPackOrLost(disk[c]) => disk[c].type = "pack"
  BY <1>1 DEF Intact, IsPackOrLost
<1>3. PackOffsets(disk) # {}
  BY DEF Settled
<1>4. 1 \in 1 .. Len(disk) /\ disk # <<>>
  BY <1>1, <1>3, EmptySeq
<1>5. Readable(0)
  <2>1. IsPackOrLost(disk[1])
    BY <1>4 DEF DiskOK, Sound, WellPlaced
  <2>2. disk[1].type = "pack" /\ 0 + 1 = 1
    BY <2>1, <1>2, <1>4
  <2> QED BY <2>2, <1>1, <1>4 DEF Readable
<1>6. HeaderReadable
  BY <1>5, ReadableIsPack DEF HeaderReadable
<1>7. ASSUME NEW header, IsHeaderOfFile(header)
      PROVE  ReadOffsets(header) # {} /\ \A offsets \in ReadOffsets(header) : ~ReadFails(offsets)
  <2>1. header.pack.thisPartition = 0 /\ header.pack = PackAt(0) /\ 0 \in PackOffsets(disk)
    BY <1>7 DEF IsHeaderOfFile, IsFromDisk
  <2>2. CASE HasRIP
    <3>1. ReadOffsets(header) = {RIPOffsets(header)}
      BY <2>2 DEF ReadOffsets
    <3>2. \A x : Holds(RIPOffsets(header), x) =>
            x \in Nat /\ x + 1 \in 1 .. Len(disk) /\ IsPackOrLost(disk[x + 1])
      BY <2>1, <2>2, RIPOffsetsAre
    <3>3. \A x : Holds(RIPOffsets(header), x) => Readable(x)
      BY <3>2, <1>1, <1>2 DEF Readable
    <3>4. ~ReadFails(RIPOffsets(header))
      BY <3>3 DEF ReadFails, Holds
    <3> QED BY <3>1, <3>4
  <2>3. CASE ~HasRIP
    <3> DEFINE m == Max(PackOffsets(disk))
    <3>1. m \in Nat /\ m > 0 /\ Readable(m)
          /\ \A p \in PackOffsets(disk) : disk[p + 1].pack.footerPartition = m
      BY LastOfSettled
    <3> HIDE DEF m
    <3>2. header.pack.footerPartition = m
      BY <2>1, <3>1 DEF PackAt
    <3>6. ChainStart(header) = {m}
      BY <2>1, <3>1, <3>2 DEF ChainStart
    <3>7. ReadOffsets(header) = {Chain(header, m)}
      BY <2>3, <3>6 DEF ReadOffsets
    <3>8. ~ReadFails(Chain(header, m))
      BY <2>1, <3>1, SettledFile, ChainIs
    <3> QED BY <3>7, <3>8
  <2> QED BY <2>2, <2>3
<1> QED BY <1>6, <1>7

\* A list with each pack of a file, once, has them all.
OffsetsDiffer(list) ==
  \A i, j \in DOMAIN list : i # j => list[i].pack.thisPartition # list[j].pack.thisPartition
OffsetsIncrease(list) ==
  \A i, j \in DOMAIN list : i < j => list[i].pack.thisPartition < list[j].pack.thisPartition

LEMMA ReadInOrder ==
  ASSUME NEW list, NEW header, NEW offsets, IsReadList(list, header, offsets),
         offsets \in Seq(Nat), OnceEach(offsets), \A x : Holds(offsets, x) => x \in Nat /\ x > 0,
         header.pack.thisPartition = 0
  PROVE  /\ OffsetsDiffer(list) /\ (Increasing(offsets) => OffsetsIncrease(list))
         /\ \A p : p = 0 \/ Holds(offsets, p) => \E i \in DOMAIN list : list[i].pack.thisPartition = p
<1>1. /\ list \in Seq(Partitions) /\ Len(list) = Len(offsets) + 1 /\ list[1] = header
      /\ \A k \in DOMAIN offsets : list[k + 1].pack.thisPartition = offsets[k]
  BY DEF IsReadList
<1>2. Len(offsets) \in Nat /\ DOMAIN offsets = 1 .. Len(offsets) /\ DOMAIN list = 1 .. Len(offsets) + 1
      /\ \A k \in 1 .. Len(offsets) : offsets[k] \in Nat
  BY <1>1, LenProperties, ElementOfSeq
<1>3. ASSUME NEW i \in DOMAIN list, i # 1
      PROVE  i - 1 \in 1 .. Len(offsets) /\ list[i].pack.thisPartition = offsets[i - 1]
  <2>1. i - 1 \in 1 .. Len(offsets) /\ (i - 1) + 1 = i
    BY <1>2, <1>3
  <2> QED BY <2>1, <1>1, <1>2
<1>4. ASSUME Increasing(offsets), NEW i \in DOMAIN list, NEW j \in DOMAIN list, i < j
      PROVE  list[i].pack.thisPartition < list[j].pack.thisPartition
  <2>1. i \in Nat /\ j \in Nat /\ j # 1
    BY <1>2, <1>4
  <2>2. j - 1 \in 1 .. Len(offsets) /\ list[j].pack.thisPartition = offsets[j - 1]
    BY <2>1, <1>3
  <2>3. CASE i = 1
    <3>1. Holds(offsets, offsets[j - 1])
      BY <2>2, <1>2 DEF Holds
    <3> QED BY <3>1, <2>2, <2>3, <1>1
  <2>4. CASE i # 1
    <3>1. i - 1 \in 1 .. Len(offsets) /\ list[i].pack.thisPartition = offsets[i - 1]
      BY <2>4, <1>3
    <3>2. i - 1 < j - 1
      BY <2>1, <1>4
    <3>3. offsets[i - 1] < offsets[j - 1]
      BY <3>1, <3>2, <2>2, <1>2, <1>4 DEF Increasing
    <3> QED BY <3>1, <3>3, <2>2
  <2> QED BY <2>3, <2>4
<1>5. ASSUME NEW p, Holds(offsets, p) PROVE \E i \in DOMAIN list : list[i].pack.thisPartition = p
  <2>1. PICK k \in 1 .. Len(offsets) : offsets[k] = p
    BY <1>2, <1>5 DEF Holds
  <2>2. k + 1 \in DOMAIN list
    BY <1>2
  <2> QED BY <2>1, <2>2, <1>1, <1>2
<1>7. \A i \in DOMAIN list : i # 1 => list[i].pack.thisPartition > 0
  <2> SUFFICES ASSUME NEW i \in DOMAIN list, i # 1 PROVE list[i].pack.thisPartition > 0
    OBVIOUS
  <2>1. i - 1 \in DOMAIN offsets /\ list[i].pack.thisPartition = offsets[i - 1]
    BY <1>2, <1>3
  <2> QED BY <2>1 DEF Holds
<1>8. ASSUME NEW i \in DOMAIN list, NEW j \in DOMAIN list, i # 1, j # 1, i # j
      PROVE  list[i].pack.thisPartition # list[j].pack.thisPartition
  <2>1. /\ i - 1 \in DOMAIN offsets /\ list[i].pack.thisPartition = offsets[i - 1]
        /\ j - 1 \in DOMAIN offsets /\ list[j].pack.thisPartition = offsets[j - 1]
    BY <1>2, <1>3, <1>8
  <2>2. i - 1 # j - 1
    BY <1>2, <1>8
  <2> QED BY <2>1, <2>2 DEF OnceEach
<1>6. 1 \in DOMAIN list /\ list[1].pack.thisPartition = 0
  BY <1>1, <1>2
<1>9. OffsetsDiffer(list)
  BY <1>6, <1>7, <1>8 DEF OffsetsDiffer
<1> QED BY <1>4, <1>5, <1>6, <1>9 DEF OffsetsIncrease

LEMMA CompleteList ==
  ASSUME NEW list \in Seq(Partitions), OffsetsDiffer(list), NEW f \in Seq(Cells),
         \A i \in DOMAIN list : list[i].pack.thisPartition \in PackOffsets(f),
         \A p \in PackOffsets(f) : \E i \in DOMAIN list : list[i].pack.thisPartition = p
  PROVE  IsComplete(list, f)
<1> DEFINE packs == PackOffsets(f)
           at == [i \in 1 .. Len(list) |-> list[i].pack.thisPartition]
<1>1. Len(list) \in Nat /\ DOMAIN list = 1 .. Len(list)
  BY LenProperties
<1>2. \A p \in packs : p \in Nat
  BY PacksInFile
<1>3. at \in [1 .. Len(list) -> packs]
  BY <1>1
<1>4. ASSUME NEW i \in 1 .. Len(list), NEW j \in 1 .. Len(list), at[i] = at[j] PROVE i = j
  BY <1>1, <1>4 DEF OffsetsDiffer
<1>5. \A p \in packs : \E i \in 1 .. Len(list) : at[i] = p
  BY <1>1
<1>6. {list[i].pack.thisPartition : i \in DOMAIN list} = packs
  BY <1>1, <1>5
<1> HIDE DEF at, packs
<1>7. at \in Bijection(1 .. Len(list), packs)
  BY <1>3, <1>4, <1>5 DEF Bijection, Injection, Surjection, IsInjective
<1>8. ExistsBijection(1 .. Len(list), packs)
  BY <1>7 DEF ExistsBijection
<1>9. Cardinality(packs) = Len(list)
  BY <1>1, <1>8, FS_CountingElements
<1> QED BY <1>6, <1>9 DEF IsComplete, packs

-----------------------------------------------------------------------------
(* The invariant *)

\* While a file is written, the list describes it.
WhileWriting ==
  state = "writing" =>
    /\ Len(partitions) <= MaxPartitions
    /\ MemoryFollowsDisk
    /\ Describes(partitions, WholeFile)

\* While a file is read, the list is a copy of packs that are in it.
WhileReading == state = "reading" => \A i \in DOMAIN partitions : IsFromDisk(partitions[i])

WhenClosed ==
  /\ state = "closed" => partitions = <<>>
  /\ state # "writing" => memory = NoMemory

IInv ==
  /\ TypeOK /\ OwnedOnce
  /\ Sound(WholeFile)
  /\ WhileWriting /\ WhileReading /\ WhenClosed

\* What a step does to the slice of the list that is in the memory file.
SliceKept ==
  (/\ SliceInMemory
   /\ InFileOrder(partitions')
   /\ memory.open => UNCHANGED indexVars) => SliceInMemory'

LEMMA SliceWithoutMemory ==
  ASSUME ~memory'.open
  PROVE  SliceKept
BY DEF SliceKept, SliceInMemory

LEMMA IInvFacts ==
  ASSUME IInv
  PROVE  /\ FilesOK /\ partitions \in Seq(Partitions) /\ WholeFile \in Seq(Cells)
         /\ Len(partitions) \in Nat /\ DOMAIN partitions = 1 .. Len(partitions)
         /\ NPos \in Nat /\ MaxPartitions \in Nat
         /\ heap = ObjectsOf(partitions) /\ OwnsEach(partitions)
         /\ state = "writing" /\ partitions # <<>> => ListOK
         /\ state # "writing" => ~memory.open /\ DiskOK /\ WholeFile = disk
         /\ state = "reading" => ReadListOK
<1>1. MemoryFollowsDisk
  <2>1. CASE state = "writing"
    BY <2>1 DEF IInv, WhileWriting
  <2>2. CASE state # "writing"
    BY <2>2, NoMemoryIsClosed DEF IInv, WhenClosed, MemoryFollowsDisk
  <2> QED BY <2>1, <2>2
<1>2. FilesOK
  BY <1>1 DEF IInv, TypeOK, FilesOK
<1>3. /\ partitions \in Seq(Partitions) /\ heap = ObjectsOf(partitions) /\ OwnsEach(partitions)
      /\ firstMemoryPartitionIndex \in Nat /\ lastMemoryPartitionIndex \in Nat
  BY DEF IInv, TypeOK, OwnedOnce, OwnsEach
<1>4. WholeFile \in Seq(Cells)
  BY <1>2, CurrentFile
<1>5. Len(partitions) \in Nat /\ DOMAIN partitions = 1 .. Len(partitions)
  BY <1>3, LenProperties
<1>6. NPos \in Nat /\ MaxPartitions \in Nat
  BY ConstantsAssumption DEF NPos
<1>7. state = "writing" /\ partitions # <<>> => ListOK
  BY <1>3 DEF IInv, WhileWriting, ListOK
<1>8. state # "writing" => ~memory.open
  BY NoMemoryIsClosed DEF IInv, WhenClosed
<1>9. state # "writing" => WholeFile = disk /\ DiskOK
  BY <1>8 DEF WholeFile, DiskOK, IInv, TypeOK
<1>10. state = "reading" => ReadListOK
  BY <1>3 DEF IInv, WhileReading, ReadListOK
<1> QED BY <1>2, <1>3, <1>4, <1>5, <1>6, <1>7, <1>8, <1>9, <1>10

-----------------------------------------------------------------------------
(* The writer stops *)

LEMMA StopStep ==
  ASSUME IInv, NEW cells \in Seq(Cells), Sound(cells), Stop(cells)
  PROVE  IInv' /\ SliceKept
<1>1. /\ state' = "closed" /\ partitions' = <<>> /\ heap' = heap \ ObjectsOf(partitions)
      /\ disk' = cells /\ minLLen' = DefaultLLen /\ memory' = NoMemory
      /\ firstMemoryPartitionIndex' = NPos /\ lastMemoryPartitionIndex' = NPos /\ call' = "other"
  BY DEF Stop
<1>2. heap' = {} /\ NPos \in Nat
  BY <1>1, IInvFacts
<1>3. memory' \in Memories /\ ~memory'.open /\ DefaultLLen \in MinLLens
  BY <1>1, NoMemoryIsClosed, ConstantsAssumption
<1>4. partitions' \in Seq(Partitions) /\ DOMAIN partitions' = {}
  BY <1>1
<1>5. TypeOK'
  BY <1>1, <1>2, <1>3, <1>4 DEF TypeOK, States, Calls
<1>6. OwnedOnce'
  BY <1>2, <1>4 DEF OwnedOnce, ObjectsOf
<1>7. SliceKept
  BY <1>3, SliceWithoutMemory
<1>8. WholeFile' = cells
  BY <1>1, <1>3 DEF WholeFile
<1> QED BY <1>1, <1>5, <1>6, <1>7, <1>8 DEF IInv, WhileWriting, WhileReading, WhenClosed

LEMMA DestroyStep ==
  ASSUME IInv, destroyFile
  PROVE  IInv' /\ SliceKept /\ Remains(WholeFile, disk)
<1>1. disk \in Seq(Cells) /\ Remains(WholeFile, disk)
  <2>1. FilesOK
    BY IInvFacts
  <2> QED BY <2>1, CurrentFile DEF Remains, FilesOK
<1>2. Sound(disk)
  BY <1>1, IInvFacts, RemainsSound DEF IInv
<1> QED BY <1>1, <1>2, StopStep DEF destroyFile

LEMMA FlushFailsStep ==
  ASSUME IInv, NEW n, closeMemoryFileFails(n)
  PROVE  IInv' /\ SliceKept /\ disk' \in Seq(Cells) /\ Remains(WholeFile, disk')
<1> DEFINE cells == disk \o SubSeq(memory.cells, 1, n)
<1>1. memory.open /\ n \in 0 .. Len(memory.cells) - 1 /\ Stop(cells)
  BY DEF closeMemoryFileFails
<1>2. memory.cells \in Seq(Cells) /\ disk \in Seq(Cells)
  BY <1>1, IInvFacts, MemoryFields DEF FilesOK
<1>3. /\ Len(memory.cells) \in Nat /\ Len(disk) \in Nat /\ n \in Nat
      /\ n <= Len(memory.cells)
  BY <1>1, <1>2, LenProperties
<1>4. /\ SubSeq(memory.cells, 1, n) \in Seq(Cells) /\ Len(SubSeq(memory.cells, 1, n)) = n
      /\ \A i \in 1 .. n : SubSeq(memory.cells, 1, n)[i] = memory.cells[i]
  BY <1>2, <1>3
<1> DEFINE flushed == SubSeq(memory.cells, 1, n)
<1> HIDE DEF flushed
<1>5. /\ cells \in Seq(Cells) /\ Len(cells) = Len(disk) + n
      /\ \A i \in 1 .. Len(disk) + n :
           cells[i] = IF i <= Len(disk) THEN disk[i] ELSE flushed[i - Len(disk)]
  BY <1>2, <1>4, ConcatProperties DEF flushed
<1>6. /\ Len(WholeFile) = Len(disk) + Len(memory.cells)
      /\ \A i \in 1 .. Len(disk) + Len(memory.cells) :
           WholeFile[i] = IF i <= Len(disk) THEN disk[i] ELSE memory.cells[i - Len(disk)]
  BY <1>1, <1>2, ConcatProperties DEF WholeFile
<1> HIDE DEF cells
<1>7. ASSUME NEW i \in 1 .. Len(disk) + n PROVE cells[i] = WholeFile[i]
  <2>1. i \in 1 .. Len(disk) + Len(memory.cells)
    BY <1>3
  <2>2. CASE i <= Len(disk)
    BY <2>1, <2>2, <1>5, <1>6
  <2>3. CASE ~(i <= Len(disk))
    <3>1. i - Len(disk) \in 1 .. n
      BY <2>3, <1>3
    <3>2. flushed[i - Len(disk)] = memory.cells[i - Len(disk)]
      BY <3>1, <1>4 DEF flushed
    <3> QED BY <2>1, <2>3, <3>2, <1>5, <1>6
  <2> QED BY <2>2, <2>3
<1>8. Remains(WholeFile, cells)
  BY <1>3, <1>5, <1>6, <1>7 DEF Remains
<1>9. Sound(cells)
  BY <1>5, <1>8, IInvFacts, RemainsSound DEF IInv
<1> QED BY <1>1, <1>5, <1>8, <1>9, StopStep DEF cells, Stop

\* What is left of a file that is not written any more.
LEMMA DecayStep ==
  ASSUME IInv, state = "closed", disk' \in Seq(Cells), Remains(disk, disk'),
         call' = "other", UNCHANGED <<state, partitions, heap, minLLen, memory, indexVars>>
  PROVE  IInv' /\ SliceKept
<1>1. state # "writing" /\ ~memory.open /\ ~memory'.open
  BY IInvFacts
<1>2. Sound(disk)
  BY <1>1, IInvFacts DEF DiskOK
<1>3. Sound(disk')
  BY <1>1, <1>2, IInvFacts, RemainsSound DEF DiskOK
<1>4. TypeOK'
  BY DEF IInv, TypeOK, Calls, indexVars
<1>5. OwnedOnce' /\ WhenClosed'
  BY <1>1 DEF IInv, OwnedOnce, ObjectsOf, WhenClosed
<1>6. WholeFile' = disk'
  BY <1>1 DEF WholeFile
<1>7. SliceKept
  BY <1>1, SliceWithoutMemory
<1> QED BY <1>1, <1>3, <1>4, <1>5, <1>6, <1>7 DEF IInv, WhileWriting, WhileReading

LEMMA LoseTailStep ==
  ASSUME IInv, NEW n, loseTail(n)
  PROVE  IInv' /\ SliceKept /\ disk' \in Seq(Cells) /\ Remains(disk, disk')
<1>1. /\ state = "closed" /\ n \in 0 .. Len(disk) - 1 /\ disk' = SubSeq(disk, 1, n)
      /\ call' = "other" /\ UNCHANGED <<state, partitions, heap, minLLen, memory, indexVars>>
  BY DEF loseTail
<1>2. disk \in Seq(Cells) /\ Len(disk) \in Nat
  BY LenProperties DEF IInv, TypeOK
<1>3. n \in Nat /\ n <= Len(disk)
  BY <1>1, <1>2
<1>4. /\ disk' \in Seq(Cells) /\ Len(disk') = n
      /\ \A i \in 1 .. n : disk'[i] = disk[i]
  BY <1>1, <1>2, <1>3
<1>5. Remains(disk, disk')
  BY <1>3, <1>4 DEF Remains
<1> QED BY <1>1, <1>4, <1>5, DecayStep

LEMMA DamageStep ==
  ASSUME IInv, NEW c, damageCell(c)
  PROVE  IInv' /\ SliceKept /\ disk' \in Seq(Cells) /\ Remains(disk, disk')
<1>1. /\ state = "closed" /\ c \in DOMAIN disk
      /\ disk' = [disk EXCEPT ![c] = [type |-> "damaged"]]
      /\ call' = "other" /\ UNCHANGED <<state, partitions, heap, minLLen, memory, indexVars>>
  BY DEF damageCell
<1>2. disk \in Seq(Cells) /\ DOMAIN disk = 1 .. Len(disk) /\ Len(disk) \in Nat
  BY LenProperties DEF IInv, TypeOK
<1> DEFINE lost == [type |-> "damaged"]
<1>3. lost \in Cells /\ lost.type = "damaged"
  BY CellsToWrite
<1> HIDE DEF lost
<1>4. /\ disk' \in Seq(Cells) /\ Len(disk') = Len(disk)
      /\ \A i \in 1 .. Len(disk) : disk'[i] = IF i = c THEN lost ELSE disk[i]
  BY <1>1, <1>2, <1>3, ExceptSeq DEF lost
<1>5. Remains(disk, disk')
  BY <1>2, <1>3, <1>4 DEF Remains, IsLost
<1> QED BY <1>1, <1>4, <1>5, DecayStep

LEMMA OpenReadStep ==
  ASSUME IInv, openRead
  PROVE  IInv' /\ SliceKept
<1>1. /\ state = "closed" /\ state' = "reading" /\ call' = "other"
      /\ UNCHANGED <<partitions, heap, disk, minLLen, memory, firstMemoryPartitionIndex,
                     lastMemoryPartitionIndex>>
  BY DEF openRead, fileVars, indexVars
<1>2. state # "writing" /\ ~memory.open /\ partitions = <<>> /\ memory = NoMemory
  BY <1>1, IInvFacts DEF IInv, WhenClosed
<1>3. TypeOK'
  BY <1>1 DEF IInv, TypeOK, States, Calls
<1>4. OwnedOnce' /\ WholeFile' = WholeFile
  BY <1>1 DEF IInv, OwnedOnce, ObjectsOf, WholeFile
<1>6. SliceKept
  BY <1>1, <1>2, SliceWithoutMemory
<1>5. WhileReading' /\ WhenClosed' /\ WhileWriting'
  BY <1>1, <1>2 DEF WhileReading, WhenClosed, WhileWriting
<1> QED BY <1>3, <1>4, <1>5, <1>6 DEF IInv

-----------------------------------------------------------------------------
(* Partitions are created *)

\* The list with a partition that is not written, after it, or in it.
LEMMA DescribesAppended ==
  ASSUME NEW list \in Seq(Partitions), NEW p \in Partitions, NEW f, Describes(list, f),
         \A i \in DOMAIN list : list[i].pack.kind # "footer",
         ~p.written, p.pack.footerPartition = 0, p.pack.kind = "header" <=> list = <<>>,
         InOrderClient =>
           \A i \in DOMAIN list :
             /\ list[i].written
             /\ i = Len(list) => p.pack.previousPartition = list[i].pack.thisPartition
  PROVE  Describes(Append(list, p), f)
<1> DEFINE new == Append(list, p)
<1>1. Len(list) \in Nat /\ DOMAIN list = 1 .. Len(list) /\ (list = <<>> <=> Len(list) = 0)
  BY LenProperties, EmptySeq
<1>2. /\ new \in Seq(Partitions) /\ Len(new) = Len(list) + 1 /\ new[Len(list) + 1] = p
      /\ \A i \in 1 .. Len(list) : new[i] = list[i]
  BY <1>1, AppendProperties
<1> HIDE DEF new
<1>3. DOMAIN new = 1 .. Len(list) + 1
      /\ \A i \in DOMAIN new : i \in 1 .. Len(list) \/ i = Len(list) + 1
  BY <1>1, <1>2, LenProperties
<1>4. \A offset : ~LastIsFooterAt(list, offset)
  BY <1>1 DEF LastIsFooterAt
<1>5. OwnOffsets(new)
  <2>1. \A i \in DOMAIN new : new[i].written => i \in DOMAIN list /\ new[i] = list[i]
    BY <1>1, <1>2, <1>3
  <2> QED BY <2>1 DEF Describes, OwnOffsets
<1>6. \A i \in 1 .. Len(list) :
        /\ list[i].pack.kind = "header" <=> i = 1
        /\ ~(list[i].pack.footerPartition > 0) /\ list[i].pack.kind # "footer"
  BY <1>1, <1>4 DEF Describes, KindsFit
<1>7. KindsFit(new)
  <2>1. p.pack.kind = "header" <=> Len(list) + 1 = 1
    BY <1>1
  <2> QED BY <2>1, <1>1, <1>2, <1>3, <1>6 DEF KindsFit
<1>8. Matches(new, f)
  <2>1. ASSUME NEW i \in DOMAIN new PROVE PartitionInFile(new[i], f)
    <3>1. CASE i \in 1 .. Len(list)
      BY <3>1, <1>1, <1>2 DEF Describes, Matches
    <3>2. CASE i = Len(list) + 1
      BY <3>2, <1>2 DEF PartitionInFile
    <3> QED BY <3>1, <3>2, <1>3
  <2>2. ASSUME NEW q \in PackOffsets(f) PROVE PackInList(new, f, q)
    <3>1. PackInList(list, f, q)
      BY DEF Describes, Matches
    <3>2. PICK i \in 1 .. Len(list) : list[i].written /\ list[i].pack.thisPartition = q
      BY <3>1, <1>1 DEF PackInList
    <3>3. i \in DOMAIN new /\ new[i] = list[i]
      BY <1>1, <1>2, <1>3
    <3> QED BY <3>1, <3>2, <3>3, <1>4 DEF PackInList
  <2>3. ASSUME f # <<>> PROVE new # <<>> /\ new[1].written
    <3>1. list # <<>> /\ list[1].written
      BY <2>3 DEF Describes, Matches
    <3>2. 1 \in 1 .. Len(list)
      BY <3>1, <1>1
    <3>3. Len(new) > 0
      BY <1>1, <1>2
    <3> QED BY <3>1, <3>2, <3>3, <1>2, EmptySeq
  <2> QED BY <2>1, <2>2, <2>3 DEF Matches
<1>10. ASSUME InOrderClient PROVE InFileOrder(new)
  <2> SUFFICES ASSUME NEW i \in DOMAIN new, NEW j \in DOMAIN new, i < j, new[j].written
               PROVE  new[i].written /\ new[i].pack.thisPartition < new[j].pack.thisPartition
    BY DEF InFileOrder
  <2>1. j \in 1 .. Len(list)
    BY <1>2, <1>3
  <2>2. i \in 1 .. Len(list)
    BY <2>1, <1>1, <1>3
  <2> QED BY <2>1, <2>2, <1>1, <1>2, <1>10 DEF Describes, InFileOrder
<1>9. ASSUME InOrderClient PROVE LinkedInOrder(new)
  <2> SUFFICES ASSUME NEW i \in 1 .. Len(new) - 1
               PROVE  new[i].written /\ new[i + 1].pack.previousPartition = new[i].pack.thisPartition
    BY DEF LinkedInOrder
  <2>1. i \in 1 .. Len(list) /\ new[i] = list[i] /\ list[i].written
    BY <1>1, <1>2, <1>9
  <2>2. CASE i = Len(list)
    BY <2>1, <2>2, <1>1, <1>2, <1>9
  <2>3. CASE i # Len(list)
    <3>0. Len(list) \in Nat
      BY <1>1
    <3>1. i \in 1 .. Len(list) - 1 /\ i + 1 \in 1 .. Len(list)
      BY <2>1, <2>3, <3>0
    <3>2. list[i + 1].pack.previousPartition = list[i].pack.thisPartition
      BY <3>1, <1>9 DEF Describes, LinkedInOrder
    <3> QED BY <3>1, <3>2, <2>1, <1>2
  <2> QED BY <2>2, <2>3
<1> QED BY <1>5, <1>7, <1>8, <1>9, <1>10 DEF Describes, new

LEMMA CreateStep ==
  ASSUME IInv, NEW kind \in Kinds, createPartition(kind)
  PROVE  IInv' /\ SliceKept /\ call' = "other" /\ UNCHANGED fileVars
<1> DEFINE id == NewObject(heap)
           previous == IF partitions = <<>> THEN 0
                       ELSE partitions[Len(partitions)].pack.thisPartition
           p == [id |-> id, written |-> FALSE,
                 pack |-> [NewPack(kind) EXCEPT !.previousPartition = previous]]
<1>1. /\ state = "writing" /\ Len(partitions) < MaxPartitions
      /\ KindFits(kind, Len(partitions)) /\ CanAllocate(heap, 1)
      /\ InOrderClient => AllWritten
      /\ partitions' = Append(partitions, p) /\ heap' = heap \cup {id} /\ call' = "other"
      /\ UNCHANGED <<state, disk, minLLen, memory, firstMemoryPartitionIndex,
                     lastMemoryPartitionIndex>>
  BY DEF createPartition, fileVars, indexVars
<1>2. /\ partitions \in Seq(Partitions) /\ Len(partitions) \in Nat
      /\ DOMAIN partitions = 1 .. Len(partitions)
      /\ heap = ObjectsOf(partitions) /\ MaxPartitions \in Nat
  BY IInvFacts
<1>3. partitions = <<>> <=> Len(partitions) = 0
  BY <1>2, EmptySeq
<1>4. previous \in Nat
  <2>1. CASE partitions = <<>>
    BY <2>1
  <2>2. CASE partitions # <<>>
    <3>1. Len(partitions) \in 1 .. Len(partitions)
      BY <2>2, <1>2, <1>3
    <3> QED BY <3>1, <2>2, <1>2, ElementOfSeq, PartitionFields, PackFields
  <2> QED BY <2>1, <2>2
<1>5. id \in Objects \ heap
  BY <1>1, NewObjectIs
<1>p. partitions # <<>> => previous = partitions[Len(partitions)].pack.thisPartition
  OBVIOUS
<1> HIDE DEF previous, id
<1>6. /\ p \in Partitions /\ p.id = id /\ ~p.written /\ p.pack.kind = kind
      /\ p.pack.previousPartition = previous /\ p.pack.footerPartition = 0
  BY <1>4, <1>5, Created
<1> HIDE DEF p
<1>7. /\ partitions' \in Seq(Partitions) /\ Len(partitions') = Len(partitions) + 1
      /\ partitions'[Len(partitions) + 1] = p
      /\ \A i \in 1 .. Len(partitions) : partitions'[i] = partitions[i]
  BY <1>1, <1>2, <1>6, AppendProperties
<1>8. DOMAIN partitions' = 1 .. Len(partitions) + 1
      /\ \A i \in DOMAIN partitions' : i \in 1 .. Len(partitions) \/ i = Len(partitions) + 1
  BY <1>2, <1>7, LenProperties
<1>9. TypeOK'
  BY <1>1, <1>5, <1>7 DEF IInv, TypeOK, Calls
<1>10. OwnedOnce'
  <2>1. \A i \in 1 .. Len(partitions) : partitions[i].id \in heap
    BY <1>2 DEF ObjectsOf
  <2>2. heap' = ObjectsOf(partitions)'
    BY <2>1, <1>1, <1>2, <1>6, <1>7, <1>8 DEF ObjectsOf
  <2>3. ASSUME NEW i \in DOMAIN partitions', NEW j \in DOMAIN partitions',
               partitions'[i].id = partitions'[j].id
        PROVE  i = j
    <3>1. CASE i \in 1 .. Len(partitions) /\ j \in 1 .. Len(partitions)
      BY <3>1, <2>3, <1>2, <1>7 DEF IInv, OwnedOnce
    <3>2. CASE i \in 1 .. Len(partitions) /\ j = Len(partitions) + 1
      BY <3>2, <2>1, <2>3, <1>5, <1>6, <1>7
    <3>3. CASE j \in 1 .. Len(partitions) /\ i = Len(partitions) + 1
      BY <3>3, <2>1, <2>3, <1>5, <1>6, <1>7
    <3> QED BY <3>1, <3>2, <3>3, <1>8
  <2> QED BY <2>2, <2>3 DEF OwnedOnce
<1>11. SliceKept
  <2> SUFFICES ASSUME SliceInMemory, memory'.open,
                      NEW i \in firstMemoryPartitionIndex' + 1 .. Len(partitions'),
                      partitions'[i].written
               PROVE  partitions'[i].pack.thisPartition >= memory'.start
    BY DEF SliceKept, SliceInMemory
  <2>1. firstMemoryPartitionIndex' \in Nat /\ firstMemoryPartitionIndex' = firstMemoryPartitionIndex
    BY <1>1, IInvFacts DEF IInv, TypeOK
  <2>2. i \in DOMAIN partitions'
    BY <2>1, <1>2, <1>7, <1>8
  <2>3. i \in 1 .. Len(partitions) /\ partitions'[i] = partitions[i]
    BY <2>2, <1>6, <1>7, <1>8
  <2>4. i \in firstMemoryPartitionIndex + 1 .. Len(partitions)
    BY <2>1, <2>3, <1>2
  <2> QED BY <2>3, <2>4, <1>1 DEF SliceInMemory
<1>12. WholeFile' = WholeFile /\ MemoryFollowsDisk'
  BY <1>1 DEF WholeFile, IInv, WhileWriting, MemoryFollowsDisk
<1>13. Describes(partitions', WholeFile)
  <2>1. kind = "header" <=> partitions = <<>>
    BY <1>1, <1>3 DEF KindFits
  <2>2. \A i \in DOMAIN partitions : partitions[i].pack.kind # "footer"
    BY <1>1, <1>2 DEF KindFits
  <2>3. InOrderClient =>
           \A i \in DOMAIN partitions :
             /\ partitions[i].written
             /\ i = Len(partitions) => previous = partitions[i].pack.thisPartition
    BY <1>1, <1>2, <1>3, <1>p DEF AllWritten
  <2>4. Describes(partitions, WholeFile)
    BY <1>1 DEF IInv, WhileWriting
  <2> QED BY <2>1, <2>2, <2>3, <2>4, <1>1, <1>2, <1>6, DescribesAppended
<1>14. WhileWriting'
  BY <1>1, <1>2, <1>7, <1>12, <1>13 DEF WhileWriting
<1>15. WhileReading' /\ WhenClosed'
  BY <1>1 DEF WhileReading, WhenClosed
<1> QED BY <1>1, <1>9, <1>10, <1>11, <1>12, <1>14, <1>15 DEF IInv, fileVars

\* Partition p comes after the first `index` ones; of the others only the links
\* to previous partitions may change.
IsInserted(old, new, index, p) ==
  /\ index \in 1 .. Len(old) - 1
  /\ Len(new) = Len(old) + 1
  /\ \A i \in 1 .. index : new[i] = old[i]
  /\ new[index + 1] = p
  /\ \A i \in index + 1 .. Len(old) : SamePartition(old[i], new[i + 1])
       /\ new[i + 1].pack.footerPartition = old[i].pack.footerPartition

LEMMA InsertedPlaces ==
  ASSUME NEW old \in Seq(Partitions), NEW new \in Seq(Partitions), NEW index, NEW p,
         IsInserted(old, new, index, p)
  PROVE  /\ \A i \in DOMAIN new :
              \/ i \in 1 .. index /\ i \in DOMAIN old /\ new[i] = old[i]
              \/ i = index + 1 /\ new[i] = p
              \/ /\ i - 1 \in index + 1 .. Len(old) /\ i - 1 \in DOMAIN old
                 /\ SamePartition(old[i - 1], new[i])
                 /\ new[i].pack.footerPartition = old[i - 1].pack.footerPartition
         /\ \A i \in DOMAIN old :
              \/ i \in 1 .. index /\ i \in DOMAIN new /\ new[i] = old[i]
              \/ /\ i + 1 \in DOMAIN new /\ SamePartition(old[i], new[i + 1])
                 /\ i \in index + 1 .. Len(old)
         /\ index + 1 \in DOMAIN new
<1>1. Len(old) \in Nat /\ DOMAIN old = 1 .. Len(old) /\ DOMAIN new = 1 .. Len(old) + 1
  BY LenProperties DEF IsInserted
<1>2. index \in Nat /\ 1 <= index /\ index <= Len(old) - 1
  BY <1>1 DEF IsInserted
<1>3. ASSUME NEW i \in DOMAIN new
      PROVE  \/ i \in 1 .. index /\ i \in DOMAIN old /\ new[i] = old[i]
             \/ i = index + 1 /\ new[i] = p
             \/ /\ i - 1 \in index + 1 .. Len(old) /\ i - 1 \in DOMAIN old
                /\ SamePartition(old[i - 1], new[i])
                /\ new[i].pack.footerPartition = old[i - 1].pack.footerPartition
  <2>1. CASE i <= index
    <3>1. i \in 1 .. index /\ i \in DOMAIN old
      BY <2>1, <1>1, <1>2
    <3> QED BY <3>1 DEF IsInserted
  <2>2. CASE i = index + 1
    BY <2>2 DEF IsInserted
  <2>3. CASE i > index + 1
    <3>1. i - 1 \in index + 1 .. Len(old) /\ i - 1 \in DOMAIN old /\ (i - 1) + 1 = i
      BY <2>3, <1>1, <1>2
    <3>2. /\ SamePartition(old[i - 1], new[(i - 1) + 1])
          /\ new[(i - 1) + 1].pack.footerPartition = old[i - 1].pack.footerPartition
      BY <3>1 DEF IsInserted
    <3> QED BY <3>1, <3>2
  <2> QED BY <2>1, <2>2, <2>3, <1>1, <1>2
<1>4. ASSUME NEW i \in DOMAIN old
      PROVE  \/ i \in 1 .. index /\ i \in DOMAIN new /\ new[i] = old[i]
             \/ /\ i + 1 \in DOMAIN new /\ SamePartition(old[i], new[i + 1])
                /\ i \in index + 1 .. Len(old)
  <2>1. CASE i <= index
    <3>1. i \in 1 .. index /\ i \in DOMAIN new
      BY <2>1, <1>1, <1>2
    <3> QED BY <3>1 DEF IsInserted
  <2>2. CASE i > index
    <3>1. i \in index + 1 .. Len(old) /\ i + 1 \in DOMAIN new
      BY <2>2, <1>1, <1>2
    <3> QED BY <3>1 DEF IsInserted
  <2> QED BY <2>1, <2>2, <1>1, <1>2
<1>5. index + 1 \in DOMAIN new
  BY <1>1, <1>2
<1> QED BY <1>3, <1>4, <1>5

LEMMA DescribesInserted ==
  ASSUME NEW old \in Seq(Partitions), NEW new \in Seq(Partitions), NEW index, NEW p,
         IsInserted(old, new, index, p), NEW f, Describes(old, f), ~InOrderClient,
         ~p.written, p.pack.footerPartition = 0, p.pack.kind \notin {"header", "footer"}
  PROVE  Describes(new, f)
<1>1. Len(old) \in Nat /\ DOMAIN old = 1 .. Len(old) /\ DOMAIN new = 1 .. Len(old) + 1
      /\ Len(new) = Len(old) + 1
  BY LenProperties DEF IsInserted
<1>2. index \in Nat /\ 1 <= index /\ index <= Len(old) - 1
  BY <1>1 DEF IsInserted
\* where the partitions of the new list that were written come from
<1> DEFINE from(i) == IF i <= index THEN i ELSE i - 1
<1>4. ASSUME NEW i \in DOMAIN new, i # index + 1
      PROVE  /\ from(i) \in DOMAIN old /\ SamePartition(old[from(i)], new[i])
             /\ new[i].pack.footerPartition = old[from(i)].pack.footerPartition
  <2>1. CASE i \in 1 .. index /\ i \in DOMAIN old /\ new[i] = old[i]
    BY <2>1, <1>2 DEF SamePartition
  <2>2. CASE /\ i - 1 \in index + 1 .. Len(old) /\ i - 1 \in DOMAIN old
             /\ SamePartition(old[i - 1], new[i])
             /\ new[i].pack.footerPartition = old[i - 1].pack.footerPartition
    <3>1. ~(i <= index)
      BY <2>2, <1>1, <1>2
    <3> QED BY <2>2, <3>1
  <2> QED BY <2>1, <2>2, <1>4, InsertedPlaces
<1>i. ASSUME NEW i \in DOMAIN new, new[i].written PROVE i # index + 1
  BY <1>i DEF IsInserted
<1>5. ASSUME NEW offset, LastIsFooterAt(old, offset) PROVE LastIsFooterAt(new, offset)
  <2>0. Len(old) \in Nat
    BY <1>1
  <2>4. /\ Len(old) + 1 \in 1 .. Len(old) + 1 /\ Len(old) + 1 # index + 1
        /\ ~(Len(old) + 1 <= index) /\ (Len(old) + 1) - 1 = Len(old)
    BY <2>0, <1>2
  <2>1. Len(new) \in DOMAIN new /\ Len(new) # index + 1 /\ from(Len(new)) = Len(old)
    BY <2>4, <1>1
  <2>2. SamePartition(old[Len(old)], new[Len(new)])
    BY <2>1, <1>4
  <2>3. new # <<>>
    BY <2>1
  <2> QED BY <2>2, <2>3, <1>5 DEF LastIsFooterAt, SamePartition
<1>7. OwnOffsets(new)
  <2> SUFFICES ASSUME NEW i \in DOMAIN new, NEW j \in DOMAIN new,
                      new[i].written, new[j].written, i # j
               PROVE  new[i].pack.thisPartition # new[j].pack.thisPartition
    BY DEF OwnOffsets
  <2>1. i # index + 1 /\ j # index + 1
    BY <1>i
  <2>2. from(i) # from(j)
    BY <2>1, <1>1, <1>2
  <2>3. /\ from(i) \in DOMAIN old /\ SamePartition(old[from(i)], new[i])
        /\ from(j) \in DOMAIN old /\ SamePartition(old[from(j)], new[j])
    BY <2>1, <1>4
  <2> HIDE DEF from
  <2> QED BY <2>2, <2>3 DEF Describes, OwnOffsets, SamePartition
<1>8. KindsFit(new)
  <2> SUFFICES ASSUME NEW i \in DOMAIN new
               PROVE  /\ new[i].pack.kind = "header" <=> i = 1
                      /\ new[i].pack.kind = "footer" => i = Len(new)
                      /\ new[i].pack.footerPartition > 0
                           => LastIsFooterAt(new, new[i].pack.footerPartition)
    BY DEF KindsFit
  <2>1. CASE i = index + 1
    <3>1. i # 1 /\ new[i] = p
      BY <2>1, <1>2 DEF IsInserted
    <3> QED BY <3>1
  <2>2. CASE i # index + 1
    <3>1. (from(i) = 1 <=> i = 1) /\ (from(i) = Len(old) <=> i = Len(new))
      BY <2>2, <1>1, <1>2
    <3>2. /\ from(i) \in DOMAIN old /\ SamePartition(old[from(i)], new[i])
          /\ new[i].pack.footerPartition = old[from(i)].pack.footerPartition
      BY <2>2, <1>4
    <3> HIDE DEF from
    <3>3. /\ old[from(i)].pack.kind = "header" <=> i = 1
          /\ old[from(i)].pack.kind = "footer" => i = Len(new)
          /\ old[from(i)].pack.footerPartition > 0
               => LastIsFooterAt(old, old[from(i)].pack.footerPartition)
      BY <3>1, <3>2 DEF Describes, KindsFit
    <3> QED BY <3>2, <3>3, <1>5 DEF SamePartition
  <2> QED BY <2>1, <2>2
<1>9. Matches(new, f)
  <2>1. ASSUME NEW i \in DOMAIN new PROVE PartitionInFile(new[i], f)
    <3> SUFFICES ASSUME new[i].written
                 PROVE  /\ new[i].pack.thisPartition \in PackOffsets(f)
                        /\ f[new[i].pack.thisPartition + 1].pack.kind = new[i].pack.kind
      BY DEF PartitionInFile
    <3>1. from(i) \in DOMAIN old /\ SamePartition(old[from(i)], new[i])
      BY <1>4, <1>i
    <3> HIDE DEF from
    <3>2. PartitionInFile(old[from(i)], f)
      BY <3>1 DEF Describes, Matches
    <3> QED BY <3>1, <3>2 DEF PartitionInFile, SamePartition
  <2>2. ASSUME NEW q \in PackOffsets(f) PROVE PackInList(new, f, q)
    <3>1. PackInList(old, f, q)
      BY DEF Describes, Matches
    <3>2. PICK i \in DOMAIN old : old[i].written /\ old[i].pack.thisPartition = q
      BY <3>1 DEF PackInList
    <3>3. \E j \in DOMAIN new : new[j].written /\ new[j].pack.thisPartition = q
      <4>1. CASE i \in DOMAIN new /\ new[i] = old[i]
        BY <3>2, <4>1
      <4>2. CASE i + 1 \in DOMAIN new /\ SamePartition(old[i], new[i + 1])
        <5>1. new[i + 1].written /\ new[i + 1].pack.thisPartition = q
          BY <3>2, <4>2 DEF SamePartition
        <5> QED BY <4>2, <5>1
      <4> QED BY <4>1, <4>2, InsertedPlaces
    <3> QED BY <3>1, <3>3, <1>5 DEF PackInList
  <2>3. ASSUME f # <<>> PROVE new # <<>> /\ new[1].written
    <3>1. old[1].written
      BY <2>3 DEF Describes, Matches
    <3>2. 1 \in 1 .. index
      BY <1>2
    <3>3. Len(new) > 0
      BY <1>1
    <3> QED BY <3>1, <3>2, <3>3, EmptySeq DEF IsInserted
  <2> QED BY <2>1, <2>2, <2>3 DEF Matches
<1> QED BY <1>7, <1>8, <1>9 DEF Describes

\* The list that insertPartition leaves.
LEMMA Inserted ==
  ASSUME NEW list \in Seq(Partitions), NEW index \in 1 .. Len(list) - 1,
         NEW p \in Partitions, NEW previous \in Nat
  PROVE  LET linked == [list EXCEPT ![index + 1].pack.previousPartition = previous]
             new == SubSeq(linked, 1, index) \o <<p>> \o SubSeq(linked, index + 1, Len(linked))
         IN new \in Seq(Partitions) /\ IsInserted(list, new, index, p)
<1> DEFINE linked == [list EXCEPT ![index + 1].pack.previousPartition = previous]
           one == [list[index + 1] EXCEPT !.pack.previousPartition = previous]
           a == SubSeq(linked, 1, index)
           b == SubSeq(linked, index + 1, Len(linked))
           c == a \o <<p>>
           new == c \o b
<1>1. Len(list) \in Nat /\ DOMAIN list = 1 .. Len(list)
  BY LenProperties
<1>2. index \in Nat /\ 1 <= index /\ index <= Len(list) - 1 /\ index + 1 \in 1 .. Len(list)
  BY <1>1
<1>3. /\ one \in Partitions /\ SamePartition(list[index + 1], one)
      /\ one.pack.footerPartition = list[index + 1].pack.footerPartition
  <2>1. list[index + 1] \in Partitions
    BY <1>2, ElementOfSeq
  <2>2. /\ one \in Partitions /\ one.id = list[index + 1].id
        /\ one.written = list[index + 1].written
        /\ one.pack.thisPartition = list[index + 1].pack.thisPartition
        /\ one.pack.kind = list[index + 1].pack.kind
        /\ one.pack.footerPartition = list[index + 1].pack.footerPartition
    BY <2>1, WithPrevious
  <2> HIDE DEF one
  <2> QED BY <2>2 DEF SamePartition
<1>4. linked = [list EXCEPT ![index + 1] = one]
  OBVIOUS
<1> HIDE DEF one, linked
<1>5. /\ linked \in Seq(Partitions) /\ Len(linked) = Len(list)
      /\ \A i \in 1 .. Len(list) : linked[i] = IF i = index + 1 THEN one ELSE list[i]
  BY <1>2, <1>3, <1>4, ExceptSeq
<1>6. /\ a \in Seq(Partitions) /\ Len(a) = index /\ \A i \in 1 .. index : a[i] = linked[i]
  BY <1>1, <1>2, <1>5
<1>7. /\ b \in Seq(Partitions) /\ Len(b) = Len(list) - index
      /\ \A i \in 1 .. Len(list) - index : b[i] = linked[index + i]
  BY <1>1, <1>2, <1>5
<1> HIDE DEF a, b
<1>8. /\ c \in Seq(Partitions) /\ Len(c) = index + 1
      /\ \A i \in 1 .. index : c[i] = a[i]
      /\ c[index + 1] = p
  <2>1. <<p>> \in Seq(Partitions) /\ Len(<<p>>) = 1 /\ <<p>>[1] = p
    OBVIOUS
  <2>2. /\ c \in Seq(Partitions) /\ Len(c) = Len(a) + Len(<<p>>)
        /\ \A i \in 1 .. Len(a) + Len(<<p>>) : c[i] = IF i <= Len(a) THEN a[i] ELSE <<p>>[i - Len(a)]
    BY <2>1, <1>6, ConcatProperties
  <2> QED BY <2>1, <2>2, <1>2, <1>6
<1> HIDE DEF c
<1>9. /\ new \in Seq(Partitions) /\ Len(new) = Len(c) + Len(b)
      /\ \A i \in 1 .. Len(c) + Len(b) : new[i] = IF i <= Len(c) THEN c[i] ELSE b[i - Len(c)]
  BY <1>7, <1>8, ConcatProperties
<1> HIDE DEF new
<1>10. Len(new) = Len(list) + 1
  BY <1>1, <1>2, <1>7, <1>8, <1>9
<1>11. ASSUME NEW i \in 1 .. index PROVE new[i] = list[i]
  <2>1. i \in 1 .. Len(c) + Len(b) /\ i <= Len(c) /\ i \in 1 .. Len(list) /\ i # index + 1
    BY <1>1, <1>2, <1>7, <1>8
  <2> QED BY <2>1, <1>5, <1>6, <1>8, <1>9
<1>12. new[index + 1] = p
  <2>1. index + 1 \in 1 .. Len(c) + Len(b) /\ index + 1 <= Len(c)
    BY <1>1, <1>2, <1>7, <1>8
  <2> QED BY <2>1, <1>8, <1>9
<1>13. ASSUME NEW i \in index + 1 .. Len(list)
       PROVE  /\ SamePartition(list[i], new[i + 1])
              /\ new[i + 1].pack.footerPartition = list[i].pack.footerPartition
  <2>a. Len(c) = index + 1 /\ Len(b) = Len(list) - index
    BY <1>7, <1>8
  <2>i. i \in Nat /\ index + 1 <= i /\ i <= Len(list) /\ index \in Nat /\ Len(list) \in Nat
    BY <1>1, <1>2
  <2>b. Len(c) + Len(b) = Len(list) + 1
    BY <2>a, <2>i
  <2>c. i + 1 \in 1 .. Len(list) + 1 /\ ~(i + 1 <= index + 1) /\ (i + 1) - (index + 1) = i - index
    BY <2>i
  <2>d. i - index \in 1 .. Len(list) - index /\ index + (i - index) = i /\ i \in 1 .. Len(list)
    BY <2>i
  <2>1. /\ i + 1 \in 1 .. Len(c) + Len(b) /\ ~(i + 1 <= Len(c)) /\ (i + 1) - Len(c) = i - index
        /\ i - index \in 1 .. Len(list) - index /\ index + (i - index) = i /\ i \in 1 .. Len(list)
    BY <2>a, <2>b, <2>c, <2>d
  <2>2. new[i + 1] = linked[i]
    <3>1. new[i + 1] = b[(i + 1) - Len(c)]
      BY <2>1, <1>9
    <3>2. b[i - index] = linked[index + (i - index)]
      BY <2>1, <1>7
    <3> QED BY <2>1, <3>1, <3>2
  <2>3. CASE i = index + 1
    BY <2>1, <2>2, <2>3, <1>3, <1>5
  <2>4. CASE i # index + 1
    <3>1. new[i + 1] = list[i]
      BY <2>1, <2>2, <2>4, <1>5
    <3> QED BY <3>1 DEF SamePartition
  <2> QED BY <2>3, <2>4
<1>14. IsInserted(list, new, index, p)
  BY <1>10, <1>11, <1>12, <1>13 DEF IsInserted
<1> QED BY <1>9, <1>14 DEF new, linked, a, b, c

LEMMA InsertStep ==
  ASSUME IInv, NEW index, NEW kind \in Kinds, insertPartition(index, kind)
  PROVE  IInv' /\ SliceKept /\ call' = "other" /\ UNCHANGED fileVars
<1> DEFINE id == NewObject(heap)
           previous == partitions[index].pack.thisPartition
           pack == [NewPack(kind) EXCEPT !.previousPartition = previous]
           p == [id |-> id, written |-> FALSE, pack |-> pack]
           linked == [partitions EXCEPT
                       ![index + 1].pack.previousPartition = pack.thisPartition]
           new == SubSeq(linked, 1, index) \o <<p>> \o SubSeq(linked, index + 1, Len(linked))
<1>1. /\ state = "writing" /\ Len(partitions) < MaxPartitions /\ ~InOrderClient
      /\ index \in 1 .. Len(partitions) - 1
      /\ KindFits(kind, index) /\ CanAllocate(heap, 1)
      /\ partitions' = new /\ heap' = heap \cup {id} /\ call' = "other"
      /\ UNCHANGED <<state, disk, minLLen, memory, firstMemoryPartitionIndex,
                     lastMemoryPartitionIndex>>
  BY DEF insertPartition, fileVars, indexVars
<1>2. /\ partitions \in Seq(Partitions) /\ Len(partitions) \in Nat
      /\ DOMAIN partitions = 1 .. Len(partitions)
      /\ heap = ObjectsOf(partitions) /\ MaxPartitions \in Nat
  BY IInvFacts
<1>3. index \in Nat /\ 1 <= index /\ index <= Len(partitions) - 1 /\ index \in DOMAIN partitions
  BY <1>1, <1>2
<1>4. previous \in Nat
  BY <1>3, <1>2, ElementOfSeq, PartitionFields, PackFields
<1>5. id \in Objects \ heap
  BY <1>1, NewObjectIs
<1> HIDE DEF previous, id
<1>6. /\ p \in Partitions /\ p.id = id /\ ~p.written /\ p.pack.kind = kind
      /\ p.pack.footerPartition = 0 /\ p.pack.thisPartition = 0 /\ p.pack = pack
  <2>1. p.pack = pack
    OBVIOUS
  <2> QED BY <2>1, <1>4, <1>5, Created
<1> HIDE DEF p, pack
<1>7. pack.thisPartition \in Nat
  BY <1>6
<1>8. new \in Seq(Partitions) /\ IsInserted(partitions, new, index, p)
  BY <1>1, <1>2, <1>6, <1>7, Inserted
<1> HIDE DEF new
<1>9. partitions' \in Seq(Partitions) /\ IsInserted(partitions, partitions', index, p)
  BY <1>1, <1>8
<1>10. TypeOK'
  BY <1>1, <1>5, <1>9 DEF IInv, TypeOK, Calls
<1>m. ASSUME NEW i \in DOMAIN partitions'
      PROVE  \/ i = index + 1 /\ partitions'[i] = p
             \/ /\ i <= index /\ i \in DOMAIN partitions
                /\ SamePartition(partitions[i], partitions'[i])
             \/ /\ i > index + 1 /\ i - 1 \in DOMAIN partitions
                /\ SamePartition(partitions[i - 1], partitions'[i])
  <2>1. CASE i \in 1 .. index /\ i \in DOMAIN partitions /\ partitions'[i] = partitions[i]
    <3>1. SamePartition(partitions[i], partitions'[i]) /\ i <= index
      BY <2>1, <1>3 DEF SamePartition
    <3> QED BY <3>1, <2>1
  <2>2. CASE /\ i - 1 \in index + 1 .. Len(partitions) /\ i - 1 \in DOMAIN partitions
             /\ SamePartition(partitions[i - 1], partitions'[i])
    <3>1. i > index + 1
      <4>1. i \in Nat
        BY <1>9, LenProperties
      <4> QED BY <4>1, <2>2, <1>2, <1>3
    <3> QED BY <3>1, <2>2
  <2> QED BY <2>1, <2>2, <1>2, <1>9, InsertedPlaces
<1>k. ASSUME NEW k \in DOMAIN partitions
      PROVE  \E i \in DOMAIN partitions' : SamePartition(partitions[k], partitions'[i])
  <2>1. CASE k \in 1 .. index /\ k \in DOMAIN partitions' /\ partitions'[k] = partitions[k]
    <3>1. SamePartition(partitions[k], partitions'[k])
      BY <2>1 DEF SamePartition
    <3> QED BY <3>1, <2>1
  <2>2. CASE k + 1 \in DOMAIN partitions' /\ SamePartition(partitions[k], partitions'[k + 1])
    BY <2>2
  <2> QED BY <2>1, <2>2, <1>2, <1>9, InsertedPlaces
<1>h. \A k \in DOMAIN partitions : partitions[k].id \in heap
  BY <1>2 DEF ObjectsOf
<1>11. heap' = ObjectsOf(partitions)'
  <2>1. ASSUME NEW x \in heap' PROVE \E i \in DOMAIN partitions' : partitions'[i].id = x
    <3>1. CASE x = id
      <4>1. index + 1 \in DOMAIN partitions' /\ partitions'[index + 1] = p
        BY <1>2, <1>9, InsertedPlaces DEF IsInserted
      <4> QED BY <4>1, <3>1, <1>6
    <3>2. CASE x # id
      <4>1. PICK k \in DOMAIN partitions : partitions[k].id = x
        BY <2>1, <3>2, <1>1, <1>2 DEF ObjectsOf
      <4> QED BY <4>1, <1>k DEF SamePartition
    <3> QED BY <3>1, <3>2
  <2>2. ASSUME NEW i \in DOMAIN partitions' PROVE partitions'[i].id \in heap'
    <3>1. CASE partitions'[i] = p
      BY <3>1, <1>1, <1>6
    <3>2. ASSUME NEW k \in DOMAIN partitions, SamePartition(partitions[k], partitions'[i])
          PROVE  partitions'[i].id \in heap'
      BY <3>2, <1>1, <1>h DEF SamePartition
    <3> QED BY <3>1, <3>2, <1>m
  <2> QED BY <2>1, <2>2 DEF ObjectsOf
<1>n. ASSUME NEW i \in DOMAIN partitions', i # index + 1
      PROVE  \E k \in DOMAIN partitions :
               /\ partitions[k].id = partitions'[i].id
               /\ IF i <= index THEN k = i ELSE k = i - 1
  <2>0. i \in Nat
    BY <1>9, LenProperties
  <2>1. CASE i <= index /\ i \in DOMAIN partitions /\ SamePartition(partitions[i], partitions'[i])
    <3>1. partitions[i].id = partitions'[i].id
      BY <2>1 DEF SamePartition
    <3> QED BY <3>1, <2>1
  <2>2. CASE i > index + 1 /\ i - 1 \in DOMAIN partitions
             /\ SamePartition(partitions[i - 1], partitions'[i])
    <3>1. partitions[i - 1].id = partitions'[i].id
      BY <2>2 DEF SamePartition
    <3>2. ~(i <= index)
      BY <2>2, <2>0, <1>3
    <3> QED BY <3>1, <3>2, <2>2
  <2> QED BY <2>1, <2>2, <1>n, <1>m
<1>12. ASSUME NEW i \in DOMAIN partitions', NEW j \in DOMAIN partitions',
              partitions'[i].id = partitions'[j].id
       PROVE  i = j
  <2>0. i \in Nat /\ j \in Nat
    BY <1>9, LenProperties
  <2>a. partitions'[index + 1].id = id
    BY <1>6, <1>9 DEF IsInserted
  <2>1. ASSUME NEW k \in DOMAIN partitions', k # index + 1 PROVE partitions'[k].id # id
    <3>1. PICK l \in DOMAIN partitions : partitions[l].id = partitions'[k].id
      BY <2>1, <1>n
    <3> QED BY <3>1, <1>5, <1>h
  <2>2. CASE i # index + 1 /\ j # index + 1
    <3>1. PICK k \in DOMAIN partitions : /\ partitions[k].id = partitions'[i].id
                                         /\ IF i <= index THEN k = i ELSE k = i - 1
      BY <2>2, <1>n
    <3>2. PICK l \in DOMAIN partitions : /\ partitions[l].id = partitions'[j].id
                                         /\ IF j <= index THEN l = j ELSE l = j - 1
      BY <2>2, <1>n
    <3>a. partitions[k].id = partitions[l].id
      BY <3>1, <3>2, <1>12
    <3>3. k = l
      BY <3>a DEF IInv, OwnedOnce
    <3>4. IF i <= index THEN k = i ELSE k = i - 1
      BY <3>1
    <3>5. IF j <= index THEN k = j ELSE k = j - 1
      BY <3>2, <3>3
    <3>6. index \in Nat
      BY <1>3
    <3>i. i \in Nat /\ j \in Nat /\ i # index + 1 /\ j # index + 1
      BY <2>0, <2>2
    <3>7. k \in Nat
      BY <1>2
    <3> QED BY <3>4, <3>5, <3>6, <3>7, <3>i
  <2> QED BY <2>a, <2>1, <2>2, <1>12
<1>13. OwnedOnce'
  BY <1>11, <1>12 DEF OwnedOnce
\* in the order of the file, none after the inserted one is written
<1>14. SliceKept
  <2> SUFFICES ASSUME SliceInMemory, InFileOrder(partitions'), memory'.open,
                      NEW i \in firstMemoryPartitionIndex' + 1 .. Len(partitions'),
                      partitions'[i].written
               PROVE  partitions'[i].pack.thisPartition >= memory'.start
    BY DEF SliceKept, SliceInMemory
  <2>1. firstMemoryPartitionIndex' \in Nat /\ firstMemoryPartitionIndex' = firstMemoryPartitionIndex
    BY <1>1, IInvFacts DEF IInv, TypeOK
  <2>2. Len(partitions') = Len(partitions) + 1
    BY <1>9 DEF IsInserted
  <2>3. i \in 1 .. Len(partitions) + 1 /\ i \in Nat
    BY <2>1, <2>2, <1>2
  <2>4. DOMAIN partitions' = 1 .. Len(partitions) + 1
    BY <2>2, <1>9, LenProperties
  <2>5. i \in 1 .. index /\ i \in DOMAIN partitions /\ partitions'[i] = partitions[i]
    <3>1. ~partitions'[index + 1].written
      BY <1>6, <1>9 DEF IsInserted
    <3>2. ASSUME i - 1 \in index + 1 .. Len(partitions), i - 1 \in DOMAIN partitions,
                 SamePartition(partitions[i - 1], partitions'[i])
          PROVE  FALSE
      <4>1. index + 1 < i /\ index + 1 \in DOMAIN partitions'
        BY <3>2, <2>3, <2>4, <1>2, <1>3
      <4> QED BY <4>1, <3>1, <2>3, <2>4 DEF InFileOrder
    <3> QED BY <2>3, <2>4, <3>1, <3>2, <1>2, <1>9, InsertedPlaces
  <2>6. i \in firstMemoryPartitionIndex + 1 .. Len(partitions)
    BY <2>1, <2>2, <2>5, <1>2
  <2> QED BY <2>5, <2>6, <1>1 DEF SliceInMemory
<1>15. WholeFile' = WholeFile /\ MemoryFollowsDisk'
  BY <1>1 DEF WholeFile, IInv, WhileWriting, MemoryFollowsDisk
<1>16. Describes(partitions', WholeFile)
  <2>i. index \in Nat /\ 1 <= index /\ index <= Len(partitions) - 1
    BY <1>3
  <2>l. Len(partitions) \in Nat
    BY <1>2
  <2>a. index # 0 /\ index # Len(partitions)
    BY <2>i, <2>l
  <2>b. ((kind = "header") <=> (index = 0)) /\ (kind = "footer" => index = Len(partitions))
    BY <1>1 DEF KindFits
  <2>1. kind # "header" /\ kind # "footer"
    BY <2>a, <2>b
  <2>2. Describes(partitions, WholeFile)
    BY <1>1 DEF IInv, WhileWriting
  <2> QED BY <2>1, <2>2, <1>1, <1>2, <1>6, <1>9, DescribesInserted
<1>17. WhileWriting'
  <2>1. Len(partitions') <= MaxPartitions
    BY <1>1, <1>2, <1>9 DEF IsInserted
  <2> QED BY <2>1, <1>15, <1>16 DEF WhileWriting
<1>18. WhileReading' /\ WhenClosed'
  BY <1>1 DEF WhileReading, WhenClosed
<1> QED BY <1>1, <1>10, <1>13, <1>14, <1>15, <1>17, <1>18 DEF IInv, fileVars

-----------------------------------------------------------------------------
(* Cells are written *)

LEMMA CellAppended ==
  ASSUME FilesOK, NEW cell \in Cells, SetCurrentCells(Append(CurrentCells, cell))
  PROVE  /\ FilesOK' /\ IsAppended(WholeFile, WholeFile', cell) /\ WholeFile' \in Seq(Cells)
         /\ minLLen' = minLLen /\ (memory'.open <=> memory.open)
         /\ memory.open => memory'.start = memory.start /\ memory'.llen = memory.llen
         /\ disk \in Seq(Cells) /\ disk' \in Seq(Cells) /\ Len(disk) <= Len(disk')
         /\ \A c \in 1 .. Len(disk) : disk'[c] = disk[c]
<1> DEFINE cells == Append(CurrentCells, cell)
<1>1. /\ CurrentCells \in Seq(Cells) /\ Len(CurrentCells) \in Nat /\ CurrentStart \in Nat
      /\ WholeFile \in Seq(Cells) /\ Len(WholeFile) = CurrentStart + Len(CurrentCells)
      /\ \A c \in 1 .. Len(CurrentCells) : WholeFile[CurrentStart + c] = CurrentCells[c]
  BY CurrentFile
<1>2. /\ cells \in Seq(Cells) /\ Len(cells) = Len(CurrentCells) + 1
      /\ cells[Len(CurrentCells) + 1] = cell
      /\ \A c \in 1 .. Len(CurrentCells) : cells[c] = CurrentCells[c]
  BY <1>1, AppendProperties
<1>3. SetCurrentCells(cells)
  OBVIOUS
<1> HIDE DEF cells
<1>4. /\ FilesOK' /\ (memory'.open <=> memory.open) /\ minLLen' = minLLen
      /\ memory.open => memory'.start = memory.start /\ memory'.llen = memory.llen /\ disk' = disk
      /\ ~memory.open => disk' = cells
      /\ WholeFile' \in Seq(Cells) /\ Len(WholeFile') = CurrentStart + Len(cells)
      /\ \A c \in 1 .. CurrentStart : WholeFile'[c] = WholeFile[c]
      /\ \A c \in 1 .. Len(cells) : WholeFile'[CurrentStart + c] = cells[c]
  BY <1>2, <1>3, CurrentFileSet
<1>5. Len(WholeFile') = Len(WholeFile) + 1
  BY <1>1, <1>2, <1>4
<1>6. WholeFile'[Len(WholeFile) + 1] = cell
  <2>1. Len(CurrentCells) + 1 \in 1 .. Len(cells)
        /\ CurrentStart + (Len(CurrentCells) + 1) = Len(WholeFile) + 1
    BY <1>1, <1>2
  <2> QED BY <2>1, <1>2, <1>4
<1>7. ASSUME NEW c \in 1 .. Len(WholeFile) PROVE WholeFile'[c] = WholeFile[c]
  <2>1. CASE c <= CurrentStart
    <3>1. c \in 1 .. CurrentStart
      BY <2>1, <1>1
    <3> QED BY <3>1, <1>4
  <2>2. CASE ~(c <= CurrentStart)
    <3> DEFINE d == c - CurrentStart
    <3>1. d \in 1 .. Len(CurrentCells) /\ CurrentStart + d = c /\ d \in 1 .. Len(cells)
      BY <2>2, <1>1, <1>2
    <3>2. WholeFile'[CurrentStart + d] = cells[d] /\ cells[d] = CurrentCells[d]
          /\ WholeFile[CurrentStart + d] = CurrentCells[d]
      BY <3>1, <1>1, <1>2, <1>4
    <3> QED BY <3>1, <3>2
  <2> QED BY <2>1, <2>2
<1>8. disk \in Seq(Cells) /\ Len(disk) \in Nat
  BY LenProperties DEF FilesOK
<1>9. CASE memory.open
  BY <1>4, <1>5, <1>6, <1>7, <1>8, <1>9 DEF IsAppended
<1>10. CASE ~memory.open
  <2>1. CurrentCells = disk
    BY <1>10 DEF CurrentCells
  <2>2. disk' = cells /\ Len(cells) = Len(disk) + 1 /\ \A c \in 1 .. Len(disk) : cells[c] = disk[c]
    BY <2>1, <1>2, <1>4, <1>10
  <2>3. disk' \in Seq(Cells) /\ Len(disk) <= Len(disk')
    BY <2>2, <1>2, <1>8
  <2> QED BY <2>2, <2>3, <1>4, <1>5, <1>6, <1>7, <1>8 DEF IsAppended
<1> QED BY <1>9, <1>10

\* A file that has a list whose partitions are written has its header.
LEMMA WrittenNotEmpty ==
  ASSUME NEW list \in Seq(Partitions), list # <<>>, NEW f \in Seq(Cells), Describes(list, f),
         \A i \in DOMAIN list : list[i].written
  PROVE  f # <<>>
<1>1. 1 \in DOMAIN list
  BY LenProperties, EmptySeq
<1>2. list[1].pack.thisPartition \in PackOffsets(f)
  BY <1>1 DEF Describes, Matches, PartitionInFile
<1>3. Len(f) \in Nat /\ Len(f) > 0
  BY <1>2, PacksInFile, LenProperties
<1> QED BY <1>3, EmptySeq

LEMMA OtherCellStep ==
  ASSUME IInv, state = "writing", partitions # <<>>, AllWritten,
         NEW cell \in Cells, cell.type # "pack", SetCurrentCells(Append(CurrentCells, cell)),
         cell.type = "rip" =>
           cell.entries = [i \in DOMAIN partitions |-> partitions[i].pack.thisPartition],
         call' = "other", UNCHANGED <<state, partitions, heap, indexVars>>
  PROVE  IInv' /\ SliceKept
<1>1. FilesOK /\ partitions \in Seq(Partitions) /\ WholeFile \in Seq(Cells)
      /\ Sound(WholeFile) /\ Describes(partitions, WholeFile)
      /\ \A i \in DOMAIN partitions : partitions[i].written
  BY IInvFacts DEF IInv, WhileWriting, AllWritten
<1>2. /\ FilesOK' /\ IsAppended(WholeFile, WholeFile', cell) /\ WholeFile' \in Seq(Cells)
      /\ minLLen' = minLLen /\ (memory'.open <=> memory.open)
      /\ memory.open => memory'.start = memory.start
  BY <1>1, CellAppended
<1>3. WholeFile # <<>>
  BY <1>1, WrittenNotEmpty
<1>4. cell.type = "rip" => RIPFits(WholeFile', Len(WholeFile) + 1)
  BY <1>1, <1>2, NewRIPFits
<1>5. Sound(WholeFile') /\ Describes(partitions, WholeFile')
  BY <1>1, <1>2, <1>3, <1>4, AppendOther
<1>6. TypeOK'
  BY <1>2 DEF IInv, TypeOK, FilesOK, Calls, indexVars
<1>7. OwnedOnce' /\ SliceKept
  BY <1>2 DEF IInv, OwnedOnce, ObjectsOf, SliceKept, SliceInMemory, indexVars
<1>8. WhileWriting'
  BY <1>2, <1>5 DEF IInv, WhileWriting, FilesOK
<1>9. WhileReading' /\ WhenClosed'
  BY DEF WhileReading, WhenClosed
<1> QED BY <1>5, <1>6, <1>7, <1>8, <1>9 DEF IInv

LEMMA EssenceStep ==
  ASSUME IInv, writeEssence
  PROVE  IInv' /\ SliceKept /\ call' = "other"
BY CellsToWrite, OtherCellStep DEF writeEssence

LEMMA WriteRIPStep ==
  ASSUME IInv, writeRIP
  PROVE  IInv' /\ SliceKept /\ call' = "other"
<1> DEFINE entries == [i \in DOMAIN partitions |-> partitions[i].pack.thisPartition]
           cell == [type |-> "rip", entries |-> entries]
<1>1. /\ state = "writing" /\ partitions # <<>> /\ AllWritten
      /\ SetCurrentCells(Append(CurrentCells, cell)) /\ call' = "other"
      /\ UNCHANGED <<state, partitions, heap, indexVars>>
  BY DEF writeRIP
<1>2. entries \in Seq(Nat)
  <2>1. Len(partitions) \in Nat /\ DOMAIN partitions = 1 .. Len(partitions)
        /\ partitions \in Seq(Partitions)
    BY IInvFacts
  <2>2. \A i \in 1 .. Len(partitions) : partitions[i].pack.thisPartition \in Nat
    BY <2>1, ElementOfSeq, PartitionFields, PackFields
  <2>3. entries = [i \in 1 .. Len(partitions) |-> partitions[i].pack.thisPartition]
    BY <2>1
  <2> QED BY <2>1, <2>2, <2>3, IsASeq
<1>3. cell.entries = entries /\ cell.type = "rip"
  OBVIOUS
<1> HIDE DEF entries
<1>4. cell \in Cells
  BY <1>2, CellsToWrite
<1> HIDE DEF cell
<1> QED BY <1>1, <1>3, <1>4, OtherCellStep DEF entries

LEMMA WritePartitionStep ==
  ASSUME IInv, NEW i, writePartition(i)
  PROVE  IInv' /\ SliceKept /\ call' = "other"
<1> DEFINE w == WrittenPack(partitions[i].pack)
           q == [[partitions[i] EXCEPT !.pack = w] EXCEPT !.written = TRUE]
           cell == [type |-> "pack", pack |-> w, llen |-> CurrentLLen]
<1>1. /\ state = "writing" /\ i \in DOMAIN partitions /\ ~partitions[i].written
      /\ \A j \in 1 .. i - 1 : partitions[j].written
      /\ partitions' = [partitions EXCEPT ![i].pack = w, ![i].written = TRUE]
      /\ SetCurrentCells(Append(CurrentCells, cell)) /\ call' = "other"
      /\ UNCHANGED <<state, heap, firstMemoryPartitionIndex, lastMemoryPartitionIndex>>
  BY DEF writePartition, indexVars
<1>2. /\ FilesOK /\ partitions \in Seq(Partitions) /\ WholeFile \in Seq(Cells)
      /\ Len(partitions) \in Nat /\ DOMAIN partitions = 1 .. Len(partitions)
      /\ heap = ObjectsOf(partitions)
  BY IInvFacts
<1>w. Sound(WholeFile) /\ Describes(partitions, WholeFile)
  BY <1>1 DEF IInv, WhileWriting
<1>3. partitions[i] \in Partitions
  BY <1>1, <1>2, ElementOfSeq
<1>4. Tell \in Nat /\ Len(WholeFile) = Tell /\ CurrentLLen \in MinLLens /\ Len(disk) \in Nat
      /\ Len(disk) <= Tell
  BY <1>2, CurrentFile
<1>5. /\ w \in Packs /\ w.kind = partitions[i].pack.kind /\ w.thisPartition = Tell
      /\ w.previousPartition = partitions[i].pack.previousPartition
      /\ w.footerPartition =
           IF partitions[i].pack.kind = "footer" THEN Tell ELSE partitions[i].pack.footerPartition
      /\ q \in Partitions /\ q.id = partitions[i].id /\ q.written /\ q.pack = w
  BY <1>3, <1>4, PackWritten
<1>6. partitions' = [partitions EXCEPT ![i] = q]
  BY <1>1
<1>7. cell \in Cells /\ cell.type = "pack" /\ cell.pack = w
  <2>1. cell \in [type : {"pack"}, pack : Packs, llen : MinLLens]
    BY <1>4, <1>5
  <2> QED BY <2>1 DEF Cells
<1> HIDE DEF w, q, cell
<1>8. /\ partitions' \in Seq(Partitions) /\ Len(partitions') = Len(partitions)
      /\ \A j \in 1 .. Len(partitions) : partitions'[j] = IF j = i THEN q ELSE partitions[j]
  <2>1. i \in 1 .. Len(partitions) /\ q \in Partitions
    BY <1>1, <1>2, <1>5
  <2> QED BY <2>1, <1>2, <1>6, ExceptSeq
<1>9. i \in 1 .. Len(partitions) /\ partitions'[i] = q
  BY <1>1, <1>2, <1>8
<1>10. IsWrittenNext(partitions, partitions', i, WholeFile, cell)
  BY <1>1, <1>4, <1>5, <1>7, <1>8, <1>9 DEF IsWrittenNext
<1>11. /\ FilesOK' /\ IsAppended(WholeFile, WholeFile', cell) /\ WholeFile' \in Seq(Cells)
       /\ minLLen' = minLLen /\ (memory'.open <=> memory.open)
       /\ memory.open => memory'.start = memory.start
  BY <1>1, <1>2, <1>7, CellAppended
<1>12. Sound(WholeFile') /\ Describes(partitions', WholeFile')
  BY <1>2, <1>w, <1>7, <1>8, <1>10, <1>11, AppendPack
<1>13. TypeOK'
  BY <1>1, <1>8, <1>11 DEF IInv, TypeOK, FilesOK, Calls
<1>14. ASSUME NEW j \in DOMAIN partitions PROVE partitions'[j].id = partitions[j].id
  BY <1>2, <1>5, <1>8
<1>15. DOMAIN partitions' = DOMAIN partitions
  BY <1>2, <1>8, LenProperties
<1>16. OwnedOnce'
  <2>1. ObjectsOf(partitions') = ObjectsOf(partitions)
    BY <1>14, <1>15 DEF ObjectsOf
  <2>2. heap' = ObjectsOf(partitions')
    BY <1>1, <1>2, <2>1
  <2>3. \A k, l \in DOMAIN partitions' : partitions'[k].id = partitions'[l].id => k = l
    BY <1>14, <1>15 DEF IInv, OwnedOnce
  <2> QED BY <2>2, <2>3 DEF OwnedOnce
<1>17. SliceKept
  <2> SUFFICES ASSUME SliceInMemory, memory'.open,
                      NEW j \in firstMemoryPartitionIndex' + 1 .. Len(partitions'),
                      partitions'[j].written
               PROVE  partitions'[j].pack.thisPartition >= memory'.start
    BY DEF SliceKept, SliceInMemory
  <2>1. firstMemoryPartitionIndex \in Nat /\ firstMemoryPartitionIndex' = firstMemoryPartitionIndex
    BY <1>1, IInvFacts DEF IInv, TypeOK
  <2>2. j \in firstMemoryPartitionIndex + 1 .. Len(partitions) /\ j \in 1 .. Len(partitions)
    BY <2>1, <1>2, <1>8
  <2>3. memory.open /\ memory'.start = memory.start
    BY <1>11
  <2>4. CASE j = i
    <3>1. partitions'[j].pack.thisPartition = Tell
      BY <2>4, <1>9, <1>5
    <3>2. memory'.start = Len(disk)
      BY <2>3, <1>2 DEF FilesOK, MemoryFollowsDisk
    <3> QED BY <3>1, <3>2, <1>4
  <2>5. CASE j # i
    <3>1. partitions'[j] = partitions[j]
      BY <2>2, <2>5, <1>8
    <3>2. partitions[j].pack.thisPartition >= memory.start
      BY <3>1, <2>2, <2>3 DEF SliceInMemory
    <3> QED BY <3>1, <3>2, <2>3
  <2> QED BY <2>4, <2>5
<1>18. WhileWriting'
  BY <1>1, <1>8, <1>11, <1>12 DEF IInv, WhileWriting, FilesOK
<1>19. WhileReading' /\ WhenClosed'
  BY <1>1 DEF WhileReading, WhenClosed
<1> QED BY <1>1, <1>12, <1>13, <1>16, <1>17, <1>18, <1>19 DEF IInv

-----------------------------------------------------------------------------
(* The memory file *)

LEMMA SetMinLLenStep ==
  ASSUME IInv, NEW llen \in MinLLens, setMinLLen(llen)
  PROVE  IInv' /\ SliceKept /\ call' = "other" /\ WholeFile = <<>> /\ disk' = disk
<1>1. /\ state = "writing" /\ WholeFile = <<>> /\ ~memory.open /\ minLLen' = llen
      /\ call' = "other"
      /\ UNCHANGED <<state, partitions, heap, disk, memory, firstMemoryPartitionIndex,
                     lastMemoryPartitionIndex>>
  BY DEF setMinLLen, indexVars
<1>2. TypeOK'
  BY <1>1 DEF IInv, TypeOK, Calls
<1>3. OwnedOnce' /\ SliceKept /\ WholeFile' = WholeFile
  BY <1>1, SliceWithoutMemory DEF IInv, OwnedOnce, ObjectsOf, WholeFile
<1>4. WhileReading' /\ WhenClosed'
  BY <1>1 DEF WhileReading, WhenClosed
<1>5. WhileWriting'
  BY <1>1, <1>3 DEF IInv, WhileWriting, MemoryFollowsDisk
<1> QED BY <1>1, <1>2, <1>3, <1>4, <1>5 DEF IInv

\* An empty memory file is opened at the end of the file.
LEMMA MemoryOpenedStep ==
  ASSUME IInv, NEW llen \in MinLLens, state = "writing", ~memory.open,
         memory' = [open |-> TRUE, start |-> Tell, cells |-> <<>>, llen |-> llen],
         firstMemoryPartitionIndex' = Len(partitions), lastMemoryPartitionIndex' = NPos,
         call' = "other", UNCHANGED <<state, partitions, heap, disk, minLLen>>
  PROVE  /\ IInv' /\ SliceKept /\ WholeFile' = WholeFile
         /\ memory'.open /\ memory'.llen = llen
<1>1. /\ FilesOK /\ Len(partitions) \in Nat /\ NPos \in Nat
      /\ MaxPartitions \in Nat
  BY IInvFacts
<1>2. Tell \in Nat /\ Len(WholeFile) = Tell /\ WholeFile = disk
  BY <1>1, CurrentFile DEF WholeFile
<1>3. /\ memory' \in Memories /\ memory'.open /\ memory'.start = Tell /\ memory'.cells = <<>>
      /\ memory'.llen = llen
  BY <1>2, NewMemory
<1>4. disk \in Seq(Cells)
  BY <1>1 DEF FilesOK
<1>5. WholeFile' = WholeFile
  <2>1. WholeFile' = disk \o <<>>
    BY <1>3 DEF WholeFile
  <2> QED BY <2>1, <1>2, <1>4
<1>8. TypeOK'
  BY <1>1, <1>3 DEF IInv, TypeOK, Calls
<1>9. SliceKept
  <2>1. firstMemoryPartitionIndex' + 1 .. Len(partitions') = {}
    BY <1>1
  <2> QED BY <2>1 DEF SliceKept, SliceInMemory
<1>10. OwnedOnce' /\ WhileReading' /\ WhenClosed'
  BY DEF IInv, OwnedOnce, ObjectsOf, WhileReading, WhenClosed
<1>11. MemoryFollowsDisk'
  BY <1>2, <1>3 DEF MemoryFollowsDisk
<1>12. WhileWriting'
  BY <1>5, <1>11 DEF IInv, WhileWriting
<1> QED BY <1>3, <1>5, <1>8, <1>9, <1>10, <1>12 DEF IInv

LEMMA OpenMemoryStep ==
  ASSUME IInv, openMemoryFile
  PROVE  /\ IInv' /\ SliceKept /\ call' = "other" /\ WholeFile' = WholeFile /\ disk' = disk
         /\ memory'.open /\ memory'.llen = minLLen /\ minLLen' = minLLen
<1>1. minLLen \in MinLLens
  BY DEF IInv, TypeOK
<1> QED BY <1>1, MemoryOpenedStep DEF openMemoryFile

LEMMA SetMemoryStep ==
  ASSUME IInv, NEW llen \in MinLLens, setMemoryFile(llen)
  PROVE  /\ IInv' /\ SliceKept /\ call' = "other" /\ WholeFile' = WholeFile /\ disk' = disk
         /\ memory'.open /\ memory'.llen = llen /\ minLLen' = minLLen
         /\ llen = minLLen \/ AnyMemoryLLen
BY MemoryOpenedStep DEF setMemoryFile

LEMMA IndexesStep ==
  ASSUME IInv, NEW first \in Nat, NEW last \in Nat, setMemoryPartitionIndexes(first, last)
  PROVE  IInv' /\ SliceKept /\ call' = "other"
<1>1. /\ state = "writing" /\ memory.open
      /\ firstMemoryPartitionIndex' = first /\ lastMemoryPartitionIndex' = last
      /\ call' = "other"
      /\ UNCHANGED <<state, partitions, heap, disk, minLLen, memory>>
  BY DEF setMemoryPartitionIndexes, fileVars
<1>2. TypeOK'
  BY <1>1 DEF IInv, TypeOK, Calls
<1>3. SliceKept
  BY <1>1 DEF SliceKept, SliceInMemory, indexVars
<1>4. OwnedOnce' /\ WhileReading' /\ WhenClosed' /\ WholeFile' = WholeFile
  BY <1>1 DEF IInv, OwnedOnce, ObjectsOf, WhileReading, WhenClosed, WholeFile
<1>5. WhileWriting'
  BY <1>1, <1>4 DEF IInv, WhileWriting, MemoryFollowsDisk
<1> QED BY <1>1, <1>2, <1>3, <1>4, <1>5 DEF IInv

LEMMA CloseMemoryStep ==
  ASSUME IInv, closeMemoryFile
  PROVE  /\ IInv' /\ SliceKept /\ call' = "other" /\ WholeFile' = WholeFile /\ disk' = WholeFile
         /\ minLLen' = memory.llen /\ ~memory'.open
<1>1. /\ state = "writing" /\ memory.open /\ disk' = disk \o memory.cells
      /\ minLLen' = memory.llen /\ memory' = NoMemory
      /\ firstMemoryPartitionIndex' = NPos /\ lastMemoryPartitionIndex' = NPos
      /\ call' = "other" /\ UNCHANGED <<state, partitions, heap>>
  BY DEF closeMemoryFile
<1>2. memory' \in Memories /\ ~memory'.open
  BY <1>1, NoMemoryIsClosed
<1>3. disk' = WholeFile /\ WholeFile' = WholeFile
  BY <1>1, <1>2 DEF WholeFile
<1>4. WholeFile \in Seq(Cells) /\ NPos \in Nat /\ memory \in Memories
  BY IInvFacts DEF FilesOK
<1>5. memory.llen \in MinLLens
  BY <1>1, <1>4, MemoryFields
<1>6. TypeOK'
  BY <1>1, <1>2, <1>3, <1>4, <1>5 DEF IInv, TypeOK, Calls
<1>7. OwnedOnce' /\ SliceKept /\ WhileReading' /\ WhenClosed'
  BY <1>1, <1>2, SliceWithoutMemory DEF IInv, OwnedOnce, ObjectsOf, WhileReading, WhenClosed
<1>8. WhileWriting'
  BY <1>1, <1>2, <1>3 DEF IInv, WhileWriting, MemoryFollowsDisk
<1> QED BY <1>1, <1>2, <1>3, <1>6, <1>7, <1>8 DEF IInv


-----------------------------------------------------------------------------
(* Packs are rewritten in place *)

LEMMA RewriteAllStep ==
  ASSUME IInv, CanUpdate, NEW list \in Seq(Partitions), IsRelinked(partitions, list),
         NEW order \in Seq(1 .. Len(list)), NEW name \in Calls, RewriteAll(list, order, name)
  PROVE  /\ IInv' /\ SliceKept /\ partitions' = list /\ call' = name
         /\ SetCurrentCells(Rewritten(list, order, Len(order)))
<1>1. /\ state = "writing" /\ partitions # <<>> /\ \A i \in DOMAIN partitions : partitions[i].written
      /\ partitions' = list /\ SetCurrentCells(Rewritten(list, order, Len(order)))
      /\ call' = name
      /\ UNCHANGED <<state, heap, firstMemoryPartitionIndex, lastMemoryPartitionIndex>>
  BY DEF CanUpdate, AllWritten, RewriteAll, indexVars
<1>2. /\ FilesOK /\ partitions \in Seq(Partitions) /\ WholeFile \in Seq(Cells)
      /\ Len(partitions) \in Nat /\ DOMAIN partitions = 1 .. Len(partitions)
      /\ heap = ObjectsOf(partitions)
  BY IInvFacts
<1>3. Sound(WholeFile) /\ Describes(partitions, WholeFile) /\ Len(partitions) <= MaxPartitions
  BY <1>1 DEF IInv, WhileWriting
<1>4. Len(order) \in Nat /\ Len(order) \in 0 .. Len(order)
  BY LenProperties
<1>5. Rewritten(list, order, Len(order)) \in Seq(Cells)
  BY <1>2, <1>4, RewrittenCells
<1>6. /\ FilesOK' /\ (memory'.open <=> memory.open) /\ WholeFile' \in Seq(Cells)
      /\ memory.open => memory'.start = memory.start
  BY <1>1, <1>2, <1>5, CurrentFileSet
<1>7. IsRewritten(list, WholeFile, WholeFile')
  BY <1>1, <1>2, <1>4, WholeFileRewritten
<1>8. Sound(WholeFile') /\ Describes(list, WholeFile')
  BY <1>1, <1>2, <1>3, <1>6, <1>7, RewrittenFile
<1>9. TypeOK'
  BY <1>1, <1>6 DEF IInv, TypeOK, FilesOK
<1>10. Len(list) = Len(partitions) /\ DOMAIN list = DOMAIN partitions
  BY <1>2, LenProperties DEF IsRelinked
<1>11. \A i \in DOMAIN partitions :
         /\ list[i].id = partitions[i].id
         /\ list[i].pack.thisPartition = partitions[i].pack.thisPartition
  BY DEF IsRelinked, SamePartition
<1>12. OwnedOnce'
  <2>1. ObjectsOf(list) = ObjectsOf(partitions)
    BY <1>10, <1>11 DEF ObjectsOf
  <2>2. heap' = ObjectsOf(partitions')
    BY <1>1, <1>2, <2>1
  <2>3. \A i, j \in DOMAIN list : list[i].id = list[j].id => i = j
    BY <1>10, <1>11 DEF IInv, OwnedOnce
  <2> QED BY <1>1, <2>2, <2>3 DEF OwnedOnce
<1>13. SliceKept
  <2> SUFFICES ASSUME SliceInMemory, memory'.open,
                      NEW i \in firstMemoryPartitionIndex + 1 .. Len(list)
               PROVE  list[i].pack.thisPartition >= memory'.start
    BY <1>1 DEF SliceKept, SliceInMemory
  <2>1. firstMemoryPartitionIndex \in Nat
    BY IInvFacts DEF IInv, TypeOK
  <2>2. i \in firstMemoryPartitionIndex + 1 .. Len(partitions) /\ i \in 1 .. Len(partitions)
    BY <2>1, <1>2, <1>10
  <2>3. partitions[i].pack.thisPartition >= memory.start
    BY <2>2, <1>1, <1>2, <1>6 DEF SliceInMemory
  <2> QED BY <2>2, <2>3, <1>2, <1>6, <1>11
<1>14. WhileWriting'
  BY <1>1, <1>3, <1>6, <1>8, <1>10 DEF WhileWriting, FilesOK
<1>15. WhileReading' /\ WhenClosed'
  BY <1>1 DEF WhileReading, WhenClosed
<1> QED BY <1>1, <1>8, <1>9, <1>12, <1>13, <1>14, <1>15 DEF IInv

\* Some packs were rewritten when it stopped.
LEMMA RewriteSomeStep ==
  ASSUME IInv, CanUpdate, NEW list \in Seq(Partitions), IsRelinked(partitions, list),
         NEW order \in Seq(1 .. Len(list)), RewriteSome(list, order)
  PROVE  IInv' /\ SliceKept /\ call' = "other"
<1>1. state = "writing" /\ partitions # <<>> /\ \A i \in DOMAIN partitions : partitions[i].written
  BY DEF CanUpdate, AllWritten
<1>2. /\ FilesOK /\ partitions \in Seq(Partitions) /\ WholeFile \in Seq(Cells)
  BY IInvFacts
<1>3. Sound(WholeFile) /\ Describes(partitions, WholeFile)
  BY <1>1 DEF IInv, WhileWriting
<1>4. Len(order) \in Nat
  BY LenProperties
<1>5. PICK n \in 0 .. Len(order) - 1 : Stop(IF memory.open THEN disk ELSE Rewritten(list, order, n))
  BY DEF RewriteSome
<1>6. CASE memory.open
  <2>1. disk \in Seq(Cells) /\ Remains(WholeFile, disk)
    BY <1>2, CurrentFile DEF Remains, FilesOK
  <2>2. Sound(disk)
    BY <1>2, <1>3, <2>1, RemainsSound
  <2>3. Stop(disk)
    BY <1>5, <1>6
  <2> QED BY <2>1, <2>2, <2>3, StopStep DEF Stop
<1>7. CASE ~memory.open
  <2> DEFINE cells == Rewritten(list, order, n)
  <2>1. n \in 0 .. Len(order)
    BY <1>4
  <2>2. /\ cells \in Seq(Cells) /\ Len(cells) = Len(CurrentCells)
        /\ \A c \in 1 .. Len(CurrentCells) :
             \/ cells[c] = CurrentCells[c]
             \/ \E k \in 1 .. n :
                  /\ list[order[k]].pack.thisPartition = CurrentStart + c - 1
                  /\ cells[c].type = "pack" /\ cells[c].pack = list[order[k]].pack
    BY <1>2, <2>1, RewrittenCells
  <2> HIDE DEF cells
  <2>3. CurrentCells = WholeFile /\ CurrentStart = 0
    BY <1>7 DEF CurrentCells, CurrentStart, WholeFile
  <2>4. ASSUME NEW k \in 1 .. n PROVE order[k] \in DOMAIN list /\ list[order[k]].pack.thisPartition \in Nat
    <3>1. k \in 1 .. Len(order)
      BY <1>4
    <3>2. order[k] \in DOMAIN list
      BY <3>1, ElementOfSeq, LenProperties
    <3> QED BY <3>2, ElementOfSeq, LenProperties, PartitionFields, PackFields
  <2>5. ASSUME NEW c \in 1 .. Len(WholeFile), cells[c] # WholeFile[c]
        PROVE  /\ cells[c].type = "pack"
               /\ \E i \in DOMAIN list : list[i].pack.thisPartition + 1 = c
                                         /\ cells[c].pack = list[i].pack
    <3>1. PICK k \in 1 .. n : /\ list[order[k]].pack.thisPartition = CurrentStart + c - 1
                              /\ cells[c].type = "pack" /\ cells[c].pack = list[order[k]].pack
      BY <2>2, <2>3, <2>5
    <3>2. CurrentStart + c - 1 + 1 = c
      BY <2>3
    <3> QED BY <3>1, <3>2, <2>4
  <2>6. IsRewritten(list, WholeFile, cells)
    BY <2>2, <2>3, <2>5 DEF IsRewritten
  <2>7. Sound(cells)
    BY <1>1, <1>2, <1>3, <2>2, <2>6, RewrittenFile
  <2>8. Stop(cells)
    BY <1>5, <1>7 DEF cells
  <2> QED BY <2>2, <2>7, <2>8, StopStep DEF Stop
<1> QED BY <1>6, <1>7

\* What the three calls rewrite.
LEMMA OrdersAreLists ==
  ASSUME IInv, CanUpdate
  PROVE  /\ UpdateOrder \in Seq(1 .. Len(partitions))
         /\ BodyOrder \in Seq(1 .. Len(partitions)) /\ StreamOrder \in Seq(1 .. Len(partitions))
<1>1. ListOK /\ state = "writing"
  BY IInvFacts DEF CanUpdate
<1>2. /\ Len(partitions) \in Nat /\ firstMemoryPartitionIndex \in Nat
      /\ lastMemoryPartitionIndex \in Nat /\ NPos \in Nat
  BY <1>1, IInvFacts DEF ListOK
<1>3. UpdateOrder \in Seq(1 .. Len(partitions))
  <2>1. CASE ~memory.open
    <3>1. 0 \in 0 .. Len(partitions)
      BY <1>2
    <3> QED BY <2>1, <3>1, <1>1, <1>2, PartitionListTo DEF UpdateOrder
  <2>2. CASE memory.open /\ firstMemoryPartitionIndex >= Len(partitions)
    BY <2>2 DEF UpdateOrder
  <2>3. CASE memory.open /\ ~(firstMemoryPartitionIndex >= Len(partitions))
    <3>1. firstMemoryPartitionIndex \in 0 .. Len(partitions)
      BY <2>3, <1>2
    <3> QED BY <2>3, <3>1, <1>1, <1>2, PartitionListTo DEF UpdateOrder
  <2> QED BY <2>1, <2>2, <2>3
<1>4. {i \in 0 .. Len(partitions) - 1 : BodyWanted(partitions[i + 1])} \in SUBSET Nat
  OBVIOUS
<1>5. {i \in 0 .. Len(partitions) - 1 : StreamWanted(partitions[i + 1])} \in SUBSET Nat
  OBVIOUS
<1>6. BodyOrder \in Seq(1 .. Len(partitions))
  BY <1>1, <1>4, RunsAreWanted DEF BodyOrder, ListsFrom
<1>7. StreamOrder \in Seq(1 .. Len(partitions))
  BY <1>1, <1>5, RunsAreWanted DEF StreamOrder, ListsFrom
<1> QED BY <1>3, <1>6, <1>7

LEMMA UpdateStep ==
  ASSUME IInv, updatePartitions
  PROVE  /\ IInv' /\ SliceKept
         /\ \/ call' = "update" /\ RewriteAll(UpdateList, UpdateOrder, "update")
            \/ call' = "other"
<1>1. CanUpdate /\ partitions \in Seq(Partitions) /\ partitions # <<>>
  BY IInvFacts DEF updatePartitions, CanUpdate
<1>2. UpdateList \in Seq(Partitions) /\ IsRelinked(partitions, UpdateList)
  BY <1>1, UpdateListIsRelinked
<1>3. UpdateOrder \in Seq(1 .. Len(UpdateList))
  BY <1>1, <1>2, OrdersAreLists DEF IsRelinked
<1>4. "update" \in Calls
  BY DEF Calls
<1>5. CASE RewriteAll(UpdateList, UpdateOrder, "update")
  BY <1>1, <1>2, <1>3, <1>4, <1>5, RewriteAllStep
<1>6. CASE RewriteSome(UpdateList, UpdateOrder)
  BY <1>1, <1>2, <1>3, <1>6, RewriteSomeStep
<1> QED BY <1>5, <1>6 DEF updatePartitions

LEMMA UpdateBodyStep ==
  ASSUME IInv, NEW setKey \in BOOLEAN, updateBodyPartitions(setKey)
  PROVE  /\ IInv' /\ SliceKept
         /\ \/ call' = "updateBody" /\ RewriteAll(BodyList(BodyOrder, setKey), BodyOrder, "updateBody")
            \/ call' = "other"
<1> DEFINE order == BodyOrder
           list == BodyList(order, setKey)
<1>1. CanUpdate /\ partitions \in Seq(Partitions) /\ partitions # <<>>
  BY IInvFacts DEF updateBodyPartitions, CanUpdate
<1>2. list \in Seq(Partitions) /\ IsRelinked(partitions, list)
  BY <1>1, BodyListIsRelinked
<1>3. order \in Seq(1 .. Len(list))
  BY <1>1, <1>2, OrdersAreLists DEF IsRelinked
<1>4. "updateBody" \in Calls
  BY DEF Calls
<1>c. RewriteAll(list, order, "updateBody") \/ RewriteSome(list, order)
  BY DEF updateBodyPartitions
<1>5. CASE RewriteAll(list, order, "updateBody")
  <2> HIDE DEF list, order
  <2>1. IInv' /\ SliceKept /\ call' = "updateBody"
    BY <1>1, <1>2, <1>3, <1>4, <1>5, RewriteAllStep
  <2> QED BY <1>5, <2>1 DEF list, order
<1>6. CASE RewriteSome(list, order)
  <2> HIDE DEF list, order
  <2> QED BY <1>1, <1>2, <1>3, <1>6, RewriteSomeStep
<1> QED BY <1>c, <1>5, <1>6

LEMMA UpdateStreamStep ==
  ASSUME IInv, updateGenericStreamPartitions
  PROVE  /\ IInv' /\ SliceKept
         /\ \/ call' = "updateStream" /\ RewriteAll(StreamList(StreamOrder), StreamOrder, "updateStream")
            \/ call' = "other"
<1> DEFINE order == StreamOrder
           list == StreamList(order)
<1>1. CanUpdate /\ partitions \in Seq(Partitions) /\ partitions # <<>>
  BY IInvFacts DEF updateGenericStreamPartitions, CanUpdate
<1>2. list \in Seq(Partitions) /\ IsRelinked(partitions, list)
  BY <1>1, StreamListIsRelinked
<1>3. order \in Seq(1 .. Len(list))
  BY <1>1, <1>2, OrdersAreLists DEF IsRelinked
<1>4. "updateStream" \in Calls
  BY DEF Calls
<1>c. RewriteAll(list, order, "updateStream") \/ RewriteSome(list, order)
  BY DEF updateGenericStreamPartitions
<1>5. CASE RewriteAll(list, order, "updateStream")
  <2> HIDE DEF list, order
  <2>1. IInv' /\ SliceKept /\ call' = "updateStream"
    BY <1>1, <1>2, <1>3, <1>4, <1>5, RewriteAllStep
  <2> QED BY <1>5, <2>1 DEF list, order
<1>6. CASE RewriteSome(list, order)
  <2> HIDE DEF list, order
  <2> QED BY <1>1, <1>2, <1>3, <1>6, RewriteSomeStep
<1> QED BY <1>c, <1>5, <1>6


-----------------------------------------------------------------------------
(* Partitions are read *)

LEMMA ListReadStep ==
  ASSUME IInv, state = "reading", NEW list \in Seq(Partitions), OwnsEach(list),
         \A i \in DOMAIN list : IsFromDisk(list[i]),
         partitions' = list, heap' = ObjectsOf(list), call' \in Calls,
         UNCHANGED <<state, fileVars, indexVars>>
  PROVE  IInv' /\ SliceKept /\ disk' = disk
<1>1. UNCHANGED <<state, disk, minLLen, memory, firstMemoryPartitionIndex, lastMemoryPartitionIndex>>
  BY DEF fileVars, indexVars
<1>2. heap' \subseteq Objects
  <2>1. \A i \in DOMAIN list : list[i].id \in Objects
    BY LenProperties, ElementOfSeq, PartitionFields
  <2> QED BY <2>1 DEF ObjectsOf
<1>3. TypeOK'
  BY <1>1, <1>2 DEF IInv, TypeOK
<1>4. OwnedOnce'
  BY DEF OwnedOnce, ObjectsOf, OwnsEach
<1>5. ~memory.open
  BY IInvFacts
<1>6. SliceKept /\ WholeFile' = WholeFile /\ WhenClosed'
  BY <1>1, <1>5, SliceWithoutMemory DEF WholeFile, IInv, WhenClosed
<1>7. WhileWriting'
  BY <1>1 DEF WhileWriting
<1>8. ASSUME NEW i \in DOMAIN list PROVE IsFromDisk(list[i])'
  BY <1>1 DEF IsFromDisk, PackAt
<1>9. WhileReading'
  BY <1>8 DEF WhileReading, IsFromDisk, PackAt
<1> QED BY <1>1, <1>3, <1>4, <1>6, <1>7, <1>9 DEF IInv

LEMMA OneInList ==
  ASSUME NEW p \in Partitions, IsFromDisk(p)
  PROVE  /\ <<p>> \in Seq(Partitions) /\ OwnsEach(<<p>>) /\ ObjectsOf(<<p>>) = {p.id}
         /\ \A i \in DOMAIN <<p>> : IsFromDisk(<<p>>[i])
<1>1. <<p>> \in Seq(Partitions) /\ DOMAIN <<p>> = {1} /\ <<p>>[1] = p
  OBVIOUS
<1> QED BY <1>1 DEF OwnsEach, ObjectsOf

LEMMA NoneInList ==
  /\ <<>> \in Seq(Partitions) /\ OwnsEach(<<>>) /\ ObjectsOf(<<>>) = {}
  /\ \A i \in DOMAIN <<>> : IsFromDisk(<<>>[i])
<1>1. <<>> \in Seq(Partitions) /\ DOMAIN <<>> = {}
  OBVIOUS
<1> QED BY <1>1 DEF OwnsEach, ObjectsOf

LEMMA ReadHeaderStep ==
  ASSUME IInv, readHeaderPartition
  PROVE  IInv' /\ SliceKept /\ call' = "other" /\ disk' = disk
<1>1. /\ state = "reading" /\ call' = "other" /\ UNCHANGED <<state, fileVars, indexVars>>
      /\ \/ /\ HeaderReadable /\ CanAllocate(heap, 1)
            /\ partitions' = <<NewHeader>>
            /\ heap' = HeapWithoutList \cup {NewHeader.id}
         \/ partitions' = <<>> /\ heap' = HeapWithoutList
  BY DEF readHeaderPartition
<1>2. HeapWithoutList = {} /\ DiskOK
  BY <1>1, IInvFacts, HeapIsList
<1>3. "other" \in Calls
  BY DEF Calls
<1>4. CASE HeaderReadable /\ CanAllocate(heap, 1) /\ partitions' = <<NewHeader>>
           /\ heap' = HeapWithoutList \cup {NewHeader.id}
  <2>1. NewHeader \in Partitions /\ IsFromDisk(NewHeader)
    BY <1>2, <1>4, NewHeaderIs DEF IsHeaderOfFile
  <2>2. heap' = {NewHeader.id}
    BY <1>2, <1>4
  <2> QED BY <1>1, <1>3, <1>4, <2>1, <2>2, OneInList, ListReadStep
<1>5. CASE partitions' = <<>> /\ heap' = HeapWithoutList
  BY <1>1, <1>2, <1>3, <1>5, NoneInList, ListReadStep
<1> QED BY <1>1, <1>4, <1>5

LEMMA ReadNextStep ==
  ASSUME IInv, NEW offset \in Nat, readNextPartition(offset)
  PROVE  IInv' /\ SliceKept /\ call' = "other" /\ disk' = disk
<1> DEFINE id == NewObject(heap)
           p == ReadObject(id, offset)
           list == Append(partitions, p)
<1>1. /\ state = "reading" /\ call' = "other" /\ UNCHANGED <<state, fileVars, indexVars>>
      /\ Readable(offset) /\ CanAllocate(heap, 1)
      /\ partitions' = list /\ heap' = heap \cup {id}
  BY DEF readNextPartition
<1>2. /\ partitions \in Seq(Partitions) /\ heap = ObjectsOf(partitions) /\ DiskOK
      /\ Len(partitions) \in Nat /\ DOMAIN partitions = 1 .. Len(partitions)
      /\ OwnsEach(partitions)
  BY <1>1, IInvFacts
<1>r. \A i \in DOMAIN partitions : IsFromDisk(partitions[i])
  BY <1>1 DEF IInv, WhileReading
<1>3. id \in Objects \ heap
  BY <1>1, NewObjectIs
<1> HIDE DEF id
<1>4. p \in Partitions /\ p.id = id /\ IsFromDisk(p)
  BY <1>1, <1>2, <1>3, ObjectRead
<1> HIDE DEF p
<1>5. /\ list \in Seq(Partitions) /\ Len(list) = Len(partitions) + 1
      /\ list[Len(partitions) + 1] = p
      /\ \A i \in 1 .. Len(partitions) : list[i] = partitions[i]
  BY <1>2, <1>4, AppendProperties
<1> HIDE DEF list
<1>6. DOMAIN list = 1 .. Len(partitions) + 1
  BY <1>5, LenProperties
<1>7. ASSUME NEW i \in DOMAIN list
      PROVE  \/ i = Len(partitions) + 1
             \/ i \in DOMAIN partitions /\ list[i] = partitions[i]
  BY <1>2, <1>5, <1>6
<1>8. \A i \in DOMAIN partitions : i \in DOMAIN list /\ list[i] = partitions[i]
  BY <1>2, <1>5, <1>6
<1>9. Len(partitions) + 1 \in DOMAIN list
  BY <1>2, <1>6
<1>10. \A i \in DOMAIN list : IsFromDisk(list[i])
  BY <1>r, <1>4, <1>5, <1>7
<1>11. heap' = ObjectsOf(list)
  BY <1>1, <1>2, <1>4, <1>5, <1>7, <1>8, <1>9 DEF ObjectsOf
<1>h. \A i \in DOMAIN partitions : partitions[i].id # id
  BY <1>2, <1>3 DEF ObjectsOf
<1>12. OwnsEach(list)
  BY <1>2, <1>h, <1>4, <1>5, <1>7 DEF OwnsEach
<1>13. call' \in Calls
  BY <1>1 DEF Calls
<1> QED BY <1>1, <1>5, <1>10, <1>11, <1>12, <1>13, ListReadStep

\* A readPartitions that succeeds.
LEMMA ReadSucceeds ==
  ASSUME IInv, state = "reading", CanAllocate(heap, 1),
         NEW header \in KeptHeader, NEW offsets \in ReadOffsets(header),
         CanAllocate(HeapWithHeader(header), Len(offsets)), ~ReadFails(offsets)
  PROVE  LET list == ReadList(header, offsets)
         IN /\ list \in Seq(Partitions) /\ OwnsEach(list) /\ list # <<>> /\ list[1] = header
            /\ \A i \in DOMAIN list : IsFromDisk(list[i])
            /\ HeapWithHeader(header) \cup ObjectsOf(list) = ObjectsOf(list)
            /\ isHeader(list[1]) /\ OffsetsDiffer(list)
            /\ (HasRIP => RIPInOrder) => OffsetsIncrease(list)
            /\ HasRIP \/ CanBeFollowed => IsComplete(list, disk)
<1> DEFINE list == ReadList(header, offsets)
<1>1. DiskOK /\ ReadListOK /\ heap = ObjectsOf(partitions)
  BY IInvFacts
<1>2. IsHeaderOfFile(header)
  BY <1>1, KeptHeaderIs
<1>3. header \in Partitions /\ IsFromDisk(header) /\ isHeader(header)
      /\ header.pack.thisPartition = 0
  BY <1>2 DEF IsHeaderOfFile
<1>4. /\ offsets \in Seq(Nat) /\ OnceEach(offsets)
      /\ (HasRIP => RIPInOrder) => Increasing(offsets)
      /\ \A x : Holds(offsets, x) => x \in Nat /\ x > 0
      /\ HasRIP \/ CanBeFollowed => \A p \in PackOffsets(disk) : p > 0 => Holds(offsets, p)
  BY <1>1, <1>2, ReadOffsetsAre
<1>5. IsReadList(list, header, offsets)
  BY <1>1, <1>3, <1>4, ReadListIs
<1> HIDE DEF list
<1>6. /\ OffsetsDiffer(list) /\ ((HasRIP => RIPInOrder) => OffsetsIncrease(list))
      /\ \A p : p = 0 \/ Holds(offsets, p) => \E i \in DOMAIN list : list[i].pack.thisPartition = p
  BY <1>3, <1>4, <1>5, ReadInOrder
<1>7. /\ list \in Seq(Partitions) /\ OwnsEach(list) /\ list[1] = header
      /\ \A i \in DOMAIN list : IsFromDisk(list[i])
  BY <1>5 DEF IsReadList
<1>8. list # <<>> /\ 1 \in DOMAIN list
  <2>1. Len(list) = Len(offsets) + 1 /\ Len(offsets) \in Nat
    BY <1>4, <1>5, LenProperties DEF IsReadList
  <2> QED BY <2>1, <1>7, LenProperties, EmptySeq
<1>9. HeapWithHeader(header) \cup ObjectsOf(list) = ObjectsOf(list)
  <2>1. HeapWithHeader(header) = {header.id}
    BY <1>1, HeapIsList
  <2> QED BY <2>1, <1>7, <1>8 DEF ObjectsOf
<1>10. ASSUME HasRIP \/ CanBeFollowed PROVE IsComplete(list, disk)
  <2>1. \A i \in DOMAIN list : list[i].pack.thisPartition \in PackOffsets(disk)
    BY <1>7 DEF IsFromDisk
  <2>2. \A p \in PackOffsets(disk) : p \in Nat
    BY <1>1, PacksInFile DEF DiskOK
  <2>3. \A p \in PackOffsets(disk) : p = 0 \/ Holds(offsets, p)
    BY <2>2, <1>4, <1>10
  <2>4. \A p \in PackOffsets(disk) : \E i \in DOMAIN list : list[i].pack.thisPartition = p
    BY <2>3, <1>6
  <2> QED BY <2>1, <2>4, <1>1, <1>6, <1>7, CompleteList DEF DiskOK
<1> QED BY <1>3, <1>6, <1>7, <1>8, <1>9, <1>10 DEF list

\* A readPartitions that fails.
LEMMA ReadFailsLeaves ==
  ASSUME IInv, state = "reading", CanAllocate(heap, 1), readPartitionsFails
  PROVE  \/ partitions' = <<>> /\ heap' = {} /\ KeptHeader = {}
         \/ \E header \in KeptHeader :
              /\ partitions' = <<header>> /\ heap' = {header.id}
              /\ ReadOffsets(header) = {} \/ \E offsets \in ReadOffsets(header) : ReadFails(offsets)
<1>1. HeapWithoutList = {} /\ \A header : HeapWithHeader(header) = {header.id}
  BY IInvFacts, HeapIsList
<1>2. \A header, offsets : HeapAfterFailure(header, offsets) = {header.id}
  BY <1>1 DEF HeapAfterFailure
<1> QED BY <1>1, <1>2 DEF readPartitionsFails


\* What holds of the list after readPartitions.
ReadOutcome ==
  /\ ReadIsFaithful /\ FailedReadKeepsHeader
  /\ SettledFileReadsComplete /\ InOrderFileReadsComplete

KeepsHeader ==
  partitions # <<>> /\ isHeader(partitions[1])
    => partitions' # <<>> /\ partitions'[1].id = partitions[1].id

LEMMA ReadSucceedsStep ==
  ASSUME IInv, readPartitions, readPartitionsSucceeds, call' = "readTrue"
  PROVE  IInv' /\ SliceKept /\ ReadOutcome' /\ KeepsHeader
<1>1. /\ state = "reading" /\ CanAllocate(heap, 1) /\ UNCHANGED <<state, fileVars, indexVars>>
      /\ \A header \in KeptHeader : \A offsets \in ReadOffsets(header) :
           CanAllocate(HeapWithHeader(header), Len(offsets))
  BY DEF readPartitions
<1>2. DiskOK /\ ReadListOK /\ disk' = disk
  BY <1>1, IInvFacts DEF fileVars
<1>3. PICK header \in KeptHeader : \E offsets \in ReadOffsets(header) :
        /\ ~ReadFails(offsets)
        /\ partitions' = ReadList(header, offsets)
        /\ heap' = HeapWithHeader(header) \cup ObjectsOf(ReadList(header, offsets))
  BY DEF readPartitionsSucceeds
<1>4. PICK offsets \in ReadOffsets(header) :
        /\ ~ReadFails(offsets)
        /\ partitions' = ReadList(header, offsets)
        /\ heap' = HeapWithHeader(header) \cup ObjectsOf(ReadList(header, offsets))
  BY <1>3
<1> DEFINE list == ReadList(header, offsets)
<1>5. CanAllocate(HeapWithHeader(header), Len(offsets))
  BY <1>1
<1>6. /\ list \in Seq(Partitions) /\ OwnsEach(list) /\ list # <<>> /\ list[1] = header
      /\ \A i \in DOMAIN list : IsFromDisk(list[i])
      /\ HeapWithHeader(header) \cup ObjectsOf(list) = ObjectsOf(list)
      /\ isHeader(list[1]) /\ OffsetsDiffer(list)
      /\ (HasRIP => RIPInOrder) => OffsetsIncrease(list)
      /\ HasRIP \/ CanBeFollowed => IsComplete(list, disk)
  BY <1>1, <1>4, <1>5, ReadSucceeds
<1>7. partitions' = list /\ heap' = ObjectsOf(list)
  BY <1>4, <1>6
<1> HIDE DEF list
<1>8. call' \in Calls
  BY DEF Calls
<1>9. IInv' /\ SliceKept
  BY <1>1, <1>6, <1>7, <1>8, ListReadStep
<1>10. ReadIsFaithful'
  <2>1. isHeader(partitions[1])'
    BY <1>6, <1>7 DEF isHeader
  <2>2. ASSUME NEW i \in DOMAIN partitions'
        PROVE  /\ partitions'[i].pack.thisPartition \in PackOffsets(disk')
               /\ partitions'[i].pack = PackAt(partitions[i].pack.thisPartition)'
    BY <1>2, <1>6, <1>7 DEF IsFromDisk, PackAt
  <2>3. \A i, j \in DOMAIN partitions' :
          i # j => partitions'[i].pack.thisPartition # partitions'[j].pack.thisPartition
    BY <1>6, <1>7 DEF OffsetsDiffer
  <2>4. (HasRIP => RIPInOrder)' => (HasRIP => RIPInOrder)
    BY <1>2 DEF HasRIP, RIPInOrder
  <2>5. (HasRIP => RIPInOrder)' => \A i, j \in DOMAIN partitions' :
          i < j => partitions'[i].pack.thisPartition < partitions'[j].pack.thisPartition
    BY <2>4, <1>6, <1>7 DEF OffsetsIncrease
  <2> QED BY <2>1, <2>2, <2>3, <2>5 DEF ReadIsFaithful
<1>11. Settled(disk) => IsComplete(list, disk)
  BY <1>2, <1>6, SettledFile DEF CanBeFollowed
<1>12. InOrderClient => IsComplete(list, disk)
  BY <1>2, <1>6 DEF DiskOK, Sound, CanBeFollowed
<1>13. (Settled(disk) /\ Intact(disk) => call # "readFalse" /\ IsComplete(partitions, disk))'
       /\ (InOrderClient => IsComplete(partitions, disk))'
  BY <1>2, <1>7, <1>11, <1>12
<1>14. SettledFileReadsComplete' /\ InOrderFileReadsComplete' /\ FailedReadKeepsHeader'
  BY <1>13 DEF SettledFileReadsComplete, InOrderFileReadsComplete, FailedReadKeepsHeader
<1>15. KeepsHeader
  BY <1>1, <1>2, <1>6, <1>7, KeptHeaderIs DEF KeepsHeader
<1> QED BY <1>9, <1>10, <1>14, <1>15 DEF ReadOutcome

LEMMA ReadFailsStep ==
  ASSUME IInv, readPartitions, readPartitionsFails, call' = "readFalse"
  PROVE  IInv' /\ SliceKept /\ ReadOutcome' /\ KeepsHeader
<1>1. /\ state = "reading" /\ CanAllocate(heap, 1) /\ UNCHANGED <<state, fileVars, indexVars>>
  BY DEF readPartitions
<1>2. DiskOK /\ ReadListOK /\ disk' = disk
  BY <1>1, IInvFacts DEF fileVars
<1>3. call' \in Calls
  BY DEF Calls
<1>4. ReadIsFaithful' /\ InOrderFileReadsComplete'
  BY DEF ReadIsFaithful, InOrderFileReadsComplete
<1>5. CASE partitions' = <<>> /\ heap' = {} /\ KeptHeader = {}
  <2>1. IInv' /\ SliceKept
    BY <1>1, <1>3, <1>5, NoneInList, ListReadStep
  <2>2. ~(partitions # <<>> /\ isHeader(partitions[1])) /\ ~HeaderReadable
    BY <1>5, NoKeptHeader
  <2>3. ~HeaderReadable'
    BY <1>2, <2>2 DEF HeaderReadable, Readable, PackAt
  <2>4. ~(Settled(disk) /\ Intact(disk))
    BY <1>2, <2>2, SettledFileCanBeRead
  <2>5. SettledFileReadsComplete'
    BY <1>2, <2>4 DEF SettledFileReadsComplete, Settled, Intact
  <2>6. FailedReadKeepsHeader'
    BY <1>5, <2>3 DEF FailedReadKeepsHeader
  <2> QED BY <1>4, <2>1, <2>2, <2>5, <2>6 DEF ReadOutcome, KeepsHeader
<1>6. ASSUME NEW header \in KeptHeader, partitions' = <<header>>, heap' = {header.id},
             ReadOffsets(header) = {} \/ \E offsets \in ReadOffsets(header) : ReadFails(offsets)
      PROVE  IInv' /\ SliceKept /\ ReadOutcome' /\ KeepsHeader
  <2>1. /\ IsHeaderOfFile(header)
        /\ partitions # <<>> /\ isHeader(partitions[1]) => header = partitions[1]
    BY <1>1, <1>2, KeptHeaderIs
  <2>2. header \in Partitions /\ IsFromDisk(header) /\ isHeader(header)
    BY <2>1 DEF IsHeaderOfFile
  <2>3. IInv' /\ SliceKept
    BY <1>1, <1>3, <1>6, <2>2, OneInList, ListReadStep
  <2>4. ~(Settled(disk) /\ Intact(disk))
    BY <1>2, <1>6, <2>1, SettledFileCanBeRead
  <2>5. SettledFileReadsComplete'
    BY <1>2, <2>4 DEF SettledFileReadsComplete, Settled, Intact
  <2>6. Len(partitions') = 1 /\ partitions'[1] = header /\ partitions' # <<>>
    BY <1>6
  <2>7. FailedReadKeepsHeader'
    BY <2>2, <2>6 DEF FailedReadKeepsHeader, isHeader
  <2> QED BY <1>4, <2>1, <2>3, <2>5, <2>6, <2>7 DEF ReadOutcome, KeepsHeader
<1> QED BY <1>1, <1>5, <1>6, ReadFailsLeaves

LEMMA ReadStep ==
  ASSUME IInv, readPartitions
  PROVE  /\ IInv' /\ SliceKept /\ ReadOutcome' /\ KeepsHeader /\ disk' = disk
         /\ call' \in {"readTrue", "readFalse"}
<1>1. /\ \/ readPartitionsSucceeds /\ call' = "readTrue"
         \/ readPartitionsFails /\ call' = "readFalse"
      /\ disk' = disk
  BY DEF readPartitions, fileVars
<1> QED BY <1>1, ReadSucceedsStep, ReadFailsStep

-----------------------------------------------------------------------------
(* What an update leaves *)

LEMMA OffsetsInOrder ==
  ASSUME NEW list \in Seq(Partitions), InFileOrder(list), \A i \in DOMAIN list : list[i].written,
         NEW i \in DOMAIN list, NEW j \in DOMAIN list
  PROVE  /\ list[i].pack.thisPartition \in Nat /\ i \in Nat
         /\ i < j => list[i].pack.thisPartition < list[j].pack.thisPartition
         /\ i <= j => list[i].pack.thisPartition <= list[j].pack.thisPartition
         /\ list[i].pack.thisPartition < list[j].pack.thisPartition => i < j
         /\ list[i].pack.thisPartition = list[j].pack.thisPartition => i = j
<1>1. i \in Nat /\ j \in Nat /\ list[i] \in Partitions /\ list[j] \in Partitions
  BY LenProperties, ElementOfSeq
<1>2. list[i].pack.thisPartition \in Nat /\ list[j].pack.thisPartition \in Nat
  BY <1>1, PartitionFields, PackFields
<1>3. i < j => list[i].pack.thisPartition < list[j].pack.thisPartition
  BY DEF InFileOrder
<1>4. j < i => list[j].pack.thisPartition < list[i].pack.thisPartition
  BY DEF InFileOrder
<1>5. i = j => list[i].pack.thisPartition = list[j].pack.thisPartition
  OBVIOUS
<1> QED BY <1>1, <1>2, <1>3, <1>4, <1>5

\* A file that has each pack as it is in a list with final links is settled.
LEMMA SettledByList ==
  ASSUME NEW list \in Seq(Partitions), list # <<>>, InFileOrder(list),
         \A i \in DOMAIN list : list[i].written,
         NEW f \in Seq(Cells), Describes(list, f), list[Len(list)].pack.kind = "footer",
         \A i \in DOMAIN list :
           /\ list[i].pack.footerPartition = FooterOf(list)
           /\ list[i].pack.previousPartition = PreviousOf(list, i),
         \A p \in PackOffsets(f) : \E i \in DOMAIN list :
           list[i].pack.thisPartition = p /\ f[p + 1].pack = list[i].pack
  PROVE  Settled(f)
<1> DEFINE packs == PackOffsets(f)
           last == Len(list)
           at(i) == list[i].pack.thisPartition
           before(p) == {q \in packs : q < p}
<1>1. /\ Len(list) \in Nat /\ DOMAIN list = 1 .. Len(list) /\ last \in DOMAIN list /\ last \in Nat
      /\ 1 \in DOMAIN list
  BY LenProperties, EmptySeq
<1>3. /\ \A i \in DOMAIN list : at(i) \in packs
      /\ \A p \in packs : p \in Nat
  BY PacksInFile DEF Describes, Matches, PartitionInFile
<1>4. \A p \in packs : \E i \in DOMAIN list : at(i) = p /\ f[p + 1].pack = list[i].pack
  OBVIOUS
<1> HIDE DEF packs
<1>5. \A i, j \in DOMAIN list :
        /\ i <= j => at(i) <= at(j)
        /\ at(i) < at(j) => i < j
        /\ at(i) = at(j) => i = j
  BY OffsetsInOrder
<1>6. \A p \in packs : p <= at(last)
  <2>1. \A i \in DOMAIN list : i <= last
    BY <1>1
  <2> QED BY <2>1, <1>1, <1>4, <1>5
<1>7. Max(packs) = at(last)
  <2>1. packs \in SUBSET Nat /\ packs # {} /\ at(last) \in Nat /\ at(last) \in packs
    BY <1>1, <1>3
  <2> HIDE DEF last
  <2>2. Max(packs) \in packs /\ \A y \in packs : y <= Max(packs)
    BY <2>1, <1>6, MaxIsGreatest
  <2>3. Max(packs) \in Nat /\ Max(packs) <= at(last) /\ at(last) <= Max(packs)
    BY <2>1, <2>2, <1>6
  <2> HIDE DEF at
  <2> QED BY <2>1, <2>3
<1>8. FooterOf(list) = at(last)
  BY DEF FooterOf
<1>9. f[at(last) + 1].pack.kind = "footer"
  BY <1>1, <1>3, <1>4, <1>5
<1>10. ASSUME NEW p \in packs
       PROVE  /\ f[p + 1].pack.previousPartition = IF before(p) = {} THEN 0 ELSE Max(before(p))
              /\ f[p + 1].pack.footerPartition = at(last)
  <2>1. PICK i \in DOMAIN list : at(i) = p /\ f[p + 1].pack = list[i].pack
    BY <1>4
  <2>2. f[p + 1].pack.previousPartition = PreviousOf(list, i)
        /\ f[p + 1].pack.footerPartition = at(last)
    BY <2>1, <1>8
  <2>3. ASSUME NEW q \in packs, q < p PROVE \E j \in DOMAIN list : at(j) = q /\ j < i
    BY <2>1, <2>3, <1>4, <1>5
  <2>4. CASE i = 1
    <3>1. \A j \in DOMAIN list : ~(j < 1)
      BY <1>1
    <3>2. before(p) = {}
      BY <2>3, <2>4, <3>1
    <3> QED BY <2>2, <2>4, <3>2 DEF PreviousOf
  <2>5. CASE i # 1
    <3>1. i - 1 \in DOMAIN list /\ i - 1 < i /\ i - 1 \in Nat /\ i \in Nat
      BY <1>1, <2>5
    <3>2. at(i - 1) < at(i)
      BY <3>1, OffsetsInOrder
    <3>3. at(i - 1) \in before(p)
      BY <3>1, <3>2, <2>1, <1>3
    <3>4. \A j \in DOMAIN list : j < i => j <= i - 1
      BY <1>1, <3>1
    <3>5. \A q \in before(p) : q <= at(i - 1)
      BY <2>3, <3>1, <3>4, <1>5
    <3>6. before(p) \in SUBSET Nat
      BY <1>3
    <3>7. at(i - 1) \in Nat
      BY <3>3, <3>6
    <3>8. PreviousOf(list, i) = at(i - 1)
      BY <2>5 DEF PreviousOf
    <3> HIDE DEF before, at
    <3>9. Max(before(p)) \in before(p) /\ \A y \in before(p) : y <= Max(before(p))
      BY <3>3, <3>5, <3>6, <3>7, MaxIsGreatest
    <3>10. Max(before(p)) \in Nat /\ Max(before(p)) <= at(i - 1) /\ at(i - 1) <= Max(before(p))
      BY <3>3, <3>5, <3>6, <3>9
    <3>11. Max(before(p)) = at(i - 1)
      BY <3>7, <3>10
    <3> QED BY <2>2, <3>3, <3>8, <3>11
  <2> QED BY <2>2, <2>4, <2>5
<1>11. packs # {}
  BY <1>1, <1>3
<1>12. f[Max(packs) + 1].pack.kind = "footer"
  BY <1>7, <1>9
<1>13. ASSUME NEW p \in packs
       PROVE  LET b == {q \in packs : q < p}
                  pack == f[p + 1].pack
              IN /\ pack.previousPartition = IF b = {} THEN 0 ELSE Max(b)
                 /\ pack.footerPartition = Max(packs)
  BY <1>7, <1>10
<1> QED BY <1>11, <1>12, <1>13 DEF Settled, packs


LEMMA SettlingUpdate ==
  ASSUME IInv, CanUpdate, RewriteAll(UpdateList, UpdateOrder, "update"), ~memory'.open,
         InFileOrder(partitions'), partitions'[Len(partitions')].pack.kind = "footer"
  PROVE  Settled(disk')
<1> DEFINE list == UpdateList
           order == UpdateOrder
           cells == Rewritten(list, order, Len(order))
<1>1. /\ state = "writing" /\ partitions # <<>> /\ \A i \in DOMAIN partitions : partitions[i].written
      /\ partitions' = list /\ SetCurrentCells(cells)
  BY DEF CanUpdate, AllWritten, RewriteAll
<1>2. /\ FilesOK /\ partitions \in Seq(Partitions) /\ WholeFile \in Seq(Cells)
      /\ Len(partitions) \in Nat /\ DOMAIN partitions = 1 .. Len(partitions)
      /\ ListOK /\ NPos \in Nat
  BY <1>1, IInvFacts
<1>3. Sound(WholeFile) /\ Describes(partitions, WholeFile)
  BY <1>1 DEF IInv, WhileWriting
<1>4. list \in Seq(Partitions) /\ IsRelinked(partitions, list)
  BY <1>1, <1>2, UpdateListIsRelinked
<1>5. order \in Seq(1 .. Len(list))
  BY <1>4, OrdersAreLists DEF IsRelinked
<1> HIDE DEF list, order
<1>6. Len(order) \in Nat /\ Len(order) \in 0 .. Len(order)
  BY <1>5, LenProperties
<1>7. /\ cells \in Seq(Cells) /\ Len(cells) = Len(CurrentCells)
      /\ \A c \in 1 .. Len(CurrentCells) :
           \/ /\ cells[c] = CurrentCells[c]
              /\ \A k \in 1 .. Len(order) :
                   list[order[k]].pack.thisPartition # CurrentStart + c - 1
           \/ \E k \in 1 .. Len(order) :
                /\ list[order[k]].pack.thisPartition = CurrentStart + c - 1
                /\ cells[c].type = "pack" /\ cells[c].pack = list[order[k]].pack
  BY <1>2, <1>4, <1>5, <1>6, RewrittenCells
<1>8. ~memory.open /\ WholeFile' \in Seq(Cells)
  BY <1>1, <1>2, <1>7, CurrentFileSet
<1>9. disk' = cells /\ WholeFile' = cells /\ WholeFile = disk
      /\ CurrentCells = disk /\ CurrentStart = 0
  BY <1>1, <1>8 DEF SetCurrentCells, WholeFile, CurrentCells, CurrentStart
<1>10. IsRewritten(list, WholeFile, WholeFile')
  BY <1>1, <1>2, <1>4, <1>5, <1>6, WholeFileRewritten
<1>11. Describes(list, cells) /\ PackOffsets(cells) = PackOffsets(disk)
  <2>1. Describes(list, WholeFile') /\ PackOffsets(WholeFile') = PackOffsets(WholeFile)
    BY <1>1, <1>2, <1>3, <1>4, <1>8, <1>10, RewrittenFile
  <2> HIDE DEF cells
  <2> QED BY <2>1, <1>9
\* every partition is rewritten, with its final links
<1>12. /\ list # <<>> /\ DOMAIN list = 1 .. Len(partitions) /\ Len(list) = Len(partitions)
       /\ \A i \in DOMAIN list :
            /\ list[i].written /\ list[i].pack.thisPartition \in Nat
            /\ list[i].pack.footerPartition = FooterOf(partitions)
            /\ list[i].pack.previousPartition = PreviousOf(partitions, i)
            /\ SamePartition(partitions[i], list[i])
  <2>1. list = UpdatedInMemory(partitions)
    BY <1>8 DEF list, UpdateList
  <2>2. /\ Len(list) = Len(partitions)
        /\ \A i \in DOMAIN partitions :
             /\ SamePartition(partitions[i], list[i])
             /\ list[i].pack.footerPartition = FooterOf(partitions)
             /\ list[i].pack.previousPartition = PreviousOf(partitions, i)
    BY <1>1, <1>2, <2>1, Updated
  <2>3. DOMAIN list = DOMAIN partitions /\ list # <<>>
    BY <1>1, <1>2, <1>4, <2>2, LenProperties, EmptySeq
  <2>4. \A i \in DOMAIN list : list[i].pack.thisPartition \in Nat
    BY <1>4, LenProperties, ElementOfSeq, PartitionFields, PackFields
  <2>5. \A i \in DOMAIN list : list[i].written
    BY <1>1, <2>2, <2>3 DEF SamePartition
  <2> QED BY <1>2, <2>2, <2>3, <2>4, <2>5
<1>13. Len(partitions) \in DOMAIN list
  BY <1>1, <1>2, <1>12, EmptySeq
<1>14. FooterOf(list) = FooterOf(partitions)
  BY <1>12, <1>13 DEF FooterOf, SamePartition
<1>15. ASSUME NEW i \in DOMAIN list PROVE PreviousOf(list, i) = PreviousOf(partitions, i)
  <2>1. CASE i = 1
    BY <2>1 DEF PreviousOf
  <2>2. CASE i # 1
    <3>1. i - 1 \in DOMAIN list
      BY <2>2, <1>12, <1>2
    <3> QED BY <3>1, <2>2, <1>12 DEF PreviousOf, SamePartition
  <2> QED BY <2>1, <2>2
<1>16. DOMAIN order = 1 .. Len(partitions) /\ \A k \in 1 .. Len(partitions) : order[k] = k
  <2>1. 0 \in 0 .. Len(partitions) /\ ListEnd(NPos) = Len(partitions)
    BY <1>2 DEF ListEnd
  <2>2. order = PartitionList(0, NPos)
    BY <1>8 DEF order, UpdateOrder
  <2>3. /\ DOMAIN order = 1 .. Len(partitions) - 0
        /\ \A k \in 1 .. Len(partitions) - 0 : order[k] = 0 + k
    BY <1>2, <2>1, <2>2, PartitionListTo
  <2> QED BY <2>3, <1>2
<1>17. DOMAIN order = 1 .. Len(order)
  BY <1>5, LenProperties
<1>18. ASSUME NEW p \in PackOffsets(cells)
       PROVE  \E i \in DOMAIN list :
                list[i].pack.thisPartition = p /\ cells[p + 1].pack = list[i].pack
  <2>1. PICK i \in DOMAIN list : list[i].pack.thisPartition = p
    BY <1>11 DEF Describes, Matches, PackInList
  <2>2. p \in Nat /\ p + 1 \in 1 .. Len(cells) /\ 0 + (p + 1) - 1 = p
    BY <1>7, PacksInFile
  <2>3. i \in 1 .. Len(order) /\ order[i] = i
    BY <1>12, <1>16, <1>17
  <2>4. \/ \A k \in 1 .. Len(order) : list[order[k]].pack.thisPartition # p
        \/ \E k \in 1 .. Len(order) :
             list[order[k]].pack.thisPartition = p /\ cells[p + 1].pack = list[order[k]].pack
    BY <2>2, <1>7, <1>9
  <2>5. PICK k \in 1 .. Len(order) :
          list[order[k]].pack.thisPartition = p /\ cells[p + 1].pack = list[order[k]].pack
    BY <2>1, <2>3, <2>4
  <2>6. order[k] \in DOMAIN list
    BY <1>12, <1>16, <1>17
  <2> QED BY <2>5, <2>6
<1>19. list[Len(list)].pack.kind = "footer" /\ InFileOrder(list)
  BY <1>1 DEF InFileOrder
<1>20. \A i \in DOMAIN list :
         /\ list[i].pack.footerPartition = FooterOf(list)
         /\ list[i].pack.previousPartition = PreviousOf(list, i)
  BY <1>12, <1>14, <1>15
<1>21. \A i \in DOMAIN list : list[i].written
  BY <1>12
<1>22. cells \in Seq(Cells) /\ disk' = cells /\ list # <<>> /\ Describes(list, cells)
  BY <1>7, <1>9, <1>11, <1>12
<1> HIDE DEF cells
<1>23. Settled(cells)
  BY <1>4, <1>18, <1>19, <1>20, <1>21, <1>22, SettledByList
<1> QED BY <1>22, <1>23

\* The cells that change are those of the wanted partitions.
LEMMA WantedRewrite ==
  ASSUME IInv, CanUpdate, NEW kind,
         NEW list \in Seq(Partitions), IsRelinked(partitions, list),
         NEW wanted, wanted = {i \in 0 .. Len(partitions) - 1 : partitions[i + 1].pack.kind = kind},
         NEW order, order = RunsOf(wanted), NEW name, RewriteAll(list, order, name)
  PROVE  RewritesExactly(kind)
<1> DEFINE cells == Rewritten(list, order, Len(order))
           owners(c) == {i \in ScanFirst + 1 .. ScanLast + 1 :
                           /\ partitions[i].pack.kind = kind
                           /\ partitions[i].pack.thisPartition = CurrentStart + c - 1}
<1>1. partitions' = list /\ SetCurrentCells(cells)
  BY DEF RewriteAll
<1>2. /\ FilesOK /\ partitions \in Seq(Partitions)
      /\ Len(partitions) \in Nat /\ DOMAIN partitions = 1 .. Len(partitions) /\ ListOK
  BY IInvFacts DEF CanUpdate
<1>3. ScanFirst \in Nat /\ ScanLast \in Nat /\ ScanLast <= Len(partitions) - 1
  BY <1>2, ScanBounds
<1>4. wanted \in SUBSET Nat
  BY <1>2
<1>5. /\ order \in Seq(1 .. Len(partitions))
      /\ \A i \in Nat : (\E k \in DOMAIN order : order[k] = i + 1)
                          <=> ScanFirst <= i /\ i <= ScanLast /\ i \in wanted
  BY <1>2, <1>4, RunsAreWanted DEF ListsFrom
<1>6. Len(list) = Len(partitions) /\ Len(order) \in Nat /\ DOMAIN order = 1 .. Len(order)
      /\ Len(order) \in 0 .. Len(order) /\ order \in Seq(1 .. Len(list))
  BY <1>5, LenProperties DEF IsRelinked
<1>7. /\ cells \in Seq(Cells) /\ Len(cells) = Len(CurrentCells)
      /\ \A c \in 1 .. Len(CurrentCells) :
           \/ /\ cells[c] = CurrentCells[c]
              /\ \A k \in 1 .. Len(order) :
                   list[order[k]].pack.thisPartition # CurrentStart + c - 1
           \/ \E k \in 1 .. Len(order) :
                /\ list[order[k]].pack.thisPartition = CurrentStart + c - 1
                /\ cells[c].type = "pack" /\ cells[c].pack = list[order[k]].pack
  BY ZenonT(60), <1>2, <1>6, RewrittenCells
<1>8. CurrentCells' = cells
  BY <1>1, <1>2, <1>7, CurrentFileSet
<1> HIDE DEF cells
<1>9. \A i \in DOMAIN partitions : list[i].pack.thisPartition = partitions[i].pack.thisPartition
  BY DEF IsRelinked, SamePartition
\* the partitions of the order are those in the range that are wanted
<1>10. ASSUME NEW i \in ScanFirst + 1 .. ScanLast + 1, partitions[i].pack.kind = kind
       PROVE  \E k \in 1 .. Len(order) : order[k] = i
  <2>1. i - 1 \in Nat /\ (i - 1) + 1 = i /\ ScanFirst <= i - 1 /\ i - 1 <= ScanLast
        /\ i - 1 \in 0 .. Len(partitions) - 1
    BY <1>2, <1>3
  <2>2. i - 1 \in wanted
    BY <2>1, <1>10
  <2> QED BY <2>1, <2>2, <1>5, <1>6
<1>11. ASSUME NEW k \in 1 .. Len(order)
       PROVE  /\ order[k] \in ScanFirst + 1 .. ScanLast + 1 /\ order[k] \in DOMAIN partitions
              /\ partitions[order[k]].pack.kind = kind
  <2>1. order[k] \in 1 .. Len(partitions)
    BY <1>5, <1>6, ElementOfSeq
  <2>2. order[k] - 1 \in Nat /\ (order[k] - 1) + 1 = order[k]
    BY SMTT(60), <2>1, <1>2
  <2>3. ScanFirst <= order[k] - 1 /\ order[k] - 1 <= ScanLast /\ order[k] - 1 \in wanted
    BY <2>2, <1>5, <1>6
  <2>4. partitions[order[k]].pack.kind = kind
    BY <2>2, <2>3
  <2>5. order[k] \in ScanFirst + 1 .. ScanLast + 1
    BY SMTT(60), <2>1, <2>2, <2>3, <1>2, <1>3
  <2> QED BY <2>1, <2>4, <2>5, <1>2
<1>12. ASSUME NEW c \in DOMAIN CurrentCells
       PROVE  IF owners(c) = {} THEN CurrentCells'[c] = CurrentCells[c]
              ELSE \E i \in owners(c) : CurrentCells'[c].pack = partitions'[i].pack
  <2>1. c \in 1 .. Len(CurrentCells)
    BY <1>2, CurrentFile
  <2>2. CASE /\ cells[c] = CurrentCells[c]
             /\ \A k \in 1 .. Len(order) :
                  list[order[k]].pack.thisPartition # CurrentStart + c - 1
    <3>1. ASSUME NEW i \in owners(c) PROVE FALSE
      <4>1. i \in ScanFirst + 1 .. ScanLast + 1 /\ partitions[i].pack.kind = kind
            /\ partitions[i].pack.thisPartition = CurrentStart + c - 1
        OBVIOUS
      <4>2. PICK k \in 1 .. Len(order) : order[k] = i
        BY <4>1, <1>10
      <4>3. list[i].pack.thisPartition = partitions[i].pack.thisPartition
        BY <4>2, <1>9, <1>11
      <4> QED BY <4>1, <4>2, <4>3, <2>2
    <3>2. owners(c) = {}
      BY SMTT(60), <3>1
    <3> HIDE DEF owners
    <3> QED BY <3>2, <2>2, <1>8
  <2>3. CASE \E k \in 1 .. Len(order) :
               /\ list[order[k]].pack.thisPartition = CurrentStart + c - 1
               /\ cells[c].type = "pack" /\ cells[c].pack = list[order[k]].pack
    <3>1. PICK k \in 1 .. Len(order) :
            /\ list[order[k]].pack.thisPartition = CurrentStart + c - 1
            /\ cells[c].type = "pack" /\ cells[c].pack = list[order[k]].pack
      BY <2>3
    <3>2. order[k] \in owners(c)
      BY ZenonT(60), <3>1, <1>9, <1>11
    <3>3. CurrentCells'[c].pack = partitions'[order[k]].pack
      BY <3>1, <1>1, <1>8
    <3> HIDE DEF owners
    <3> QED BY <3>2, <3>3
  <2> QED BY <2>1, <2>2, <2>3, <1>7
<1> QED BY <1>12 DEF RewritesExactly

LEMMA WantedBody ==
  ASSUME IInv, CanUpdate, NEW setKey \in BOOLEAN,
         RewriteAll(BodyList(BodyOrder, setKey), BodyOrder, "updateBody")
  PROVE  RewritesExactly("body")
<1> DEFINE order == BodyOrder
           list == BodyList(order, setKey)
           wanted == {i \in 0 .. Len(partitions) - 1 : BodyWanted(partitions[i + 1])}
<1>1. partitions \in Seq(Partitions) /\ partitions # <<>>
  BY IInvFacts DEF CanUpdate
<1>2. list \in Seq(Partitions) /\ IsRelinked(partitions, list)
  BY <1>1, BodyListIsRelinked
<1>3. wanted = {i \in 0 .. Len(partitions) - 1 : partitions[i + 1].pack.kind = "body"}
  <2>1. \A p : BodyWanted(p) <=> p.pack.kind = "body"
    BY DEF BodyWanted, isBody, isGenericStream
  <2> QED BY <2>1
<1>4. order = RunsOf(wanted) /\ RewriteAll(list, order, "updateBody")
  BY DEF BodyOrder
<1> HIDE DEF order, list, wanted
<1> QED BY <1>2, <1>3, <1>4, WantedRewrite

LEMMA WantedStream ==
  ASSUME IInv, CanUpdate, RewriteAll(StreamList(StreamOrder), StreamOrder, "updateStream")
  PROVE  RewritesExactly("stream")
<1> DEFINE order == StreamOrder
           list == StreamList(order)
           wanted == {i \in 0 .. Len(partitions) - 1 : StreamWanted(partitions[i + 1])}
<1>1. partitions \in Seq(Partitions) /\ partitions # <<>>
  BY IInvFacts DEF CanUpdate
<1>2. list \in Seq(Partitions) /\ IsRelinked(partitions, list)
  BY <1>1, StreamListIsRelinked
<1>3. wanted = {i \in 0 .. Len(partitions) - 1 : partitions[i + 1].pack.kind = "stream"}
  BY DEF StreamWanted, isGenericStream
<1>4. order = RunsOf(wanted) /\ RewriteAll(list, order, "updateStream")
  BY DEF StreamOrder
<1> HIDE DEF order, list, wanted
<1> QED BY <1>2, <1>3, <1>4, WantedRewrite


-----------------------------------------------------------------------------
(* The size of the packs *)

\* While a file is written, every pack has the min llen that is set.
HasLLen(f, llen) == \A c \in 1 .. Len(f) : f[c].type = "pack" => f[c].llen = llen

LLenInv ==
  state = "writing" =>
    /\ memory.open => memory.llen = minLLen
    /\ HasLLen(WholeFile, minLLen)

\* What RewriteKeepsLLen says of a step.
KeepsLLen ==
  \A c \in DOMAIN disk \cap DOMAIN disk' :
    (disk[c].type = "pack" /\ disk'[c].type = "pack") => disk[c].llen = disk'[c].llen

LEMMA LLenOfCurrentFile ==
  ASSUME IInv, LLenInv, state = "writing"
  PROVE  /\ CurrentLLen = minLLen /\ HasLLen(disk, minLLen) /\ HasLLen(CurrentCells, minLLen)
<1>1. /\ FilesOK
      /\ memory.open => memory.llen = minLLen
      /\ HasLLen(WholeFile, minLLen)
  BY IInvFacts DEF LLenInv
<1>2. CurrentLLen = minLLen
  BY <1>1 DEF CurrentLLen
<1>3. /\ Len(disk) \in Nat /\ Tell \in Nat /\ Len(disk) <= Tell /\ Len(WholeFile) = Tell
      /\ \A c \in 1 .. Len(disk) : WholeFile[c] = disk[c]
      /\ Tell = CurrentStart + Len(CurrentCells) /\ CurrentStart \in Nat
      /\ Len(CurrentCells) \in Nat
      /\ \A c \in 1 .. Len(CurrentCells) : WholeFile[CurrentStart + c] = CurrentCells[c]
  BY <1>1, CurrentFile
<1>4. \A c \in 1 .. Len(disk) : c \in 1 .. Len(WholeFile)
  BY <1>3
<1>5. HasLLen(disk, minLLen)
  BY <1>1, <1>3, <1>4 DEF HasLLen
<1>6. \A c \in 1 .. Len(CurrentCells) : CurrentStart + c \in 1 .. Len(WholeFile)
  BY <1>3
<1>7. HasLLen(CurrentCells, minLLen)
  BY <1>1, <1>3, <1>6 DEF HasLLen
<1> QED BY <1>2, <1>5, <1>7

\* A step after which the packs on disk have the min llen from before it.
LEMMA LLenKept ==
  ASSUME IInv, LLenInv, state = "writing", HasLLen(disk', minLLen), disk' \in Seq(Cells)
  PROVE  KeepsLLen
<1>1. HasLLen(disk, minLLen) /\ DOMAIN disk = 1 .. Len(disk) /\ DOMAIN disk' = 1 .. Len(disk')
  BY LLenOfCurrentFile, LenProperties DEF IInv, TypeOK
<1> QED BY <1>1 DEF HasLLen, KeepsLLen

LEMMA LLenWhileWriting ==
  ASSUME IInv, IInv', LLenInv, LLenInv', state = "writing", state' = "writing",
         minLLen' = minLLen
  PROVE  KeepsLLen
<1>1. (HasLLen(disk, minLLen))'
  <2>1. (IInv /\ LLenInv /\ state = "writing")'
    OBVIOUS
  <2> QED BY <2>1, LLenOfCurrentFile, PTL
<1>2. HasLLen(disk', minLLen) /\ disk' \in Seq(Cells)
  BY <1>1 DEF HasLLen, IInv, TypeOK
<1> QED BY <1>2, LLenKept

LEMMA LLenAppended ==
  ASSUME IInv, LLenInv, state = "writing", NEW cell \in Cells,
         cell.type = "pack" => cell.llen = CurrentLLen,
         SetCurrentCells(Append(CurrentCells, cell))
  PROVE  LLenInv' /\ minLLen' = minLLen
<1>1. /\ FilesOK /\ CurrentLLen = minLLen /\ HasLLen(WholeFile, minLLen)
      /\ memory.open => memory.llen = minLLen
  BY IInvFacts, LLenOfCurrentFile DEF LLenInv
<1>2. /\ IsAppended(WholeFile, WholeFile', cell) /\ WholeFile' \in Seq(Cells)
      /\ minLLen' = minLLen /\ (memory'.open <=> memory.open)
      /\ memory.open => memory'.llen = memory.llen
  BY <1>1, CellAppended
<1>3. /\ Len(WholeFile) \in Nat /\ Len(WholeFile') = Len(WholeFile) + 1
      /\ \A c \in 1 .. Len(WholeFile) : WholeFile'[c] = WholeFile[c]
      /\ WholeFile'[Len(WholeFile) + 1] = cell
  BY <1>2, IInvFacts, LenProperties DEF IsAppended
<1>4. \A c \in 1 .. Len(WholeFile') : c \in 1 .. Len(WholeFile) \/ c = Len(WholeFile) + 1
  BY <1>3
<1>5. HasLLen(WholeFile', minLLen)
  <2> SUFFICES ASSUME NEW c \in 1 .. Len(WholeFile'), WholeFile'[c].type = "pack"
               PROVE  WholeFile'[c].llen = minLLen
    BY DEF HasLLen
  <2>1. CASE c \in 1 .. Len(WholeFile)
    BY <2>1, <1>1, <1>3 DEF HasLLen
  <2>2. CASE c = Len(WholeFile) + 1
    <3>1. WholeFile'[c] = cell
      BY <2>2, <1>3
    <3> QED BY <3>1, <1>1
  <2> QED BY <2>1, <2>2, <1>4
<1>6. (HasLLen(WholeFile, minLLen))'
  BY <1>2, <1>5 DEF HasLLen
<1> QED BY <1>1, <1>2, <1>6 DEF LLenInv

LEMMA LLenRewritten ==
  ASSUME IInv, LLenInv, state = "writing", NEW list \in Seq(Partitions),
         NEW order \in Seq(1 .. Len(list)), NEW n \in 0 .. Len(order)
  PROVE  /\ Rewritten(list, order, n) \in Seq(Cells) /\ HasLLen(Rewritten(list, order, n), minLLen)
         /\ Len(Rewritten(list, order, n)) = Len(CurrentCells)
<1> DEFINE cells == Rewritten(list, order, n)
<1>1. FilesOK /\ CurrentLLen = minLLen /\ HasLLen(CurrentCells, minLLen)
  BY IInvFacts, LLenOfCurrentFile
<1>2. /\ cells \in Seq(Cells) /\ Len(cells) = Len(CurrentCells)
      /\ \A c \in 1 .. Len(CurrentCells) :
           \/ cells[c] = CurrentCells[c]
           \/ cells[c].llen = CurrentLLen
  BY <1>1, RewrittenCells
<1> HIDE DEF cells
<1>3. HasLLen(cells, minLLen)
  BY <1>1, <1>2 DEF HasLLen
<1> QED BY <1>2, <1>3 DEF cells

LEMMA LLenRewriteAll ==
  ASSUME IInv, LLenInv, state = "writing", NEW list \in Seq(Partitions),
         NEW order \in Seq(1 .. Len(list)),
         SetCurrentCells(Rewritten(list, order, Len(order)))
  PROVE  LLenInv' /\ minLLen' = minLLen
<1> DEFINE cells == Rewritten(list, order, Len(order))
<1>1. /\ FilesOK /\ HasLLen(WholeFile, minLLen)
      /\ memory.open => memory.llen = minLLen
  BY IInvFacts DEF LLenInv
<1>2. Len(order) \in 0 .. Len(order)
  BY LenProperties
<1>3. cells \in Seq(Cells) /\ HasLLen(cells, minLLen) /\ SetCurrentCells(cells)
      /\ Len(cells) = Len(CurrentCells)
  BY <1>2, LLenRewritten
<1> HIDE DEF cells
<1>4. /\ (memory'.open <=> memory.open) /\ minLLen' = minLLen
      /\ memory.open => memory'.llen = memory.llen
      /\ Len(WholeFile') = CurrentStart + Len(cells)
      /\ \A c \in 1 .. CurrentStart : WholeFile'[c] = WholeFile[c]
      /\ \A c \in 1 .. Len(cells) : WholeFile'[CurrentStart + c] = cells[c]
  BY <1>1, <1>3, CurrentFileSet
<1>5. CurrentStart \in Nat /\ Len(CurrentCells) \in Nat
      /\ Len(WholeFile) = CurrentStart + Len(CurrentCells)
  BY <1>1, CurrentFile
<1>6. ASSUME NEW c \in 1 .. Len(WholeFile'), WholeFile'[c].type = "pack"
      PROVE  WholeFile'[c].llen = minLLen
  <2>1. CASE c <= CurrentStart
    <3>1. c \in 1 .. CurrentStart /\ c \in 1 .. Len(WholeFile)
      BY <2>1, <1>3, <1>4, <1>5
    <3> QED BY <3>1, <1>1, <1>4, <1>6 DEF HasLLen
  <2>2. CASE ~(c <= CurrentStart)
    <3> DEFINE d == c - CurrentStart
    <3>1. d \in 1 .. Len(cells) /\ CurrentStart + d = c
      BY <2>2, <1>3, <1>4, <1>5
    <3>2. WholeFile'[c] = cells[d]
      BY <3>1, <1>4
    <3> QED BY <3>1, <3>2, <1>3, <1>6 DEF HasLLen
  <2> QED BY <2>1, <2>2
<1>7. (HasLLen(WholeFile, minLLen))'
  BY <1>4, <1>6 DEF HasLLen
<1> QED BY <1>1, <1>4, <1>7 DEF LLenInv

LEMMA LLenRewriteSome ==
  ASSUME IInv, LLenInv, CanUpdate, NEW list \in Seq(Partitions),
         NEW order \in Seq(1 .. Len(list)), RewriteSome(list, order)
  PROVE  LLenInv' /\ KeepsLLen
<1>1. PICK n \in 0 .. Len(order) - 1 : Stop(IF memory.open THEN disk ELSE Rewritten(list, order, n))
  BY DEF RewriteSome
<1>2. n \in 0 .. Len(order) /\ state = "writing"
  BY LenProperties DEF CanUpdate
<1>3. CASE memory.open
  <2>1. disk' = disk /\ state' = "closed"
    BY <1>1, <1>3 DEF Stop
  <2> QED BY <2>1 DEF LLenInv, KeepsLLen
<1>4. CASE ~memory.open
  <2>1. disk' = Rewritten(list, order, n) /\ state' = "closed"
    BY <1>1, <1>4 DEF Stop
  <2>2. disk' \in Seq(Cells) /\ HasLLen(disk', minLLen)
    BY <2>1, <1>2, LLenRewritten
  <2> QED BY <2>1, <2>2, <1>2, LLenKept DEF LLenInv
<1> QED BY <1>3, <1>4

LEMMA LLenRemains ==
  ASSUME disk \in Seq(Cells), disk' \in Seq(Cells), Remains(disk, disk')
  PROVE  KeepsLLen
<1>1. DOMAIN disk' = 1 .. Len(disk')
  BY LenProperties
<1>2. \A c \in 1 .. Len(disk') : disk'[c].type = "pack" => disk'[c] = disk[c]
  BY DEF Remains, IsLost
<1> QED BY <1>1, <1>2 DEF KeepsLLen

\* What is left of both files when one writer stops.
LEMMA LLenStopped ==
  ASSUME IInv, LLenInv, state = "writing", disk' \in Seq(Cells), Remains(WholeFile, disk')
  PROVE  KeepsLLen
<1>1. HasLLen(WholeFile, minLLen) /\ Len(WholeFile) \in Nat
  BY IInvFacts, LenProperties DEF LLenInv
<1>2. Len(disk') \in Nat /\ Len(disk') <= Len(WholeFile)
  BY LenProperties DEF Remains
<1>3. \A c \in 1 .. Len(disk') : c \in 1 .. Len(WholeFile)
  BY <1>1, <1>2
<1>4. HasLLen(disk', minLLen)
  BY <1>1, <1>3 DEF HasLLen, Remains, IsLost
<1> QED BY <1>4, LLenKept


-----------------------------------------------------------------------------
(* The theorems *)

\* What holds of the outcome of the last call.
Outcomes == ReadOutcome /\ UpdateSettlesFile

\* What the action properties say of a step.
WantedOnly ==
  /\ call' = "updateBody" => RewritesExactly("body")
  /\ call' = "updateStream" => RewritesExactly("stream")
HeaderSurvives ==
  (call' \in {"readTrue", "readFalse"} /\ partitions # <<>> /\ isHeader(partitions[1]))
    => partitions' # <<>> /\ partitions'[1].id = partitions[1].id

StepHolds == IInv' /\ Outcomes' /\ WantedOnly /\ HeaderSurvives /\ SliceKept

LEMMA OtherCall ==
  ASSUME IInv', SliceKept, call' = "other"
  PROVE  StepHolds
<1>1. ReadOutcome'
  BY DEF ReadOutcome, ReadIsFaithful, FailedReadKeepsHeader, SettledFileReadsComplete,
         InOrderFileReadsComplete
<1>2. UpdateSettlesFile'
  BY DEF UpdateSettlesFile
<1>3. WantedOnly /\ HeaderSurvives
  BY DEF WantedOnly, HeaderSurvives
<1> QED BY <1>1, <1>2, <1>3 DEF StepHolds, Outcomes

\* An update of some sort tells nothing of a read.
LEMMA UpdateCall ==
  ASSUME IInv', SliceKept, call' \in {"update", "updateBody", "updateStream"},
         UpdateSettlesFile', WantedOnly
  PROVE  StepHolds
<1>1. ReadOutcome'
  BY DEF ReadOutcome, ReadIsFaithful, FailedReadKeepsHeader, SettledFileReadsComplete,
         InOrderFileReadsComplete
<1>2. HeaderSurvives
  BY DEF HeaderSurvives
<1> QED BY <1>1, <1>2 DEF StepHolds, Outcomes

LEMMA InitIInv == Init => IInv /\ Outcomes /\ LLenInv
<1> SUFFICES ASSUME Init PROVE IInv /\ Outcomes /\ LLenInv
  OBVIOUS
<1>1. /\ state = "writing" /\ partitions = <<>> /\ heap = {} /\ disk = <<>>
      /\ minLLen = DefaultLLen /\ memory = NoMemory /\ call = "other"
      /\ firstMemoryPartitionIndex = NPos /\ lastMemoryPartitionIndex = NPos
  BY DEF Init
<1>2. memory \in Memories /\ ~memory.open /\ DefaultLLen \in MinLLens /\ MaxPartitions \in Nat
  BY <1>1, NoMemoryIsClosed, ConstantsAssumption
<1>3. NPos \in Nat
  BY <1>2 DEF NPos
<1>4. TypeOK
  BY <1>1, <1>2, <1>3 DEF TypeOK, States, Calls
<1>5. OwnedOnce
  BY <1>1 DEF OwnedOnce, ObjectsOf
<1>6. WholeFile = <<>> /\ Len(WholeFile) = 0
  BY <1>1, <1>2 DEF WholeFile
<1>7. PackOffsets(WholeFile) = {}
  BY <1>6 DEF PackOffsets
<1>8. Sound(WholeFile)
  BY <1>6, <1>7 DEF Sound, WellPlaced, RIPsFit, Linked, FooterLast
<1>9. Describes(partitions, WholeFile)
  BY <1>1, <1>6, <1>7 DEF Describes, OwnOffsets, InFileOrder, KindsFit, Matches, LinkedInOrder
<1>10. WhileWriting /\ WhileReading /\ WhenClosed
  BY <1>1, <1>2, <1>9 DEF WhileWriting, WhileReading, WhenClosed, MemoryFollowsDisk
<1>11. IInv
  BY <1>4, <1>5, <1>8, <1>10 DEF IInv
<1>12. Outcomes
  BY <1>1 DEF Outcomes, ReadOutcome, ReadIsFaithful, FailedReadKeepsHeader,
              SettledFileReadsComplete, InOrderFileReadsComplete, UpdateSettlesFile
<1>13. LLenInv
  BY <1>2, <1>6 DEF LLenInv, HasLLen
<1> QED BY <1>11, <1>12, <1>13

LEMMA UpdateHolds ==
  ASSUME IInv, updatePartitions
  PROVE  StepHolds
<1>1. IInv' /\ SliceKept /\ CanUpdate
  BY UpdateStep DEF updatePartitions
<1>2. CASE call' = "update" /\ RewriteAll(UpdateList, UpdateOrder, "update")
  <2>1. (/\ ~memory'.open /\ InFileOrder(partitions')
         /\ partitions'[Len(partitions')].pack.kind = "footer") => Settled(disk')
    BY <1>1, <1>2, SettlingUpdate
  <2>2. UpdateSettlesFile'
    BY <2>1 DEF UpdateSettlesFile, InFileOrder
  <2>3. WantedOnly
    BY <1>2 DEF WantedOnly
  <2> QED BY <1>1, <1>2, <2>2, <2>3, UpdateCall
<1> QED BY <1>1, <1>2, UpdateStep, OtherCall

LEMMA UpdateBodyHolds ==
  ASSUME IInv, NEW setKey \in BOOLEAN, updateBodyPartitions(setKey)
  PROVE  StepHolds
<1>1. IInv' /\ SliceKept /\ CanUpdate
  BY UpdateBodyStep DEF updateBodyPartitions
<1>2. CASE /\ call' = "updateBody"
           /\ RewriteAll(BodyList(BodyOrder, setKey), BodyOrder, "updateBody")
  <2>1. WantedOnly
    BY <1>1, <1>2, WantedBody DEF WantedOnly
  <2>2. UpdateSettlesFile'
    BY <1>2 DEF UpdateSettlesFile
  <2> QED BY <1>1, <1>2, <2>1, <2>2, UpdateCall
<1> QED BY <1>1, <1>2, UpdateBodyStep, OtherCall

LEMMA UpdateStreamHolds ==
  ASSUME IInv, updateGenericStreamPartitions
  PROVE  StepHolds
<1>1. IInv' /\ SliceKept /\ CanUpdate
  BY UpdateStreamStep DEF updateGenericStreamPartitions
<1>2. CASE /\ call' = "updateStream"
           /\ RewriteAll(StreamList(StreamOrder), StreamOrder, "updateStream")
  <2>1. WantedOnly
    BY <1>1, <1>2, WantedStream DEF WantedOnly
  <2>2. UpdateSettlesFile'
    BY <1>2 DEF UpdateSettlesFile
  <2> QED BY <1>1, <1>2, <2>1, <2>2, UpdateCall
<1> QED BY <1>1, <1>2, UpdateStreamStep, OtherCall

LEMMA ReadHolds ==
  ASSUME IInv, readPartitions
  PROVE  StepHolds
<1>1. IInv' /\ SliceKept /\ ReadOutcome' /\ KeepsHeader /\ call' \in {"readTrue", "readFalse"}
  BY ReadStep
<1>2. WantedOnly /\ HeaderSurvives /\ UpdateSettlesFile'
  BY <1>1 DEF WantedOnly, HeaderSurvives, UpdateSettlesFile, KeepsHeader
<1> QED BY <1>1, <1>2 DEF StepHolds, Outcomes

LEMMA NextHolds ==
  ASSUME IInv, Next
  PROVE  StepHolds
<1>1. ASSUME NEW llen \in MinLLens, setMinLLen(llen) PROVE StepHolds
  BY <1>1, SetMinLLenStep, OtherCall
<1>2. ASSUME NEW kind \in Kinds, createPartition(kind) PROVE StepHolds
  BY <1>2, CreateStep, OtherCall
<1>3. ASSUME NEW index \in 1 .. MaxPartitions, NEW kind \in Kinds, insertPartition(index, kind)
      PROVE  StepHolds
  BY <1>3, InsertStep, OtherCall
<1>4. ASSUME NEW i \in 1 .. MaxPartitions, writePartition(i) PROVE StepHolds
  BY <1>4, WritePartitionStep, OtherCall
<1>5. CASE writeEssence
  BY <1>5, EssenceStep, OtherCall
<1>6. CASE writeRIP
  BY <1>6, WriteRIPStep, OtherCall
<1>7. CASE openMemoryFile
  BY <1>7, OpenMemoryStep, OtherCall
<1>8. ASSUME NEW llen \in MinLLens, setMemoryFile(llen) PROVE StepHolds
  BY <1>8, SetMemoryStep, OtherCall
<1>9. ASSUME NEW first \in MemoryIndexes, NEW last \in MemoryIndexes \cup {NPos},
             setMemoryPartitionIndexes(first, last)
      PROVE  StepHolds
  <2>1. first \in Nat /\ last \in Nat
    BY IInvFacts, ConstantsAssumption
  <2> QED BY <1>9, <2>1, IndexesStep, OtherCall
<1>10. CASE closeMemoryFile
  BY <1>10, CloseMemoryStep, OtherCall
<1>11. ASSUME NEW n \in 0 .. MaxCells, closeMemoryFileFails(n) PROVE StepHolds
  BY <1>11, FlushFailsStep, OtherCall DEF closeMemoryFileFails, Stop
<1>12. CASE updatePartitions
  BY <1>12, UpdateHolds
<1>13. ASSUME NEW setKey \in BOOLEAN, updateBodyPartitions(setKey) PROVE StepHolds
  BY <1>13, UpdateBodyHolds
<1>14. CASE updateGenericStreamPartitions
  BY <1>14, UpdateStreamHolds
<1>15. CASE destroyFile
  BY <1>15, DestroyStep, OtherCall DEF destroyFile, Stop
<1>16. ASSUME NEW n \in 0 .. MaxCells, loseTail(n) PROVE StepHolds
  BY <1>16, LoseTailStep, OtherCall DEF loseTail
<1>17. ASSUME NEW c \in 1 .. MaxCells, damageCell(c) PROVE StepHolds
  BY <1>17, DamageStep, OtherCall DEF damageCell
<1>18. CASE openRead
  BY <1>18, OpenReadStep, OtherCall DEF openRead
<1>19. CASE readHeaderPartition
  BY <1>19, ReadHeaderStep, OtherCall
<1>20. ASSUME NEW offset \in 0 .. MaxCells, readNextPartition(offset) PROVE StepHolds
  <2>1. offset \in Nat
    BY ConstantsAssumption
  <2> QED BY <1>20, <2>1, ReadNextStep, OtherCall
<1>21. CASE readPartitions
  BY <1>21, ReadHolds
<1> QED BY <1>1, <1>2, <1>3, <1>4, <1>5, <1>6, <1>7, <1>8, <1>9, <1>10, <1>11, <1>12, <1>13,
           <1>14, <1>15, <1>16, <1>17, <1>18, <1>19, <1>20, <1>21 DEF Next

LEMMA StepPreserves ==
  IInv /\ Outcomes /\ [Next]_vars =>
    IInv' /\ Outcomes' /\ [WantedOnly]_vars /\ [HeaderSurvives]_vars /\ [SliceKept]_vars
<1> SUFFICES ASSUME IInv, Outcomes, [Next]_vars
             PROVE  /\ IInv' /\ Outcomes'
                    /\ [WantedOnly]_vars /\ [HeaderSurvives]_vars /\ [SliceKept]_vars
  OBVIOUS
<1>1. CASE Next
  BY <1>1, NextHolds DEF StepHolds
<1>2. CASE UNCHANGED vars
  <2>1. UNCHANGED <<state, partitions, heap, disk, minLLen, memory, firstMemoryPartitionIndex,
                    lastMemoryPartitionIndex, call>>
    BY <1>2 DEF vars, fileVars, indexVars
  <2>2. IInv'
    BY <2>1 DEF IInv, TypeOK, OwnedOnce, ObjectsOf, WholeFile, WhileWriting,
                MemoryFollowsDisk, WhileReading, IsFromDisk, PackAt, WhenClosed
  <2>3. Outcomes'
    BY <2>1 DEF Outcomes, ReadOutcome, ReadIsFaithful, isHeader, PackAt, HasRIP, RIPInOrder,
                FailedReadKeepsHeader, HeaderReadable, Readable, SettledFileReadsComplete,
                InOrderFileReadsComplete, Intact, IsComplete, UpdateSettlesFile, InFileOrder
  <2> QED BY <1>2, <2>2, <2>3
<1> QED BY <1>1, <1>2


\* The memory file has the min llen of the file on disk, unless the client gave
\* one that has another.
LLenHolds == LLenInv' /\ KeepsLLen

LEMMA LLenUnchanged ==
  ASSUME IInv, IInv', LLenInv, state = "writing", state' = "writing",
         WholeFile' = WholeFile, minLLen' = minLLen,
         memory'.open => memory'.llen = minLLen
  PROVE  LLenHolds
<1>1. HasLLen(WholeFile, minLLen)
  BY DEF LLenInv
<1>2. LLenInv'
  BY <1>1 DEF LLenInv, HasLLen
<1> QED BY <1>2, LLenWhileWriting DEF LLenHolds

LEMMA LLenAfterWriting ==
  ASSUME IInv, IInv', LLenInv, state = "writing", state' = "writing", NEW cell \in Cells,
         cell.type = "pack" => cell.llen = CurrentLLen,
         SetCurrentCells(Append(CurrentCells, cell))
  PROVE  LLenHolds
BY LLenAppended, LLenWhileWriting DEF LLenHolds

LEMMA LLenAfterDecay ==
  ASSUME IInv, state' # "writing", disk' \in Seq(Cells), Remains(disk, disk')
  PROVE  LLenHolds
<1>1. KeepsLLen
  BY LLenRemains DEF IInv, TypeOK
<1> QED BY <1>1 DEF LLenHolds, LLenInv

LEMMA LLenAfterRead ==
  ASSUME state' # "writing", disk' = disk
  PROVE  LLenHolds
BY DEF LLenHolds, LLenInv, KeepsLLen

LEMMA LLenAfterStop ==
  ASSUME IInv, LLenInv, state = "writing", state' # "writing", disk' \in Seq(Cells),
         Remains(WholeFile, disk')
  PROVE  LLenHolds
BY LLenStopped DEF LLenHolds, LLenInv

LEMMA LLenAfterUpdate ==
  ASSUME IInv, IInv', LLenInv, CanUpdate, NEW list \in Seq(Partitions),
         NEW order \in Seq(1 .. Len(list)), NEW name,
         RewriteAll(list, order, name) \/ RewriteSome(list, order)
  PROVE  LLenHolds
<1>1. CASE RewriteAll(list, order, name)
  <2>1. state = "writing" /\ state' = "writing" /\ SetCurrentCells(Rewritten(list, order, Len(order)))
    BY <1>1 DEF CanUpdate, RewriteAll
  <2>2. LLenInv' /\ minLLen' = minLLen
    BY <2>1, LLenRewriteAll
  <2> QED BY <2>1, <2>2, LLenWhileWriting DEF LLenHolds
<1>2. CASE RewriteSome(list, order)
  BY <1>2, LLenRewriteSome DEF LLenHolds
<1> QED BY <1>1, <1>2

LEMMA LLenUpdates ==
  ASSUME IInv, IInv', LLenInv,
         \/ updatePartitions \/ updateGenericStreamPartitions
         \/ \E setKey \in BOOLEAN : updateBodyPartitions(setKey)
  PROVE  LLenHolds
<1>1. CanUpdate
  BY DEF updatePartitions, updateGenericStreamPartitions, updateBodyPartitions
<1>2. partitions \in Seq(Partitions) /\ partitions # <<>>
  BY <1>1, IInvFacts DEF CanUpdate
<1>3. /\ UpdateOrder \in Seq(1 .. Len(partitions))
      /\ BodyOrder \in Seq(1 .. Len(partitions)) /\ StreamOrder \in Seq(1 .. Len(partitions))
  BY <1>1, OrdersAreLists
<1>4. CASE updatePartitions
  <2>1. UpdateList \in Seq(Partitions) /\ Len(UpdateList) = Len(partitions)
    BY <1>2, UpdateListIsRelinked DEF IsRelinked
  <2>2. RewriteAll(UpdateList, UpdateOrder, "update") \/ RewriteSome(UpdateList, UpdateOrder)
    BY <1>4 DEF updatePartitions
  <2> QED BY <1>1, <1>3, <2>1, <2>2, LLenAfterUpdate
<1>5. ASSUME NEW setKey \in BOOLEAN, updateBodyPartitions(setKey) PROVE LLenHolds
  <2> DEFINE list == BodyList(BodyOrder, setKey)
             order == BodyOrder
  <2>1. list \in Seq(Partitions) /\ Len(list) = Len(partitions) /\ order \in Seq(1 .. Len(partitions))
    BY <1>2, <1>3, BodyListIsRelinked DEF IsRelinked
  <2>2. RewriteAll(list, order, "updateBody") \/ RewriteSome(list, order)
    BY <1>5 DEF updateBodyPartitions
  <2> HIDE DEF list, order
  <2> QED BY <1>1, <2>1, <2>2, LLenAfterUpdate
<1>6. CASE updateGenericStreamPartitions
  <2> DEFINE list == StreamList(StreamOrder)
             order == StreamOrder
  <2>1. list \in Seq(Partitions) /\ Len(list) = Len(partitions) /\ order \in Seq(1 .. Len(partitions))
    BY <1>2, <1>3, StreamListIsRelinked DEF IsRelinked
  <2>2. RewriteAll(list, order, "updateStream") \/ RewriteSome(list, order)
    BY <1>6 DEF updateGenericStreamPartitions
  <2> HIDE DEF list, order
  <2> QED BY <1>1, <2>1, <2>2, LLenAfterUpdate
<1> QED BY <1>4, <1>5, <1>6

LEMMA LLenNext ==
  ASSUME ~AnyMemoryLLen, IInv, IInv', LLenInv, Next
  PROVE  LLenHolds
<1>a. IInv /\ IInv' /\ LLenInv /\ ~AnyMemoryLLen
  OBVIOUS
<1>o. /\ CurrentLLen \in MinLLens /\ disk \in Seq(Cells)
      /\ state = "writing" /\ memory.open => memory.llen = minLLen
  BY IInvFacts, CurrentFile DEF LLenInv, FilesOK
<1>1. ASSUME NEW llen \in MinLLens, setMinLLen(llen) PROVE LLenHolds
  <2>1. WholeFile' = <<>> /\ disk' = disk /\ ~memory'.open /\ disk = <<>>
    BY <1>1 DEF setMinLLen, WholeFile
  <2>2. LLenInv'
    BY <2>1 DEF LLenInv, HasLLen
  <2>3. KeepsLLen
    BY <2>1 DEF KeepsLLen
  <2> QED BY <2>2, <2>3 DEF LLenHolds
<1>2. ASSUME NEW kind \in Kinds, createPartition(kind) PROVE LLenHolds
  BY <1>2, <1>o, LLenUnchanged DEF createPartition, fileVars, WholeFile
<1>3. ASSUME NEW index \in 1 .. MaxPartitions, NEW kind \in Kinds, insertPartition(index, kind)
      PROVE  LLenHolds
  BY <1>3, <1>o, LLenUnchanged DEF insertPartition, fileVars, WholeFile
<1>4. ASSUME NEW i \in 1 .. MaxPartitions, writePartition(i) PROVE LLenHolds
  <2> DEFINE pack == WrittenPack(partitions[i].pack)
             cell == [type |-> "pack", pack |-> pack, llen |-> CurrentLLen]
  <2>1. state = "writing" /\ state' = "writing" /\ SetCurrentCells(Append(CurrentCells, cell))
        /\ i \in DOMAIN partitions
    BY <1>4 DEF writePartition
  <2>2. pack \in Packs
    <3>1. partitions[i] \in Partitions /\ Tell \in Nat
      BY <2>1, IInvFacts, ElementOfSeq, CurrentFile
    <3> QED BY <3>1, PackWritten
  <2> HIDE DEF pack
  <2>3. cell \in Cells /\ cell.llen = CurrentLLen
    BY <2>2, <1>o, CellsToWrite
  <2> HIDE DEF cell
  <2> QED BY <2>1, <2>3, LLenAfterWriting
<1>5. CASE writeEssence
  <2> DEFINE cell == [type |-> "essence"]
  <2>1. state = "writing" /\ state' = "writing" /\ SetCurrentCells(Append(CurrentCells, cell))
    BY <1>5 DEF writeEssence
  <2>2. cell \in Cells /\ cell.type # "pack"
    BY CellsToWrite
  <2> HIDE DEF cell
  <2> QED BY <2>1, <2>2, LLenAfterWriting
<1>6. CASE writeRIP
  <2> DEFINE entries == [i \in DOMAIN partitions |-> partitions[i].pack.thisPartition]
             cell == [type |-> "rip", entries |-> entries]
  <2>1. state = "writing" /\ state' = "writing" /\ SetCurrentCells(Append(CurrentCells, cell))
    BY <1>6 DEF writeRIP
  <2>2. entries \in Seq(Nat)
    <3>1. Len(partitions) \in Nat /\ DOMAIN partitions = 1 .. Len(partitions)
          /\ partitions \in Seq(Partitions)
      BY IInvFacts
    <3>2. \A i \in 1 .. Len(partitions) : partitions[i].pack.thisPartition \in Nat
      BY <3>1, ElementOfSeq, PartitionFields, PackFields
    <3>3. entries = [i \in 1 .. Len(partitions) |-> partitions[i].pack.thisPartition]
      BY <3>1
    <3> QED BY <3>1, <3>2, <3>3, IsASeq
  <2> HIDE DEF entries
  <2>3. cell \in Cells /\ cell.type # "pack"
    BY <2>2, CellsToWrite
  <2> HIDE DEF cell
  <2> QED BY <2>1, <2>3, LLenAfterWriting
<1>7. CASE openMemoryFile
  BY <1>7, <1>a, OpenMemoryStep, LLenUnchanged DEF openMemoryFile
<1>8. ASSUME NEW llen \in MinLLens, setMemoryFile(llen) PROVE LLenHolds
  BY <1>8, <1>a, SetMemoryStep, LLenUnchanged DEF setMemoryFile
<1>9. ASSUME NEW first \in MemoryIndexes, NEW last \in MemoryIndexes \cup {NPos},
             setMemoryPartitionIndexes(first, last)
      PROVE  LLenHolds
  BY <1>9, <1>o, LLenUnchanged DEF setMemoryPartitionIndexes, fileVars, WholeFile
<1>10. CASE closeMemoryFile
  <2>1. state = "writing" /\ state' = "writing" /\ memory.open
    BY <1>10 DEF closeMemoryFile
  <2>2. WholeFile' = WholeFile /\ minLLen' = minLLen /\ ~memory'.open
    BY <1>10, <1>o, <2>1, CloseMemoryStep
  <2> QED BY <2>1, <2>2, LLenUnchanged
<1>11. ASSUME NEW n \in 0 .. MaxCells, closeMemoryFileFails(n) PROVE LLenHolds
  BY <1>11, FlushFailsStep, LLenAfterStop DEF closeMemoryFileFails, Stop
<1>12. CASE updatePartitions
  BY <1>12, LLenUpdates
<1>13. ASSUME NEW setKey \in BOOLEAN, updateBodyPartitions(setKey) PROVE LLenHolds
  BY <1>13, LLenUpdates
<1>14. CASE updateGenericStreamPartitions
  BY <1>14, LLenUpdates
<1>15. CASE destroyFile
  BY <1>15, <1>o, DestroyStep, LLenAfterStop DEF destroyFile, Stop
<1>16. ASSUME NEW n \in 0 .. MaxCells, loseTail(n) PROVE LLenHolds
  BY <1>16, LoseTailStep, LLenAfterDecay DEF loseTail
<1>17. ASSUME NEW c \in 1 .. MaxCells, damageCell(c) PROVE LLenHolds
  BY <1>17, DamageStep, LLenAfterDecay DEF damageCell
<1>18. CASE openRead
  BY <1>18, LLenAfterRead DEF openRead, fileVars
<1>19. CASE readHeaderPartition
  BY <1>19, LLenAfterRead DEF readHeaderPartition, fileVars
<1>20. ASSUME NEW offset \in 0 .. MaxCells, readNextPartition(offset) PROVE LLenHolds
  BY <1>20, LLenAfterRead DEF readNextPartition, fileVars
<1>21. CASE readPartitions
  BY <1>21, LLenAfterRead DEF readPartitions, fileVars
<1> QED BY <1>1, <1>2, <1>3, <1>4, <1>5, <1>6, <1>7, <1>8, <1>9, <1>10, <1>11, <1>12, <1>13,
           <1>14, <1>15, <1>16, <1>17, <1>18, <1>19, <1>20, <1>21 DEF Next

-----------------------------------------------------------------------------

\* The inductive invariant, and what it makes of every call's outcome, hold
\* whatever the writer, the disk and the reader do.
THEOREM Invariance == Spec => [](IInv /\ Outcomes)
<1>1. Init => IInv /\ Outcomes
  BY InitIInv
<1>2. IInv /\ Outcomes /\ [Next]_vars => (IInv /\ Outcomes)'
  BY StepPreserves
<1> QED BY <1>1, <1>2, PTL DEF Spec

\* Every variable has its type.
THEOREM TypeCorrect == Spec => []TypeOK
<1>1. IInv /\ Outcomes => TypeOK
  BY DEF IInv
<1> QED BY <1>1, Invariance, PTL

\* No call leaks a Partition or leaves the list with a deleted one, also when
\* readPartitions fails (File::readPartitions, ~File).
THEOREM PartitionsAreOwned == Spec => []OwnedOnce
<1>1. IInv /\ Outcomes => OwnedOnce
  BY DEF IInv
<1> QED BY <1>1, Invariance, PTL

\* No call brings a partition that is on disk into the slice that updates rewrite
\* in the memory file, while the list is in the order of the file and the client
\* does not set the indexes (File::openMemoryFile, createPartition,
\* insertPartition, updatePartitions).
THEOREM SliceStaysInMemory == Spec => SliceKeepsToMemory
<1>1. IInv /\ Outcomes /\ [Next]_vars => [SliceKept]_vars
  BY StepPreserves
<1>2. Spec => [][SliceKept]_vars
  BY <1>1, Invariance, PTL DEF Spec
<1> QED BY <1>2 DEF SliceKept, SliceKeepsToMemory

\* A successful readPartitions gives the header partition and then packs of the
\* file, each once, whatever the file was left like; and in their order, unless a
\* RIP lists them in another.
THEOREM FaithfulRead == Spec => []ReadIsFaithful
<1>1. IInv /\ Outcomes => ReadIsFaithful
  BY DEF Outcomes, ReadOutcome
<1> QED BY <1>1, Invariance, PTL

\* A failed readPartitions leaves the header partition, or nothing.
THEOREM FailedRead == Spec => []FailedReadKeepsHeader
<1>1. IInv /\ Outcomes => FailedReadKeepsHeader
  BY DEF Outcomes, ReadOutcome
<1> QED BY <1>1, Invariance, PTL

\* updatePartitions leaves every pack with its final links, whatever order the
\* partitions were created and inserted in, when the list is in the order of the
\* file.
THEOREM UpdateSettles == Spec => []UpdateSettlesFile
<1>1. IInv /\ Outcomes => UpdateSettlesFile
  BY DEF Outcomes
<1> QED BY <1>1, Invariance, PTL

\* All the partitions of a file that was updated are read again, with a RIP and
\* without.
THEOREM SettledRead == Spec => []SettledFileReadsComplete
<1>1. IInv /\ Outcomes => SettledFileReadsComplete
  BY DEF Outcomes, ReadOutcome
<1> QED BY <1>1, Invariance, PTL

\* A client that writes each partition before it creates the next leaves a file
\* that readPartitions reads whole or not at all, wherever it stopped.
THEOREM InOrderRead == Spec => []InOrderFileReadsComplete
<1>1. IInv /\ Outcomes => InOrderFileReadsComplete
  BY DEF Outcomes, ReadOutcome
<1> QED BY <1>1, Invariance, PTL

\* The client's reference to the header partition stays valid.
THEOREM HeaderIsKept == Spec => HeaderSurvivesRead
<1>1. IInv /\ Outcomes /\ [Next]_vars => [HeaderSurvives]_vars
  BY StepPreserves
<1>2. Spec => [][HeaderSurvives]_vars
  BY <1>1, Invariance, PTL DEF Spec
<1> QED BY <1>2 DEF HeaderSurvives, HeaderSurvivesRead

\* updateBodyPartitions and updateGenericStreamPartitions rewrite the wanted
\* packs of the current file and no other cell.
THEOREM WantedAreUpdated == Spec => UpdatesWantedOnly
<1>1. IInv /\ Outcomes /\ [Next]_vars => [WantedOnly]_vars
  BY StepPreserves
<1>2. Spec => [][WantedOnly]_vars
  BY <1>1, Invariance, PTL DEF Spec
<1> QED BY <1>2 DEF WantedOnly, UpdatesWantedOnly

\* A pack keeps the size it was written with, as long as a memory file that the
\* client gives has the min llen of the file on disk.
THEOREM PacksKeepLLen ==
  ASSUME ~AnyMemoryLLen
  PROVE  Spec => RewriteKeepsLLen
<1>1. Init => LLenInv
  BY InitIInv
<1>2. IInv /\ IInv' /\ LLenInv /\ [Next]_vars => LLenInv' /\ [KeepsLLen]_vars
  <2>1. ASSUME UNCHANGED vars, LLenInv PROVE LLenInv'
    BY <2>1 DEF vars, fileVars, LLenInv, HasLLen, WholeFile
  <2> QED BY <2>1, LLenNext DEF LLenHolds
<1>3. Spec => [][KeepsLLen]_vars
  BY <1>1, <1>2, Invariance, PTL DEF Spec
<1> QED BY <1>3 DEF KeepsLLen, RewriteKeepsLLen
================================================================================
