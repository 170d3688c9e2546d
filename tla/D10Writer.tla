------------------------------ MODULE D10Writer ------------------------------
(***************************************************************************)
(* The writer of D-10 (IMX) OP-1A files                                    *)
(* (examples/D10MXFOP1AWriter/D10MXFOP1AWriter.cpp and                     *)
(* D10ContentPackage.cpp): a content package is a frame of video with its  *)
(* audio, and every edit unit of the file holds the video of one package   *)
(* and one AES3 block of audio.                                            *)
(*                                                                         *)
(* At 60i a block has 1602 or 1601 samples, in a sequence of five, of      *)
(* which a file may begin with any.  The packages need not have as many    *)
(* samples as the blocks: the writer buffers packages until the sequence's *)
(* offset is known, and after that until their block is full.              *)
(*                                                                         *)
(* Audio is numbered from the first sample of the first package, in the    *)
(* order of the packages, and a block's contents are runs of numbers.  All *)
(* tracks of a package have as many samples.  The configuration is set     *)
(* before the file is created and not changed after that.                  *)
(***************************************************************************)
EXTENDS Integers, Sequences, SequencesExt, FiniteSetsExt

CONSTANTS
  Configurations,  \* [rate, channels, offset, start, dropFrame, imageSize], and of the
                   \* client [counts |-> the numbers of samples its packages may have,
                   \* packages |-> bound: how many it gives]
  OddCounts,       \* numbers of samples that no standard's packages have
  MaxAssembled,    \* bound: packages given with SetVideo and SetAudio
  MaxOdd           \* bound: packages with an odd number of samples

None == -1
UNKNOWN_SEQUENCE_OFFSET == 255

ASSUME ConfigurationAssumption ==
  /\ \A c \in Configurations :
       /\ c.rate \in {"D10_SAMPLE_RATE_625_50I", "D10_SAMPLE_RATE_525_60I"}
       /\ c.channels \in 0 .. 8
       /\ c.offset \in 0 .. 255
       /\ c.start \in Nat
       /\ c.dropFrame \in BOOLEAN
       /\ c.imageSize \in Nat \ {0}
       /\ c.counts \subseteq Nat
       /\ c.packages \in Nat
  /\ OddCounts \subseteq Nat

VARIABLES
  configuration,
  mMXFFile,                   \* "none", "open" or "completed"
  mContentPackage,            \* the package that SetVideo and SetAudio fill
  mBufferedContentPackages,
  mAES3Blocks,
  mAudioSequenceOffset,
  mAudioSequenceIndex,
  mDuration,
  units,                      \* the edit units in the file
  durations,                  \* of the metadata sets and the index table segment
  given                       \* samples of each package given to WriteContentPackage

vars == <<configuration, mMXFFile, mContentPackage, mBufferedContentPackages, mAES3Blocks,
          mAudioSequenceOffset, mAudioSequenceIndex, mDuration, units, durations, given>>
memory == <<mBufferedContentPackages, mAES3Blocks, mAudioSequenceOffset, mAudioSequenceIndex,
            mDuration, units>>

-----------------------------------------------------------------------------
(* The configuration *)

SampleRate ==
  [ D10_SAMPLE_RATE_625_50I |->
      [sequence |-> <<1920>>, maxFinalPadding |-> 0, timecodeBase |-> 25],
    D10_SAMPLE_RATE_525_60I |->
      [sequence |-> <<1602, 1601, 1602, 1601, 1602>>, maxFinalPadding |-> 4, timecodeBase |-> 30] ]

Rate == SampleRate[configuration.rate]
mAudioSequenceCount == Len(Rate.sequence)
mAudioSequence(index) == Rate.sequence[index + 1]
mMaxAudioSamples == Max(ToSet(Rate.sequence))
HasAudio == configuration.channels > 0
DropsFrames == configuration.dropFrame /\ configuration.rate = "D10_SAMPLE_RATE_525_60I"

\* The metadata sets of CreateHeaderMetadata that have a duration: on three
\* tracks of each package the sequence and its component, and the descriptors of
\* the file's source package.
OnTracks(package) ==
  {package} \X {"Timecode", "Picture", "Sound"} \X {"Sequence", "StructuralComponent"}
MaterialPackageSets == OnTracks("MaterialPackage")
SourcePackageSets ==
  OnTracks("SourcePackage")
  \cup {"SourcePackage"} \X {"Descriptor"} \X
    {"MultipleDescriptor", "CDCIEssenceDescriptor", "GenericSoundEssenceDescriptor"}
SetsWithDuration == MaterialPackageSets \cup SourcePackageSets
IndexTable == <<"HeaderPartition", "Index", "IndexTableSegment">>

-----------------------------------------------------------------------------
(* The sizes of an edit unit's items *)

KAG_SIZE == 512
KLSize == 16 + 4
SYSTEM_ITEM_METADATA_PACK_SIZE == 7 + 16 + 17 + 17

get_kag_aligned_size(size) ==
  LET fill == KAG_SIZE - (size % KAG_SIZE)
  IN size + IF fill < KLSize THEN fill + KAG_SIZE ELSE fill

SystemElementSize == KLSize + SYSTEM_ITEM_METADATA_PACK_SIZE + KLSize
AES3BlockSize(samples) == 4 + samples * 4 * 8

\* What WriteContentPackage leaves for the fill items after the three elements.
\* The video is written with the size the package gives it, which nothing compares
\* with the size set for the file (mEncodedImageSize); that the two are equal is a
\* restriction on the client.
Fills(samples) ==
  << get_kag_aligned_size(SystemElementSize) - SystemElementSize,
     get_kag_aligned_size(KLSize + configuration.imageSize) - KLSize - configuration.imageSize,
     get_kag_aligned_size(KLSize + AES3BlockSize(mMaxAudioSamples))
       - KLSize - AES3BlockSize(samples) >>

-----------------------------------------------------------------------------
(* Timecodes *)

SkippedBefore(hour, min) == (60 - 6) * 2 * hour + (min \div 10) * 9 * 2 + (min % 10) * 2

\* Fault: the frames are counted once, without those that they skip over.
DropFrameCount_Once(count) ==
  LET perMinute == 60 * Rate.timecodeBase
  IN count + SkippedBefore(count \div (60 * perMinute), (count % (60 * perMinute)) \div perMinute)

\* The count with the numbers that drop-frame timecode skips: the loop ends when
\* the hour and minute reached skip as many as were added to reach them.
DropFrameCount(count) ==
  LET perMinute == 60 * Rate.timecodeBase
      Skipped(c) == SkippedBefore(c \div (60 * perMinute), (c % (60 * perMinute)) \div perMinute)
      Settle[skipped \in Nat] ==
        LET next == Skipped(count + skipped)
        IN IF next = skipped THEN next ELSE Settle[next]
  IN count + Settle[0]

GenerateUserTimecode ==
  LET count == configuration.start + mDuration
      number == IF DropsFrames THEN DropFrameCount(count) ELSE count
      base == Rate.timecodeBase
  IN << number \div (60 * 60 * base), (number \div (60 * base)) % 60,
        (number \div base) % 60, number % base >>

-----------------------------------------------------------------------------
(* Content packages *)

NoTimecode == <<0, 0, 0, 0>>

\* What Reset leaves of a package.
NoPackage == [timecode |-> NoTimecode, video |-> None, first |-> 0, samples |-> 0, tracks |-> {}]

\* The samples of the packages given so far.
SamplesGiven ==
  LET Sum[k \in 0 .. Len(given)] == IF k = 0 THEN 0 ELSE Sum[k - 1] + given[k]
  IN Sum[Len(given)]
NextPackage == Len(given) + 1

\* GetNumAudioTracks counts the tracks before the first one that is empty.
GetNumAudioTracks(package) == Min({t \in 0 .. 8 : t \notin package.tracks})
IsComplete(package) ==
  package.video # None /\ GetNumAudioTracks(package) >= configuration.channels

-----------------------------------------------------------------------------
(* AES3 blocks.  A block of size 0 has no sequence index; of its `samples`, *)
(* which its size tells, `zeros` are null; `left` are the null samples that *)
(* remain in the array's memory.                                           *)

NewBlock == [sequence |-> None, samples |-> 0, runs |-> <<>>, zeros |-> 0, left |-> 0]

Emptied(block) == [NewBlock EXCEPT !.left = Max({block.zeros, block.left})]

LastSequenceIndex(index, blocks) == (index + Len(blocks) - 1) % mAudioSequenceCount

\* With no channels the null samples are appended once, and later setSize makes
\* what is left of them part of the block again.
InitAES3Block(block, index) ==
  [NewBlock EXCEPT
     !.sequence = index,
     !.left = IF ~HasAudio /\ mDuration = 0 THEN mMaxAudioSamples ELSE block.left]

\* The samples that the last block lacks.
Room(index, blocks) ==
  mAudioSequence(LastSequenceIndex(index, blocks)) - Last(blocks).samples

Initialised(index, blocks) ==
  IF Last(blocks).sequence # None THEN blocks
  ELSE [blocks EXCEPT ![Len(blocks)] = InitAES3Block(@, LastSequenceIndex(index, blocks))]

Copied(blocks, from, to) ==
  IF from = to THEN blocks
  ELSE [blocks EXCEPT ![Len(blocks)].runs = Append(@, <<from, to>>),
                      ![Len(blocks)].samples = @ + (to - from)]

Block ==
  [sequence : {None} \cup 0 .. 4, samples : Nat, runs : Seq(Nat \X Nat), zeros : Nat, left : Nat]

\* As many turns of the loop that copies samples as it can take: each but the
\* first and the last fills a block.
Turns(samples) == (samples \div Min(ToSet(Rate.sequence))) + 2

\* Fault: the samples after the first block begin with the package's first.
UpdateAES3Blocks_Restart(index, blocks, package) ==
  LET Turn(s) ==
        LET copied == Min({Room(index, s.blocks), s.remaining})
            kept == Copied(Initialised(index, s.blocks), package.first, package.first + copied)
        IN IF s.remaining = 0 THEN s
           ELSE [blocks |-> IF copied < s.remaining THEN Append(kept, NewBlock) ELSE kept,
                 remaining |-> s.remaining - copied]
      After[i \in Nat] == IF i = 0 THEN [blocks |-> blocks, remaining |-> package.samples]
                          ELSE Turn(After[i - 1])
  IN After[Turns(package.samples)].blocks

\* The samples of a package fill the last block and as many new ones as it takes.
UpdateAES3Blocks(index, blocks, package) ==
  LET end == package.first + package.samples
      Turn(s) ==
        LET copied == Min({Room(index, s.blocks), s.remaining})
            from == end - s.remaining
            kept == Copied(Initialised(index, s.blocks), from, from + copied)
        IN IF s.remaining = 0 THEN s
           ELSE [blocks |-> IF copied < s.remaining THEN Append(kept, NewBlock) ELSE kept,
                 remaining |-> s.remaining - copied]
      After[i \in Nat] == IF i = 0 THEN [blocks |-> blocks, remaining |-> package.samples]
                          ELSE Turn(After[i - 1])
  IN After[Turns(package.samples)].blocks

\* Null samples are appended to the last block.
Padded(blocks, zeros) ==
  [blocks EXCEPT ![Len(blocks)].zeros = @ + zeros, ![Len(blocks)].samples = @ + zeros]

\* Fault: one missing sample is all that may be padded.
FinalUpdateAES3Blocks_One(index, blocks) ==
  Padded(Initialised(index, blocks), IF Room(index, blocks) <= 1 THEN Room(index, blocks) ELSE 0)

FinalUpdateAES3Blocks(index, blocks) ==
  Padded(Initialised(index, blocks),
         IF Room(index, blocks) <= Rate.maxFinalPadding THEN Room(index, blocks) ELSE 0)

\* The first offset at which the packages have as many samples as the sequence.
GetAudioSequenceOffset(packages) ==
  LET matching == {o \in 0 .. mAudioSequenceCount - 1 : \A i \in DOMAIN packages :
                     packages[i].samples = mAudioSequence((i - 1 + o) % mAudioSequenceCount)}
  IN IF matching = {} THEN 0 ELSE Min(matching)

GetAudioSampleCount ==
  mAudioSequence(
    IF mAudioSequenceCount > 1 /\ mAudioSequenceOffset = UNKNOWN_SEQUENCE_OFFSET
      THEN Len(mBufferedContentPackages) % mAudioSequenceCount
    ELSE IF mAudioSequenceCount > 1 /\ mDuration = 0
      THEN mAudioSequenceOffset % mAudioSequenceCount
    ELSE mAudioSequenceIndex)

-----------------------------------------------------------------------------
(* Writing *)

OffsetIsUnknown ==
  HasAudio /\ mAudioSequenceCount > 1 /\ mAudioSequenceOffset = UNKNOWN_SEQUENCE_OFFSET

\* The packages of a call: those buffered and the one given, if any.
EditUnit(position, package, block) ==
  [continuity |-> position % 65536, video |-> package.video, timecode |-> package.timecode,
   block |-> block, fills |-> Fills(block.samples)]

\* The offset of the sequence, and the index in it of the first block.
Offset(package) ==
  IF OffsetIsUnknown THEN GetAudioSequenceOffset(mBufferedContentPackages \o package)
  ELSE mAudioSequenceOffset
Index(package) == IF OffsetIsUnknown THEN Offset(package) ELSE mAudioSequenceIndex

\* The one block of a file without audio.
NullBlocks ==
  LET block == InitAES3Block(Head(mAES3Blocks), mAudioSequenceIndex)
      zeros == Min({block.left, mAudioSequence(mAudioSequenceIndex)})
  IN <<[block EXCEPT !.zeros = zeros, !.samples = zeros]>>

\* The blocks with the samples of the packages not copied yet; the last may be short.
FullBlocks(package) ==
  LET late == (IF OffsetIsUnknown THEN mBufferedContentPackages ELSE <<>>) \o package
      After[k \in 0 .. Len(late)] ==
        IF k = 0 THEN mAES3Blocks
        ELSE UpdateAES3Blocks(Index(package), After[k - 1], late[k])
  IN After[Len(late)]

Blocks(package) ==
  IF ~HasAudio THEN NullBlocks
  ELSE IF package = <<>> THEN FinalUpdateAES3Blocks(Index(package), FullBlocks(package))
  ELSE FullBlocks(package)

\* Fault: the index goes on after the sequence's end.
IndexAfter_Unwrapped(index, written) == index + written

IndexAfter(index, written) == (index + written) % mAudioSequenceCount

\* Fault: only the first package that was written leaves the buffer.
Unwritten_First(packages, written) == IF written = 0 THEN packages ELSE Tail(packages)

Unwritten(packages, written) == SubSeq(packages, written + 1, Len(packages))

\* How many blocks are full.
NumCompleteBlocks(index, blocks) ==
  Len(blocks) - IF Last(blocks).sequence = None \/ Room(index, blocks) > 0 THEN 1 ELSE 0

\* WriteContentPackage when the offset is known or can be found out: as many of
\* the packages are written as there are full blocks, and the others buffered.
WriteFullBlocks(package) ==
  LET packages == mBufferedContentPackages \o package
  IN \E blocks \in {Blocks(package)} :
       \E n \in {Min({NumCompleteBlocks(Index(package), blocks), Len(packages)})} :
         /\ mAudioSequenceOffset' = Offset(package)
         /\ mAudioSequenceIndex' = IndexAfter(Index(package), n)
         /\ mDuration' = mDuration + n
         /\ mBufferedContentPackages' = Unwritten(packages, n)
         /\ mAES3Blocks' = IF n < Len(blocks) THEN SubSeq(blocks, n + 1, Len(blocks))
                           ELSE <<Emptied(Last(blocks))>>
         /\ units' = units \o
              [i \in 1 .. n |-> EditUnit(mDuration + i - 1, packages[i], blocks[i])]

Write(package) ==
  IF OffsetIsUnknown /\ package # <<>> /\ Len(mBufferedContentPackages) + 1 <= mAudioSequenceCount
    THEN /\ mBufferedContentPackages' = mBufferedContentPackages \o package
         /\ UNCHANGED <<mAES3Blocks, mAudioSequenceOffset, mAudioSequenceIndex, mDuration, units>>
    ELSE WriteFullBlocks(package)

-----------------------------------------------------------------------------
(* Actions *)

Init ==
  /\ configuration \in Configurations
  /\ mMXFFile = "none"
  /\ mContentPackage = NoPackage
  /\ mBufferedContentPackages = <<>>
  /\ mAES3Blocks = <<NewBlock>>
  /\ mAudioSequenceOffset = configuration.offset
  /\ mAudioSequenceIndex = 0
  /\ mDuration = 0
  /\ units = <<>>
  /\ durations = [s \in SetsWithDuration \cup {IndexTable} |-> None]
  /\ given = <<>>

\* CreateHeaderMetadata leaves the durations at -1, the index table's is 0.
CreateFile ==
  /\ mMXFFile = "none"
  /\ mMXFFile' = "open"
  /\ mAudioSequenceIndex' =
       IF mAudioSequenceCount > 1 /\ mAudioSequenceOffset # UNKNOWN_SEQUENCE_OFFSET
         THEN mAudioSequenceOffset % mAudioSequenceCount ELSE mAudioSequenceIndex
  /\ durations' = [durations EXCEPT ![IndexTable] = 0]
  /\ UNCHANGED <<configuration, mContentPackage, mBufferedContentPackages, mAES3Blocks,
                 mAudioSequenceOffset, mDuration, units, given>>

\* The numbers of samples that the client's next package may have.
Counts == {n \in configuration.counts :
             n \in OddCounts => Cardinality({k \in DOMAIN given : given[k] \in OddCounts}) < MaxOdd}

MayGive == mMXFFile = "open" /\ Len(given) < configuration.packages
MayAssemble == MayGive /\ Len(given) < MaxAssembled

SetUserTimecode ==
  /\ MayAssemble
  /\ mContentPackage' = [mContentPackage EXCEPT !.timecode = GenerateUserTimecode]
  /\ UNCHANGED <<configuration, mMXFFile, memory, durations, given>>

\* The client takes the timecode first, as the test program does.
SetVideo ==
  /\ MayAssemble
  /\ mContentPackage.timecode # NoTimecode
  /\ mContentPackage' = [mContentPackage EXCEPT !.video = NextPackage]
  /\ UNCHANGED <<configuration, mMXFFile, memory, durations, given>>

\* All tracks get as many samples as the first that is set.
SetAudio(channel, n) ==
  /\ MayAssemble
  /\ channel < configuration.channels
  /\ mContentPackage.video # None
  /\ mContentPackage.tracks = {} \/ (mContentPackage.samples = n /\ n > 0)
  /\ mContentPackage' = [mContentPackage EXCEPT
       !.first = SamplesGiven, !.samples = n,
       !.tracks = IF n = 0 THEN @ \ {channel} ELSE @ \cup {channel}]
  /\ UNCHANGED <<configuration, mMXFFile, memory, durations, given>>

\* WriteContentPackage(): one that is not complete is refused.
WriteAssembledContentPackage ==
  /\ MayAssemble
  /\ IsComplete(mContentPackage)
  /\ Write(<<mContentPackage>>)
  /\ mContentPackage' = NoPackage
  /\ given' = Append(given, mContentPackage.samples)
  /\ UNCHANGED <<configuration, mMXFFile, durations>>

\* WriteContentPackage(content_package), of a client that has packages of its
\* own, and takes their timecodes from the writer.
WriteContentPackage(n) ==
  LET package == [timecode |-> GenerateUserTimecode, video |-> NextPackage,
                  first |-> SamplesGiven, samples |-> n,
                  tracks |-> IF n = 0 THEN {} ELSE 0 .. configuration.channels - 1]
  IN /\ MayGive
     /\ mContentPackage = NoPackage
     /\ Write(<<package>>)
     /\ given' = Append(given, n)
     /\ UNCHANGED <<configuration, mMXFFile, mContentPackage, durations>>

\* The packages still buffered are written if the last block can be padded.
CompleteFile ==
  /\ mMXFFile = "open"
  /\ mMXFFile' = "completed"
  /\ IF mBufferedContentPackages = <<>> THEN UNCHANGED memory ELSE Write(<<>>)
  /\ durations' = [s \in DOMAIN durations |-> mDuration']
  /\ UNCHANGED <<configuration, mContentPackage, given>>

Next ==
  \/ CreateFile \/ SetUserTimecode \/ SetVideo \/ WriteAssembledContentPackage \/ CompleteFile
  \/ \E n \in Counts : WriteContentPackage(n) \/ \E channel \in 0 .. 7 : SetAudio(channel, n)

Spec == Init /\ [][Next]_vars

-----------------------------------------------------------------------------
(* Properties *)

Timecode == Nat \X Nat \X Nat \X Nat

Package ==
  [timecode : Timecode, video : {None} \cup 1 .. configuration.packages,
   first : Nat, samples : Nat, tracks : SUBSET (0 .. 7)]

Unit ==
  [continuity : Nat, video : 1 .. configuration.packages, timecode : Timecode,
   block : Block, fills : Seq(Int)]

\* TypeOK: every variable has its type; there is always a block, and the sequence
\* index is one of the sequence's.
TypeOK ==
  /\ configuration \in Configurations
  /\ mMXFFile \in {"none", "open", "completed"}
  /\ mContentPackage \in Package
  /\ mBufferedContentPackages \in Seq(Package)
  /\ mAES3Blocks \in Seq(Block) /\ mAES3Blocks # <<>>
  /\ mAudioSequenceOffset \in 0 .. 255
  /\ mAudioSequenceIndex \in 0 .. mAudioSequenceCount - 1
  /\ mDuration \in 0 .. configuration.packages
  /\ units \in Seq(Unit)
  /\ durations \in [SetsWithDuration \cup {IndexTable} -> -1 .. configuration.packages]
  /\ given \in Seq(Nat)

\* EditUnitsInOrder: the file's edit units are the first packages that were
\* given, each once and in their order, counted by the continuity counts; the
\* packages after them are buffered, in their order; and the durations written
\* when the file is completed are the number of edit units (the loop of
\* WriteContentPackage over the buffer and the package that is not in it).
EditUnitsInOrder ==
  /\ mDuration = Len(units)
  /\ Len(units) + Len(mBufferedContentPackages) = Len(given)
  /\ \A k \in DOMAIN units :
       /\ units[k].video = k
       /\ units[k].continuity = (k - 1) % 65536
  /\ \A k \in DOMAIN mBufferedContentPackages :
       mBufferedContentPackages[k].video = Len(units) + k
  /\ mMXFFile = "completed" => \A s \in DOMAIN durations : durations[s] = Len(units)

UnitBlocks == [k \in DOMAIN units |-> units[k].block]

\* The offset that the file's sequence begins with.
FirstIndex == IF mAudioSequenceOffset = UNKNOWN_SEQUENCE_OFFSET THEN 0
              ELSE mAudioSequenceOffset % mAudioSequenceCount

\* AudioIsContinuous: the blocks in the file have the numbers of samples and the
\* sequence indexes of the five-frame sequence, from its offset on; the blocks
\* in the file and in memory have the samples of all packages given, none lost,
\* repeated or out of order; only the last block of a completed file is padded,
\* unless the file has no audio; and every fill item of an edit unit has room for
\* its key and length (UpdateAES3Blocks, FinalUpdateAES3Blocks).
AudioIsContinuous ==
  LET blocks == UnitBlocks \o mAES3Blocks
      End[k \in 0 .. Len(blocks)] ==
        IF k = 0 THEN 0
        ELSE IF blocks[k].runs = <<>> THEN End[k - 1] ELSE Last(blocks[k].runs)[2]
  IN /\ \A k \in DOMAIN units :
          /\ units[k].block.sequence = (FirstIndex + k - 1) % mAudioSequenceCount
          /\ units[k].block.samples = mAudioSequence(units[k].block.sequence)
          /\ units[k].block.zeros > 0 /\ HasAudio => k = Len(units) /\ mMXFFile = "completed"
          /\ \A f \in DOMAIN units[k].fills : units[k].fills[f] >= KLSize
     /\ \A k \in DOMAIN blocks :
          /\ blocks[k].samples = blocks[k].zeros + End[k] - End[k - 1]
          /\ \A i \in DOMAIN blocks[k].runs :
               blocks[k].runs[i][1] = IF i = 1 THEN End[k - 1] ELSE blocks[k].runs[i - 1][2]
     /\ End[Len(blocks)] = IF ~HasAudio \/ OffsetIsUnknown THEN 0 ELSE SamplesGiven

\* The packages given so far follow a sequence from its offset o on.
Follows(sequence, o) ==
  \A k \in DOMAIN given : given[k] = sequence[1 + ((k - 1 + o) % Len(sequence))]

MayBeginWith(o) == configuration.offset = UNKNOWN_SEQUENCE_OFFSET \/ o = FirstIndex
DVSequence == <<1600, 1602, 1602, 1602, 1602>>

\* ConformingInputIsWritten: if the numbers of samples follow the five-frame
\* sequence, from any offset if none was set, all packages are in the completed
\* file with no padding; if they follow that of DV, which the padding is meant
\* for, all are in the file too.  While the client gives what
\* GetAudioSampleCount asks for, what it asks for next continues the sequence.
ConformingInputIsWritten ==
  HasAudio =>
    /\ mMXFFile = "completed" =>
         /\ (\E o \in 0 .. mAudioSequenceCount - 1 :
               MayBeginWith(o) /\ Follows(Rate.sequence, o)) =>
              Len(units) = Len(given) /\ \A k \in DOMAIN units : units[k].block.zeros = 0
         /\ mAudioSequenceCount = 5 /\ Follows(DVSequence, 0) => Len(units) = Len(given)
    /\ mMXFFile = "open" /\ Follows(Rate.sequence, FirstIndex) =>
         GetAudioSampleCount = mAudioSequence((FirstIndex + Len(given)) % mAudioSequenceCount)

\* How many frames have a number before a timecode's: of every minute that does
\* not end in 0, the first two numbers are not used.
FrameOf(timecode) ==
  LET minutes == 60 * timecode[1] + timecode[2]
  IN (60 * minutes + timecode[3]) * Rate.timecodeBase + timecode[4]
       - IF DropsFrames THEN 2 * (minutes - minutes \div 10) ELSE 0

IsDropped(timecode) ==
  DropsFrames /\ timecode[2] % 10 # 0 /\ timecode[3] = 0 /\ timecode[4] < 2

\* TimecodeIsExact: the timecode that GenerateUserTimecode makes is a number that
\* is used, of the frame that is as many after midnight as the start timecode and
\* the duration say (the loop that adds the numbers skipped, which add to the
\* minutes that skip more).
TimecodeIsExact ==
  /\ ~IsDropped(GenerateUserTimecode)
  /\ FrameOf(GenerateUserTimecode) = configuration.start + mDuration

\* UserTimecodesCount: the timecodes of GenerateUserTimecode, "calculated from the
\* start timecode and duration" (D10MXFOP1AWriter.h), that the packages were given
\* in the order they are written number the file's edit units.
UserTimecodesCount ==
  \A k \in DOMAIN units :
    units[k].timecode # NoTimecode => FrameOf(units[k].timecode) = configuration.start + k - 1
=============================================================================
