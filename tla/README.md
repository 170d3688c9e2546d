# libMXF++ in TLA+

TLA+ models of [libMXF++](../src/README), the C++ wrapper of libMXF, and of the
example applications that carry logic of their own (`src/examples`), with TLC
configurations that check them on small instances and TLAPS proofs of theorems about
them. Every definition is translated from the code; `PROJECT.json` maps it to its lines.

libMXF++ is a sequential library. Nothing runs concurrently and nothing is scheduled:
what makes it hard is that a client may call its operations in any order, that a call
may throw half way, that a file may be left incomplete when the program stops, and that
a reader must cope with what is left: packs with stale links, a lost tail, a damaged cell,
instance UIDs that occur twice, essence cut short. The models say so: each `Next` is "the
client makes any call the API allows", with the failing alternatives of the call beside
the successful one. Where a client is held to less than the API accepts, its section says
so.

## Inventory

| Component | State | Operations | Models |
|---|---|---|---|
| `File`, `Partition` (`src/libMXF++/File.cpp`, `Partition.cpp`) | `_partitions`, the C file, the file that a memory file shadows, memory partition indexes, min llen | create/insert/write partitions, write RIP, memory file open/set/close, update partitions (all, body, generic stream), read header partition, next partition, all partitions | `PartitionFile`, `PartitionFileProofs` |
| `HeaderMetadata` (`HeaderMetadata.cpp`) | `_objectDirectory`, ownership and generation-UID flags, object factories | construct, read, add, wrap, move to end, remove, destroy, write | `ObjectDirectory`, `ObjectDirectoryProofs` (lifetime), `MetadataObjects` (factories) |
| `MetadataSet` (`MetadataSet.cpp`, `MetadataSet.h`) | pointers to the header and the C set | construct, clone, destroy; get, set and append items of every type, references and their iterators, remove items | `ObjectDirectory` (lifetime), `ItemAccessors`, `MetadataObjects`, `MetadataObjectsProofs` |
| Metadata classes (`metadata/`, `metadata/base/`), `TaggedValue` (`extensions/`) | none of their own | one getter, setter and appender per item | `MetadataClasses`, `Tables`, `MetadataObjects`, `MetadataObjectsProofs` |
| `IndexTableSegment` (`IndexTable.cpp`) | the C segment | set counts, append entries, look up a delta entry, write single entries | `IndexTable`, `IndexTableProofs` |
| OP-Atom reader (`src/examples/OPAtomReader`) | clip position and cached duration; per track a file position, an edit-unit position, a duration, a frame index | open, read, seek, get and determine duration, EOF | `Clip`, `EssenceParsers`, `OPAtomClipReader`, `OPAtomClipReaderProofs`, `OPAtomTrackReader`, `MJPEGParser`, `MJPEGParserProofs` |
| D10 OP-1A writer (`src/examples/D10MXFOP1AWriter`) | queue of content packages, audio sequence offset and index, AES3 blocks, durations | set parameters, create, set content, write package, generate timecode, complete | `D10Writer`, `D10WriterProofs` |
| `DynamicByteArray` (`src/examples/Common`) | buffer, size, allocated size, "is a copy" | set, append, grow, allocate, borrow, clear | `D10Writer` (what the writer's blocks do with it) |
| `DataModel`, exceptions, types, `gen_classes`, tests | – | – | not modelled |

How they interact. A `File` owns its `Partition`s and calls libMXF through the C file it
holds; while a memory file is open that *is* the C file, and the file on disk waits in
`_cOriginalFile`. A `HeaderMetadata` owns the `MetadataSet` objects it hands out; each
object has a raw pointer back to it and calls `remove` from its own destructor, while
`~HeaderMetadata` cuts that link before deleting. Both destructors, and the failing
paths of constructors, run through the same callback. The OP-Atom clip reader owns one
track reader per file; a track reader owns an essence parser that takes its file. The
writers are clients of `File` and `HeaderMetadata`.

What is hard, and what must hold:

- *File*: offsets link the packs to each other before all of them are known
  (`createPartition`, `insertPartition`), so packs on disk carry stale links until
  `updatePartitions` rewrites them one by one; a stop in the middle leaves a mixture;
  memory files put a second coordinate system beside that of the disk. The list must own
  each partition once, rewrites must touch the right packs and keep their size, and a
  reader must get what is in the file, or fail and leave the list usable.
- *HeaderMetadata*: objects, C sets, lists and directory are four views of one relation
  which destructors, throwing constructors, failed moves, duplicate UIDs and clones
  update in different orders. Every object must be deleted once, no entry may outlive
  its object, and every C set must have one owner.
- *Metadata classes*: some 200 items in 51 classes, each with its getter, setter and
  appender, of which some were written by hand; a pair that disagrees about a type is
  found only by reading back what was written. Objects are made late, when a reference
  is followed, of the class that is registered at that time, and a getter whose cast fails
  deletes what others may hold.
- *OP-Atom reader*: tracks advance one by one; one that fails must not leave the others
  ahead. Durations are learnt late and cached, and the frame index of a track grows as it
  is read, sought or measured, over a file position and a parse buffer that all three
  move. The clip must give whole edit units in order and never lose its place.
- *D10 writer*: content packages wait for an offset that may be found late or never, and
  must all be written once, in order, with the right number of audio samples.

`PROJECT.json` lists each hazard at its line, with the properties that cover it.

## PartitionFile

A file is a sequence of cells (one per partition pack, essence unit or RIP), so an
offset is an index and a pack that is rewritten in place replaces its cell. What a pack
carries is its key (kind, open or closed) and its three offsets: this partition,
previous partition, footer partition. A `Partition` object is a record with an identity
(`heap` holds the identities that are allocated). The C file `_cFile` is `memory` while
a memory file is open and `disk` otherwise.

| Model | Code |
|---|---|
| `createPartition`, `insertPartition`, `writePartition`, `writeRIP` | the methods of these names (`Partition::write`) |
| `openMemoryFile`, `setMemoryFile`, `setMemoryPartitionIndexes`, `closeMemoryFile`, `closeMemoryFileFails` | the methods, the last for a flush that fails in the middle |
| `updatePartitions`, `updateBodyPartitions`, `updateGenericStreamPartitions` | the three update methods, with their nested scans as `RunsOf`, the slices they pass to libMXF and `RewriteSome` for a program that stops between two rewrites |
| `readHeaderPartition`, `readNextPartition`, `readPartitions` | the methods; `readPartitions` by RIP (`RIPOffsets`) or chain (`ChainStart`, `Chain`), with success and failure after any number of entries |
| `Stop`, `destroyFile`, `loseTail`, `damageCell`, `openRead` | the writer stops, `~File`, the disk loses the end of the file or a cell of it, a reader opens it |

libMXF is external: `WrittenPack`, `UpdatedInMemory`, `Rewritten`, `HasRIP`, `Footers`
and `HeaderReadable` say what `File.cpp` relies on from it.

The client may insert a partition anywhere between the header and the last partition, also
before one that is on disk, before, while and after a memory file is open, and may give
`setMemoryPartitionIndexes` any indexes while one is (`MemoryIndexes`). It is held to what
every client in the repository does in this: the header partition is first and a footer
partition last (`KindFits`), partitions are written in the order of the list, essence and
a RIP when all that were created are, and updates are made on a list that is not empty
and all written. Two violations of these rules (an update of an empty list, an update
with an unwritten partition) are listed as hazards; the code has no guard. A memory file
is opened after a partition was created and starts where the file on disk ends, and its
indexes are set while it is open, the only time they are looked at. What a reader meets
is what such a writer left, less a tail or with cells damaged; the reader's own checks of
offsets are exercised by the links and RIPs that insertions leave behind, which may point
forward, to the header, or past a partition, and not by packs with arbitrary bytes.

An insertion before a partition that was written upsets the order of the list
(`InFileOrder`), and two properties name it as their premise, for without it the code
gives no such promise:

- `UpdateSettlesFile`: the links are those of the list, so that they are those of the file
  only when the list is in its order;
- `SliceKeepsToMemory`: `_firstMemoryPartitionIndex` is an index into the list and is not
  adjusted, so that such an insertion below it pushes a partition of the disk into the
  slice an open memory file is updated by. The update then fails (`RewriteSome`: the pack is
  not in the current file), and the model goes on with what that leaves on disk. As long as
  the list stays in the order of the file and the client leaves the indexes alone, no call
  does this, whatever is created, inserted or written before and after the opening.

Runs:

- `partition_free`: partitions are created, inserted and written in any order, with any
  memory file; the properties about ownership, the slice, updates and reading.
- `partition_inorder`: the client writes each partition before it creates the next, with
  essence between and two values of min llen. Only then can every partition be found at
  any stop (`InOrderFileReadsComplete`): with partitions created ahead, packs carry
  stale links until the update, and a reader gets a faithful but partial list.
- `partition_llen` (violation): `closeMemoryFile` sets the min llen of the file on disk
  from that of the memory file in every case; its comment says "if it was set on the
  memory file". A memory file given to `setMemoryFile` has the default, and the file
  loses the value that was set on it.

Bounds: four partitions (header, footer and two between, enough for a slice with a
neighbour on both sides, for runs of one and two adjacent body partitions, and for an
insertion before one that is written), memory indexes from the third partition (the slice
then leaves out, or includes, what the memory file has), five
cells (the four packs and a RIP, or an essence unit), five objects (a failed read and
its retry allocate beside the header that is kept), one damaged cell (with it a read by
RIP or chain fails at any entry). `MaxParsed` bounds what a reader adds with
`readNextPartition` before it calls `readPartitions`.

## ObjectDirectory

State: for each `HeaderMetadata` its flags, the list of the C header, and its directory
(UID to object); for each C set its lifetime, header and instance UID; for each
`MetadataSet` object its lifetime and two pointers. Freed sets and objects stay in the
model as `freed`, so a dangling pointer is visible.

| Model | Code |
|---|---|
| `newHeaderMetadata`, `wrapHeaderMetadata`, `deleteHeaderMetadata` | the two constructors (the second leaves `_initGenerationUID` uninitialised: either value) and the destructor |
| `setGenerationUIDInit` | `enableGenerationUIDInit`, `disableGenerationUIDInit` |
| `read` | one set of `mxf_read_header_metadata`, with any instance UID, also one that is known |
| `newObject` | `new Foo(headerMetadata)`: creates the set, `add` may throw after the insertion, then the base destructor runs |
| `wrapKnown`, `wrapNew`, `clone` | `wrap` and `MetadataSet::clone` |
| `moveToEnd`, `moveToEndFails` | `moveToEnd`, and a failure of `mxf_add_set` after `mxf_remove_set` |
| `deleteObject` | `~MetadataSet` with `HeaderMetadata::remove` |

Runs:

- `directory`: two headers, three sets, three objects and three UIDs: enough for two sets
  with one UID and an object re-pointed between them, a clone into another header, an
  orphan beside a listed set, and deletion of headers in both orders. Headers and UIDs
  are symmetric. The pools are consumed in order, which loses nothing as unused members
  are alike.
- `directory_orphan` (violation): a client that deletes an object whose set a failed
  `moveToEnd` took out of the list. `~MetadataSet` frees the set, then `remove` reads its
  instance UID; the entry may stay and refer to the deleted object. The constant
  `DeletesOrphans` lets the client do so; in `directory` it does not.

Deadlock is not checked: the pools run out and everything may have been deleted.

## EssenceParsers, OPAtomClipReader and Clip

A parser is a record: its essence, the position in its file, its position in edit units,
its duration, and for a variable-size parser the frame index and what is left in the
parse buffer. `EssenceParsers` has an operator for each method, which returns the record
after the call; `OPAtomClipReader` keeps a sequence of them and composes their calls as
the clip reader does, one after the other, and puts tracks back when one fails. Data is
the sequence of file offsets it was read from, so that data from a wrong place is seen.

| Model | Code |
|---|---|
| `SizedDuration`, `SizedRead`, `SizedSeek` | `PCMEssenceParser`; `FixedSizeEssenceParser` is the same with a sequence of one size |
| `OpenVariable`, `VariableRead`, `VariableSeek`, `VariableDetermine` | the constructor and methods of `VariableSizeEssenceParser` |
| `UpdateIndexTable`, `AtLastIndexed`, `ImagesFound`, `EndFound`, `ParseFailed`, `Used` | `UpdateIndexTable` with its calls of `ParseMJPEGImage`, of which it sees whether an image was found, its size, and what is left in the buffer |
| `TrackRead`, `TrackSeek`, `TrackDetermine`, `TrackDuration` | `OPAtomTrackReader` |
| `GetDuration`, `DetermineDuration`, `Read`, `Seek`, `ClipIsEOF` | the methods of `OPAtomClipReader` |

`limits` gives where each file ends for one call: at its real end or, for one track,
a number of units after the start of its essence. The second stands for a read error,
which the parsers cannot tell from the end of the file. It may hit any call, also the seeks that put tracks back.

`Clip` says what a client relies on, with four variables: a length, a position, the
package read last and the last call. A read within the length succeeds and gives the
package of the position; a failed call moves nothing; a read error may shorten the clip
for good but not lose the place. `ImplementsClip` maps the reader to it: the length is
what the shortest track can still give, the package is the one edit unit of which the
content package holds every track's frame.

Runs:

- `opatom_clip`: five clips of one to three tracks of up to six edit units, chosen so
  that each pair of concerns meets: an index built while another track is shorter, an
  essence followed by other data, one cut inside its last frame, index tables with and
  without a duration, metadata that says less than there is, an empty track, frames of
  repeating sizes. Read errors at two places, seeks to every position and beyond, a
  buffer of two units, less than most frames. `Wrap` stands for 2^32, more than any file:
  the seek back over a short read adds the negated unsigned count. Besides
  `ImplementsClip` the run checks that tracks are in step, that a track not at its end
  has its file where it must read next, that the index is true whoever extended it, and
  what the durations promise.
- `opatom_track` (violation): a track used by itself. When `UpdateIndexTable` meets the end
  of the file before the position it was to reach, its comment says "seek back to
  mPosition if mPosition isn't at EOF", but it seeks to `mEssenceOffset` plus the last
  index entry. The clip reader hides it by seeking each track back after a failure.

What the model assumes of a file is `WellFormed` in `EssenceParsers`, and of a clip
`EssenceAssumption`: sized frames have a size and an image has data; an index table has
the true offset of each image it knows and of the end of the last (as the comment in
`FrameOffsetIndexTable.cpp` says), inside the file. Positions that are sought are not
negative (no caller seeks to one; the parsers do not check).

`DurationIsReadable` holds also after read errors, as a bound by what is in the files;
what can still be read after one may be less than the cached duration, which the
refinement allows. `FailedReadIsEOF` is about any read that meets no read error itself,
also after an earlier one ended the clip. Only `DeterminedDuration` is about clips that
have met none. It also needs `WholeIndexes`, that no index table ends before its file
does: the parser takes a table's word for the duration. The index tables of the clips in
`MCOPAtomClipReader` are whole.

## MJPEGParser

The search for images itself, byte by byte: `ProcessByte` is one turn of the loop of
`ProcessMJPEGImageData` and, for its last turn, what follows the loop; `Fill` and
`EndOfFile` are the reads of `ParseMJPEGImage`; `ParseNext` is the next call of it. The
buffer is the file from `bufferStart` to `filePos`, and each fill takes 1, 3 or 50 bytes
in the run, so its limits fall anywhere.

What the parser is to find is given by how the stream was put together: `images`, each a
sequence of one or two fields of segments, then the first `kept` bytes of an image
`cutShort`, or `padding`. `StreamsAssumption` says what is assumed of it (`IsStream`): a
segment is a byte of image data or a marker, after any number of `ff`, that is an empty
one or has the length of what follows; padding does not start with `ff`, as an image
does, and nothing is said of what else is in it.

The run `mjpeg` puts streams together from fields of up to two segments (data, a stuffed
`ff`, a restart marker after a fill byte, an empty marker segment and one that contains
the bytes of an end of field), two images each of one or two fields, followed by nothing,
padding or an image cut short: 558 streams. Every image is found whole and in order,
none is missed, and the search ends. A segment with a length below 2, which is not
JPEG, makes `skip_count` negative; the streams have none and it is listed as a hazard.

`EssenceParsers` uses what this module checks: images are found whole where they start,
and what does not start with `ff` is no image and stays in the buffer. The streams differ
in that the clip run has image sizes of one to three units, for which no real image is
short enough.

## MetadataClasses, ItemAccessors and MetadataObjects

`MetadataClasses` is the table of the classes of `metadata/base` and of `TaggedValue`:
what each one extends, and for every item the accessor its getter calls, the accessor its
setter and appender call, and the class a reference is cast to. Where getter and setter
are in different parts of a long file they are separate definitions (`...Getters`,
`...Setters`), joined by `Paired`. The table is what the checked-in files do, also where
they were edited by hand after `gen_classes` wrote them. Tables are functions, and `++`
(`Tables`) joins them.

`ItemAccessors` is `MetadataSet.cpp`: for each accessor the libMXF function it calls and,
for arrays, the element length a getter checks, a setter allocates and an appender asks
for, and the stride of the setter's pointer. An item remembers each value with its offset
and the function that wrote it, so that a value read elsewhere or as another form is
`Garbage`; libMXF's functions have the same `Form` if they code a value alike (`Coded`).

`MetadataObjects` composes both with the directory of `HeaderMetadata`:

| Model | Code |
|---|---|
| `set`, `setArray`, `append`, `removeItem` | the setters and appenders of the classes, `WrapObjectVectorIterator`, `MetadataSet::removeItem` |
| `getReference`, `getReferenceLight`, `getReferences` | the getters of one reference (`auto_ptr` and `dynamic_cast`), the two light ones, and those of arrays with `ReferencedObjectIterator`; other getters change nothing and are `GetOutcome` |
| `Registered`, `ObjectClass`, `wrap` | `initialiseObjectFactory` and the choice of a factory in `wrap` |
| `registerTaggedValue` | `TaggedValue::registerObjectFactory`; no other extension is in the repository |
| `newTarget`, `reopen` | `new Foo(headerMetadata)`; the file is closed and read into a new `HeaderMetadata` |

Items do not influence each other, so a behaviour is about one item, its *subject*: every
item of every class, and every accessor of `MetadataSet` used with a key. If it is a
reference its targets are of one class: each class that can be cast to what the getter
names, and one that cannot, which only a file from elsewhere refers to.

The run `metadata_objects` sets, appends, removes and reads with three values (one a
string that cannot be converted between UTF-8 and UTF-16), two targets and arrays of up to
three elements: enough for an element that leads nowhere between two that do not, and for
an append behind an append. It checks that a getter returns what was written, through
all writers of an item and after `reopen`; that the elements of an array fill what was
allocated; that objects have the class of their set; and that reading does not delete an
object that the client holds. The two exceptions are in the properties' text: a tagged
value that is wrapped before its factory is registered stays an `InterchangeObject`
(`OPAtomTrackReader.cpp` registers it first), and a scalar reference to a set of another
class costs the directory its object. `ReferencedObjectIterator::size` counts elements
that lead nowhere, which `next` skips; the setters of reference arrays allocate by `size`,
but every class gives them a `WrapObjectVectorIterator`, which has no such elements.

## D10Writer

| Model | Code |
|---|---|
| `configuration` | the `Set...` functions, called before `CreateFile` |
| `CreateFile`, `CompleteFile` | the functions; of `CreateHeaderMetadata` the sets that have a duration, and the sizes of the items of an edit unit |
| `SetUserTimecode`, `SetVideo`, `SetAudio`, `WriteAssembledContentPackage` | filling and writing the writer's own package |
| `WriteContentPackage`, `Write`, `WriteFullBlocks`, `Blocks` | `WriteContentPackage(content_package)`, with and without a package |
| `UpdateAES3Blocks`, `FinalUpdateAES3Blocks`, `InitAES3Block`, `GetAudioSequenceOffset`, `GetAudioSampleCount` | the functions of these names |
| `GenerateUserTimecode`, `DropFrameCount` | the function and its loop |

A package is its video, its user timecode and its number of samples; a sample is its
number in the order given, and the contents of an AES3 block are runs of numbers. The
size of a block (`DynamicByteArray::getSize`) is its number of samples, null samples
included. The loop of `UpdateAES3Blocks` is the recursive function `After`, which is
applied as often as the loop can turn (`Turns`: each turn but the first and the last
fills a block, and a turn with nothing left changes nothing). Sizes
and numbers of samples are the real ones. `left` is what is left of the null samples in a
block's `DynamicByteArray` after `setSize(0)`, which a file without audio writes again
and again.

Runs:

- `d10_writer`: 60i from an unknown offset (seven packages: five that are buffered, one
  that settles the offset, one more), from two known offsets, one of them beyond the
  sequence, without audio, and 50i. The packages have the samples of the D-10 sequence,
  of DV (1600 at the start of five), none, one too few, or twice as many (`MaxOdd`
  bounds these). Start timecodes are shortly before a minute that drops numbers, one
  that does not, and an hour; image sizes leave fill items of the least size and one
  byte less. Two packages may be put together with `SetVideo` and `SetAudio`
  (`MaxAssembled`), the others come whole.
- `d10_user_timecodes` (violation): `GenerateUserTimecode` counts from the packages that
  are written. While the offset is unknown, the default, packages are buffered, and all
  get the timecode of the first frame.

The client gives all tracks as many samples (the code takes the first track's number for
all), and each package's video has the size set for the file (`WriteContentPackage` writes
the package's own size and checks nothing); it takes the timecode first as the test
program does, and does not call the `Set...` functions again after `CreateFile`. Deadlock is not checked: a completed file is the end.

`ConformingInputIsWritten` is about input that follows one of the two sequences; other
input may leave packages that `CompleteFile` drops, when more samples are missing than
may be padded, and `AudioIsContinuous` and `EditUnitsInOrder` then say that the rest is
right.

## IndexTable

Each element that is copied is a step, so that the eight-bit loop counter is seen:
`appendIndexEntry` compares it with the size narrowed to eight bits, `writeIndexEntry`
with the size itself. The run `index_table` has a counter of two bits (`Byte = 4`) and
vectors of up to four elements, one more than it can count. What eight bits can count is
copied whole and the calls end. With 256 elements `appendIndexEntry` copies nothing
and `writeIndexEntry` does not end; no caller gives so many, as the format's own counts
have eight bits, and the properties are about vectors that these can count. Delta entries
are found if they were added in the order of slices and element data, which the search
relies on, and never found wrongly.

## Proofs

Each component's theorems are in a module of their own. They hold for every value of the
constants that the named assumptions allow; the runs check the same properties on small
instances, and TLC evaluates the assumptions there.

| Module | Theorems |
|---|---|
| `ObjectDirectoryProofs` | every invariant of the `directory` run |
| `PartitionFileProofs` | every invariant and action property of the `partition_free` and `partition_inorder` runs |
| `OPAtomClipReaderProofs` | every invariant of the `opatom_clip` run, and that the reader implements `Clip` |
| `D10WriterProofs` | every invariant of the `d10_writer` run |
| `MJPEGParserProofs` | every invariant of the `mjpeg` run, and that every step leaves less to do |
| `MetadataObjectsProofs` | every invariant and the action property of the `metadata_objects` run |
| `IndexTableProofs` | the invariant of the `index_table` run, and that every step of a call brings it nearer to its end |

Every theorem follows the same argument: `Init => IInv`, `IInv /\ [Next]_vars => IInv'`
from one lemma per action, the properties from `IInv`, and an action property or a
property of a call's outcome from the step.

### Induction over data

`InductionFacts` has what the others need in place of the library's theorems with
operator parameters: induction over a *set* of numbers (`InductionOnNat`,
`StrongInductionOnNat`, `LeastNatural`, by the library's well-founded relation on `Nat`),
and that a recursive *function* which is given by a first value and a step as a function
exists and satisfies its equation (`StepwiseRecursion`, `StepwiseRecursionTo`,
`RecursionFromAbove`, `RecursionOnNat`). With these the sums of frame sizes, the chain of
previous partitions, the entries of a RIP, the turns of the copying loop and the search
for dropped timecodes are proved for every length, as far as they are recursive functions
in the models.

### ObjectDirectory

Assumed: `ConstantsAssumption` (the null pointer is not an object, set, header or UID) and
`DeletesOrphans` false. None of the invariants is inductive alone; the inductive invariant
`IInv` is their conjunction, with `ListsAreExact` stated through `Lists`. Why they need
each other:

- `Lists` says that the list of a header repeats nothing and lists exactly the sets that
  are live and belong to the header. `MovedFrom` and `RemovedAt` keep this by lemmas
  `AppendToList` and `RemoveFromList`, which rest on the library's theorems on sequences;
- `OneObjectPerSet`: without it `deleteObject` could free a set that another object
  still wraps (against `EntriesAreLive`). `wrapKnown` keeps it, for an object that
  already wrapped the set would be the entry that is found (`ObjectsAreEntries`, and the
  last conjunct of `EntriesAreLive`);
- `deleteHeaderMetadata` keeps `EntriesAreLive` of the other headers because a set it
  frees is in its own list (`Lists`) or wrapped by its own object (`OneObjectPerSet`).

### PartitionFile

Assumed: `ConstantsAssumption`, which gives the bounds and options their types. What a
reader finds depends on what the writer left at any moment, so `IInv` adds to the type,
`OwnedOnce` what a file is like at all times:

- `Sound`, of the disk with the memory file behind it: a pack that is not lost is at the
  offset it names, the header pack is the first, and a RIP lists the packs before it, each
  once. It survives stops, lost tails and damaged cells (`Remains`), whichever packs an
  update has rewritten: hence `ReadIsFaithful` and `FailedReadKeepsHeader`, by induction
  along the RIP or the chain. Previous-partition offsets may be anything, and the chain is
  followed only backwards. With a client that writes in order, no pack is between another
  and the one it names as previous (`Linked`), the footer pack is last, and the chain
  misses none (`InOrderFileReadsComplete`);
- `Describes`, while the file is written: each partition that is written in the list is
  at its place in the file, at an offset of its own (`OwnOffsets`), and each pack in the
  file is in the list. `updatePartitions` computes its links from the list, so that it
  settles the file when the list is in its order (`UpdateSettlesFile`), and what settled
  reads back whole (`SettledFileReadsComplete`).

`SliceStaysInMemory` needs no more than `IInv` in the state before: `SliceKept` is proved
with each step. An insertion below the slice pushes the partition before the slice into it,
behind the new one, which is not written; if the pushed one is, the list is no longer in
the order of the file. A partition that is written while the memory file is open gets an
offset in it.

Reading and updating are proved about a call's outcome from `IInv` before it, and are
kept as `Outcomes` in theorem `Invariance` because the properties speak of the state after
the call. `RewriteKeepsLLen` is proved for `~AnyMemoryLLen`, a client whose memory file has
the min llen of the file on disk: the `partition_llen` run shows that it fails without.

### OPAtomClipReader

Assumed: `ClipAssumption`, `EssenceAssumption` and `ParserAssumption` (the buffer and the
range of a size are positive). The invariant of one track, `TrackOK`, has two parts:

- `Kept`, which no call disturbs, not even one that fails half way: the frame index has
  the true offsets of the frames it knows, all of which are in the file, and a duration
  is not more than the index or the essence has;
- `Placed`, which holds between two calls of the clip: file position and parse buffer are
  at the track's next frame, unless it is at its end.

A call on several tracks disturbs `Placed` of some. The way back is proved by `CanReturn`: a
seek to a position whose frames the index knows reads nothing that can fail, and gives
`Placed` again; so the reader may meet read errors at every track, also while it puts others
back, and stay in step. `IInv` has this for all tracks at `mPosition` (`TracksFit`), that
each element of the package is a frame the tracks know or data that is part of none
(`PackageFits`), and that no duration is longer than the files.

`Implementation` is the refinement step by step: every call is one of `Clip`'s actions or
a stutter under the mapping, whose length is the shortest of what the tracks can still
give and whose package is the only edit unit of which every track's frame is there.
`DeterminedDuration` needs an invariant of calls without read errors (`AllFrames`) and
`WholeIndexes`.

### D10Writer

Assumed: `ConfigurationAssumption` (the types of the parameters and the two rates the
writer has). The invariant says where every sample is:

- `Total(j)`, in closed form, is the number of samples of the first `j` blocks of the
  sequence. `BlockAt` gives block `j` the samples from `Total(j)` on, less those before the
  first block, and `LaidOut` a sequence of blocks that are all full but the last;
- `UnitsAreFull` says this of the file, `MemoryFollows` of the blocks in memory, and that
  they end with the samples given. A turn of the copying loop keeps `LaidOut` and moves
  its end, which gives `UpdateAES3Blocks` for any number of samples;
- `BufferedForWant`: packages are buffered only when the first block lacks more samples
  than may be padded, so that the completed file lacks none it could have had;
- `WhileUnknown` and `OffsetIsFound`: until the offset is found nothing is written and
  nothing copied; then it is the first that the packages match, if they match any.

`EditUnitsInOrder` and `AudioIsContinuous` hold for any numbers of samples in any packages.
`ConformingInputIsWritten` is arithmetic on top: packages of the sequence have the samples
of `Total`, so that each fills its block; the sums of DV's packages differ from the
sequence's by at most two samples, which is within the padding. `TimecodeIsExact` is
proved by the least fixed point of the drop-frame loop (`SettlingExists`,
`SettlesAtLeast`), which ends for every count of frames.

### IndexTable

Assumed: `ConstantsAssumption`, a counter of any width and any bounds. `IInv` says how far
the call that runs has copied its vectors (`CopiedSoFar`), that appended entries have the
counts of the segment (`CountsFit`), and that finished entries are whole. The lookup is
proved from how it searches the list.

`CallAdvances` is the half of `CallsEnd` that is about the code: while a call with vectors
that eight bits can count is running, each step makes `StepsLeft`, a natural number,
smaller.

### MJPEGParser

Assumed: `StreamsAssumption`, of any number of images, fields' segments and bytes, and
`ReadsAssumption`: a read that is not at the end gives something. The invariant says
where in the stream the state machine is, from the inside out:

- `SegmentAt`: after `o` bytes of a segment it waits for a marker, is in a run of `ff`, or
  has read as much of the length as there was, and `skip_count` is what is left
  (`LengthAt`). So data that looks like a marker is skipped with its segment;
- `FieldAt` and `ImageAt`: the field's start, one of its segments or its end, and `field2`
  in the second field of two. Where segments, fields and images start is the sum of the
  lengths before (`Offsets`), and `Joined` says that `FlattenSeq` puts them there;
- `Searching`: the place of the state machine in the file is in the image after those
  that were found, or the part of it that is there (`Within`), and what was appended of
  it is from its first byte to `prev_position` (`AppendedFromStart`), across any refill.

`ByteIInv` follows one byte through these (`SegmentStep`, `FieldStep`, `ImageStep`,
`SearchStep`). `SearchAdvances` is the half of `ParsingEnds` that is about the code: every
step makes `ToDo`, at most three for each byte of the file and one, smaller.

### MetadataObjects

Assumed: `ConstantsAssumption`: the values that stand for no value are not among the
client's, and arrays have a bound. The tables of `MetadataClasses` and `ItemAccessors` have
no parameter; they are proved entry by entry, for any values, any targets and arrays of
any length:

- the classes are a tree of seven levels (`ClassInduction`), and each set is wrapped as
  the class nearest to its own that has a factory, which is its own (`ObjectClassIs`);
- each scalar accessor reads the form its setter writes (`SinglesPair`), each array
  accessor reads elements of the length and stride that its setter and appender allocate
  and write (`ArraysPair`, `ElementsFit`), and the items of all classes pair accessors
  that belong together (`ItemsAreGood`).

`IInv` then says that the item holds exactly what the client wrote, as one value
(`HoldsValue`) or as elements one behind the other (`HoldsElements`), and that the
directory has objects only of the class of the targets, or of `InterchangeObject` for a
tagged value (`DirectoryInv`). `GettersReadWhatWasWritten` needs that `ReferencedObjectIterator`
gives the elements that lead to a set, in order, and no others (`IteratedFlattens`), and
both it and `ReadingKeepsTheObjects` that a cast succeeds for exactly the sets that can be
given as the class the getter names (`CastsIs`).

### Only model-checked

Every invariant and action property that a passing run checks is stated by a theorem.
What is left to TLC:

- Liveness: `ParsingEnds` (`MJPEGParser`) and `CallsEnd` (`IndexTable`). The provers have
  no rule for `ENABLED` and fairness here. What is proved is that each step makes a natural
  number smaller (`SearchAdvances`, `CallAdvances`); that a step is always possible before
  the end, so that fairness leads there, is what TLC checks.
- The violations, which are counterexamples.

## Fairness

The library schedules nothing: a client may stop after any call, and the specifications
of clients' behaviour (`PartitionFile`, `ObjectDirectory`, `Clip`, `OPAtomClipReader`)
assume no fairness and state no liveness. What a stop in the middle of a call leaves
behind is modelled in the call's own alternatives. `MJPEGParser` is the inside of a call
and of the loop that repeats it: `WF_vars(Next)` says that a call that was made runs on,
as a thread does, and `ParsingEnds` that it returns for every stream. `IndexTable` states
the same of the steps of a call that is running, and nothing of the client; `CallsEnd` is its property.

## Not modelled

- Opening in the OP-Atom reader: the metadata that is looked up, the reading of an Avid
  index table, the frame size of uncompressed and IMX essence (a parser whose frame size
  stays 0 reads nothing), and the ownership of the file while constructors throw.
- `DataModel`, exceptions, types and version: forwarding to one libMXF call or
  formatting, with no state across calls. The bytes of each type are libMXF's.
- `gen_classes`: an offline generator of text. What it generated is modelled.
- `getItems`, `validate`, `setFixedSizeStringItem`, `setAvidRGBColor`, the copy constructor
  of `MetadataSet` (no code of the repository copies one), and the life of the pointer that
  `getRawBytesItem` returns into an item. The convenience functions of `metadata/`
  (`Identification::initialise`, `GenericPackage::findTrack`) call modelled accessors.
- Primer and writing of `HeaderMetadata`; the conversions and pass-through I/O of `File`;
  operational patterns, labels, byte counts and KAG padding of `Partition`.
- In the D10 writer: the bits of a sample, the values of header metadata other than
  durations, `UpdateStartTimecode`, `ReserveHeaderMetadataSpace`, and writes that fail (the
  exception leaves the writer in the middle of an edit unit, and no caller goes on).
- The setters and getters of the other fields of an index table segment, and writing it.
- The examples' `main`s and the tests: clients, read for how the API is called.

## Plan

1. Composition of `D10Writer` with `PartitionFile` (body partitions, footer, update).
2. `OPAtomTrackReader::Open` with the owner of the file while constructors throw.
3. Copied sets in `ObjectDirectory`.
