--------------------------- MODULE ObjectDirectory ---------------------------
(***************************************************************************)
(* The object directory of mxfpp::HeaderMetadata (libMXF++/HeaderMetadata  *)
(* .cpp) and the lifetime of the MetadataSet objects it keeps              *)
(* (libMXF++/MetadataSet.cpp, the constructors of metadata/base).          *)
(*                                                                         *)
(* A C header metadata holds C sets; a MetadataSet object wraps a C set.   *)
(* The directory of a HeaderMetadata maps instance UIDs to objects, so     *)
(* that a C set that is found again through a reference is given the same  *)
(* object.  The directory owns the objects, the C header owns the C sets   *)
(* in its list, and a set that is in no list is owned by its object.       *)
(*                                                                         *)
(* A file that is read may hold sets with the same instance UID.  A call   *)
(* may fail half way: the generation UID can't be set when an object is    *)
(* added, or a set was removed from the list and can't be put back.        *)
(***************************************************************************)
EXTENDS Sequences, FiniteSets, SequencesExt, TLC

CONSTANTS
  Headers,         \* HeaderMetadata objects, each with a C header
  CSets,           \* bound: C metadata sets
  Objects,         \* bound: MetadataSet objects
  UUIDs,           \* instance UIDs
  Nothing,         \* a null pointer
  DeletesOrphans   \* the client deletes objects whose set is in no list

ASSUME ConstantsAssumption ==
  /\ Nothing \notin Headers \cup CSets \cup Objects \cup UUIDs
  /\ DeletesOrphans \in BOOLEAN

VARIABLES
  header,            \* HeaderMetadata: not constructed yet, open or deleted
  ownCHeaderMetadata,
  initGenerationUID,
  sets,              \* the list of C sets of each C header
  cset,              \* the C sets: lifetime, headerMetadata and instanceUID
  object,            \* the MetadataSet objects: lifetime and both pointers
  objectDirectory

vars == <<header, ownCHeaderMetadata, initGenerationUID, sets, cset, object, objectDirectory>>

-----------------------------------------------------------------------------

Lifetimes == {"unused", "live", "freed"}
CSetRecords == [state : Lifetimes, header : Headers \cup {Nothing}, uid : UUIDs \cup {Nothing}]
ObjectRecords == [state : Lifetimes, header : Headers \cup {Nothing}, cset : CSets \cup {Nothing}]

UnusedCSet == [state |-> "unused", header |-> Nothing, uid |-> Nothing]
UnusedObject == [state |-> "unused", header |-> Nothing, cset |-> Nothing]
FreedCSet(c) == [cset[c] EXCEPT !.state = "freed"]
FreedObject(o) == [object[o] EXCEPT !.state = "freed"]

Open(h) == header[h] = "live"
Live(o) == object[o].state = "live"
UIDOf(o) == cset[object[o].cset].uid

\* The next of a pool to be allocated.
NewCSets == {c \in CSets : cset[c].state = "unused"}
NewObjects == {o \in Objects : object[o].state = "unused"}
Next1(pool) == IF pool = {} THEN {} ELSE {CHOOSE x \in pool : TRUE}

\* A generated UUID is not that of any set.
GeneratedUIDs == UUIDs \ {cset[c].uid : c \in CSets}

Init ==
  /\ header = [h \in Headers |-> "unused"]
  /\ ownCHeaderMetadata = [h \in Headers |-> TRUE]
  /\ initGenerationUID = [h \in Headers |-> FALSE]
  /\ sets = [h \in Headers |-> <<>>]
  /\ cset = [c \in CSets |-> UnusedCSet]
  /\ object = [o \in Objects |-> UnusedObject]
  /\ objectDirectory = [h \in Headers |-> [u \in UUIDs |-> Nothing]]

-----------------------------------------------------------------------------
(* HeaderMetadata *)

\* HeaderMetadata(DataModel*).
newHeaderMetadata(h) ==
  /\ header[h] = "unused"
  /\ header' = [header EXCEPT ![h] = "live"]
  /\ ownCHeaderMetadata' = [ownCHeaderMetadata EXCEPT ![h] = TRUE]
  /\ initGenerationUID' = [initGenerationUID EXCEPT ![h] = FALSE]
  /\ UNCHANGED <<sets, cset, object, objectDirectory>>

\* HeaderMetadata(MXFHeaderMetadata*, bool) leaves _initGenerationUID as the
\* memory it was given has it.
wrapHeaderMetadata(h, takeOwnership) ==
  /\ header[h] = "unused"
  /\ header' = [header EXCEPT ![h] = "live"]
  /\ ownCHeaderMetadata' = [ownCHeaderMetadata EXCEPT ![h] = takeOwnership]
  /\ \E init \in BOOLEAN :
       initGenerationUID' = [initGenerationUID EXCEPT ![h] = init]
  /\ UNCHANGED <<sets, cset, object, objectDirectory>>

\* enableGenerationUIDInit and disableGenerationUIDInit.
setGenerationUIDInit(h, enable) ==
  /\ Open(h)
  /\ initGenerationUID' = [initGenerationUID EXCEPT ![h] = enable]
  /\ UNCHANGED <<header, ownCHeaderMetadata, sets, cset, object, objectDirectory>>

\* Fault: the set is not given its instance UID.
CSetAdded_NoUID(h, c, uid) ==
  /\ cset' = [cset EXCEPT ![c] = [state |-> "live", header |-> h, uid |-> Nothing]]
  /\ sets' = [sets EXCEPT ![h] = Append(@, c)]

\* The C library puts a set that it creates or reads in the list.
CSetAdded(h, c, uid) ==
  /\ cset' = [cset EXCEPT ![c] = [state |-> "live", header |-> h, uid |-> uid]]
  /\ sets' = [sets EXCEPT ![h] = Append(@, c)]

\* One set of a header metadata that is read.
read(h, c, uid) ==
  /\ Open(h)
  /\ CSetAdded(h, c, uid)
  /\ UNCHANGED <<header, ownCHeaderMetadata, initGenerationUID, object, objectDirectory>>

\* Fault: the object is wrapped but not added to the directory.
Inserted_Not(h, uid, o) == objectDirectory

\* add: std::map::insert does not replace an entry.
Inserted(h, uid, o) ==
  [objectDirectory EXCEPT ![h][uid] = IF @ = Nothing THEN o ELSE @]

\* Adding an object may throw after the insertion, when it sets the generation
\* UID.
AddMayThrow(h) == initGenerationUID[h]

\* The constructors of the set classes: new Foo(headerMetadata).  When add
\* throws, the base class destructor takes the object out of the directory;
\* the C set stays.
newObject(h, c, o, uid) ==
  /\ Open(h)
  /\ uid \in GeneratedUIDs
  /\ CSetAdded(h, c, uid)
  /\ LET wrapper == [state |-> "live", header |-> h, cset |-> c]
     IN \/ /\ object' = [object EXCEPT ![o] = wrapper]
           /\ objectDirectory' = Inserted(h, uid, o)
        \/ /\ AddMayThrow(h)
           /\ object' = [object EXCEPT ![o] = [wrapper EXCEPT !.state = "freed"]]
           /\ UNCHANGED objectDirectory
  /\ UNCHANGED <<header, ownCHeaderMetadata, initGenerationUID>>

-----------------------------------------------------------------------------
(* Wrapping *)

\* Fault: a known UID is not looked up; each call makes an object.
wrapKnown_Anew(h, c) ==
  /\ Open(h)
  /\ cset[c].state = "live" /\ cset[c].header = h
  /\ objectDirectory[h][cset[c].uid] # Nothing
  /\ \E o \in Next1(NewObjects) :
       object' = [object EXCEPT ![o] = [state |-> "live", header |-> h, cset |-> c]]
  /\ UNCHANGED <<header, ownCHeaderMetadata, initGenerationUID, sets, cset, objectDirectory>>

\* wrap, when the directory has the instance UID: the object is made to wrap
\* the set that was asked for.
wrapKnown(h, c) ==
  /\ Open(h)
  /\ cset[c].state = "live" /\ cset[c].header = h
  /\ LET o == objectDirectory[h][cset[c].uid]
     IN /\ o # Nothing
        /\ object' = [object EXCEPT ![o].cset = c]
  /\ UNCHANGED <<header, ownCHeaderMetadata, initGenerationUID, sets, cset, objectDirectory>>

\* wrap, when it has not: a factory creates an object, which is added.  When
\* setting the generation UID throws, the object stays in the directory.
wrapNew(h, c, o) ==
  /\ Open(h)
  /\ cset[c].state = "live" /\ cset[c].header = h
  /\ objectDirectory[h][cset[c].uid] = Nothing
  /\ object' = [object EXCEPT ![o] = [state |-> "live", header |-> h, cset |-> c]]
  /\ objectDirectory' = Inserted(h, cset[c].uid, o)
  /\ UNCHANGED <<header, ownCHeaderMetadata, initGenerationUID, sets, cset>>

\* MetadataSet::clone: a copy of the set with its own UID, in any header, is
\* wrapped there.
clone(from, h, c, o, uid) ==
  /\ Open(h) /\ Live(from)
  /\ uid \in GeneratedUIDs
  /\ CSetAdded(h, c, uid)
  /\ object' = [object EXCEPT ![o] = [state |-> "live", header |-> h, cset |-> c]]
  /\ objectDirectory' = Inserted(h, uid, o)
  /\ UNCHANGED <<header, ownCHeaderMetadata, initGenerationUID>>

-----------------------------------------------------------------------------
(* Moving and deleting *)

\* The lists of sets when mxf_remove_set finds set c at place i of its list.
RemovedAt(h, c, i) ==
  /\ i \in DOMAIN sets[h] /\ sets[h][i] = c
  /\ sets' = [sets EXCEPT ![h] = RemoveAt(@, i)]

\* Fault: the set is added again without being removed.
MovedFrom_AddOnly(h, c, i) ==
  /\ i \in DOMAIN sets[h] /\ sets[h][i] = c
  /\ sets' = [sets EXCEPT ![h] = Append(@, c)]

\* The same, when it is then added again.
MovedFrom(h, c, i) ==
  /\ i \in DOMAIN sets[h] /\ sets[h][i] = c
  /\ sets' = [sets EXCEPT ![h] = Append(RemoveAt(@, i), c)]

\* moveToEnd on an object of this header.  An object of another header is
\* refused before anything happens.  (The code also allows an object without a
\* header; there is none a client could pass: only ~HeaderMetadata takes the header
\* from an object, and deletes the object at once.)
moveToEnd(h, o) ==
  /\ Open(h) /\ Live(o)
  /\ object[o].header = h
  /\ \E i \in DOMAIN sets[h] : MovedFrom(h, object[o].cset, i)
  /\ objectDirectory' = Inserted(h, UIDOf(o), o)
  /\ UNCHANGED <<header, ownCHeaderMetadata, initGenerationUID, cset, object>>

\* The set is removed from the list and can't be added again.
moveToEndFails(h, o) ==
  /\ Open(h) /\ Live(o)
  /\ object[o].header = h
  /\ \E i \in DOMAIN sets[h] : RemovedAt(h, object[o].cset, i)
  /\ cset' = [cset EXCEPT ![object[o].cset].header = Nothing]
  /\ UNCHANGED <<header, ownCHeaderMetadata, initGenerationUID, object, objectDirectory>>

\* A second moveToEnd fails at once: mxf_remove_set does not find the set.

IsOrphan(c) == cset[c].state = "live" /\ cset[c].header = Nothing

\* Fault: the object stays in the directory.
Removed_Not(h, uid) == objectDirectory

\* HeaderMetadata::remove: the entry of this UID goes, whatever it refers to.
Removed(h, uid) == [objectDirectory EXCEPT ![h][uid] = Nothing]

\* ~MetadataSet on an object of an open header: a set that is in no list is
\* freed first.  The instance UID that identifies the directory entry is then
\* read through the pointer to the freed set: the program stops there, or the
\* entry is found, or not.
deleteObject(o) ==
  /\ Live(o) /\ Open(object[o].header)
  /\ object' = [object EXCEPT ![o] = FreedObject(o)]
  /\ LET c == object[o].cset
         h == object[o].header
     IN \/ /\ ~IsOrphan(c)
           /\ objectDirectory' = Removed(h, cset[c].uid)
           /\ UNCHANGED cset
        \/ /\ IsOrphan(c) /\ DeletesOrphans
           /\ objectDirectory' \in {objectDirectory, Removed(h, cset[c].uid)}
           /\ cset' = [cset EXCEPT ![c] = FreedCSet(c)]
  /\ UNCHANGED <<header, ownCHeaderMetadata, initGenerationUID, sets>>

InDirectory(h) == {objectDirectory[h][u] : u \in UUIDs} \ {Nothing}

\* Fault: the C header is freed, the objects' own sets are not.
FreedWith_ListOnly(h) ==
  {c \in CSets : ownCHeaderMetadata[h] /\ \E i \in DOMAIN sets[h] : sets[h][i] = c}

\* The C sets that go with HeaderMetadata h: those in no list go with their
\* object, those in its list with the C header, if that is owned.
FreedWith(h) ==
  {c \in CSets :
    \/ IsOrphan(c) /\ \E o \in InDirectory(h) : object[o].cset = c
    \/ ownCHeaderMetadata[h] /\ \E i \in DOMAIN sets[h] : sets[h][i] = c}

\* ~HeaderMetadata breaks the link of each object before it deletes it, so
\* that the directory is not changed meanwhile.
deleteHeaderMetadata(h) ==
  /\ Open(h)
  /\ header' = [header EXCEPT ![h] = "freed"]
  /\ object' = [o \in Objects |->
                  IF o \in InDirectory(h) THEN [FreedObject(o) EXCEPT !.header = Nothing]
                  ELSE object[o]]
  /\ cset' = [c \in CSets |-> IF c \in FreedWith(h) THEN FreedCSet(c) ELSE cset[c]]
  /\ sets' = [sets EXCEPT ![h] = IF ownCHeaderMetadata[h] THEN <<>> ELSE @]
  /\ objectDirectory' = [objectDirectory EXCEPT ![h] = [u \in UUIDs |-> Nothing]]
  /\ UNCHANGED <<ownCHeaderMetadata, initGenerationUID>>

-----------------------------------------------------------------------------

Next ==
  \/ \E h \in Headers :
       \/ newHeaderMetadata(h)
       \/ \E own \in BOOLEAN : wrapHeaderMetadata(h, own)
       \/ \E enable \in BOOLEAN : setGenerationUIDInit(h, enable)
       \/ \E c \in Next1(NewCSets), u \in UUIDs : read(h, c, u)
       \/ \E c \in Next1(NewCSets), o \in Next1(NewObjects), u \in GeneratedUIDs :
            newObject(h, c, o, u)
       \/ \E c \in CSets : wrapKnown(h, c)
       \/ \E c \in CSets, o \in Next1(NewObjects) : wrapNew(h, c, o)
       \/ \E from \in Objects, c \in Next1(NewCSets), o \in Next1(NewObjects),
             u \in GeneratedUIDs : clone(from, h, c, o, u)
       \/ \E o \in Objects : moveToEnd(h, o) \/ moveToEndFails(h, o)
       \/ deleteHeaderMetadata(h)
  \/ \E o \in Objects : deleteObject(o)

Spec == Init /\ [][Next]_vars

-----------------------------------------------------------------------------
(* Properties *)

\* Every variable has its type, and each set and object in use has what it was
\* created with: an instance UID, a set.
TypeOK ==
  /\ header \in [Headers -> Lifetimes]
  /\ ownCHeaderMetadata \in [Headers -> BOOLEAN]
  /\ initGenerationUID \in [Headers -> BOOLEAN]
  /\ sets \in [Headers -> Seq(CSets)]
  /\ cset \in [CSets -> CSetRecords]
  /\ object \in [Objects -> ObjectRecords]
  /\ objectDirectory \in [Headers -> [UUIDs -> Objects \cup {Nothing}]]
  /\ \A c \in CSets : cset[c].uid = Nothing <=> cset[c].state = "unused"
  /\ \A o \in Objects : object[o].cset = Nothing <=> object[o].state = "unused"

\* A directory entry is an object that exists, of this header, and wraps a C
\* set that exists and has the entry's instance UID: no entry is left behind by
\* a delete, and none is found under another UID than its set's.
EntriesAreLive ==
  \A h \in Headers, u \in UUIDs, o \in Objects :
    objectDirectory[h][u] = o =>
      /\ Open(h)
      /\ Live(o) /\ object[o].header = h
      /\ cset[object[o].cset].state = "live"
      /\ UIDOf(o) = u
      /\ cset[object[o].cset].header \in {h, Nothing}

\* Every object that exists is the directory's entry for the instance UID of
\* its set.  So a set has one object, and ~HeaderMetadata deletes each object
\* once: none is leaked and none is left with a pointer to a deleted header.
ObjectsAreEntries ==
  \A o \in Objects :
    Live(o) => /\ object[o].header \in Headers /\ Open(object[o].header)
               /\ object[o].cset \in CSets /\ UIDOf(o) \in UUIDs
               /\ objectDirectory[object[o].header][UIDOf(o)] = o

\* The C sets of a header are in its list, each once, and in no other list,
\* also after sets were moved and after a move failed.
ListsAreExact ==
  \A h \in Headers :
    /\ \A i \in DOMAIN sets[h] : cset[sets[h][i]].state = "live" /\ cset[sets[h][i]].header = h
    /\ \A i, j \in DOMAIN sets[h] : sets[h][i] = sets[h][j] => i = j
    /\ \A c \in CSets : (cset[c].state = "live" /\ cset[c].header = h)
                          => \E i \in DOMAIN sets[h] : sets[h][i] = c

\* A set that is in no list is wrapped by an object that will free it, unless
\* that object was made to wrap another set with the same instance UID: no C
\* set is lost when the header metadata goes.
OrphansAreOwned ==
  \A c \in CSets : IsOrphan(c) =>
    \/ \E o \in Objects : Live(o) /\ object[o].cset = c
    \/ \E d \in CSets \ {c} : cset[d].uid = cset[c].uid

\* A set has one object, in whatever header metadata the object is.
OneObjectPerSet ==
  \A o, p \in Objects :
    (Live(o) /\ Live(p) /\ object[o].cset = object[p].cset) => o = p

\* A deleted object is not found in a directory any more: "allow metadata sets
\* to remove themselves from the _objectDirectory" (HeaderMetadata.h).
DeletedObjectsAreRemoved ==
  \A h \in Headers, u \in UUIDs :
    objectDirectory[h][u] # Nothing => Live(objectDirectory[h][u])

=============================================================================
