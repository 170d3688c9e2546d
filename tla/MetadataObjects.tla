--------------------------- MODULE MetadataObjects ---------------------------
(***************************************************************************)
(* A client that reads and writes an item of a metadata set through the    *)
(* class of the set (MetadataClasses) and the accessors of MetadataSet     *)
(* (ItemAccessors), with the objects that references lead to: they are     *)
(* made by the factories of HeaderMetadata (libMXF++/HeaderMetadata.cpp)   *)
(* when a set is wrapped, and kept in its directory.                       *)
(*                                                                         *)
(* The behaviour of one item does not depend on the others, so that a      *)
(* behaviour of the module is about one item, its subject, of any class.   *)
(* The sets that a reference is made to are of one class, any that may be  *)
(* referred to, or one that may not, in a file that someone else wrote.    *)
(* The file may be written, closed and read again at any time; then all    *)
(* objects are new.  A set that the library that reads does not know is    *)
(* ignored.                                                                *)
(***************************************************************************)
EXTENDS MetadataClasses, ItemAccessors, FiniteSets

CONSTANTS
  Values,          \* values of an item that is not a reference
  Targets,         \* metadata sets that are referred to
  Absent,          \* no item, or no object
  MaxElements      \* bound: elements of an array

\* Items of a C set, with any of those values.
Items ==
  [array : BOOLEAN, length : Nat, count : Nat,
   data : Seq([at : Nat, function : DOMAIN Form, value : Values \cup Targets])]

ASSUME ConstantsAssumption ==
  /\ Malformed \in Values
  /\ Garbage \notin Values \cup Targets
  /\ Throws \notin Values \cup Targets
  /\ Absent \notin Values \cup Targets \cup Seq(Values \cup Targets) \cup Items
  /\ MaxElements \in Nat \ {0}

VARIABLES
  subject,      \* the item: its class, its name, the class of the targets
  item,         \* the item of the C set
  written,      \* the value that the client gave it, or that the file was read with
  sets,         \* the targets that are in the header metadata
  object,       \* the class of the object of each target in the directory
  held,         \* the targets whose object the client has a pointer to
  extensions    \* the classes that the client registered a factory for

vars == <<subject, item, written, sets, object, held, extensions>>

-----------------------------------------------------------------------------
(* Subjects *)

\* The accessors of MetadataSet, used on a set by a client that knows the key of
\* the item.
AnyItem ==
  [type \in (DOMAIN SingleGet \cup DOMAIN ArrayGet) \ {"AES3FixedDataArray"} |-> Item(type)]
  ++ [ StrongRef |-> StrongRef("InterchangeObject"), WeakRef |-> WeakRef("InterchangeObject"),
       StrongRefArray |-> StrongRefArray("InterchangeObject"),
       WeakRefArray |-> [Item("WeakRefArray") EXCEPT !.of = "InterchangeObject"] ]

ItemsOf == [c \in ClassNames |-> MetadataClass[c].items] ++ [MetadataSet |-> AnyItem]

IsRef(i) == i.of # ""
IsArray(i) == i.set \in DOMAIN ArraySet

\* One class that is not a kind of the given one: a file may have a reference to
\* it, though no setter makes one.
Unrelated(class) == CHOOSE c \in ClassNames : ~IsA(c, class)
HasUnrelated(class) == class # "InterchangeObject"

TargetClasses(i) ==
  IF IsRef(i) THEN {c \in ClassNames : IsA(c, i.of)}
                   \cup IF HasUnrelated(i.of) THEN {Unrelated(i.of)} ELSE {}
  ELSE {Absent}

Subjects ==
  UNION {UNION {{[class |-> c, name |-> n, targets |-> t] : t \in TargetClasses(ItemsOf[c][n])} :
                  n \in DOMAIN ItemsOf[c]} : c \in DOMAIN ItemsOf}

TheItem == ItemsOf[subject.class][subject.name]
WellTyped == IsRef(TheItem) => IsA(subject.targets, TheItem.of)

-----------------------------------------------------------------------------
(* Wrapping *)

\* Fault: a class of the library is not registered.
Registered_Missing == ClassNames \ {"TaggedValue", "ContentStorage"}

\* initialiseObjectFactory registers each class of metadata/base.
Registered == ClassNames \ {"TaggedValue"}

Factories == Registered \cup extensions

\* Fault: the parents of the set definition are not searched first to last.
ObjectClass_Base(c) == "InterchangeObject"

\* wrap: the nearest class up the set definitions that has a factory.
ObjectClass(c) ==
  LET i == CHOOSE i \in DOMAIN Lineage[c] :
             /\ Lineage[c][i] \in Factories
             /\ \A j \in 1 .. (i - 1) : Lineage[c][j] \notin Factories
  IN Lineage[c][i]

\* The directory after these sets were wrapped.
Wrapped(ts) ==
  [t \in Targets |-> IF t \in ts /\ object[t] = Absent THEN ObjectClass(subject.targets)
                     ELSE object[t]]

\* The object of a set can be cast to the class that the getter names.
Casts(t) == IsA(Wrapped({t})[t], TheItem.of)

-----------------------------------------------------------------------------
(* Reading *)

\* The sets that a reference item leads to, element by element; an instance UID of
\* no set leads nowhere.
Referenced == [i \in 1 .. item.count |-> Element(item, i, "strongref")]

\* Outcome of the getter of a reference: a reference that leads nowhere gives no
\* object, which can't be cast either.
GetRef ==
  LET t == Element(item, 1, "strongref")
  IN IF t \in sets /\ Casts(t) THEN t ELSE Throws

\* Fault: an element that leads nowhere ends the iteration.
Iterated_Break(elements) ==
  LET lost == {i \in DOMAIN elements : elements[i] \notin sets}
  IN IF lost = {} THEN elements
     ELSE SubSeq(elements, 1, (CHOOSE i \in lost : \A j \in lost : i <= j) - 1)

\* ReferencedObjectIterator skips elements that lead nowhere.
Iterated(elements) ==
  LET kept[i \in 0 .. Len(elements)] ==
        IF i = 0 THEN <<>>
        ELSE IF elements[i] \in sets THEN Append(kept[i - 1], elements[i]) ELSE kept[i - 1]
  IN kept[Len(elements)]

\* Outcome of the getter of an array of references.
GetRefArray ==
  IF item.count > 0 /\ item.length # mxfUUID_extlen THEN Throws
  ELSE IF \A t \in Range(Iterated(Referenced)) : Casts(t) THEN Iterated(Referenced) ELSE Throws

\* Outcome of the getter of the item.
GetOutcome ==
  IF item = Absent THEN Throws
  ELSE CASE IsRef(TheItem) /\ IsArray(TheItem) -> GetRefArray
         [] IsRef(TheItem) /\ ~IsArray(TheItem) -> GetRef
         [] ~IsRef(TheItem) /\ IsArray(TheItem) -> GetArray(TheItem.get, item)
         [] OTHER -> GetSingle(TheItem.get, item)

\* The getter of one reference holds the object in an auto_ptr while it looks at
\* its class: an object of another class is deleted, and leaves the directory.
Rejected(t) == [object EXCEPT ![t] = Absent]

getReference ==
  /\ item # Absent /\ IsRef(TheItem) /\ ~IsArray(TheItem)
  /\ LET t == Element(item, 1, "strongref")
     IN /\ t \in sets
        /\ \/ /\ Casts(t)
              /\ object' = Wrapped({t})
              /\ held' = held \cup {t}
           \/ /\ ~Casts(t)
              /\ object' = Rejected(t)
              /\ UNCHANGED held
  /\ UNCHANGED <<subject, item, written, sets, extensions>>

\* SourcePackage::getDescriptorLight and DMSegment::getDMFrameworkLight return
\* null instead.
LightGetters == {<<"SourcePackage", "Descriptor">>, <<"DMSegment", "DMFramework">>}

getReferenceLight ==
  /\ item # Absent /\ <<subject.class, subject.name>> \in LightGetters
  /\ LET t == Element(item, 1, "strongref")
     IN /\ t \in sets
        /\ object' = Wrapped({t})
        /\ held' = IF Casts(t) THEN held \cup {t} ELSE held
  /\ UNCHANGED <<subject, item, written, sets, extensions>>

\* The getter of an array of references wraps the sets one by one, until one can't
\* be cast.
getReferences ==
  /\ item # Absent /\ IsRef(TheItem) /\ IsArray(TheItem)
  /\ LET found == Range(Iterated(Referenced))
     IN IF \A t \in found : Casts(t)
        THEN object' = Wrapped(found) /\ held' = held \cup found
        ELSE LET n == CHOOSE n \in DOMAIN Iterated(Referenced) :
                        /\ ~Casts(Iterated(Referenced)[n])
                        /\ \A m \in 1 .. (n - 1) : Casts(Iterated(Referenced)[m])
             IN /\ object' = Wrapped({Iterated(Referenced)[m] : m \in 1 .. n})
                /\ UNCHANGED held
  /\ UNCHANGED <<subject, item, written, sets, extensions>>

-----------------------------------------------------------------------------
(* Writing *)

\* What the client may give a setter: a value, or an object that it holds.
Settable ==
  IF IsRef(TheItem) THEN {t \in held : object[t] # Absent /\ IsA(object[t], TheItem.of)}
  ELSE Values

\* setFoo and, for a product version, setAvidProductVersion, of a single value.  A
\* string that can't be converted leaves the item as it is.
set(v) ==
  /\ ~IsArray(TheItem)
  /\ Converts(TheItem.set, v)
  /\ item' \in {Single(f, v) : f \in
                  IF IsRef(TheItem) THEN {RefSet[TheItem.set]}
                  ELSE {SingleSet[TheItem.set]}
                       \cup IF TheItem.set = "ProductVersion" THEN {SingleSet["AvidProductVersion"]}
                            ELSE {}}
  /\ written' = v
  /\ UNCHANGED <<subject, sets, object, held, extensions>>

\* Items that have no setter for the whole array.
AppendOnly == {<<"GenericPackage", n>> : n \in DOMAIN GenericPackageAvid}
              \cup {<<"TaggedValue", "TaggedValueAttributeList">>}

\* setFoo of an array.
setArray(values) ==
  /\ IsArray(TheItem)
  /\ <<subject.class, subject.name>> \notin AppendOnly
  /\ item' = SetArray(TheItem.set, values)
  /\ written' = values
  /\ UNCHANGED <<subject, sets, object, held, extensions>>

\* appendFoo: an array that is absent is made.  An array of another element length
\* can't grow.
append(v) ==
  /\ IsArray(TheItem)
  /\ item # Absent => item.count < MaxElements
  /\ LET length == ArrayAppend[TheItem.set].length
         array == IF item = Absent THEN Allocated(length, 0) ELSE item
     IN /\ CanGrow(array, length)
        /\ item' = AppendArray(TheItem.set, array, v)
  /\ written' = IF item = Absent THEN <<v>> ELSE Append(written, v)
  /\ UNCHANGED <<subject, sets, object, held, extensions>>

\* removeItem.
removeItem ==
  /\ item # Absent
  /\ item' = Absent
  /\ written' = Absent
  /\ UNCHANGED <<subject, sets, object, held, extensions>>

-----------------------------------------------------------------------------
(* The header metadata *)

\* The client makes a set with new Foo(headerMetadata).
newTarget(t) ==
  /\ IsRef(TheItem)
  /\ t \notin sets
  /\ t \notin (IF item = Absent THEN {} ELSE Range(Referenced))
  /\ sets' = sets \cup {t}
  /\ object' = [object EXCEPT ![t] = subject.targets]
  /\ held' = held \cup {t}
  /\ UNCHANGED <<subject, item, written, extensions>>

\* The client comes upon a set in another way, and has it wrapped.
wrap(t) ==
  /\ t \in sets
  /\ object' = Wrapped({t})
  /\ held' = held \cup {t}
  /\ UNCHANGED <<subject, item, written, sets, extensions>>

\* TaggedValue::registerObjectFactory.
registerTaggedValue ==
  /\ subject.targets = "TaggedValue"
  /\ extensions' = extensions \cup {"TaggedValue"}
  /\ UNCHANGED <<subject, item, written, sets, object, held>>

\* The file is written, and read into a new HeaderMetadata.  Sets may be missing:
\* they were not known there.
reopen ==
  /\ sets' \in SUBSET sets
  /\ object' = [t \in Targets |-> Absent]
  /\ held' = {}
  /\ extensions' = {}
  /\ UNCHANGED <<subject, item, written>>

-----------------------------------------------------------------------------

\* A header metadata in which nothing is set yet, or a file that someone else
\* wrote, with a reference to a set that is no such thing.
Init ==
  /\ subject \in Subjects
  /\ \/ /\ WellTyped
        /\ item = Absent /\ written = Absent
        /\ sets = {}
     \/ /\ ~WellTyped
        /\ \E t \in Targets :
             IF IsArray(TheItem)
             THEN item = SetArray(TheItem.set, <<t>>) /\ written = <<t>>
             ELSE item = Single(RefSet[TheItem.set], t) /\ written = t
        /\ sets = Targets
  /\ object = [t \in Targets |-> Absent]
  /\ held = {}
  /\ extensions = {}

Next ==
  \/ getReference \/ getReferenceLight \/ getReferences
  \/ \E v \in Settable : set(v) \/ append(v)
  \/ \E values \in SeqOf(Settable, MaxElements) : setArray(values)
  \/ removeItem
  \/ \E t \in Targets : newTarget(t) \/ wrap(t)
  \/ registerTaggedValue
  \/ reopen

Spec == Init /\ [][Next]_vars

-----------------------------------------------------------------------------
(* Properties *)

\* The set of a reference can be given as the class that refers to it.  A tagged
\* value can only if its factory was registered before it was wrapped.
Readable(t) ==
  /\ IsA(subject.targets, TheItem.of)
  /\ TheItem.of = "TaggedValue" =>
       IF object[t] = Absent THEN "TaggedValue" \in Factories ELSE object[t] = "TaggedValue"

\* What a getter should return: what was written, without the references to sets
\* that are not there.
Expected ==
  IF ~IsRef(TheItem) \/ written = Absent THEN IF written = Absent THEN Throws ELSE written
  ELSE LET There(t) == IF t \in sets THEN <<t>> ELSE <<>>
           found == IF IsArray(TheItem) THEN FlattenSeq([i \in DOMAIN written |-> There(written[i])])
                    ELSE <<written>>
       IN IF ~(\A t \in Range(found) : t \in sets /\ Readable(t)) THEN Throws
          ELSE IF IsArray(TheItem) THEN found ELSE written

\* ReadsWhatWasWritten: for every item of every class, and each accessor of
\* MetadataSet: what was set and appended, in any order, is what the getter
\* returns, also after the file was written and read again.
ReadsWhatWasWritten == GetOutcome = Expected

\* ElementsFillItem: the elements of an array fill the memory that was allocated
\* for it: each byte is written by one element and none is written behind the end.
ElementsFillItem ==
  item # Absent =>
    LET end(d) == d.at + Width(d.function)
    IN \A i \in DOMAIN item.data :
         /\ item.data[i].at = IF i = 1 THEN 0 ELSE end(item.data[i - 1])
         /\ i = Len(item.data) => end(item.data[i]) = item.count * item.length

\* ObjectsHaveTheirClass: the object of a set is of the set's own class, however
\* the set was come upon, so that the client can cast a Track it got as a
\* GenericTrack; a tagged value that was wrapped too early is none.
ObjectsHaveTheirClass ==
  \A t \in Targets :
    object[t] \notin {Absent, subject.targets} => subject.targets = "TaggedValue"

\* ReadingKeepsObjects: reading keeps the objects that the client has a pointer
\* to.  Only a reference to a set of another class, in a file from elsewhere, makes
\* the getter delete one.
ReadingKeepsObjects ==
  [][\A t \in held :
       (object[t] # Absent /\ object'[t] = Absent) => (held' = {} \/ ~WellTyped)]_vars
=============================================================================
