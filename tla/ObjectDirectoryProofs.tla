------------------------ MODULE ObjectDirectoryProofs ------------------------
(***************************************************************************)
(* Proofs about ObjectDirectory.                                           *)
(***************************************************************************)
EXTENDS ObjectDirectory, SequenceTheorems, TLAPS

-----------------------------------------------------------------------------
(* Lists without repetition *)

Listed(s, c) == \E i \in DOMAIN s : s[i] = c
NoRepeat(s) == \A i, j \in DOMAIN s : s[i] = s[j] => i = j

\* The C library's list gets one more set at its end.
LEMMA AppendToList ==
  ASSUME NEW S, NEW s \in Seq(S), NEW c \in S
  PROVE  /\ Append(s, c) \in Seq(S)
         /\ \A d : Listed(Append(s, c), d) <=> Listed(s, d) \/ d = c
         /\ NoRepeat(s) /\ ~Listed(s, c) => NoRepeat(Append(s, c))
<1> DEFINE t == Append(s, c)
<1>1. /\ t \in Seq(S) /\ Len(t) = Len(s) + 1
      /\ \A i \in 1 .. Len(s) : t[i] = s[i]
      /\ t[Len(s) + 1] = c
  BY AppendProperties
<1>2. /\ DOMAIN s = 1 .. Len(s) /\ DOMAIN t = 1 .. Len(t) /\ Len(s) \in Nat
  BY <1>1, LenProperties
<1> HIDE DEF t
<1>3. DOMAIN t = DOMAIN s \cup {Len(s) + 1} /\ Len(s) + 1 \notin DOMAIN s
  BY <1>1, <1>2
<1>4. \A i \in DOMAIN s : t[i] = s[i]
  BY <1>1, <1>2
<1>5. \A d : Listed(t, d) <=> Listed(s, d) \/ d = c
  BY <1>1, <1>3, <1>4 DEF Listed
<1>6. NoRepeat(s) /\ ~Listed(s, c) => NoRepeat(t)
  BY <1>1, <1>3, <1>4 DEF Listed, NoRepeat
<1> QED BY <1>1, <1>5, <1>6 DEF t

\* The C library takes a set out of its list.
LEMMA RemoveFromList ==
  ASSUME NEW S, NEW s \in Seq(S), NEW i \in DOMAIN s, NoRepeat(s)
  PROVE  /\ RemoveAt(s, i) \in Seq(S)
         /\ \A d : Listed(RemoveAt(s, i), d) <=> Listed(s, d) /\ d # s[i]
         /\ NoRepeat(RemoveAt(s, i))
<1> DEFINE n == Len(s)
           a == SubSeq(s, 1, i - 1)
           b == SubSeq(s, i + 1, n)
           t == RemoveAt(s, i)
<1>1. n \in Nat /\ DOMAIN s = 1 .. n /\ i \in 1 .. n
  BY LenProperties
<1>2. /\ a \in Seq(S) /\ Len(a) = i - 1
      /\ \A k \in 1 .. i - 1 : a[k] = s[k]
  <2>1. 1 \in 1 .. n + 1 /\ i - 1 \in 1 - 1 .. n
    BY <1>1
  <2>2. i - 1 - 1 + 1 = i - 1
    BY <1>1
  <2>3. \A k \in 1 .. i - 1 : 1 + k - 1 = k
    BY <1>1
  <2> QED BY <1>1, <2>1, <2>2, <2>3, SubSeqProperties, Z3
<1>3. /\ b \in Seq(S) /\ Len(b) = n - i
      /\ \A k \in 1 .. n - i : b[k] = s[i + k]
  BY SMTT(60), <1>1, SubSeqProperties
<1>4. /\ t \in Seq(S) /\ Len(t) = n - 1
      /\ \A k \in 1 .. n - 1 : t[k] = IF k < i THEN s[k] ELSE s[k + 1]
  <2>1. /\ t \in Seq(S) /\ Len(t) = Len(a) + Len(b)
        /\ \A k \in 1 .. Len(a) + Len(b) : t[k] = IF k <= Len(a) THEN a[k] ELSE b[k - Len(a)]
    <3>1. t = a \o b
      BY DEF RemoveAt
    <3> HIDE DEF a, b, t
    <3> QED BY <3>1, <1>2, <1>3, ConcatProperties
  <2> HIDE DEF a, b, t, n
  <2>2. Len(a) + Len(b) = n - 1
    BY <1>1, <1>2, <1>3
  <2>3. ASSUME NEW k \in 1 .. n - 1 PROVE t[k] = IF k < i THEN s[k] ELSE s[k + 1]
    <3>1. CASE k < i
      BY <3>1, <2>1, <2>2, <1>1, <1>2
    <3>2. CASE ~(k < i)
      <4>1. k - Len(a) \in 1 .. n - i /\ ~(k <= Len(a)) /\ i + (k - Len(a)) = k + 1
        BY <3>2, <1>1, <1>2
      <4> QED BY <3>2, <4>1, <2>1, <2>2, <1>3
    <3> QED BY <3>1, <3>2
  <2> QED BY <2>1, <2>2, <2>3
<1>5. DOMAIN t = 1 .. n - 1
  BY <1>4, LenProperties
<1> HIDE DEF n, t
<1>6. ASSUME NEW d PROVE Listed(t, d) <=> Listed(s, d) /\ d # s[i]
  <2>1. ASSUME Listed(t, d) PROVE Listed(s, d) /\ d # s[i]
    <3>1. PICK k \in 1 .. n - 1 : t[k] = d
      BY <2>1, <1>5 DEF Listed
    <3>2. PICK j \in 1 .. n : j # i /\ s[j] = d
      <4>1. CASE k < i
        BY <3>1, <4>1, <1>1, <1>4
      <4>2. CASE ~(k < i)
        <5>1. k + 1 \in 1 .. n /\ k + 1 # i
          BY <4>2, <1>1
        <5> QED BY <3>1, <4>2, <5>1, <1>4
      <4> QED BY <4>1, <4>2
    <3> QED BY <3>2, <1>1 DEF Listed, NoRepeat
  <2>2. ASSUME Listed(s, d), d # s[i] PROVE Listed(t, d)
    <3>1. PICK k \in 1 .. n : s[k] = d
      BY <2>2, <1>1 DEF Listed
    <3>2. CASE k < i
      BY <3>1, <3>2, <1>1, <1>4, <1>5 DEF Listed
    <3>3. CASE k > i
      <4>1. k - 1 \in 1 .. n - 1 /\ ~(k - 1 < i) /\ k - 1 + 1 = k
        BY <3>1, <3>3, <1>1
      <4> QED BY <3>1, <4>1, <1>4, <1>5 DEF Listed
    <3> QED BY <3>1, <3>2, <3>3, <2>2, <1>1
  <2> QED BY <2>1, <2>2
<1>7. NoRepeat(t)
  <2> DEFINE from(k) == IF k < i THEN k ELSE k + 1
  <2>1. \A k \in 1 .. n - 1 : from(k) \in 1 .. n /\ t[k] = s[from(k)]
    BY <1>1, <1>4
  <2>2. \A j, k \in 1 .. n - 1 : from(j) = from(k) => j = k
    BY <1>1
  <2> HIDE DEF from
  <2> QED BY <1>1, <1>5, <2>1, <2>2 DEF NoRepeat
<1> QED BY <1>4, <1>6, <1>7 DEF t

-----------------------------------------------------------------------------
(* The inductive invariant *)

\* ListsAreExact in terms of membership: a list has no repetition and its
\* members are the live sets of its header.
Lists ==
  \A h \in Headers :
    /\ NoRepeat(sets[h])
    /\ \A c \in CSets : Listed(sets[h], c) <=> (cset[c].state = "live" /\ cset[c].header = h)

LEMMA ListsMeaning == TypeOK => (ListsAreExact <=> Lists)
<1> SUFFICES ASSUME TypeOK PROVE ListsAreExact <=> Lists
  OBVIOUS
<1>1. \A h \in Headers : \A i \in DOMAIN sets[h] : sets[h][i] \in CSets
  BY ElementOfSeq, LenProperties DEF TypeOK
<1> QED BY <1>1 DEF ListsAreExact, Lists, Listed, NoRepeat

\* What every reachable state satisfies when the client does not delete an
\* object whose set is in no list.
IInv ==
  /\ TypeOK
  /\ EntriesAreLive
  /\ ObjectsAreEntries
  /\ Lists
  /\ OneObjectPerSet
  /\ OrphansAreOwned

LEMMA InitIInv == Init => IInv
<1> SUFFICES ASSUME Init PROVE IInv
  OBVIOUS
<1> USE ConstantsAssumption DEF Init, ConstantsAssumption
<1>1. TypeOK
  BY EmptySeq DEF TypeOK, Lifetimes, CSetRecords, ObjectRecords, UnusedCSet, UnusedObject
<1>2. EntriesAreLive
  BY DEF EntriesAreLive
<1>3. ObjectsAreEntries /\ OneObjectPerSet
  BY DEF ObjectsAreEntries, OneObjectPerSet, Live, UnusedObject
<1>4. Lists
  BY DEF Lists, Listed, NoRepeat, UnusedCSet
<1>5. OrphansAreOwned
  BY DEF OrphansAreOwned, IsOrphan, UnusedCSet
<1> QED BY <1>1, <1>2, <1>3, <1>4, <1>5 DEF IInv

\* All that is known of an object that exists.
LEMMA LiveObject ==
  ASSUME IInv, NEW o \in Objects, Live(o)
  PROVE  /\ object[o].header \in Headers /\ Open(object[o].header)
         /\ object[o].cset \in CSets
         /\ UIDOf(o) \in UUIDs
         /\ objectDirectory[object[o].header][UIDOf(o)] = o
         /\ cset[object[o].cset].state = "live"
         /\ cset[object[o].cset].header \in {object[o].header, Nothing}
<1>1. /\ object[o].header \in Headers /\ Open(object[o].header)
      /\ object[o].cset \in CSets
      /\ UIDOf(o) \in UUIDs
      /\ objectDirectory[object[o].header][UIDOf(o)] = o
  BY DEF IInv, ObjectsAreEntries
<1>2. o # Nothing
  BY ConstantsAssumption DEF ConstantsAssumption
<1> QED BY <1>1, <1>2 DEF IInv, EntriesAreLive

\* A pool gives one of its members.
LEMMA NextIsNew ==
  /\ Next1(NewCSets) \subseteq {c \in CSets : cset[c].state = "unused"}
  /\ Next1(NewObjects) \subseteq {o \in Objects : object[o].state = "unused"}
  BY DEF Next1, NewCSets, NewObjects

-----------------------------------------------------------------------------
(* Each action preserves it *)

\* Constructing a header metadata, and setting its flag.
LEMMA HeaderPreserves ==
  ASSUME IInv, NEW h \in Headers,
         \/ newHeaderMetadata(h)
         \/ \E own \in BOOLEAN : wrapHeaderMetadata(h, own)
         \/ \E enable \in BOOLEAN : setGenerationUIDInit(h, enable)
  PROVE  IInv'
<1> USE DEF newHeaderMetadata, wrapHeaderMetadata, setGenerationUIDInit
<1>1. /\ UNCHANGED <<sets, cset, object, objectDirectory>>
      /\ header' \in [Headers -> Lifetimes]
      /\ ownCHeaderMetadata' \in [Headers -> BOOLEAN]
      /\ initGenerationUID' \in [Headers -> BOOLEAN]
      /\ \A g \in Headers : Open(g) => Open(g)'
  BY DEF IInv, TypeOK, Lifetimes, Open
<1>2. TypeOK'
  BY <1>1 DEF IInv, TypeOK
<1>3. EntriesAreLive'
  BY <1>1 DEF IInv, EntriesAreLive, Live, UIDOf
<1>4. ObjectsAreEntries'
  BY <1>1 DEF IInv, ObjectsAreEntries, Live, UIDOf
<1>5. Lists' /\ OneObjectPerSet' /\ OrphansAreOwned'
  BY <1>1 DEF IInv, Lists, OneObjectPerSet, OrphansAreOwned, Live, IsOrphan
<1> QED BY <1>2, <1>3, <1>4, <1>5 DEF IInv

\* What adding a C set does to the sets and the lists.
LEMMA AddedCSet ==
  ASSUME IInv, NEW h \in Headers, NEW c \in CSets, NEW uid \in UUIDs,
         cset[c].state = "unused", CSetAdded(h, c, uid)
  PROVE  /\ sets' \in [Headers -> Seq(CSets)]
         /\ cset' \in [CSets -> CSetRecords]
         /\ cset'[c] = [state |-> "live", header |-> h, uid |-> uid]
         /\ \A d \in CSets \ {c} : cset'[d] = cset[d]
         /\ \A d \in CSets : cset'[d].uid = Nothing <=> cset'[d].state = "unused"
         /\ Lists'
         /\ \A d \in CSets : cset[d].uid = Nothing \/ cset'[d].uid = cset[d].uid
         /\ \A o \in Objects : Live(o) => object[o].cset # c
<1> USE ConstantsAssumption DEF ConstantsAssumption
<1>1. /\ cset' = [cset EXCEPT ![c] = [state |-> "live", header |-> h, uid |-> uid]]
      /\ sets' = [sets EXCEPT ![h] = Append(sets[h], c)]
  BY DEF CSetAdded
<1>2. cset \in [CSets -> CSetRecords] /\ sets \in [Headers -> Seq(CSets)]
  BY DEF IInv, TypeOK
<1>3. cset' \in [CSets -> CSetRecords]
  BY <1>1, <1>2 DEF CSetRecords, Lifetimes
<1>4. /\ cset'[c] = [state |-> "live", header |-> h, uid |-> uid]
      /\ \A d \in CSets \ {c} : cset'[d] = cset[d]
  BY <1>1, <1>2
<1>5. \A d \in CSets : cset'[d].uid = Nothing <=> cset'[d].state = "unused"
  <2> TAKE d \in CSets
  <2>1. CASE d = c
    BY <2>1, <1>4
  <2>2. CASE d # c
    BY <2>2, <1>4 DEF IInv, TypeOK
  <2> QED BY <2>1, <2>2
<1>6. /\ \A g \in Headers \ {h} : sets'[g] = sets[g]
      /\ sets'[h] = Append(sets[h], c)
  BY <1>1, <1>2
<1>7. NoRepeat(sets[h]) /\ ~Listed(sets[h], c)
  BY DEF IInv, Lists
<1>8. /\ sets'[h] \in Seq(CSets)
      /\ \A d : Listed(sets'[h], d) <=> Listed(sets[h], d) \/ d = c
      /\ NoRepeat(sets'[h])
  BY <1>2, <1>6, <1>7, AppendToList
<1>9. sets' \in [Headers -> Seq(CSets)]
  BY <1>1, <1>2, <1>6, <1>8
<1>10. Lists'
  <2> SUFFICES ASSUME NEW g \in Headers
               PROVE  /\ NoRepeat(sets'[g])
                      /\ \A d \in CSets : Listed(sets'[g], d) <=> (cset'[d].state = "live" /\ cset'[d].header = g)
    BY DEF Lists, NoRepeat, Listed
  <2>1. CASE g = h
    BY <2>1, <1>4, <1>8 DEF IInv, Lists
  <2>2. CASE g # h
    BY <2>2, <1>4, <1>6 DEF IInv, Lists
  <2> QED BY <2>1, <2>2
<1>11. \A d \in CSets : cset[d].uid = Nothing \/ cset'[d].uid = cset[d].uid
  BY <1>4 DEF IInv, TypeOK
<1>12. \A o \in Objects : Live(o) => object[o].cset # c
  BY LiveObject
<1> QED BY <1>3, <1>4, <1>5, <1>9, <1>10, <1>11, <1>12

\* No orphan loses the object or the set that excuses it when a set is added.
LEMMA AddedKeepsOrphans ==
  ASSUME IInv, NEW h \in Headers, NEW c \in CSets, NEW uid \in UUIDs,
         cset[c].state = "unused", CSetAdded(h, c, uid),
         \A o \in Objects : Live(o) => Live(o)' /\ object'[o].cset = object[o].cset
  PROVE  OrphansAreOwned'
<1> SUFFICES ASSUME NEW d \in CSets, IsOrphan(d)'
             PROVE  \/ \E o \in Objects : Live(o)' /\ object'[o].cset = d
                    \/ \E e \in CSets \ {d} : cset'[e].uid = cset'[d].uid
  BY DEF OrphansAreOwned
<1>1. h # Nothing
  BY ConstantsAssumption DEF ConstantsAssumption
<1>. /\ cset'[c] = [state |-> "live", header |-> h, uid |-> uid]
     /\ \A e \in CSets \ {c} : cset'[e] = cset[e]
     /\ \A e \in CSets : cset[e].uid = Nothing \/ cset'[e].uid = cset[e].uid
  BY AddedCSet
<1>2. d # c
  BY <1>1 DEF IsOrphan
<1>3. IsOrphan(d) /\ cset'[d] = cset[d] /\ cset[d].uid # Nothing
  BY <1>2 DEF IsOrphan, IInv, TypeOK
<1>4. CASE \E o \in Objects : Live(o) /\ object[o].cset = d
  BY <1>4
<1>5. CASE \E e \in CSets \ {d} : cset[e].uid = cset[d].uid
  BY <1>3, <1>5
<1> QED BY <1>3, <1>4, <1>5 DEF IInv, OrphansAreOwned

LEMMA ReadPreserves ==
  ASSUME IInv, NEW h \in Headers, NEW c \in CSets, NEW uid \in UUIDs,
         cset[c].state = "unused", read(h, c, uid)
  PROVE  IInv'
<1>1. /\ CSetAdded(h, c, uid)
      /\ UNCHANGED <<header, ownCHeaderMetadata, initGenerationUID, object, objectDirectory>>
  BY DEF read
<1>2. TypeOK' /\ Lists'
  BY <1>1, AddedCSet DEF IInv, TypeOK
<1>3. \A o \in Objects : Live(o) => cset'[object[o].cset] = cset[object[o].cset]
  <2>1. /\ \A d \in CSets \ {c} : cset'[d] = cset[d]
        /\ \A o \in Objects : Live(o) => object[o].cset # c
    BY <1>1, AddedCSet
  <2> QED BY <2>1, LiveObject
<1>4. EntriesAreLive'
  BY <1>1, <1>3 DEF IInv, EntriesAreLive, Live, UIDOf, Open
<1>5. ObjectsAreEntries'
  BY <1>1, <1>3 DEF IInv, ObjectsAreEntries, Live, UIDOf, Open
<1>6. OneObjectPerSet'
  BY <1>1 DEF IInv, OneObjectPerSet, Live
<1>7. OrphansAreOwned'
  BY <1>1, AddedKeepsOrphans DEF Live
<1> QED BY <1>2, <1>4, <1>5, <1>6, <1>7 DEF IInv

\* A new object for a set that is in the list of its header and whose instance
\* UID is not in the directory.
LEMMA NewWrapper ==
  ASSUME IInv, NEW h \in Headers, NEW c \in CSets, NEW o \in Objects, NEW uid \in UUIDs,
         Open(h), UNCHANGED header,
         object[o].state = "unused",
         object' = [object EXCEPT ![o] = [state |-> "live", header |-> h, cset |-> c]],
         objectDirectory[h][uid] = Nothing,
         objectDirectory' = Inserted(h, uid, o),
         cset' \in [CSets -> CSetRecords],
         cset'[c].state = "live", cset'[c].header = h, cset'[c].uid = uid,
         \A p \in Objects : Live(p) => cset'[object[p].cset] = cset[object[p].cset],
         \A p \in Objects : Live(p) => object[p].cset # c
  PROVE  /\ object' \in [Objects -> ObjectRecords]
         /\ objectDirectory' \in [Headers -> [UUIDs -> Objects \cup {Nothing}]]
         /\ \A p \in Objects : object'[p].cset = Nothing <=> object'[p].state = "unused"
         /\ \A p \in Objects : Live(p) => Live(p)' /\ object'[p].cset = object[p].cset
         /\ EntriesAreLive' /\ ObjectsAreEntries' /\ OneObjectPerSet'
<1> USE ConstantsAssumption DEF ConstantsAssumption
<1>1. /\ object \in [Objects -> ObjectRecords]
      /\ objectDirectory \in [Headers -> [UUIDs -> Objects \cup {Nothing}]]
  BY DEF IInv, TypeOK
<1>2. object' \in [Objects -> ObjectRecords]
  BY <1>1 DEF ObjectRecords, Lifetimes
<1>3. /\ object'[o] = [state |-> "live", header |-> h, cset |-> c]
      /\ \A p \in Objects \ {o} : object'[p] = object[p]
  BY <1>1
<1>4. /\ objectDirectory' \in [Headers -> [UUIDs -> Objects \cup {Nothing}]]
      /\ objectDirectory'[h][uid] = o
      /\ \A g \in Headers, u \in UUIDs :
           g # h \/ u # uid => objectDirectory'[g][u] = objectDirectory[g][u]
  BY <1>1 DEF Inserted
<1>5. ~Live(o)
  BY DEF Live
<1>6. \A p \in Objects : object'[p].cset = Nothing <=> object'[p].state = "unused"
  <2> TAKE p \in Objects
  <2>1. CASE p = o
    BY <2>1, <1>3
  <2>2. CASE p # o
    BY <2>2, <1>3 DEF IInv, TypeOK
  <2> QED BY <2>1, <2>2
<1>7. \A p \in Objects : Live(p) => p # o /\ Live(p)' /\ object'[p] = object[p]
  BY <1>3, <1>5 DEF Live
<1>8. Live(o)' /\ UIDOf(o)' = uid
  BY <1>3 DEF Live, UIDOf
<1>9. \A p \in Objects : Live(p)' => p = o \/ Live(p)
  BY <1>3 DEF Live
<1>10. EntriesAreLive'
  <2> SUFFICES ASSUME NEW g \in Headers, NEW u \in UUIDs, NEW p \in Objects,
                      objectDirectory'[g][u] = p
               PROVE  /\ Open(g)'
                      /\ Live(p)' /\ object'[p].header = g
                      /\ cset'[object'[p].cset].state = "live"
                      /\ UIDOf(p)' = u
                      /\ cset'[object'[p].cset].header \in {g, Nothing}
    BY DEF EntriesAreLive
  <2>1. CASE g = h /\ u = uid
    BY <2>1, <1>3, <1>4, <1>8 DEF Open
  <2>2. CASE ~(g = h /\ u = uid)
    <3>1. objectDirectory[g][u] = p
      BY <2>2, <1>4
    <3>2. /\ Open(g) /\ Live(p) /\ object[p].header = g
          /\ cset[object[p].cset].state = "live"
          /\ UIDOf(p) = u
          /\ cset[object[p].cset].header \in {g, Nothing}
      BY <3>1 DEF IInv, EntriesAreLive
    <3>3. object'[p] = object[p] /\ Live(p)' /\ cset'[object[p].cset] = cset[object[p].cset]
      BY <3>1, <3>2, <1>7
    <3> QED BY <3>1, <3>2, <3>3 DEF Open, UIDOf
  <2> QED BY <2>1, <2>2
<1>11. ObjectsAreEntries'
  <2> SUFFICES ASSUME NEW p \in Objects, Live(p)'
               PROVE  /\ object'[p].header \in Headers /\ Open(object[p].header)'
                      /\ object'[p].cset \in CSets /\ UIDOf(p)' \in UUIDs
                      /\ objectDirectory'[object'[p].header][UIDOf(p)'] = p
    BY DEF ObjectsAreEntries
  <2>1. CASE p = o
    BY <2>1, <1>3, <1>4, <1>8 DEF Open
  <2>2. CASE p # o
    <3>1. Live(p) /\ object'[p] = object[p] /\ UIDOf(p)' = UIDOf(p)
      BY <2>2, <1>3, <1>9 DEF UIDOf
    <3>2. /\ object[p].header \in Headers /\ Open(object[p].header)
          /\ object[p].cset \in CSets /\ UIDOf(p) \in UUIDs
          /\ objectDirectory[object[p].header][UIDOf(p)] = p
      BY <3>1, LiveObject
    <3>3. object[p].header # h \/ UIDOf(p) # uid
      BY <3>2
    <3> QED BY <3>1, <3>2, <3>3, <1>4 DEF Open
  <2> QED BY <2>1, <2>2
<1>12. OneObjectPerSet'
  BY <1>3, <1>7, <1>9 DEF IInv, OneObjectPerSet
<1> QED BY <1>2, <1>4, <1>6, <1>7, <1>10, <1>11, <1>12

\* A generated instance UID is in no directory.
LEMMA GeneratedIsNew ==
  ASSUME IInv, NEW h \in Headers, NEW uid \in GeneratedUIDs
  PROVE  uid \in UUIDs /\ objectDirectory[h][uid] = Nothing
<1>1. uid \in UUIDs /\ \A c \in CSets : cset[c].uid # uid
  BY DEF GeneratedUIDs
<1>2. ASSUME NEW o \in Objects, objectDirectory[h][uid] = o PROVE FALSE
  <2>1. Live(o) /\ UIDOf(o) = uid
    BY <1>1, <1>2 DEF IInv, EntriesAreLive
  <2>2. object[o].cset \in CSets
    BY <2>1, LiveObject
  <2> QED BY <1>1, <2>1, <2>2 DEF UIDOf
<1> QED BY <1>1, <1>2 DEF IInv, TypeOK

\* A new set and its object: the constructors and clone.
LEMMA CreatePreserves ==
  ASSUME IInv, NEW h \in Headers, NEW c \in CSets, NEW o \in Objects, NEW uid \in GeneratedUIDs,
         Open(h), cset[c].state = "unused", object[o].state = "unused",
         CSetAdded(h, c, uid),
         object' = [object EXCEPT ![o] = [state |-> "live", header |-> h, cset |-> c]],
         objectDirectory' = Inserted(h, uid, o),
         UNCHANGED <<header, ownCHeaderMetadata, initGenerationUID>>
  PROVE  IInv'
<1>1. uid \in UUIDs /\ objectDirectory[h][uid] = Nothing
  BY GeneratedIsNew
<1>2. /\ sets' \in [Headers -> Seq(CSets)]
      /\ cset' \in [CSets -> CSetRecords]
      /\ cset'[c] = [state |-> "live", header |-> h, uid |-> uid]
      /\ \A d \in CSets \ {c} : cset'[d] = cset[d]
      /\ \A d \in CSets : cset'[d].uid = Nothing <=> cset'[d].state = "unused"
      /\ Lists'
      /\ \A p \in Objects : Live(p) => object[p].cset # c
  BY <1>1, AddedCSet
<1>3. \A p \in Objects : Live(p) => cset'[object[p].cset] = cset[object[p].cset]
  BY <1>2, LiveObject
<1>4. cset'[c].state = "live" /\ cset'[c].header = h /\ cset'[c].uid = uid
  BY <1>2
<1>5. /\ object' \in [Objects -> ObjectRecords]
      /\ objectDirectory' \in [Headers -> [UUIDs -> Objects \cup {Nothing}]]
      /\ \A p \in Objects : object'[p].cset = Nothing <=> object'[p].state = "unused"
      /\ \A p \in Objects : Live(p) => Live(p)' /\ object'[p].cset = object[p].cset
      /\ EntriesAreLive' /\ ObjectsAreEntries' /\ OneObjectPerSet'
  BY <1>1, <1>2, <1>3, <1>4, NewWrapper
<1>6. TypeOK'
  BY <1>2, <1>5 DEF IInv, TypeOK
<1>7. OrphansAreOwned'
  BY <1>1, <1>5, AddedKeepsOrphans
<1> QED BY <1>2, <1>5, <1>6, <1>7 DEF IInv

\* The constructor that fails: the set stays without an object.
LEMMA FailedCreatePreserves ==
  ASSUME IInv, NEW h \in Headers, NEW c \in CSets, NEW o \in Objects, NEW uid \in GeneratedUIDs,
         cset[c].state = "unused", object[o].state = "unused",
         CSetAdded(h, c, uid),
         object' = [object EXCEPT ![o] = [state |-> "freed", header |-> h, cset |-> c]],
         UNCHANGED <<header, ownCHeaderMetadata, initGenerationUID, objectDirectory>>
  PROVE  IInv'
<1> USE ConstantsAssumption DEF ConstantsAssumption
<1>1. uid \in UUIDs
  BY GeneratedIsNew
<1>2. /\ sets' \in [Headers -> Seq(CSets)]
      /\ cset' \in [CSets -> CSetRecords]
      /\ \A d \in CSets \ {c} : cset'[d] = cset[d]
      /\ \A d \in CSets : cset'[d].uid = Nothing <=> cset'[d].state = "unused"
      /\ Lists'
      /\ \A p \in Objects : Live(p) => object[p].cset # c
  BY <1>1, AddedCSet
<1>3. \A p \in Objects : Live(p) => cset'[object[p].cset] = cset[object[p].cset]
  BY <1>2, LiveObject
<1>4. /\ object \in [Objects -> ObjectRecords]
      /\ object'[o] = [state |-> "freed", header |-> h, cset |-> c]
      /\ \A p \in Objects \ {o} : object'[p] = object[p]
  BY DEF IInv, TypeOK
<1>5. object' \in [Objects -> ObjectRecords]
  BY <1>4 DEF ObjectRecords, Lifetimes
<1>6. \A p \in Objects : (Live(p) <=> Live(p)') /\ (Live(p) => object'[p] = object[p])
  BY <1>4 DEF Live
<1>7. TypeOK'
  <2>1. \A p \in Objects : object'[p].cset = Nothing <=> object'[p].state = "unused"
    <3> TAKE p \in Objects
    <3>1. CASE p = o
      BY <3>1, <1>4
    <3>2. CASE p # o
      BY <3>2, <1>4 DEF IInv, TypeOK
    <3> QED BY <3>1, <3>2
  <2> QED BY <2>1, <1>2, <1>5 DEF IInv, TypeOK
<1>8. EntriesAreLive'
  BY <1>3, <1>6 DEF IInv, EntriesAreLive, UIDOf, Open
<1>9. ObjectsAreEntries'
  BY <1>3, <1>6 DEF IInv, ObjectsAreEntries, UIDOf, Open
<1>10. OneObjectPerSet'
  BY <1>6 DEF IInv, OneObjectPerSet
<1>11. OrphansAreOwned'
  BY <1>1, <1>6, AddedKeepsOrphans
<1> QED BY <1>2, <1>7, <1>8, <1>9, <1>10, <1>11 DEF IInv

LEMMA NewObjectPreserves ==
  ASSUME IInv, NEW h \in Headers, NEW c \in CSets, NEW o \in Objects, NEW uid \in GeneratedUIDs,
         cset[c].state = "unused", object[o].state = "unused", newObject(h, c, o, uid)
  PROVE  IInv'
<1>1. CASE /\ object' = [object EXCEPT ![o] = [state |-> "live", header |-> h, cset |-> c]]
           /\ objectDirectory' = Inserted(h, uid, o)
  BY <1>1, CreatePreserves DEF newObject
<1>2. CASE /\ object' = [object EXCEPT ![o] = [state |-> "freed", header |-> h, cset |-> c]]
           /\ UNCHANGED objectDirectory
  BY <1>2, FailedCreatePreserves DEF newObject
<1> QED BY <1>1, <1>2 DEF newObject

LEMMA ClonePreserves ==
  ASSUME IInv, NEW from \in Objects, NEW h \in Headers, NEW c \in CSets, NEW o \in Objects,
         NEW uid \in GeneratedUIDs,
         cset[c].state = "unused", object[o].state = "unused", clone(from, h, c, o, uid)
  PROVE  IInv'
  BY CreatePreserves DEF clone

LEMMA WrapNewPreserves ==
  ASSUME IInv, NEW h \in Headers, NEW c \in CSets, NEW o \in Objects,
         object[o].state = "unused", wrapNew(h, c, o)
  PROVE  IInv'
<1>1. /\ Open(h) /\ cset[c].state = "live" /\ cset[c].header = h
      /\ objectDirectory[h][cset[c].uid] = Nothing
      /\ object' = [object EXCEPT ![o] = [state |-> "live", header |-> h, cset |-> c]]
      /\ objectDirectory' = Inserted(h, cset[c].uid, o)
      /\ UNCHANGED <<header, ownCHeaderMetadata, initGenerationUID, sets, cset>>
  BY DEF wrapNew
<1>2. cset \in [CSets -> CSetRecords]
  BY DEF IInv, TypeOK
<1>3. cset[c].uid \in UUIDs
  BY <1>1, <1>2 DEF IInv, TypeOK, CSetRecords
<1>4. ASSUME NEW p \in Objects, Live(p), object[p].cset = c PROVE FALSE
  <2>0. /\ objectDirectory[object[p].header][UIDOf(p)] = p
        /\ cset[object[p].cset].header \in {object[p].header, Nothing}
    BY <1>4, LiveObject
  <2>1. UIDOf(p) = cset[c].uid /\ object[p].header = h
    BY <1>1, <1>4, <2>0, ConstantsAssumption DEF ConstantsAssumption, UIDOf
  <2> QED BY <2>0, <1>1, <2>1, ConstantsAssumption DEF ConstantsAssumption
<1>5. /\ object' \in [Objects -> ObjectRecords]
      /\ objectDirectory' \in [Headers -> [UUIDs -> Objects \cup {Nothing}]]
      /\ \A p \in Objects : object'[p].cset = Nothing <=> object'[p].state = "unused"
      /\ \A p \in Objects : Live(p) => Live(p)' /\ object'[p].cset = object[p].cset
      /\ EntriesAreLive' /\ ObjectsAreEntries' /\ OneObjectPerSet'
  <2>1. /\ UNCHANGED header
        /\ cset' \in [CSets -> CSetRecords]
        /\ cset'[c].state = "live" /\ cset'[c].header = h /\ cset'[c].uid = cset[c].uid
        /\ \A p \in Objects : Live(p) => cset'[object[p].cset] = cset[object[p].cset]
        /\ \A p \in Objects : Live(p) => object[p].cset # c
    BY <1>1, <1>2, <1>4
  <2> QED BY <1>1, <1>3, <2>1, NewWrapper
<1>6. TypeOK'
  BY <1>1, <1>5 DEF IInv, TypeOK
<1>7. Lists'
  BY <1>1 DEF IInv, Lists
<1>8. OrphansAreOwned'
  BY <1>1, <1>5 DEF IInv, OrphansAreOwned, IsOrphan
<1> QED BY <1>5, <1>6, <1>7, <1>8 DEF IInv

LEMMA WrapKnownPreserves ==
  ASSUME IInv, NEW h \in Headers, NEW c \in CSets, wrapKnown(h, c)
  PROVE  IInv'
<1> USE ConstantsAssumption DEF ConstantsAssumption
<1> DEFINE o == objectDirectory[h][cset[c].uid]
<1>1. /\ Open(h) /\ cset[c].state = "live" /\ cset[c].header = h
      /\ o # Nothing
      /\ object' = [object EXCEPT ![o].cset = c]
      /\ UNCHANGED <<header, ownCHeaderMetadata, initGenerationUID, sets, cset, objectDirectory>>
  BY DEF wrapKnown
<1>2. cset[c].uid \in UUIDs
  BY <1>1 DEF IInv, TypeOK, CSetRecords
<1>3. o \in Objects
  BY <1>1, <1>2 DEF IInv, TypeOK
<1>4. Live(o) /\ object[o].header = h /\ UIDOf(o) = cset[c].uid
  BY <1>2, <1>3 DEF IInv, EntriesAreLive
<1>5. objectDirectory[h][cset[c].uid] = o
  OBVIOUS
<1> HIDE DEF o
<1>6. object \in [Objects -> ObjectRecords]
  BY DEF IInv, TypeOK
<1>7. /\ object' \in [Objects -> ObjectRecords]
      /\ object'[o].cset = c /\ object'[o].header = h /\ object'[o].state = "live"
      /\ \A p \in Objects \ {o} : object'[p] = object[p]
  BY <1>1, <1>3, <1>4, <1>6 DEF ObjectRecords, Live
<1>8. \A p \in Objects : /\ Live(p) <=> Live(p)'
                         /\ object'[p].header = object[p].header
                         /\ Live(p) => UIDOf(p)' = UIDOf(p)
  <2> TAKE p \in Objects
  <2>1. CASE p = o
    BY <2>1, <1>1, <1>4, <1>7 DEF Live, UIDOf
  <2>2. CASE p # o
    BY <2>2, <1>1, <1>7 DEF Live, UIDOf
  <2> QED BY <2>1, <2>2
<1>9. TypeOK'
  <2>1. \A p \in Objects : object'[p].cset = Nothing <=> object'[p].state = "unused"
    <3> TAKE p \in Objects
    <3>1. CASE p = o
      BY <3>1, <1>7
    <3>2. CASE p # o
      BY <3>2, <1>7 DEF IInv, TypeOK
    <3> QED BY <3>1, <3>2
  <2> QED BY <2>1, <1>1, <1>7 DEF IInv, TypeOK
<1>10. EntriesAreLive'
  <2> SUFFICES ASSUME NEW g \in Headers, NEW u \in UUIDs, NEW p \in Objects,
                      objectDirectory[g][u] = p
               PROVE  /\ Open(g)
                      /\ Live(p)' /\ object'[p].header = g
                      /\ cset[object'[p].cset].state = "live"
                      /\ UIDOf(p)' = u
                      /\ cset[object'[p].cset].header \in {g, Nothing}
    BY <1>1 DEF EntriesAreLive, Open
  <2>1. /\ Open(g) /\ Live(p) /\ object[p].header = g
        /\ cset[object[p].cset].state = "live"
        /\ UIDOf(p) = u
        /\ cset[object[p].cset].header \in {g, Nothing}
    BY DEF IInv, EntriesAreLive
  <2>2. CASE p = o
    BY <2>1, <2>2, <1>1, <1>4, <1>7, <1>8
  <2>3. CASE p # o
    BY <2>1, <2>3, <1>7, <1>8
  <2> QED BY <2>2, <2>3
<1>11. ObjectsAreEntries'
  <2> SUFFICES ASSUME NEW p \in Objects, Live(p)'
               PROVE  /\ object'[p].header \in Headers /\ Open(object[p].header)'
                      /\ object'[p].cset \in CSets /\ UIDOf(p)' \in UUIDs
                      /\ objectDirectory[object'[p].header][UIDOf(p)'] = p
    BY <1>1 DEF ObjectsAreEntries
  <2>1. Live(p)
    BY <1>8
  <2>2. /\ object[p].header \in Headers /\ Open(object[p].header)
        /\ object[p].cset \in CSets /\ UIDOf(p) \in UUIDs
        /\ objectDirectory[object[p].header][UIDOf(p)] = p
    BY <2>1, LiveObject
  <2>3. object'[p].cset \in CSets
    BY <2>2, <1>7
  <2>4. Open(object[p].header)'
    BY <2>2, <1>1, <1>8 DEF Open
  <2> QED BY <2>1, <2>2, <2>3, <2>4, <1>8
<1>12. OneObjectPerSet'
  <2>1. ASSUME NEW p \in Objects, Live(p), object[p].cset = c PROVE p = o
    <3>1. /\ object[p].header = h
          /\ objectDirectory[object[p].header][cset[c].uid] = p
      BY <2>1, <1>1, LiveObject DEF UIDOf
    <3> QED BY <3>1, <1>5
  <2> SUFFICES ASSUME NEW p \in Objects, NEW q \in Objects, Live(p)', Live(q)',
                      object'[p].cset = object'[q].cset
               PROVE  p = q
    BY DEF OneObjectPerSet
  <2>2. Live(p) /\ Live(q)
    BY <1>8
  <2>3. CASE p # o /\ q # o
    BY <2>2, <2>3, <1>7 DEF IInv, OneObjectPerSet
  <2>4. CASE p = o \/ q = o
    BY <2>1, <2>2, <2>4, <1>7
  <2> QED BY <2>3, <2>4
<1>13. Lists'
  BY <1>1 DEF IInv, Lists
<1>14. OrphansAreOwned'
  <2> SUFFICES ASSUME NEW d \in CSets, IsOrphan(d)
               PROVE  \/ \E p \in Objects : Live(p)' /\ object'[p].cset = d
                      \/ \E e \in CSets \ {d} : cset[e].uid = cset[d].uid
    BY <1>1 DEF OrphansAreOwned, IsOrphan
  <2>1. CASE \E e \in CSets \ {d} : cset[e].uid = cset[d].uid
    BY <2>1
  <2>2. CASE Live(o) /\ object[o].cset = d
    <3>1. c # d /\ cset[c].uid = cset[d].uid
      BY <2>2, <1>1, <1>4 DEF IsOrphan, UIDOf
    <3> QED BY <3>1
  <2>3. CASE \E p \in Objects \ {o} : Live(p) /\ object[p].cset = d
    BY <2>3, <1>7, <1>8
  <2> QED BY <2>1, <2>2, <2>3, <1>3 DEF IInv, OrphansAreOwned
<1> QED BY <1>9, <1>10, <1>11, <1>12, <1>13, <1>14 DEF IInv

\* Moving a set does not change which sets are listed, nor the directory.
LEMMA MovePreserves ==
  ASSUME IInv, NEW h \in Headers, NEW o \in Objects, moveToEnd(h, o)
  PROVE  IInv'
<1> DEFINE c == object[o].cset
<1>1. /\ Live(o) /\ object[o].header = h
      /\ objectDirectory' = Inserted(h, UIDOf(o), o)
      /\ UNCHANGED <<header, ownCHeaderMetadata, initGenerationUID, cset, object>>
  BY DEF moveToEnd
<1>2. PICK i \in DOMAIN sets[h] :
        /\ sets[h][i] = c
        /\ sets' = [sets EXCEPT ![h] = Append(RemoveAt(sets[h], i), c)]
  BY DEF moveToEnd, MovedFrom
<1>3. c \in CSets /\ objectDirectory[h][UIDOf(o)] = o /\ UIDOf(o) \in UUIDs
  BY <1>1, LiveObject
<1> HIDE DEF c
<1>4. objectDirectory' = objectDirectory
  BY <1>1, <1>3, ConstantsAssumption DEF Inserted, ConstantsAssumption, IInv, TypeOK
<1>5. sets \in [Headers -> Seq(CSets)]
  BY DEF IInv, TypeOK
<1>6. sets[h] \in Seq(CSets) /\ NoRepeat(sets[h])
  BY <1>5 DEF IInv, Lists
<1> DEFINE r == RemoveAt(sets[h], i)
<1>7. /\ r \in Seq(CSets) /\ NoRepeat(r)
      /\ \A d : Listed(r, d) <=> Listed(sets[h], d) /\ d # c
  BY <1>2, <1>6, RemoveFromList
<1>8. sets' = [sets EXCEPT ![h] = Append(r, c)]
  BY <1>2
<1> HIDE DEF r
<1>9. /\ Append(r, c) \in Seq(CSets) /\ NoRepeat(Append(r, c))
      /\ \A d : Listed(Append(r, c), d) <=> Listed(r, d) \/ d = c
  BY <1>3, <1>7, AppendToList
<1>10. Listed(sets[h], c)
  BY <1>2 DEF Listed
<1>11. /\ \A g \in Headers \ {h} : sets'[g] = sets[g]
       /\ sets'[h] = Append(r, c)
       /\ sets' \in [Headers -> Seq(CSets)]
  BY <1>5, <1>8, <1>9
<1>12. \A g \in Headers : NoRepeat(sets'[g]) /\ \A d : Listed(sets'[g], d) <=> Listed(sets[g], d)
  <2> TAKE g \in Headers
  <2>1. CASE g = h
    BY <2>1, <1>7, <1>9, <1>10, <1>11
  <2>2. CASE g # h
    BY <2>2, <1>11 DEF IInv, Lists
  <2> QED BY <2>1, <2>2
<1>13. Lists'
  BY <1>1, <1>12 DEF IInv, Lists, NoRepeat, Listed
<1>14. TypeOK'
  BY <1>1, <1>4, <1>11 DEF IInv, TypeOK
<1>15. EntriesAreLive' /\ ObjectsAreEntries'
  BY <1>1, <1>4 DEF IInv, EntriesAreLive, ObjectsAreEntries, Open, Live, UIDOf
<1>16. OneObjectPerSet' /\ OrphansAreOwned'
  BY <1>1 DEF IInv, OneObjectPerSet, OrphansAreOwned, Live, IsOrphan
<1> QED BY <1>13, <1>14, <1>15, <1>16 DEF IInv

\* A move that fails makes the object the owner of its set.
LEMMA FailedMovePreserves ==
  ASSUME IInv, NEW h \in Headers, NEW o \in Objects, moveToEndFails(h, o)
  PROVE  IInv'
<1> USE ConstantsAssumption DEF ConstantsAssumption
<1> DEFINE c == object[o].cset
<1>1. /\ Live(o) /\ object[o].header = h
      /\ cset' = [cset EXCEPT ![c].header = Nothing]
      /\ UNCHANGED <<header, ownCHeaderMetadata, initGenerationUID, object, objectDirectory>>
  BY DEF moveToEndFails
<1>2. PICK i \in DOMAIN sets[h] :
        /\ sets[h][i] = c
        /\ sets' = [sets EXCEPT ![h] = RemoveAt(sets[h], i)]
  BY DEF moveToEndFails, RemovedAt
<1>3. c \in CSets /\ cset[c].state = "live" /\ cset[c].header \in {h, Nothing}
  BY <1>1, LiveObject
<1>4. object[o].cset = c
  OBVIOUS
<1> HIDE DEF c
<1>5. sets \in [Headers -> Seq(CSets)] /\ cset \in [CSets -> CSetRecords]
  BY DEF IInv, TypeOK
<1>6. sets[h] \in Seq(CSets) /\ NoRepeat(sets[h])
  BY <1>5 DEF IInv, Lists
<1> DEFINE r == RemoveAt(sets[h], i)
<1>7. /\ r \in Seq(CSets) /\ NoRepeat(r)
      /\ \A d : Listed(r, d) <=> Listed(sets[h], d) /\ d # c
  BY <1>2, <1>6, RemoveFromList
<1>8. sets' = [sets EXCEPT ![h] = r]
  BY <1>2
<1> HIDE DEF r
<1>9. /\ \A g \in Headers \ {h} : sets'[g] = sets[g]
      /\ sets'[h] = r
      /\ sets' \in [Headers -> Seq(CSets)]
  BY <1>5, <1>7, <1>8
<1>10. /\ cset' \in [CSets -> CSetRecords]
       /\ cset'[c].state = cset[c].state /\ cset'[c].uid = cset[c].uid
       /\ cset'[c].header = Nothing
       /\ \A d \in CSets \ {c} : cset'[d] = cset[d]
  BY ZenonT(60), <1>1, <1>3, <1>5 DEF CSetRecords
<1>11. \A d \in CSets : cset'[d].state = cset[d].state /\ cset'[d].uid = cset[d].uid
  BY <1>10
<1>12. TypeOK'
  BY <1>1, <1>9, <1>10, <1>11 DEF IInv, TypeOK
<1>13. Lists'
  <2> SUFFICES ASSUME NEW g \in Headers
               PROVE  /\ NoRepeat(sets'[g])
                      /\ \A d \in CSets : Listed(sets'[g], d) <=> (cset'[d].state = "live" /\ cset'[d].header = g)
    BY DEF Lists, NoRepeat, Listed
  <2>1. NoRepeat(sets[g]) /\ \A d \in CSets : Listed(sets[g], d) <=> (cset[d].state = "live" /\ cset[d].header = g)
    BY DEF IInv, Lists
  <2>2. CASE g = h
    BY <2>1, <2>2, <1>7, <1>9, <1>10
  <2>3. CASE g # h
    <3>1. Listed(sets[h], c)
      BY <1>2 DEF Listed
    <3>2. cset[c].header = h
      BY <3>1, <1>3 DEF IInv, Lists
    <3> QED BY ZenonT(60), <2>1, <2>3, <3>2, <1>9, <1>10
  <2> QED BY <2>2, <2>3
<1>14. \A p \in Objects : Live(p) => /\ UIDOf(p)' = UIDOf(p)
                                    /\ cset'[object[p].cset].state = cset[object[p].cset].state
                                    /\ cset'[object[p].cset].header \in {cset[object[p].cset].header, Nothing}
  <2> SUFFICES ASSUME NEW p \in Objects, Live(p)
               PROVE  /\ UIDOf(p)' = UIDOf(p)
                      /\ cset'[object[p].cset].state = cset[object[p].cset].state
                      /\ cset'[object[p].cset].header \in {cset[object[p].cset].header, Nothing}
    OBVIOUS
  <2>1. object[p].cset \in CSets
    BY LiveObject
  <2> QED BY <2>1, <1>1, <1>10, <1>11 DEF UIDOf
<1>15. EntriesAreLive'
  BY <1>1, <1>14 DEF IInv, EntriesAreLive, Live, Open
<1>16. ObjectsAreEntries'
  BY <1>1, <1>14 DEF IInv, ObjectsAreEntries, Live, Open
<1>17. OneObjectPerSet'
  BY <1>1 DEF IInv, OneObjectPerSet, Live
<1>18. OrphansAreOwned'
  <2> SUFFICES ASSUME NEW d \in CSets, IsOrphan(d)'
               PROVE  \/ \E p \in Objects : Live(p)' /\ object'[p].cset = d
                      \/ \E e \in CSets \ {d} : cset'[e].uid = cset'[d].uid
    BY DEF OrphansAreOwned
  <2>1. CASE d = c
    BY <2>1, <1>1, <1>4 DEF Live
  <2>2. CASE d # c
    <3>1. IsOrphan(d)
      BY <2>2, <1>10 DEF IsOrphan
    <3> QED BY <3>1, <1>1, <1>11 DEF IInv, OrphansAreOwned, Live
  <2> QED BY <2>1, <2>2
<1> QED BY <1>12, <1>13, <1>15, <1>16, <1>17, <1>18 DEF IInv

\* A deleted object leaves the entry of its own instance UID, and no other.
LEMMA DeleteObjectPreserves ==
  ASSUME IInv, ~DeletesOrphans, NEW o \in Objects, deleteObject(o)
  PROVE  IInv'
<1> USE ConstantsAssumption DEF ConstantsAssumption
<1> DEFINE h == object[o].header
           uid == UIDOf(o)
<1>1. /\ Live(o)
      /\ ~IsOrphan(object[o].cset)
      /\ object' = [object EXCEPT ![o] = [object[o] EXCEPT !.state = "freed"]]
      /\ objectDirectory' = [objectDirectory EXCEPT ![h][uid] = Nothing]
      /\ UNCHANGED <<header, ownCHeaderMetadata, initGenerationUID, sets, cset>>
  BY DEF deleteObject, FreedObject, Removed, UIDOf
<1>2. /\ h \in Headers /\ uid \in UUIDs
      /\ objectDirectory[h][uid] = o
  BY <1>1, LiveObject
<1>3. object[o].header = h /\ UIDOf(o) = uid
  OBVIOUS
<1> HIDE DEF h, uid
<1>4. /\ object \in [Objects -> ObjectRecords]
      /\ objectDirectory \in [Headers -> [UUIDs -> Objects \cup {Nothing}]]
  BY DEF IInv, TypeOK
<1>5. /\ object' \in [Objects -> ObjectRecords]
      /\ object'[o].state = "freed" /\ object'[o].cset = object[o].cset
      /\ \A p \in Objects \ {o} : object'[p] = object[p]
  BY <1>1, <1>4 DEF ObjectRecords, Lifetimes
<1>6. /\ objectDirectory' \in [Headers -> [UUIDs -> Objects \cup {Nothing}]]
      /\ objectDirectory'[h][uid] = Nothing
      /\ \A g \in Headers, u \in UUIDs :
           g # h \/ u # uid => objectDirectory'[g][u] = objectDirectory[g][u]
  BY <1>1, <1>2, <1>4
<1>7. \A p \in Objects : Live(p)' <=> Live(p) /\ p # o
  BY <1>5 DEF Live
<1>8. \A p \in Objects \ {o} : UIDOf(p)' = UIDOf(p)
  BY <1>1, <1>5 DEF UIDOf
<1>9. TypeOK'
  <2>1. \A p \in Objects : object'[p].cset = Nothing <=> object'[p].state = "unused"
    <3> TAKE p \in Objects
    <3>1. CASE p = o
      BY <3>1, <1>1, <1>5 DEF IInv, TypeOK, Live
    <3>2. CASE p # o
      BY <3>2, <1>5 DEF IInv, TypeOK
    <3> QED BY <3>1, <3>2
  <2> QED BY <2>1, <1>1, <1>5, <1>6 DEF IInv, TypeOK
<1>10. EntriesAreLive'
  <2> SUFFICES ASSUME NEW g \in Headers, NEW u \in UUIDs, NEW p \in Objects,
                      objectDirectory'[g][u] = p
               PROVE  /\ Open(g)
                      /\ Live(p)' /\ object'[p].header = g
                      /\ cset[object'[p].cset].state = "live"
                      /\ UIDOf(p)' = u
                      /\ cset[object'[p].cset].header \in {g, Nothing}
    BY <1>1 DEF EntriesAreLive, Open
  <2>1. ~(g = h /\ u = uid) /\ objectDirectory[g][u] = p
    BY <1>6
  <2>2. /\ Open(g) /\ Live(p) /\ object[p].header = g
        /\ cset[object[p].cset].state = "live"
        /\ UIDOf(p) = u
        /\ cset[object[p].cset].header \in {g, Nothing}
    BY <2>1 DEF IInv, EntriesAreLive
  <2>3. p # o
    BY <2>1, <2>2, <1>3
  <2> QED BY <2>2, <2>3, <1>5, <1>7, <1>8
<1>11. ObjectsAreEntries'
  <2> SUFFICES ASSUME NEW p \in Objects, Live(p)'
               PROVE  /\ object'[p].header \in Headers /\ Open(object[p].header)'
                      /\ object'[p].cset \in CSets /\ UIDOf(p)' \in UUIDs
                      /\ objectDirectory'[object'[p].header][UIDOf(p)'] = p
    BY DEF ObjectsAreEntries
  <2>1. Live(p) /\ p # o /\ object'[p] = object[p] /\ UIDOf(p)' = UIDOf(p)
    BY <1>5, <1>7, <1>8
  <2>2. /\ object[p].header \in Headers /\ Open(object[p].header)
        /\ object[p].cset \in CSets /\ UIDOf(p) \in UUIDs
        /\ objectDirectory[object[p].header][UIDOf(p)] = p
    BY <2>1, LiveObject
  <2>3. object[p].header # h \/ UIDOf(p) # uid
    BY <2>1, <2>2, <1>2
  <2>4. Open(object[p].header)'
    BY <2>1, <2>2, <1>1 DEF Open
  <2> QED BY <2>1, <2>2, <2>3, <2>4, <1>6
<1>12. OneObjectPerSet'
  BY <1>5, <1>7 DEF IInv, OneObjectPerSet
<1>13. Lists'
  BY <1>1 DEF IInv, Lists
<1>14. OrphansAreOwned'
  <2> SUFFICES ASSUME NEW d \in CSets, IsOrphan(d)
               PROVE  \/ \E p \in Objects : Live(p)' /\ object'[p].cset = d
                      \/ \E e \in CSets \ {d} : cset[e].uid = cset[d].uid
    BY <1>1 DEF OrphansAreOwned, IsOrphan
  <2>1. object[o].cset # d
    BY <1>1
  <2> QED BY <2>1, <1>5, <1>7 DEF IInv, OrphansAreOwned
<1> QED BY <1>9, <1>10, <1>11, <1>12, <1>13, <1>14 DEF IInv

\* When a header metadata goes, its objects and the C sets that it or they own
\* go with it, and nothing of another header metadata does.
LEMMA DeleteHeaderPreserves ==
  ASSUME IInv, NEW h \in Headers, deleteHeaderMetadata(h)
  PROVE  IInv'
<1> USE ConstantsAssumption DEF ConstantsAssumption
<1>1. /\ Open(h)
      /\ header' = [header EXCEPT ![h] = "freed"]
      /\ object' = [o \in Objects |->
                      IF o \in InDirectory(h) THEN [[object[o] EXCEPT !.state = "freed"] EXCEPT !.header = Nothing]
                      ELSE object[o]]
      /\ cset' = [c \in CSets |-> IF c \in FreedWith(h) THEN [cset[c] EXCEPT !.state = "freed"] ELSE cset[c]]
      /\ sets' = [sets EXCEPT ![h] = IF ownCHeaderMetadata[h] THEN <<>> ELSE sets[h]]
      /\ objectDirectory' = [objectDirectory EXCEPT ![h] = [u \in UUIDs |-> Nothing]]
      /\ UNCHANGED <<ownCHeaderMetadata, initGenerationUID>>
  BY DEF deleteHeaderMetadata, FreedObject, FreedCSet
<1>2. /\ header \in [Headers -> Lifetimes]
      /\ sets \in [Headers -> Seq(CSets)]
      /\ cset \in [CSets -> CSetRecords]
      /\ object \in [Objects -> ObjectRecords]
      /\ objectDirectory \in [Headers -> [UUIDs -> Objects \cup {Nothing}]]
  BY DEF IInv, TypeOK
\* The objects that go are the live ones of this header metadata.
<1>3. \A o \in Objects : o \in InDirectory(h) <=> Live(o) /\ object[o].header = h
  <2> TAKE o \in Objects
  <2>1. ASSUME o \in InDirectory(h) PROVE Live(o) /\ object[o].header = h
    BY <2>1 DEF InDirectory, IInv, EntriesAreLive
  <2>2. ASSUME Live(o), object[o].header = h PROVE o \in InDirectory(h)
    <3>1. UIDOf(o) \in UUIDs /\ objectDirectory[h][UIDOf(o)] = o
      BY <2>2, LiveObject
    <3> QED BY <3>1 DEF InDirectory
  <2> QED BY <2>1, <2>2
\* The sets that go are live.
<1>4. \A c \in CSets : c \in FreedWith(h) =>
        /\ cset[c].state = "live"
        /\ \/ cset[c].header = h /\ ownCHeaderMetadata[h]
           \/ cset[c].header = Nothing /\ \E o \in Objects : Live(o) /\ object[o].header = h /\ object[o].cset = c
  <2> TAKE c \in CSets
  <2> HAVE c \in FreedWith(h)
  <2>1. CASE IsOrphan(c) /\ \E o \in InDirectory(h) : object[o].cset = c
    <3>1. InDirectory(h) \subseteq Objects
      BY <1>2 DEF InDirectory
    <3> QED BY <2>1, <3>1, <1>3 DEF IsOrphan
  <2>2. CASE ownCHeaderMetadata[h] /\ Listed(sets[h], c)
    BY <2>2 DEF IInv, Lists
  <2> QED BY <2>1, <2>2 DEF FreedWith, Listed
<1>5. \A c \in CSets : cset[c].state = "live" /\ cset[c].header = h /\ ownCHeaderMetadata[h]
                        => c \in FreedWith(h)
  <2> TAKE c \in CSets
  <2> HAVE cset[c].state = "live" /\ cset[c].header = h /\ ownCHeaderMetadata[h]
  <2>1. Listed(sets[h], c)
    BY DEF IInv, Lists
  <2> QED BY <2>1 DEF Listed, FreedWith
<1>6. /\ cset' \in [CSets -> CSetRecords]
      /\ \A c \in CSets : cset'[c].header = cset[c].header /\ cset'[c].uid = cset[c].uid
      /\ \A c \in CSets : c \in FreedWith(h) => cset'[c].state = "freed"
      /\ \A c \in CSets : c \notin FreedWith(h) => cset'[c] = cset[c]
  BY ZenonT(60), <1>1, <1>2 DEF CSetRecords, Lifetimes
<1>7. /\ object' \in [Objects -> ObjectRecords]
      /\ \A o \in Objects : object'[o].cset = object[o].cset
      /\ \A o \in Objects : o \in InDirectory(h) => object'[o].state = "freed"
      /\ \A o \in Objects : o \notin InDirectory(h) => object'[o] = object[o]
  BY ZenonT(60), <1>1, <1>2 DEF ObjectRecords, Lifetimes
<1>8. \A o \in Objects : Live(o)' <=> Live(o) /\ object[o].header # h
  BY <1>3, <1>7 DEF Live
\* What is left of another header metadata's objects.
<1>9. ASSUME NEW o \in Objects, Live(o)'
      PROVE  /\ Live(o) /\ object'[o] = object[o] /\ object[o].header # h
             /\ cset'[object[o].cset] = cset[object[o].cset]
             /\ UIDOf(o)' = UIDOf(o)
  <2>1. Live(o) /\ object[o].header # h /\ object'[o] = object[o]
    BY <1>3, <1>7, <1>8, <1>9
  <2>2. /\ object[o].cset \in CSets
        /\ cset[object[o].cset].header \in {object[o].header, Nothing}
    BY <2>1, LiveObject
  <2>3. object[o].cset \notin FreedWith(h)
    BY <2>1, <2>2, <1>4 DEF IInv, OneObjectPerSet
  <2> QED BY <2>1, <2>2, <2>3, <1>6 DEF UIDOf
<1>10. /\ objectDirectory' \in [Headers -> [UUIDs -> Objects \cup {Nothing}]]
       /\ \A u \in UUIDs : objectDirectory'[h][u] = Nothing
       /\ \A g \in Headers \ {h} : objectDirectory'[g] = objectDirectory[g]
  BY <1>1, <1>2
<1>11. /\ header' \in [Headers -> Lifetimes]
       /\ \A g \in Headers \ {h} : Open(g)' <=> Open(g)
  BY <1>1, <1>2 DEF Lifetimes, Open
<1>12. TypeOK'
  <2>1. sets' \in [Headers -> Seq(CSets)]
    BY <1>1, <1>2, EmptySeq
  <2>2. \A c \in CSets : cset'[c].uid = Nothing <=> cset'[c].state = "unused"
    <3> TAKE c \in CSets
    <3>1. CASE c \in FreedWith(h)
      BY ZenonT(60), <3>1, <1>4, <1>6 DEF IInv, TypeOK
    <3>2. CASE c \notin FreedWith(h)
      BY <3>2, <1>6 DEF IInv, TypeOK
    <3> QED BY <3>1, <3>2
  <2>3. \A o \in Objects : object'[o].cset = Nothing <=> object'[o].state = "unused"
    <3> TAKE o \in Objects
    <3>1. CASE o \in InDirectory(h)
      BY <3>1, <1>3, <1>7 DEF IInv, TypeOK, Live
    <3>2. CASE o \notin InDirectory(h)
      BY <3>2, <1>7 DEF IInv, TypeOK
    <3> QED BY <3>1, <3>2
  <2> QED BY <2>1, <2>2, <2>3, <1>1, <1>6, <1>7, <1>10, <1>11 DEF IInv, TypeOK
<1>13. EntriesAreLive'
  <2> SUFFICES ASSUME NEW g \in Headers, NEW u \in UUIDs, NEW o \in Objects,
                      objectDirectory'[g][u] = o
               PROVE  /\ Open(g)'
                      /\ Live(o)' /\ object'[o].header = g
                      /\ cset'[object'[o].cset].state = "live"
                      /\ UIDOf(o)' = u
                      /\ cset'[object'[o].cset].header \in {g, Nothing}
    BY DEF EntriesAreLive
  <2>1. g # h /\ objectDirectory[g][u] = o
    BY <1>10
  <2>2. /\ Open(g) /\ Live(o) /\ object[o].header = g
        /\ cset[object[o].cset].state = "live"
        /\ UIDOf(o) = u
        /\ cset[object[o].cset].header \in {g, Nothing}
    BY <2>1 DEF IInv, EntriesAreLive
  <2>3. Live(o)'
    BY <2>1, <2>2, <1>8
  <2> QED BY <2>1, <2>2, <2>3, <1>9, <1>11
<1>14. ObjectsAreEntries'
  <2> SUFFICES ASSUME NEW o \in Objects, Live(o)'
               PROVE  /\ object'[o].header \in Headers /\ Open(object[o].header)'
                      /\ object'[o].cset \in CSets /\ UIDOf(o)' \in UUIDs
                      /\ objectDirectory'[object'[o].header][UIDOf(o)'] = o
    BY DEF ObjectsAreEntries
  <2>1. Live(o) /\ object'[o] = object[o] /\ object[o].header # h /\ UIDOf(o)' = UIDOf(o)
    BY <1>9
  <2>2. /\ object[o].header \in Headers /\ Open(object[o].header)
        /\ object[o].cset \in CSets /\ UIDOf(o) \in UUIDs
        /\ objectDirectory[object[o].header][UIDOf(o)] = o
    BY <2>1, LiveObject
  <2>3. Open(object[o].header)'
    BY <2>1, <2>2, <1>1, <1>2, <1>7 DEF Open
  <2> QED BY <2>1, <2>2, <2>3, <1>10
<1>15. OneObjectPerSet'
  <2> SUFFICES ASSUME NEW o \in Objects, NEW p \in Objects, Live(o)', Live(p)',
                      object'[o].cset = object'[p].cset
               PROVE  o = p
    BY DEF OneObjectPerSet
  <2> QED BY <1>9 DEF IInv, OneObjectPerSet
<1>16. Lists'
  <2> SUFFICES ASSUME NEW g \in Headers
               PROVE  /\ NoRepeat(sets'[g])
                      /\ \A c \in CSets : Listed(sets'[g], c) <=> (cset'[c].state = "live" /\ cset'[c].header = g)
    BY DEF Lists, NoRepeat, Listed
  <2>1. /\ NoRepeat(sets[g])
        /\ \A c \in CSets : Listed(sets[g], c) <=> (cset[c].state = "live" /\ cset[c].header = g)
    BY DEF IInv, Lists
  <2>2. CASE g = h /\ ownCHeaderMetadata[h]
    <3>1. sets'[g] = <<>>
      BY <2>2, <1>1, <1>2
    <3>2. NoRepeat(sets'[g]) /\ \A c \in CSets : ~Listed(sets'[g], c)
      BY <3>1 DEF NoRepeat, Listed
    <3>3. \A c \in CSets : ~(cset'[c].state = "live" /\ cset'[c].header = g)
      BY <2>2, <1>5, <1>6
    <3> QED BY <3>2, <3>3
  <2>3. CASE ~(g = h /\ ownCHeaderMetadata[h])
    <3>1. sets'[g] = sets[g]
      BY <2>3, <1>1, <1>2
    <3>2. \A c \in CSets : cset[c].header = g => c \notin FreedWith(h)
      BY <2>3, <1>4
    <3>3. \A c \in CSets : (cset'[c].state = "live" /\ cset'[c].header = g)
                             <=> (cset[c].state = "live" /\ cset[c].header = g)
      BY <3>2, <1>6
    <3> QED BY <2>1, <3>1, <3>3
  <2> QED BY <2>2, <2>3
<1>17. OrphansAreOwned'
  <2> SUFFICES ASSUME NEW d \in CSets, IsOrphan(d)'
               PROVE  \/ \E p \in Objects : Live(p)' /\ object'[p].cset = d
                      \/ \E e \in CSets \ {d} : cset'[e].uid = cset'[d].uid
    BY DEF OrphansAreOwned
  <2>1. d \notin FreedWith(h) /\ IsOrphan(d)
    BY <1>6 DEF IsOrphan
  <2>2. CASE \E e \in CSets \ {d} : cset[e].uid = cset[d].uid
    BY <2>2, <1>6
  <2>3. CASE \E p \in Objects : Live(p) /\ object[p].cset = d
    <3>1. PICK p \in Objects : Live(p) /\ object[p].cset = d
      BY <2>3
    <3>2. p \notin InDirectory(h)
      BY <2>1, <3>1 DEF FreedWith
    <3> QED BY <3>1, <3>2, <1>7 DEF Live
  <2> QED BY <2>1, <2>2, <2>3 DEF IInv, OrphansAreOwned
<1> QED BY <1>12, <1>13, <1>14, <1>15, <1>16, <1>17 DEF IInv

-----------------------------------------------------------------------------
(* The theorems *)

LEMMA NextPreservesIInv ==
  ASSUME ~DeletesOrphans, IInv, [Next]_vars
  PROVE  IInv'
<1>1. ASSUME NEW h \in Headers,
             \/ newHeaderMetadata(h)
             \/ \E own \in BOOLEAN : wrapHeaderMetadata(h, own)
             \/ \E enable \in BOOLEAN : setGenerationUIDInit(h, enable)
      PROVE  IInv'
  BY <1>1, HeaderPreserves
<1>2. ASSUME NEW h \in Headers, NEW c \in Next1(NewCSets), NEW u \in UUIDs, read(h, c, u)
      PROVE  IInv'
  BY <1>2, NextIsNew, ReadPreserves
<1>3. ASSUME NEW h \in Headers, NEW c \in Next1(NewCSets), NEW o \in Next1(NewObjects),
             NEW u \in GeneratedUIDs, newObject(h, c, o, u)
      PROVE  IInv'
  BY <1>3, NextIsNew, NewObjectPreserves
<1>4. ASSUME NEW h \in Headers, NEW c \in CSets, wrapKnown(h, c)
      PROVE  IInv'
  BY <1>4, WrapKnownPreserves
<1>5. ASSUME NEW h \in Headers, NEW c \in CSets, NEW o \in Next1(NewObjects), wrapNew(h, c, o)
      PROVE  IInv'
  BY <1>5, NextIsNew, WrapNewPreserves
<1>6. ASSUME NEW h \in Headers, NEW from \in Objects, NEW c \in Next1(NewCSets),
             NEW o \in Next1(NewObjects), NEW u \in GeneratedUIDs, clone(from, h, c, o, u)
      PROVE  IInv'
  BY <1>6, NextIsNew, ClonePreserves
<1>7. ASSUME NEW h \in Headers, NEW o \in Objects, moveToEnd(h, o) \/ moveToEndFails(h, o)
      PROVE  IInv'
  BY <1>7, MovePreserves, FailedMovePreserves
<1>8. ASSUME NEW h \in Headers, deleteHeaderMetadata(h)
      PROVE  IInv'
  BY <1>8, DeleteHeaderPreserves
<1>9. ASSUME NEW o \in Objects, deleteObject(o)
      PROVE  IInv'
  BY <1>9, DeleteObjectPreserves
<1>10. CASE UNCHANGED vars
  BY <1>10 DEF vars, IInv, TypeOK, EntriesAreLive, ObjectsAreEntries, Lists, OneObjectPerSet,
               OrphansAreOwned, Open, Live, UIDOf, IsOrphan
<1> QED BY <1>1, <1>2, <1>3, <1>4, <1>5, <1>6, <1>7, <1>8, <1>9, <1>10 DEF Next

\* All parts of the invariant hold together in every behaviour of a client that
\* does not delete an object whose set a failed moveToEnd took out of its list.
THEOREM Invariance == ~DeletesOrphans => (Spec => []IInv)
<1> SUFFICES ASSUME ~DeletesOrphans PROVE Spec => []IInv
  OBVIOUS
<1>1. Init => IInv
  BY InitIInv
<1>2. IInv /\ [Next]_vars => IInv'
  BY NextPreservesIInv
<1> QED BY <1>1, <1>2, PTL DEF Spec

\* The variables keep their types, and sets and objects in use what they were
\* created with.
THEOREM TypeCorrectness == ~DeletesOrphans => (Spec => []TypeOK)
<1>1. IInv => TypeOK
  BY DEF IInv
<1> QED BY <1>1, Invariance, PTL

\* HeaderMetadata::wrap never returns a deleted object, nor one of another UID
\* or of another header metadata.
THEOREM EntriesLive == ~DeletesOrphans => (Spec => []EntriesAreLive)
<1>1. IInv => EntriesAreLive
  BY DEF IInv
<1> QED BY <1>1, Invariance, PTL

\* ~HeaderMetadata deletes each object of the header metadata exactly once.
THEOREM ObjectsListed == ~DeletesOrphans => (Spec => []ObjectsAreEntries)
<1>1. IInv => ObjectsAreEntries
  BY DEF IInv
<1> QED BY <1>1, Invariance, PTL

\* The list of a C header holds each of its sets once, whatever was moved or
\* failed to be.
THEOREM ListsExact == ~DeletesOrphans => (Spec => []ListsAreExact)
<1>1. IInv => ListsAreExact
  BY ListsMeaning DEF IInv
<1> QED BY <1>1, Invariance, PTL

\* A C set never has two MetadataSet objects.
THEOREM OneObject == ~DeletesOrphans => (Spec => []OneObjectPerSet)
<1>1. IInv => OneObjectPerSet
  BY DEF IInv
<1> QED BY <1>1, Invariance, PTL

\* A C set in no list has an object that frees it.
THEOREM OrphansOwned == ~DeletesOrphans => (Spec => []OrphansAreOwned)
<1>1. IInv => OrphansAreOwned
  BY DEF IInv
<1> QED BY <1>1, Invariance, PTL

=============================================================================
