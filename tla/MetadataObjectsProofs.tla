------------------------ MODULE MetadataObjectsProofs ------------------------
(***************************************************************************)
(* Proofs about MetadataObjects, for every item of every metadata class,   *)
(* any values and targets, and arrays of any length.                       *)
(*                                                                         *)
(* The first parts are about the tables: that the classes are a tree, so   *)
(* that a set is wrapped as its own class; that each accessor reads the    *)
(* form that its setter writes and allocates what it writes; and that the  *)
(* items of all classes use accessors that belong together.  The invariant *)
(* IInv then says what the item holds and what the directory has.          *)
(***************************************************************************)
EXTENDS MetadataObjects, InductionFacts, SequenceTheorems

-----------------------------------------------------------------------------
(* The classes, by the number of classes they extend *)

Level0 == {"MetadataSet"}
Level1 ==
  {"InterchangeObject"}
Level2 ==
  {"ContentStorage", "DMFramework", "DMSet", "EssenceContainerData", "GenericDescriptor",
   "GenericPackage", "GenericTrack", "Identification", "Locator", "Preface",
   "StructuralComponent", "SubDescriptor", "TaggedValue"}
Level3 ==
  {"TextBasedDMFramework", "TextBasedObject", "FileDescriptor", "MaterialPackage",
   "SourcePackage", "EventTrack", "StaticTrack", "Track", "NetworkLocator", "TextLocator",
   "DMSegment", "Sequence", "SourceClip", "TimecodeComponent", "AVCSubDescriptor",
   "DCTimedTextResourceSubDescriptor", "MCALabelSubDescriptor", "VC2SubDescriptor"}
Level4 ==
  {"GenericStreamTextBasedSet", "UTF16TextBasedSet", "UTF8TextBasedSet",
   "GenericDataEssenceDescriptor", "GenericPictureEssenceDescriptor",
   "GenericSoundEssenceDescriptor", "MultipleDescriptor", "DMSourceClip",
   "AudioChannelLabelSubDescriptor", "GroupOfSoundfieldGroupsLabelSubDescriptor",
   "SoundfieldGroupLabelSubDescriptor"}
Level5 ==
  {"ANCDataDescriptor", "DCTimedTextDescriptor", "VBIDataDescriptor", "CDCIEssenceDescriptor",
   "RGBAEssenceDescriptor", "WaveAudioDescriptor"}
Level6 ==
  {"MPEGVideoDescriptor", "AES3AudioDescriptor"}

Parent(c) == MetadataClass[c].parent

\* The class that each name stands for.
LEMMA ClassIs ==
  /\ MetadataClass["InterchangeObject"] = InterchangeObject
  /\ MetadataClass["ContentStorage"] = ContentStorage
  /\ MetadataClass["DMFramework"] = DMFramework
  /\ MetadataClass["TextBasedDMFramework"] = TextBasedDMFramework
  /\ MetadataClass["DMSet"] = DMSet
  /\ MetadataClass["TextBasedObject"] = TextBasedObject
  /\ MetadataClass["GenericStreamTextBasedSet"] = GenericStreamTextBasedSet
  /\ MetadataClass["UTF16TextBasedSet"] = UTF16TextBasedSet
  /\ MetadataClass["UTF8TextBasedSet"] = UTF8TextBasedSet
  /\ MetadataClass["EssenceContainerData"] = EssenceContainerData
  /\ MetadataClass["GenericDescriptor"] = GenericDescriptor
  /\ MetadataClass["FileDescriptor"] = FileDescriptor
  /\ MetadataClass["GenericDataEssenceDescriptor"] = GenericDataEssenceDescriptor
  /\ MetadataClass["ANCDataDescriptor"] = ANCDataDescriptor
  /\ MetadataClass["DCTimedTextDescriptor"] = DCTimedTextDescriptor
  /\ MetadataClass["VBIDataDescriptor"] = VBIDataDescriptor
  /\ MetadataClass["GenericPictureEssenceDescriptor"] = GenericPictureEssenceDescriptor
  /\ MetadataClass["CDCIEssenceDescriptor"] = CDCIEssenceDescriptor
  /\ MetadataClass["MPEGVideoDescriptor"] = MPEGVideoDescriptor
  /\ MetadataClass["RGBAEssenceDescriptor"] = RGBAEssenceDescriptor
  /\ MetadataClass["GenericSoundEssenceDescriptor"] = GenericSoundEssenceDescriptor
  /\ MetadataClass["WaveAudioDescriptor"] = WaveAudioDescriptor
  /\ MetadataClass["AES3AudioDescriptor"] = AES3AudioDescriptor
  /\ MetadataClass["MultipleDescriptor"] = MultipleDescriptor
  /\ MetadataClass["GenericPackage"] = [GenericPackage EXCEPT !.items = @ ++ GenericPackageAvid]
  /\ MetadataClass["MaterialPackage"] = MaterialPackage
  /\ MetadataClass["SourcePackage"] = SourcePackage
  /\ MetadataClass["GenericTrack"] = GenericTrack
  /\ MetadataClass["EventTrack"] = EventTrack
  /\ MetadataClass["StaticTrack"] = StaticTrack
  /\ MetadataClass["Track"] = Track
  /\ MetadataClass["Identification"] = Identification
  /\ MetadataClass["Locator"] = Locator
  /\ MetadataClass["NetworkLocator"] = NetworkLocator
  /\ MetadataClass["TextLocator"] = TextLocator
  /\ MetadataClass["Preface"] = Preface
  /\ MetadataClass["StructuralComponent"] = StructuralComponent
  /\ MetadataClass["DMSegment"] = DMSegment
  /\ MetadataClass["Sequence"] = Sequence
  /\ MetadataClass["SourceClip"] = SourceClip
  /\ MetadataClass["DMSourceClip"] = DMSourceClip
  /\ MetadataClass["TimecodeComponent"] = TimecodeComponent
  /\ MetadataClass["SubDescriptor"] = SubDescriptor
  /\ MetadataClass["AVCSubDescriptor"] = AVCSubDescriptor
  /\ MetadataClass["DCTimedTextResourceSubDescriptor"] = DCTimedTextResourceSubDescriptor
  /\ MetadataClass["MCALabelSubDescriptor"] = MCALabelSubDescriptor
  /\ MetadataClass["AudioChannelLabelSubDescriptor"] = AudioChannelLabelSubDescriptor
  /\ MetadataClass["GroupOfSoundfieldGroupsLabelSubDescriptor"] = GroupOfSoundfieldGroupsLabelSubDescriptor
  /\ MetadataClass["SoundfieldGroupLabelSubDescriptor"] = SoundfieldGroupLabelSubDescriptor
  /\ MetadataClass["VC2SubDescriptor"] = VC2SubDescriptor
  /\ MetadataClass["TaggedValue"] = TaggedValue
BY DEF MetadataClass

\* There are no others.
LEMMA NamesAre ==
  ClassNames = Level1 \cup Level2 \cup Level3 \cup Level4 \cup Level5 \cup Level6
BY DEF ClassNames, MetadataClass, Level1, Level2, Level3, Level4, Level5, Level6

LEMMA ParentsOf1 ==
  \A c \in Level1 : Parent(c) \in Level0 \ {"TaggedValue"}
BY ClassIs DEF Level1, Level0, Parent, Extends,
   InterchangeObject

LEMMA ParentsOf2 ==
  \A c \in Level2 : Parent(c) \in Level1 \ {"TaggedValue"}
BY ClassIs DEF Level2, Level1, Parent, Extends,
   ContentStorage, DMFramework, DMSet, EssenceContainerData, GenericDescriptor,
   GenericPackage, GenericTrack, Identification, Locator, Preface, StructuralComponent,
   SubDescriptor, TaggedValue

LEMMA ParentsOf3 ==
  \A c \in Level3 : Parent(c) \in Level2 \ {"TaggedValue"}
BY ClassIs DEF Level3, Level2, Parent, Extends,
   TextBasedDMFramework, TextBasedObject, FileDescriptor, MaterialPackage, SourcePackage,
   EventTrack, StaticTrack, Track, NetworkLocator, TextLocator, DMSegment, Sequence,
   SourceClip, TimecodeComponent, AVCSubDescriptor, DCTimedTextResourceSubDescriptor,
   MCALabelSubDescriptor, VC2SubDescriptor

LEMMA ParentsOf4 ==
  \A c \in Level4 : Parent(c) \in Level3 \ {"TaggedValue"}
BY ClassIs DEF Level4, Level3, Parent, Extends,
   GenericStreamTextBasedSet, UTF16TextBasedSet, UTF8TextBasedSet,
   GenericDataEssenceDescriptor, GenericPictureEssenceDescriptor,
   GenericSoundEssenceDescriptor, MultipleDescriptor, DMSourceClip,
   AudioChannelLabelSubDescriptor, GroupOfSoundfieldGroupsLabelSubDescriptor,
   SoundfieldGroupLabelSubDescriptor

LEMMA ParentsOf5 ==
  \A c \in Level5 : Parent(c) \in Level4 \ {"TaggedValue"}
BY ClassIs DEF Level5, Level4, Parent, Extends,
   ANCDataDescriptor, DCTimedTextDescriptor, VBIDataDescriptor, CDCIEssenceDescriptor,
   RGBAEssenceDescriptor, WaveAudioDescriptor

LEMMA ParentsOf6 ==
  \A c \in Level6 : Parent(c) \in Level5 \ {"TaggedValue"}
BY ClassIs DEF Level6, Level5, Parent, Extends,
   MPEGVideoDescriptor, AES3AudioDescriptor

-----------------------------------------------------------------------------
(* The classes that a class extends *)

Names == ClassNames \cup {"MetadataSet"}

\* What LineageFrom is made of.
Longer(f) ==
  [c \in Names |-> IF c = "MetadataSet" THEN <<>> ELSE <<c>> \o f[Parent(c)]]

LEMMA ParentsAreNames ==
  /\ \A c \in ClassNames : Parent(c) \in Names /\ Parent(c) # "TaggedValue"
  /\ Names = Level0 \cup Level1 \cup Level2 \cup Level3 \cup Level4 \cup Level5 \cup Level6
  /\ "MetadataSet" \notin ClassNames
<1>1. "MetadataSet" \notin ClassNames
  BY NamesAre DEF Level1, Level2, Level3, Level4, Level5, Level6
<1> QED
  BY <1>1, NamesAre, ParentsOf1, ParentsOf2, ParentsOf3, ParentsOf4, ParentsOf5, ParentsOf6
  DEF Names, Level0

\* Induction over the classes: what holds of a class if it holds of its parent
\* holds of all.
LEMMA ClassInduction ==
  ASSUME NEW T, "MetadataSet" \in T, \A c \in ClassNames : Parent(c) \in T => c \in T
  PROVE  \A c \in Names : c \in T
<1>0. \A c \in Level0 : c \in T
  BY DEF Level0
<1>1. \A c \in Level1 : c \in T
  BY <1>0, ParentsOf1, NamesAre
<1>2. \A c \in Level2 : c \in T
  BY <1>1, ParentsOf2, NamesAre
<1>3. \A c \in Level3 : c \in T
  BY <1>2, ParentsOf3, NamesAre
<1>4. \A c \in Level4 : c \in T
  BY <1>3, ParentsOf4, NamesAre
<1>5. \A c \in Level5 : c \in T
  BY <1>4, ParentsOf5, NamesAre
<1>6. \A c \in Level6 : c \in T
  BY <1>5, ParentsOf6, NamesAre
<1> QED
  BY <1>0, <1>1, <1>2, <1>3, <1>4, <1>5, <1>6, ParentsAreNames

LEMMA LongerType ==
  ASSUME NEW f \in [Names -> Seq(Names)]
  PROVE  Longer(f) \in [Names -> Seq(Names)]
<1> SUFFICES ASSUME NEW c \in Names PROVE Longer(f)[c] \in Seq(Names)
  BY DEF Longer
<1>1. CASE c = "MetadataSet"
  BY <1>1 DEF Longer
<1>2. CASE c # "MetadataSet"
  <2>1. c \in ClassNames /\ Parent(c) \in Names
    BY <1>2, ParentsAreNames DEF Names
  <2>2. f[Parent(c)] \in Seq(Names) /\ <<c>> \in Seq(Names)
    BY <2>1
  <2> QED BY <1>2, <2>2 DEF Longer
<1> QED BY <1>1, <1>2

Agree(f, g, L) == \A c \in L : f[c] = g[c]
Above(H, L) == H \in SUBSET Names /\ \A c \in H : c # "MetadataSet" => Parent(c) \in L

\* Two functions that agree on the classes at one level agree, made longer, on
\* those of the next.
LEMMA LongerAgrees ==
  ASSUME NEW f, NEW g, NEW L, NEW H, Agree(f, g, L), Above(H, L)
  PROVE  Agree(Longer(f), Longer(g), H)
BY DEF Longer, Agree, Above

LEMMA LongerHas ==
  \E f \in [Names -> Seq(Names)] : f = Longer(f)
<1> DEFINE f0 == [c \in Names |-> <<>>]
           f1 == Longer(f0)
           f2 == Longer(f1)
           f3 == Longer(f2)
           f4 == Longer(f3)
           f5 == Longer(f4)
           f6 == Longer(f5)
           f7 == Longer(f6)
           f8 == Longer(f7)
           L0 == Level0
           L1 == L0 \cup Level1
           L2 == L1 \cup Level2
           L3 == L2 \cup Level3
           L4 == L3 \cup Level4
           L5 == L4 \cup Level5
           L6 == L5 \cup Level6
<1>1. f0 \in [Names -> Seq(Names)]
  OBVIOUS
<1>2. /\ L0 \in SUBSET Names /\ L1 \in SUBSET Names /\ L2 \in SUBSET Names /\ L3 \in SUBSET Names
      /\ L4 \in SUBSET Names /\ L5 \in SUBSET Names /\ L6 = Names
  BY ParentsAreNames
<1>3. Agree(f1, f2, L0)
  BY DEF Agree, Longer, Level0, Names
<1>t0. \A c \in L0 : c = "MetadataSet"
  BY DEF Level0
<1>t1. Above(L1, L0)
  BY <1>2, <1>t0, ParentsOf1 DEF Above
<1>t2. Above(L2, L1)
  BY <1>2, <1>t1, ParentsOf2 DEF Above
<1>t3. Above(L3, L2)
  BY <1>2, <1>t2, ParentsOf3 DEF Above
<1>t4. Above(L4, L3)
  BY <1>2, <1>t3, ParentsOf4 DEF Above
<1>t5. Above(L5, L4)
  BY <1>2, <1>t4, ParentsOf5 DEF Above
<1>t6. Above(L6, L5)
  BY <1>2, <1>t5, ParentsOf6 DEF Above
<1> HIDE DEF f0, L0, L1, L2, L3, L4, L5, L6
<1>4. f1 \in [Names -> Seq(Names)]
  BY <1>1, LongerType
<1>5. f2 \in [Names -> Seq(Names)]
  BY <1>4, LongerType
<1>6. f3 \in [Names -> Seq(Names)]
  BY <1>5, LongerType
<1>7. f4 \in [Names -> Seq(Names)]
  BY <1>6, LongerType
<1>8. f5 \in [Names -> Seq(Names)]
  BY <1>7, LongerType
<1>9. f6 \in [Names -> Seq(Names)]
  BY <1>8, LongerType
<1>10. f7 \in [Names -> Seq(Names)]
  BY <1>9, LongerType
<1>11. f8 \in [Names -> Seq(Names)]
  BY <1>10, LongerType
<1> HIDE DEF f1, f2, f3, f4, f5, f6, f7, f8
<1>12. /\ f2 = Longer(f1) /\ f3 = Longer(f2) /\ f4 = Longer(f3) /\ f5 = Longer(f4)
       /\ f6 = Longer(f5) /\ f7 = Longer(f6) /\ f8 = Longer(f7)
  BY DEF f2, f3, f4, f5, f6, f7, f8
<1>13. Agree(f2, f3, L1)
  BY <1>3, <1>12, <1>t1, LongerAgrees
<1>14. Agree(f3, f4, L2)
  BY <1>13, <1>12, <1>t2, LongerAgrees
<1>15. Agree(f4, f5, L3)
  BY <1>14, <1>12, <1>t3, LongerAgrees
<1>16. Agree(f5, f6, L4)
  BY <1>15, <1>12, <1>t4, LongerAgrees
<1>17. Agree(f6, f7, L5)
  BY <1>16, <1>12, <1>t5, LongerAgrees
<1>18. Agree(f7, f8, L6)
  BY <1>17, <1>12, <1>t6, LongerAgrees
<1>19. f7 = f8
  BY <1>2, <1>10, <1>11, <1>18 DEF Agree
<1> QED BY <1>10, <1>12, <1>19

\* Each class comes first, and its parent's follow.
LEMMA LineageIs ==
  /\ LineageFrom \in [Names -> Seq(Names)]
  /\ LineageFrom["MetadataSet"] = <<>>
  /\ \A c \in ClassNames : Lineage[c] = LineageFrom[c] /\ Lineage[c] \in Seq(Names)
  /\ \A c \in ClassNames : Lineage[c] = <<c>> \o LineageFrom[Parent(c)]
<1>1. PICK f \in [Names -> Seq(Names)] : f = Longer(f)
  BY LongerHas
<1>2. Longer(f) = [c \in ClassNames \cup {"MetadataSet"} |->
         IF c = "MetadataSet" THEN <<>> ELSE <<c>> \o f[MetadataClass[c].parent]]
  BY DEF Longer, Names, Parent
<1>3. LineageFrom = [c \in ClassNames \cup {"MetadataSet"} |->
         IF c = "MetadataSet" THEN <<>> ELSE <<c>> \o LineageFrom[MetadataClass[c].parent]]
  BY <1>1, <1>2 DEF LineageFrom
<1>4. LineageFrom = Longer(LineageFrom)
  BY <1>3 DEF Longer, Names, Parent
<1>5. LineageFrom \in [Names -> Seq(Names)]
  <2> DEFINE T == {c \in Names : LineageFrom[c] = f[c]}
  <2>1. "MetadataSet" \in T
    BY <1>1, <1>4 DEF Longer, Names
  <2>2. ASSUME NEW c \in ClassNames, Parent(c) \in T PROVE c \in T
    <3>1. c \in Names /\ c # "MetadataSet"
      BY ParentsAreNames DEF Names
    <3>2. Longer(LineageFrom)[c] = <<c>> \o LineageFrom[Parent(c)]
          /\ Longer(f)[c] = <<c>> \o f[Parent(c)]
      BY <3>1 DEF Longer
    <3> QED BY <3>1, <3>2, <2>2, <1>1, <1>4
  <2>3. \A c \in Names : c \in T
    <3> HIDE DEF T
    <3> QED BY <2>1, <2>2, ClassInduction
  <2>4. DOMAIN LineageFrom = Names
    <3>1. DOMAIN Longer(LineageFrom) = Names
      BY DEF Longer
    <3> QED BY <3>1, <1>4
  <2>5. LineageFrom = [c \in Names |-> LineageFrom[c]]
    <3>1. Longer(LineageFrom) = [c \in Names |-> Longer(LineageFrom)[c]]
      BY DEF Longer
    <3> QED BY <3>1, <1>4
  <2> QED BY <2>3, <2>5, <1>1
<1>6. \A c \in ClassNames : Lineage[c] = LineageFrom[c]
  BY DEF Lineage
<1> QED
  BY <1>4, <1>5, <1>6, ParentsAreNames DEF Longer, Names

\* A class is itself, and what its parent is.
LEMMA IsAStep ==
  ASSUME NEW c \in ClassNames, NEW x
  PROVE  /\ Parent(c) \in ClassNames => (IsA(c, x) <=> (x = c \/ IsA(Parent(c), x)))
         /\ Parent(c) = "MetadataSet" => (IsA(c, x) <=> x = c)
         /\ IsA(c, c)
         /\ 1 \in DOMAIN Lineage[c] /\ Lineage[c][1] = c
<1> DEFINE s == LineageFrom[Parent(c)]
           l == Lineage[c]
<1>1. s \in Seq(Names) /\ l = <<c>> \o s /\ c \in Names
  BY LineageIs, ParentsAreNames DEF Names
<1>2. Parent(c) \in ClassNames => Lineage[Parent(c)] = s
  BY LineageIs
<1>3. Parent(c) = "MetadataSet" => s = <<>>
  BY LineageIs
<1> HIDE DEF s
<1>4. /\ DOMAIN l = 1 .. (Len(s) + 1) /\ DOMAIN s = 1 .. Len(s) /\ Len(s) \in Nat
      /\ l[1] = c /\ \A i \in DOMAIN s : l[i + 1] = s[i]
  BY <1>1
<1> HIDE DEF l
<1>5. (\E i \in DOMAIN l : l[i] = x) <=> (x = c \/ \E i \in DOMAIN s : s[i] = x)
  <2>1. ASSUME NEW i \in DOMAIN l, l[i] = x PROVE x = c \/ \E k \in DOMAIN s : s[k] = x
    <3>1. CASE i = 1
      BY <2>1, <3>1, <1>4
    <3>2. CASE i # 1
      <4>1. i - 1 \in DOMAIN s /\ (i - 1) + 1 = i
        BY <3>2, <2>1, <1>4
      <4> QED BY <4>1, <2>1, <1>4
    <3> QED BY <3>1, <3>2
  <2>2. ASSUME NEW i \in DOMAIN s, s[i] = x PROVE \E k \in DOMAIN l : l[k] = x
    <3>1. i + 1 \in DOMAIN l
      BY <1>4
    <3> QED BY <3>1, <2>2, <1>4
  <2>3. x = c => \E k \in DOMAIN l : l[k] = x
    BY <1>4
  <2> QED BY <2>1, <2>2, <2>3
<1>6. IsA(c, x) <=> \E i \in DOMAIN l : l[i] = x
  BY DEF IsA, l
<1>7. Parent(c) \in ClassNames => (IsA(Parent(c), x) <=> \E i \in DOMAIN s : s[i] = x)
  BY <1>2 DEF IsA
<1>8. Parent(c) = "MetadataSet" => ~ \E i \in DOMAIN s : s[i] = x
  BY <1>3
<1>9. IsA(c, c)
  <2>1. 1 \in DOMAIN l
    BY <1>4
  <2> QED BY <2>1, <1>4 DEF IsA, l
<1>10. 1 \in DOMAIN Lineage[c] /\ Lineage[c][1] = c
  BY <1>4 DEF l
<1> QED BY <1>5, <1>6, <1>7, <1>8, <1>9, <1>10

LEMMA SomeClasses ==
  /\ "InterchangeObject" \in ClassNames /\ Parent("InterchangeObject") = "MetadataSet"
  /\ "TaggedValue" \in ClassNames /\ Parent("TaggedValue") = "InterchangeObject"
<1>1. Parent("InterchangeObject") = "MetadataSet"
  BY ClassIs DEF Parent, InterchangeObject, Extends
<1>2. Parent("TaggedValue") = "InterchangeObject"
  BY ClassIs DEF Parent, TaggedValue, Extends
<1> QED BY <1>1, <1>2, NamesAre DEF Level1, Level2

\* InterchangeObject is the last of all classes, TaggedValue extends it, and
\* nothing extends TaggedValue.
LEMMA KindsAre ==
  /\ \A x : IsA("InterchangeObject", x) <=> x = "InterchangeObject"
  /\ \A x : IsA("TaggedValue", x) <=> x \in {"TaggedValue", "InterchangeObject"}
  /\ \A c \in ClassNames : IsA(c, "TaggedValue") <=> c = "TaggedValue"
  /\ \A c \in ClassNames : IsA(c, c)
<1>1. \A x : IsA("InterchangeObject", x) <=> x = "InterchangeObject"
  BY SomeClasses, IsAStep
<1>2. \A x : IsA("TaggedValue", x) <=> x \in {"TaggedValue", "InterchangeObject"}
  BY <1>1, SomeClasses, IsAStep
<1>3. \A c \in ClassNames : IsA(c, "TaggedValue") <=> c = "TaggedValue"
  <2> DEFINE T == {"MetadataSet"} \cup {c \in ClassNames : IsA(c, "TaggedValue") <=> c = "TaggedValue"}
  <2>1. "MetadataSet" \in T
    OBVIOUS
  <2>2. ASSUME NEW c \in ClassNames, Parent(c) \in T PROVE c \in T
    <3>1. Parent(c) # "TaggedValue"
      BY ParentsAreNames
    <3>2. CASE Parent(c) = "MetadataSet"
      BY <3>2, IsAStep
    <3>3. CASE Parent(c) # "MetadataSet"
      <4>1. Parent(c) \in ClassNames /\ ~IsA(Parent(c), "TaggedValue")
        BY <2>2, <3>1, <3>3
      <4> QED BY <4>1, IsAStep
    <3> QED BY <3>2, <3>3
  <2>3. \A c \in Names : c \in T
    <3> HIDE DEF T
    <3> QED BY <2>1, <2>2, ClassInduction
  <2> QED BY <2>3, ParentsAreNames DEF Names
<1> QED BY <1>1, <1>2, <1>3, IsAStep

\* The first class with a factory.
IsNearest(l, i) == l[i] \in Factories /\ \A j \in 1 .. (i - 1) : l[j] \notin Factories

LEMMA ObjectClassAt ==
  ASSUME NEW c, NEW l, l = Lineage[c], NEW k \in DOMAIN l, IsNearest(l, k),
         \A i \in DOMAIN l : IsNearest(l, i) => i = k
  PROVE  ObjectClass(c) = l[k]
<1>1. (CHOOSE i \in DOMAIN l : IsNearest(l, i)) = k
  OBVIOUS
<1>2. ObjectClass(c) = l[CHOOSE i \in DOMAIN l : IsNearest(l, i)]
  BY DEF ObjectClass, IsNearest
<1> QED BY <1>1, <1>2

LEMMA TwoElements ==
  ASSUME NEW a, NEW b
  PROVE  <<a>> \o (<<b>> \o <<>>) = <<a, b>>
<1> DEFINE S == {a, b}
           s == <<b>> \o <<>>
           t == <<a>> \o s
<1>1. <<b>> \in Seq(S) /\ <<a>> \in Seq(S) /\ <<>> \in Seq(S)
  OBVIOUS
<1>2. s \in Seq(S) /\ Len(s) = 1 /\ s[1] = b
  BY <1>1
<1> HIDE DEF s
<1>3. t \in Seq(S) /\ Len(t) = 2 /\ t[1] = a /\ t[2] = b
  BY <1>1, <1>2
<1> HIDE DEF t
<1>4. t = <<a, b>>
  <2>1. <<a, b>> \in Seq(S) /\ Len(<<a, b>>) = 2
    OBVIOUS
  <2> QED BY <1>3
<1> QED BY <1>4 DEF t, s

\* A set is wrapped as its own class, if that has a factory.
LEMMA ObjectClassIs ==
  ASSUME extensions \subseteq {"TaggedValue"}
  PROVE  /\ \A c \in ClassNames \ {"TaggedValue"} : ObjectClass(c) = c
         /\ ObjectClass("TaggedValue") =
              IF "TaggedValue" \in Factories THEN "TaggedValue" ELSE "InterchangeObject"
<1>1. \A c \in ClassNames \ {"TaggedValue"} : c \in Factories
  BY DEF Factories, Registered
<1>2. ASSUME NEW c \in ClassNames, c \in Factories PROVE ObjectClass(c) = c
  <2> DEFINE l == Lineage[c]
  <2>1. l \in Seq(Names) /\ 1 \in DOMAIN l /\ l[1] = c
    BY IsAStep, LineageIs
  <2> HIDE DEF l
  <2>2. IsNearest(l, 1)
    BY <2>1, <1>2 DEF IsNearest
  <2>3. \A i \in DOMAIN l : IsNearest(l, i) => i = 1
    BY <2>1, <1>2 DEF IsNearest
  <2>4. l = Lineage[c]
    BY DEF l
  <2> QED BY <2>1, <2>2, <2>3, <2>4, ObjectClassAt
<1>3. ASSUME "TaggedValue" \notin Factories PROVE ObjectClass("TaggedValue") = "InterchangeObject"
  <2> DEFINE l == Lineage["TaggedValue"]
  <2>1. l = <<"TaggedValue", "InterchangeObject">>
    <3>1. LineageFrom["InterchangeObject"] = <<"InterchangeObject">> \o <<>>
      BY SomeClasses, LineageIs
    <3>2. l = <<"TaggedValue">> \o LineageFrom["InterchangeObject"]
      BY SomeClasses, LineageIs
    <3> HIDE DEF l
    <3> QED BY <3>1, <3>2, TwoElements
  <2> HIDE DEF l
  <2>2. "InterchangeObject" \in Factories /\ "TaggedValue" # "InterchangeObject"
    BY <1>1, SomeClasses
  <2>3. 2 \in DOMAIN l /\ IsNearest(l, 2)
    BY <2>1, <2>2, <1>3 DEF IsNearest
  <2>4. \A i \in DOMAIN l : IsNearest(l, i) => i = 2
    BY <2>1, <1>3 DEF IsNearest
  <2>5. l = Lineage["TaggedValue"]
    BY DEF l
  <2>6. ObjectClass("TaggedValue") = l[2]
    BY <2>3, <2>4, <2>5, ObjectClassAt
  <2> QED BY <2>1, <2>6
<1> QED BY <1>1, <1>2, <1>3, SomeClasses

-----------------------------------------------------------------------------
(* The tables of libMXF's functions and of the accessors *)

Codes(f, form, width) == Form[f] = Coded(form, width)

LEMMA FormIs ==
  /\ Codes("uint8", "unsigned", 1)
  /\ Codes("uint16", "unsigned", 2)
  /\ Codes("uint32", "unsigned", 4)
  /\ Codes("uint64", "unsigned", 8)
  /\ Codes("int8", "signed", 1)
  /\ Codes("int16", "signed", 2)
  /\ Codes("int32", "signed", 4)
  /\ Codes("int64", "signed", 8)
  /\ Codes("length", "signed", 8)
  /\ Codes("position", "signed", 8)
  /\ Codes("float", "float", 4)
  /\ Codes("boolean", "boolean", 1)
  /\ Codes("version_type", "version", 2)
  /\ Codes("uuid", "uuid", 16)
  /\ Codes("ul", "ul", 16)
  /\ Codes("auid", "auid", 16)
  /\ Codes("umid", "umid", 32)
  /\ Codes("timestamp", "timestamp", 8)
  /\ Codes("rational", "rational", 8)
  /\ Codes("product_version", "product", 10)
  /\ Codes("avid_product_version", "shortProduct", 9)
  /\ Codes("aes3_fixed_data", "AES3", 24)
  /\ Codes("rgba_layout", "layout", 16)
  /\ Codes("utf16string", "UTF16", 0)
  /\ Codes("utf8string", "UTF8", 0)
  /\ Codes("iso7string", "ISO646", 0)
  /\ Codes("bytes", "bytes", 0)
  /\ Codes("avid_indirect_string", "indirectUTF16", 0)
  /\ Codes("avid_indirect_int32", "indirectInteger", 0)
  /\ Codes("strongref", "instanceUID", 16)
  /\ Codes("weakref", "instanceUID", 16)
BY DEF Codes, Form

LEMMA FunctionsAre ==
  /\ "uint8" \in DOMAIN Form
  /\ "uint16" \in DOMAIN Form
  /\ "uint32" \in DOMAIN Form
  /\ "uint64" \in DOMAIN Form
  /\ "int8" \in DOMAIN Form
  /\ "int16" \in DOMAIN Form
  /\ "int32" \in DOMAIN Form
  /\ "int64" \in DOMAIN Form
  /\ "length" \in DOMAIN Form
  /\ "position" \in DOMAIN Form
  /\ "float" \in DOMAIN Form
  /\ "boolean" \in DOMAIN Form
  /\ "version_type" \in DOMAIN Form
  /\ "uuid" \in DOMAIN Form
  /\ "ul" \in DOMAIN Form
  /\ "auid" \in DOMAIN Form
  /\ "umid" \in DOMAIN Form
  /\ "timestamp" \in DOMAIN Form
  /\ "rational" \in DOMAIN Form
  /\ "product_version" \in DOMAIN Form
  /\ "avid_product_version" \in DOMAIN Form
  /\ "aes3_fixed_data" \in DOMAIN Form
  /\ "rgba_layout" \in DOMAIN Form
  /\ "utf16string" \in DOMAIN Form
  /\ "utf8string" \in DOMAIN Form
  /\ "iso7string" \in DOMAIN Form
  /\ "bytes" \in DOMAIN Form
  /\ "avid_indirect_string" \in DOMAIN Form
  /\ "avid_indirect_int32" \in DOMAIN Form
  /\ "strongref" \in DOMAIN Form
  /\ "weakref" \in DOMAIN Form
BY DEF Form

LEMMA WidthOf ==
  ASSUME NEW f, NEW a, NEW b, Codes(f, a, b)
  PROVE  Width(f) = b
BY DEF Codes, Width, Coded

LEMMA WidthIs ==
  /\ Width("uint8") = 1
  /\ Width("uint16") = 2
  /\ Width("uint32") = 4
  /\ Width("uint64") = 8
  /\ Width("int8") = 1
  /\ Width("int16") = 2
  /\ Width("int32") = 4
  /\ Width("int64") = 8
  /\ Width("length") = 8
  /\ Width("position") = 8
  /\ Width("float") = 4
  /\ Width("boolean") = 1
  /\ Width("version_type") = 2
  /\ Width("uuid") = 16
  /\ Width("ul") = 16
  /\ Width("auid") = 16
  /\ Width("umid") = 32
  /\ Width("timestamp") = 8
  /\ Width("rational") = 8
  /\ Width("product_version") = 10
  /\ Width("avid_product_version") = 9
  /\ Width("aes3_fixed_data") = 24
  /\ Width("rgba_layout") = 16
  /\ Width("utf16string") = 0
  /\ Width("utf8string") = 0
  /\ Width("iso7string") = 0
  /\ Width("bytes") = 0
  /\ Width("avid_indirect_string") = 0
  /\ Width("avid_indirect_int32") = 0
  /\ Width("strongref") = 16
  /\ Width("weakref") = 16
BY FormIs, WidthOf

\* A table that is joined of two, of four and of five others.
IsJoin(f, f1, f2) ==
  /\ DOMAIN f = DOMAIN f1 \cup DOMAIN f2
  /\ \A x \in DOMAIN f1 : f[x] = f1[x]
  /\ \A x \in DOMAIN f2 : x \notin DOMAIN f1 => f[x] = f2[x]

IsJoinOfFour(f, f1, f2, f3, f4) ==
  /\ DOMAIN f = DOMAIN f1 \cup DOMAIN f2 \cup DOMAIN f3 \cup DOMAIN f4
  /\ \A x \in DOMAIN f1 : f[x] = f1[x]
  /\ \A x \in DOMAIN f2 : x \notin DOMAIN f1 => f[x] = f2[x]
  /\ \A x \in DOMAIN f3 : x \notin DOMAIN f1 /\ x \notin DOMAIN f2 => f[x] = f3[x]
  /\ \A x \in DOMAIN f4 :
       x \notin DOMAIN f1 /\ x \notin DOMAIN f2 /\ x \notin DOMAIN f3 => f[x] = f4[x]

IsJoinOfFive(f, f1, f2, f3, f4, f5) ==
  /\ DOMAIN f = DOMAIN f1 \cup DOMAIN f2 \cup DOMAIN f3 \cup DOMAIN f4 \cup DOMAIN f5
  /\ \A x \in DOMAIN f1 : f[x] = f1[x]
  /\ \A x \in DOMAIN f2 : x \notin DOMAIN f1 => f[x] = f2[x]
  /\ \A x \in DOMAIN f3 : x \notin DOMAIN f1 /\ x \notin DOMAIN f2 => f[x] = f3[x]
  /\ \A x \in DOMAIN f4 :
       x \notin DOMAIN f1 /\ x \notin DOMAIN f2 /\ x \notin DOMAIN f3 => f[x] = f4[x]
  /\ \A x \in DOMAIN f5 :
       x \notin DOMAIN f1 /\ x \notin DOMAIN f2 /\ x \notin DOMAIN f3 /\ x \notin DOMAIN f4
       => f[x] = f5[x]

LEMMA Joined ==
  ASSUME NEW f1, NEW f2
  PROVE  IsJoin(f1 ++ f2, f1, f2)
BY DEF ++, IsJoin

LEMMA JoinedFour ==
  ASSUME NEW f1, NEW f2, NEW f3, NEW f4
  PROVE  IsJoinOfFour(f1 ++ f2 ++ f3 ++ f4, f1, f2, f3, f4)
<1> DEFINE g == f1 ++ f2
           h == g ++ f3
           f == h ++ f4
<1>1. IsJoin(g, f1, f2)
  BY Joined
<1> HIDE DEF g
<1>2. IsJoin(h, g, f3)
  BY Joined
<1> HIDE DEF h
<1>3. IsJoin(f, h, f4)
  BY Joined
<1> HIDE DEF f
<1>4. IsJoinOfFour(f, f1, f2, f3, f4)
  BY ONLY <1>1, <1>2, <1>3 DEF IsJoin, IsJoinOfFour
<1> QED BY <1>4, Zenon DEF f, h, g

LEMMA JoinedFive ==
  ASSUME NEW f1, NEW f2, NEW f3, NEW f4, NEW f5
  PROVE  IsJoinOfFive(f1 ++ f2 ++ f3 ++ f4 ++ f5, f1, f2, f3, f4, f5)
<1> DEFINE g == f1 ++ f2 ++ f3 ++ f4
           f == g ++ f5
<1>1. IsJoinOfFour(g, f1, f2, f3, f4)
  BY JoinedFour
<1> HIDE DEF g
<1>2. IsJoin(f, g, f5)
  BY Joined
<1> HIDE DEF f
<1>3. IsJoinOfFive(f, f1, f2, f3, f4, f5)
  BY ONLY <1>1, <1>2 DEF IsJoin, IsJoinOfFour, IsJoinOfFive
<1> QED BY <1>3, Zenon DEF f, g

LEMMA ExtlenIs ==
  /\ mxfVersionType_extlen = 2
  /\ mxfUUID_extlen = 16
  /\ mxfUL_extlen = 16
  /\ mxfAUID_extlen = 16
  /\ mxfUMID_extlen = 32
  /\ mxfTimestamp_extlen = 8
  /\ mxfRational_extlen = 8
  /\ mxfBoolean_extlen = 1
  /\ mxfProductVersion_extlen = 10
  /\ mxfAES3FixedData_extlen = 24
BY WidthIs DEF mxfVersionType_extlen, mxfUUID_extlen, mxfUL_extlen, mxfAUID_extlen, mxfUMID_extlen,
   mxfTimestamp_extlen, mxfRational_extlen, mxfBoolean_extlen, mxfProductVersion_extlen,
   mxfAES3FixedData_extlen

Reads(t, fs) == SingleGet[t] = fs
Writes(t, f) == SingleSet[t] = f
ReadsArray(t, length, f) == ArrayGet[t] = Checked(length, f)
WritesArray(t, length, stride, f) == ArraySet[t] = Filled(length, stride, f)
AppendsArray(t, length, f) == ArrayAppend[t] = Checked(length, f)

\* get<Type>Item.
LEMMA SingleGetIs ==
  /\ DOMAIN SingleGet = DOMAIN IntegerGet \cup DOMAIN StructGet \cup DOMAIN BytesGet \cup DOMAIN StringGet \cup
      DOMAIN IndirectGet
  /\ Reads("UInt8", {"uint8"})
  /\ Reads("UInt16", {"uint16"})
  /\ Reads("UInt32", {"uint32"})
  /\ Reads("UInt64", {"uint64"})
  /\ Reads("Int8", {"int8"})
  /\ Reads("Int16", {"int16"})
  /\ Reads("Int32", {"int32"})
  /\ Reads("Int64", {"int64"})
  /\ Reads("Float", {"float"})
  /\ Reads("VersionType", {"version_type"})
  /\ Reads("UUID", {"uuid"})
  /\ Reads("UL", {"ul"})
  /\ Reads("AUID", {"auid"})
  /\ Reads("UMID", {"umid"})
  /\ Reads("Timestamp", {"timestamp"})
  /\ Reads("Length", {"length"})
  /\ Reads("Rational", {"rational"})
  /\ Reads("Position", {"position"})
  /\ Reads("Boolean", {"boolean"})
  /\ Reads("ProductVersion", {"product_version", "avid_product_version"})
  /\ Reads("RGBALayout", {"rgba_layout"})
  /\ Reads("RawBytes", {"bytes"})
  /\ Reads("String", {"utf16string"})
  /\ Reads("UTF8String", {"utf8string"})
  /\ Reads("ISO7String", {"iso7string"})
  /\ Reads("IndirectString", {"avid_indirect_string"})
  /\ Reads("IndirectInt32", {"avid_indirect_int32"})
<1>1. IsJoinOfFive(SingleGet, IntegerGet, StructGet, BytesGet, StringGet, IndirectGet)
  BY JoinedFive, Zenon DEF SingleGet
<1> QED
  BY <1>1 DEF IsJoinOfFive, Reads, IntegerGet, StructGet, BytesGet, StringGet, IndirectGet

\* set<Type>Item.
LEMMA SingleSetIs ==
  /\ DOMAIN SingleSet = DOMAIN NumberSet \cup DOMAIN BytesSet \cup DOMAIN StringSet \cup DOMAIN IndirectSet \cup
      DOMAIN AvidSet
  /\ Writes("UInt8", "uint8")
  /\ Writes("UInt16", "uint16")
  /\ Writes("UInt32", "uint32")
  /\ Writes("UInt64", "uint64")
  /\ Writes("Int8", "int8")
  /\ Writes("Int16", "int16")
  /\ Writes("Int32", "int32")
  /\ Writes("Int64", "int64")
  /\ Writes("Float", "float")
  /\ Writes("VersionType", "version_type")
  /\ Writes("UUID", "uuid")
  /\ Writes("UL", "ul")
  /\ Writes("AUID", "auid")
  /\ Writes("UMID", "umid")
  /\ Writes("Timestamp", "timestamp")
  /\ Writes("Length", "length")
  /\ Writes("Rational", "rational")
  /\ Writes("Position", "position")
  /\ Writes("Boolean", "boolean")
  /\ Writes("ProductVersion", "product_version")
  /\ Writes("RGBALayout", "rgba_layout")
  /\ Writes("RawBytes", "bytes")
  /\ Writes("String", "utf16string")
  /\ Writes("UTF8String", "utf8string")
  /\ Writes("ISO7String", "iso7string")
  /\ Writes("IndirectString", "avid_indirect_string")
  /\ Writes("IndirectInt32", "avid_indirect_int32")
  /\ Writes("AvidProductVersion", "avid_product_version")
<1>1. IsJoinOfFive(SingleSet, NumberSet, BytesSet, StringSet, IndirectSet, AvidSet)
  BY JoinedFive, Zenon DEF SingleSet
<1> QED
  BY <1>1 DEF IsJoinOfFive, Writes, NumberSet, BytesSet, StringSet, IndirectSet, AvidSet

\* get<Type>ArrayItem.
LEMMA ArrayGetIs ==
  /\ DOMAIN ArrayGet = DOMAIN IntegerArrayGet \cup DOMAIN StructArrayGet \cup DOMAIN NumberArrayGet \cup
      DOMAIN AES3FixedDataArrayGet
  /\ ReadsArray("UInt8Array", 1, "uint8")
  /\ ReadsArray("UInt16Array", 2, "uint16")
  /\ ReadsArray("UInt32Array", 4, "uint32")
  /\ ReadsArray("UInt64Array", 8, "uint64")
  /\ ReadsArray("Int8Array", 1, "int8")
  /\ ReadsArray("Int16Array", 2, "int16")
  /\ ReadsArray("Int32Array", 4, "int32")
  /\ ReadsArray("Int64Array", 8, "int64")
  /\ ReadsArray("FloatArray", 4, "float")
  /\ ReadsArray("VersionTypeArray", 2, "version_type")
  /\ ReadsArray("UUIDArray", 16, "uuid")
  /\ ReadsArray("ULArray", 16, "ul")
  /\ ReadsArray("AUIDArray", 16, "auid")
  /\ ReadsArray("UMIDArray", 32, "umid")
  /\ ReadsArray("TimestampArray", 8, "timestamp")
  /\ ReadsArray("LengthArray", 8, "int64")
  /\ ReadsArray("RationalArray", 8, "rational")
  /\ ReadsArray("PositionArray", 8, "int64")
  /\ ReadsArray("BooleanArray", 1, "boolean")
  /\ ReadsArray("ProductVersionArray", 10, "product_version")
  /\ ReadsArray("AES3FixedDataArray", 24, "aes3_fixed_data")
<1>1. IsJoinOfFour(ArrayGet, IntegerArrayGet, StructArrayGet, NumberArrayGet, AES3FixedDataArrayGet)
  BY JoinedFour, Zenon DEF ArrayGet
<1> QED
  BY <1>1, ExtlenIs
  DEF IsJoinOfFour, ReadsArray, IntegerArrayGet, StructArrayGet, NumberArrayGet, AES3FixedDataArrayGet

\* set<Type>ArrayItem.
LEMMA ArraySetIs ==
  /\ DOMAIN ArraySet = DOMAIN IntegerArraySet \cup DOMAIN StructArraySet \cup DOMAIN NumberArraySet \cup
      DOMAIN AES3FixedArraySet \cup DOMAIN RefArraySet
  /\ WritesArray("UInt8Array", 1, 1, "uint8")
  /\ WritesArray("UInt16Array", 2, 2, "uint16")
  /\ WritesArray("UInt32Array", 4, 4, "uint32")
  /\ WritesArray("UInt64Array", 8, 8, "uint64")
  /\ WritesArray("Int8Array", 1, 1, "int8")
  /\ WritesArray("Int16Array", 2, 2, "int16")
  /\ WritesArray("Int32Array", 4, 4, "int32")
  /\ WritesArray("Int64Array", 8, 8, "int64")
  /\ WritesArray("FloatArray", 4, 4, "float")
  /\ WritesArray("VersionTypeArray", 2, 2, "version_type")
  /\ WritesArray("UUIDArray", 16, 16, "uuid")
  /\ WritesArray("ULArray", 16, 16, "ul")
  /\ WritesArray("AUIDArray", 16, 16, "auid")
  /\ WritesArray("UMIDArray", 32, 32, "umid")
  /\ WritesArray("TimestampArray", 8, 8, "timestamp")
  /\ WritesArray("LengthArray", 8, 8, "int64")
  /\ WritesArray("RationalArray", 8, 8, "rational")
  /\ WritesArray("PositionArray", 8, 8, "int64")
  /\ WritesArray("BooleanArray", 1, 1, "boolean")
  /\ WritesArray("ProductVersionArray", 10, 10, "product_version")
  /\ WritesArray("AES3FixedArray", 24, 24, "aes3_fixed_data")
  /\ WritesArray("StrongRefArray", 16, 16, "strongref")
  /\ WritesArray("WeakRefArray", 16, 16, "strongref")
<1>1. IsJoinOfFive(ArraySet, IntegerArraySet, StructArraySet, NumberArraySet, AES3FixedArraySet, RefArraySet)
  BY JoinedFive, Zenon DEF ArraySet
<1> QED
  BY <1>1, ExtlenIs
  DEF IsJoinOfFive, WritesArray, IntegerArraySet, StructArraySet, NumberArraySet,
      AES3FixedArraySet, RefArraySet

\* append<Type>ArrayItem.
LEMMA ArrayAppendIs ==
  /\ DOMAIN ArrayAppend = DOMAIN IntegerArrayAppend \cup DOMAIN StructArrayAppend \cup
      DOMAIN AES3FixedArrayAppend \cup DOMAIN RefArrayAppend
  /\ AppendsArray("UInt8Array", 1, "uint8")
  /\ AppendsArray("UInt16Array", 2, "uint16")
  /\ AppendsArray("UInt32Array", 4, "uint32")
  /\ AppendsArray("UInt64Array", 8, "uint64")
  /\ AppendsArray("Int8Array", 1, "int8")
  /\ AppendsArray("Int16Array", 2, "int16")
  /\ AppendsArray("Int32Array", 4, "int32")
  /\ AppendsArray("Int64Array", 8, "int64")
  /\ AppendsArray("FloatArray", 4, "float")
  /\ AppendsArray("VersionTypeArray", 2, "version_type")
  /\ AppendsArray("UUIDArray", 16, "uuid")
  /\ AppendsArray("ULArray", 16, "ul")
  /\ AppendsArray("AUIDArray", 16, "auid")
  /\ AppendsArray("UMIDArray", 32, "umid")
  /\ AppendsArray("TimestampArray", 8, "timestamp")
  /\ AppendsArray("LengthArray", 8, "int64")
  /\ AppendsArray("RationalArray", 8, "rational")
  /\ AppendsArray("PositionArray", 8, "int64")
  /\ AppendsArray("BooleanArray", 1, "boolean")
  /\ AppendsArray("ProductVersionArray", 10, "product_version")
  /\ AppendsArray("AES3FixedArray", 24, "aes3_fixed_data")
  /\ AppendsArray("StrongRefArray", 16, "strongref")
  /\ AppendsArray("WeakRefArray", 16, "weakref")
<1>1. IsJoinOfFour(ArrayAppend, IntegerArrayAppend, StructArrayAppend, AES3FixedArrayAppend, RefArrayAppend)
  BY JoinedFour, Zenon DEF ArrayAppend
<1> QED
  BY <1>1, ExtlenIs
  DEF IsJoinOfFour, AppendsArray, IntegerArrayAppend, StructArrayAppend, AES3FixedArrayAppend, RefArrayAppend

-----------------------------------------------------------------------------
(* What was written by a setter can be read by the getter *)

\* The functions that write an item of a type.
Writers(t) == {SingleSet[t]} \cup IF t = "ProductVersion" THEN {SingleSet["AvidProductVersion"]} ELSE {}

\* The getter of a single value reads all that its setters write, and as nothing
\* else.
SinglePair(t) ==
  /\ t \notin DOMAIN ArraySet
  /\ \A w \in Writers(t) :
       /\ w \in DOMAIN Form /\ Width(w) \in Nat
       /\ \E f \in SingleGet[t] : Width(f) = Width(w)
       /\ \A f \in SingleGet[t] : Width(f) = Width(w) => Form[f] = Form[w]

LEMMA OneReader ==
  ASSUME NEW t, NEW f \in DOMAIN Form, Reads(t, {f}), Writes(t, f), t # "ProductVersion",
         t \notin DOMAIN ArraySet,
         Width(f) \in Nat
  PROVE  SinglePair(t)
BY DEF SinglePair, Reads, Writes, Writers

LEMMA NoArrays ==
  /\ "UInt8" \notin DOMAIN ArraySet
  /\ "UInt16" \notin DOMAIN ArraySet
  /\ "UInt32" \notin DOMAIN ArraySet
  /\ "UInt64" \notin DOMAIN ArraySet
  /\ "Int8" \notin DOMAIN ArraySet
  /\ "Int16" \notin DOMAIN ArraySet
  /\ "Int32" \notin DOMAIN ArraySet
  /\ "Int64" \notin DOMAIN ArraySet
  /\ "Float" \notin DOMAIN ArraySet
  /\ "VersionType" \notin DOMAIN ArraySet
  /\ "UUID" \notin DOMAIN ArraySet
  /\ "UL" \notin DOMAIN ArraySet
  /\ "AUID" \notin DOMAIN ArraySet
  /\ "UMID" \notin DOMAIN ArraySet
  /\ "Timestamp" \notin DOMAIN ArraySet
  /\ "Length" \notin DOMAIN ArraySet
  /\ "Rational" \notin DOMAIN ArraySet
  /\ "Position" \notin DOMAIN ArraySet
  /\ "Boolean" \notin DOMAIN ArraySet
  /\ "ProductVersion" \notin DOMAIN ArraySet
  /\ "RGBALayout" \notin DOMAIN ArraySet
  /\ "RawBytes" \notin DOMAIN ArraySet
  /\ "String" \notin DOMAIN ArraySet
  /\ "UTF8String" \notin DOMAIN ArraySet
  /\ "ISO7String" \notin DOMAIN ArraySet
  /\ "IndirectString" \notin DOMAIN ArraySet
  /\ "IndirectInt32" \notin DOMAIN ArraySet
BY ArraySetIs DEF IntegerArraySet, StructArraySet, NumberArraySet,
      AES3FixedArraySet, RefArraySet

LEMMA ProductVersionPair == SinglePair("ProductVersion")
<1> DEFINE t == "ProductVersion"
           u == "AvidProductVersion"
           p == "product_version"
           a == "avid_product_version"
<1>1. t \notin DOMAIN ArraySet
  BY NoArrays
<1>2. SingleGet[t] = {p, a} /\ SingleSet[t] = p /\ SingleSet[u] = a
  BY SingleGetIs, SingleSetIs DEF Reads, Writes
<1>3. Width(p) = 10 /\ Width(a) = 9
  BY WidthIs
<1>5. p \in DOMAIN Form /\ a \in DOMAIN Form
  BY FunctionsAre
<1> HIDE DEF p, a, u
<1>4. Writers(t) = {p, a}
  BY <1>2 DEF Writers, u
<1> HIDE DEF t
<1>6. SinglePair(t)
  BY <1>1, <1>2, <1>3, <1>4, <1>5 DEF SinglePair
<1> QED BY <1>6 DEF t

LEMMA SinglesPair == \A t \in DOMAIN SingleGet : SinglePair(t)
<1>1. SinglePair("UInt8")
  BY OneReader, FunctionsAre, SingleGetIs, SingleSetIs, NoArrays, WidthIs
<1>2. SinglePair("UInt16")
  BY OneReader, FunctionsAre, SingleGetIs, SingleSetIs, NoArrays, WidthIs
<1>3. SinglePair("UInt32")
  BY OneReader, FunctionsAre, SingleGetIs, SingleSetIs, NoArrays, WidthIs
<1>4. SinglePair("UInt64")
  BY OneReader, FunctionsAre, SingleGetIs, SingleSetIs, NoArrays, WidthIs
<1>5. SinglePair("Int8")
  BY OneReader, FunctionsAre, SingleGetIs, SingleSetIs, NoArrays, WidthIs
<1>6. SinglePair("Int16")
  BY OneReader, FunctionsAre, SingleGetIs, SingleSetIs, NoArrays, WidthIs
<1>7. SinglePair("Int32")
  BY OneReader, FunctionsAre, SingleGetIs, SingleSetIs, NoArrays, WidthIs
<1>8. SinglePair("Int64")
  BY OneReader, FunctionsAre, SingleGetIs, SingleSetIs, NoArrays, WidthIs
<1>9. SinglePair("Float")
  BY OneReader, FunctionsAre, SingleGetIs, SingleSetIs, NoArrays, WidthIs
<1>10. SinglePair("VersionType")
  BY OneReader, FunctionsAre, SingleGetIs, SingleSetIs, NoArrays, WidthIs
<1>11. SinglePair("UUID")
  BY OneReader, FunctionsAre, SingleGetIs, SingleSetIs, NoArrays, WidthIs
<1>12. SinglePair("UL")
  BY OneReader, FunctionsAre, SingleGetIs, SingleSetIs, NoArrays, WidthIs
<1>13. SinglePair("AUID")
  BY OneReader, FunctionsAre, SingleGetIs, SingleSetIs, NoArrays, WidthIs
<1>14. SinglePair("UMID")
  BY OneReader, FunctionsAre, SingleGetIs, SingleSetIs, NoArrays, WidthIs
<1>15. SinglePair("Timestamp")
  BY OneReader, FunctionsAre, SingleGetIs, SingleSetIs, NoArrays, WidthIs
<1>16. SinglePair("Length")
  BY OneReader, FunctionsAre, SingleGetIs, SingleSetIs, NoArrays, WidthIs
<1>17. SinglePair("Rational")
  BY OneReader, FunctionsAre, SingleGetIs, SingleSetIs, NoArrays, WidthIs
<1>18. SinglePair("Position")
  BY OneReader, FunctionsAre, SingleGetIs, SingleSetIs, NoArrays, WidthIs
<1>19. SinglePair("Boolean")
  BY OneReader, FunctionsAre, SingleGetIs, SingleSetIs, NoArrays, WidthIs
<1>20. SinglePair("RGBALayout")
  BY OneReader, FunctionsAre, SingleGetIs, SingleSetIs, NoArrays, WidthIs
<1>21. SinglePair("RawBytes")
  BY OneReader, FunctionsAre, SingleGetIs, SingleSetIs, NoArrays, WidthIs
<1>22. SinglePair("String")
  BY OneReader, FunctionsAre, SingleGetIs, SingleSetIs, NoArrays, WidthIs
<1>23. SinglePair("UTF8String")
  BY OneReader, FunctionsAre, SingleGetIs, SingleSetIs, NoArrays, WidthIs
<1>24. SinglePair("ISO7String")
  BY OneReader, FunctionsAre, SingleGetIs, SingleSetIs, NoArrays, WidthIs
<1>25. SinglePair("IndirectString")
  BY OneReader, FunctionsAre, SingleGetIs, SingleSetIs, NoArrays, WidthIs
<1>26. SinglePair("IndirectInt32")
  BY OneReader, FunctionsAre, SingleGetIs, SingleSetIs, NoArrays, WidthIs
<1>27. \A t \in DOMAIN IntegerGet : SinglePair(t)
  BY ProductVersionPair, <1>1, <1>2, <1>3, <1>4, <1>5, <1>6, <1>7, <1>8, <1>9, <1>10, <1>11, <1>12, <1>13, <1>14,
     <1>15, <1>16, <1>17, <1>18, <1>19, <1>20, <1>21, <1>22, <1>23, <1>24, <1>25, <1>26
  DEF IntegerGet
<1>28. \A t \in DOMAIN StructGet : SinglePair(t)
  BY ProductVersionPair, <1>1, <1>2, <1>3, <1>4, <1>5, <1>6, <1>7, <1>8, <1>9, <1>10, <1>11, <1>12, <1>13, <1>14,
     <1>15, <1>16, <1>17, <1>18, <1>19, <1>20, <1>21, <1>22, <1>23, <1>24, <1>25, <1>26
  DEF StructGet
<1>29. \A t \in DOMAIN BytesGet : SinglePair(t)
  BY ProductVersionPair, <1>1, <1>2, <1>3, <1>4, <1>5, <1>6, <1>7, <1>8, <1>9, <1>10, <1>11, <1>12, <1>13, <1>14,
     <1>15, <1>16, <1>17, <1>18, <1>19, <1>20, <1>21, <1>22, <1>23, <1>24, <1>25, <1>26
  DEF BytesGet
<1>30. \A t \in DOMAIN StringGet : SinglePair(t)
  BY ProductVersionPair, <1>1, <1>2, <1>3, <1>4, <1>5, <1>6, <1>7, <1>8, <1>9, <1>10, <1>11, <1>12, <1>13, <1>14,
     <1>15, <1>16, <1>17, <1>18, <1>19, <1>20, <1>21, <1>22, <1>23, <1>24, <1>25, <1>26
  DEF StringGet
<1>31. \A t \in DOMAIN IndirectGet : SinglePair(t)
  BY ProductVersionPair, <1>1, <1>2, <1>3, <1>4, <1>5, <1>6, <1>7, <1>8, <1>9, <1>10, <1>11, <1>12, <1>13, <1>14,
     <1>15, <1>16, <1>17, <1>18, <1>19, <1>20, <1>21, <1>22, <1>23, <1>24, <1>25, <1>26
  DEF IndirectGet
<1> QED
  BY SingleGetIs, <1>27, <1>28, <1>29, <1>30, <1>31

\* What a setter of an array allocates for an element is what it writes of it, and
\* what is appended is of the same form.
ElementFits(t) ==
  /\ ArraySet[t].length \in Nat \ {0}
  /\ ArraySet[t].function \in DOMAIN Form /\ ArrayAppend[t].function \in DOMAIN Form
  /\ ArraySet[t].stride = ArraySet[t].length
  /\ Width(ArraySet[t].function) = ArraySet[t].length
  /\ ArrayAppend[t].length = ArraySet[t].length
  /\ Form[ArrayAppend[t].function] = Form[ArraySet[t].function]

LEMMA OneForm ==
  ASSUME NEW t, NEW n \in Nat \ {0}, NEW f \in DOMAIN Form, WritesArray(t, n, n, f),
         AppendsArray(t, n, f), Width(f) = n
  PROVE  ElementFits(t)
BY DEF ElementFits, WritesArray, AppendsArray, Filled, Checked

LEMMA WeakRefFits == ElementFits("WeakRefArray")
<1>1. WritesArray("WeakRefArray", 16, 16, "strongref") /\ AppendsArray("WeakRefArray", 16, "weakref")
  BY ArraySetIs, ArrayAppendIs
<1>2. Form["weakref"] = Form["strongref"] /\ Width("strongref") = 16
  BY FormIs, WidthIs DEF Codes
<1>3. "strongref" \in DOMAIN Form /\ "weakref" \in DOMAIN Form
  BY FunctionsAre
<1> QED BY <1>1, <1>2, <1>3 DEF ElementFits, WritesArray, AppendsArray, Filled, Checked

LEMMA ElementsFit == \A t \in DOMAIN ArraySet : ElementFits(t)
<1>1. ElementFits("UInt8Array")
  BY OneForm, FunctionsAre, ArraySetIs, ArrayAppendIs, WidthIs
<1>2. ElementFits("UInt16Array")
  BY OneForm, FunctionsAre, ArraySetIs, ArrayAppendIs, WidthIs
<1>3. ElementFits("UInt32Array")
  BY OneForm, FunctionsAre, ArraySetIs, ArrayAppendIs, WidthIs
<1>4. ElementFits("UInt64Array")
  BY OneForm, FunctionsAre, ArraySetIs, ArrayAppendIs, WidthIs
<1>5. ElementFits("Int8Array")
  BY OneForm, FunctionsAre, ArraySetIs, ArrayAppendIs, WidthIs
<1>6. ElementFits("Int16Array")
  BY OneForm, FunctionsAre, ArraySetIs, ArrayAppendIs, WidthIs
<1>7. ElementFits("Int32Array")
  BY OneForm, FunctionsAre, ArraySetIs, ArrayAppendIs, WidthIs
<1>8. ElementFits("Int64Array")
  BY OneForm, FunctionsAre, ArraySetIs, ArrayAppendIs, WidthIs
<1>9. ElementFits("FloatArray")
  BY OneForm, FunctionsAre, ArraySetIs, ArrayAppendIs, WidthIs
<1>10. ElementFits("VersionTypeArray")
  BY OneForm, FunctionsAre, ArraySetIs, ArrayAppendIs, WidthIs
<1>11. ElementFits("UUIDArray")
  BY OneForm, FunctionsAre, ArraySetIs, ArrayAppendIs, WidthIs
<1>12. ElementFits("ULArray")
  BY OneForm, FunctionsAre, ArraySetIs, ArrayAppendIs, WidthIs
<1>13. ElementFits("AUIDArray")
  BY OneForm, FunctionsAre, ArraySetIs, ArrayAppendIs, WidthIs
<1>14. ElementFits("UMIDArray")
  BY OneForm, FunctionsAre, ArraySetIs, ArrayAppendIs, WidthIs
<1>15. ElementFits("TimestampArray")
  BY OneForm, FunctionsAre, ArraySetIs, ArrayAppendIs, WidthIs
<1>16. ElementFits("LengthArray")
  BY OneForm, FunctionsAre, ArraySetIs, ArrayAppendIs, WidthIs
<1>17. ElementFits("RationalArray")
  BY OneForm, FunctionsAre, ArraySetIs, ArrayAppendIs, WidthIs
<1>18. ElementFits("PositionArray")
  BY OneForm, FunctionsAre, ArraySetIs, ArrayAppendIs, WidthIs
<1>19. ElementFits("BooleanArray")
  BY OneForm, FunctionsAre, ArraySetIs, ArrayAppendIs, WidthIs
<1>20. ElementFits("ProductVersionArray")
  BY OneForm, FunctionsAre, ArraySetIs, ArrayAppendIs, WidthIs
<1>21. ElementFits("AES3FixedArray")
  BY OneForm, FunctionsAre, ArraySetIs, ArrayAppendIs, WidthIs
<1>22. ElementFits("StrongRefArray")
  BY OneForm, FunctionsAre, ArraySetIs, ArrayAppendIs, WidthIs
<1>23. \A t \in DOMAIN IntegerArraySet : ElementFits(t)
  BY WeakRefFits, <1>1, <1>2, <1>3, <1>4, <1>5, <1>6, <1>7, <1>8, <1>9, <1>10, <1>11, <1>12, <1>13, <1>14,
     <1>15, <1>16, <1>17, <1>18, <1>19, <1>20, <1>21, <1>22
  DEF IntegerArraySet
<1>24. \A t \in DOMAIN StructArraySet : ElementFits(t)
  BY WeakRefFits, <1>1, <1>2, <1>3, <1>4, <1>5, <1>6, <1>7, <1>8, <1>9, <1>10, <1>11, <1>12, <1>13, <1>14,
     <1>15, <1>16, <1>17, <1>18, <1>19, <1>20, <1>21, <1>22
  DEF StructArraySet
<1>25. \A t \in DOMAIN NumberArraySet : ElementFits(t)
  BY WeakRefFits, <1>1, <1>2, <1>3, <1>4, <1>5, <1>6, <1>7, <1>8, <1>9, <1>10, <1>11, <1>12, <1>13, <1>14,
     <1>15, <1>16, <1>17, <1>18, <1>19, <1>20, <1>21, <1>22
  DEF NumberArraySet
<1>26. \A t \in DOMAIN AES3FixedArraySet : ElementFits(t)
  BY WeakRefFits, <1>1, <1>2, <1>3, <1>4, <1>5, <1>6, <1>7, <1>8, <1>9, <1>10, <1>11, <1>12, <1>13, <1>14,
     <1>15, <1>16, <1>17, <1>18, <1>19, <1>20, <1>21, <1>22
  DEF AES3FixedArraySet
<1>27. \A t \in DOMAIN RefArraySet : ElementFits(t)
  BY WeakRefFits, <1>1, <1>2, <1>3, <1>4, <1>5, <1>6, <1>7, <1>8, <1>9, <1>10, <1>11, <1>12, <1>13, <1>14,
     <1>15, <1>16, <1>17, <1>18, <1>19, <1>20, <1>21, <1>22
  DEF RefArraySet
<1> QED
  BY ArraySetIs, <1>23, <1>24, <1>25, <1>26, <1>27

\* The getter of an array reads what its setter writes.
ArrayPair(g, s) ==
  /\ s \in DOMAIN ArraySet
  /\ ArrayGet[g].length = ArraySet[s].length
  /\ Form[ArrayGet[g].function] = Form[ArraySet[s].function]

LEMMA OneElement ==
  ASSUME NEW g, NEW s, NEW n, NEW f, s \in DOMAIN ArraySet, ReadsArray(g, n, f),
         WritesArray(s, n, n, f)
  PROVE  ArrayPair(g, s)
BY DEF ArrayPair, ReadsArray, WritesArray, Checked, Filled

LEMMA ArraysAre ==
  /\ "UInt8Array" \in DOMAIN ArraySet
  /\ "UInt16Array" \in DOMAIN ArraySet
  /\ "UInt32Array" \in DOMAIN ArraySet
  /\ "UInt64Array" \in DOMAIN ArraySet
  /\ "Int8Array" \in DOMAIN ArraySet
  /\ "Int16Array" \in DOMAIN ArraySet
  /\ "Int32Array" \in DOMAIN ArraySet
  /\ "Int64Array" \in DOMAIN ArraySet
  /\ "FloatArray" \in DOMAIN ArraySet
  /\ "VersionTypeArray" \in DOMAIN ArraySet
  /\ "UUIDArray" \in DOMAIN ArraySet
  /\ "ULArray" \in DOMAIN ArraySet
  /\ "AUIDArray" \in DOMAIN ArraySet
  /\ "UMIDArray" \in DOMAIN ArraySet
  /\ "TimestampArray" \in DOMAIN ArraySet
  /\ "LengthArray" \in DOMAIN ArraySet
  /\ "RationalArray" \in DOMAIN ArraySet
  /\ "PositionArray" \in DOMAIN ArraySet
  /\ "BooleanArray" \in DOMAIN ArraySet
  /\ "ProductVersionArray" \in DOMAIN ArraySet
  /\ "AES3FixedArray" \in DOMAIN ArraySet
  /\ "StrongRefArray" \in DOMAIN ArraySet
  /\ "WeakRefArray" \in DOMAIN ArraySet
BY ArraySetIs DEF IntegerArraySet, StructArraySet, NumberArraySet,
      AES3FixedArraySet, RefArraySet

LEMMA ArraysPair ==
  /\ \A t \in DOMAIN ArrayGet : t # "AES3FixedDataArray" => ArrayPair(t, t)
  /\ ArrayPair("AES3FixedDataArray", "AES3FixedArray")
<1>1. ArrayPair("UInt8Array", "UInt8Array")
  BY OneElement, ArrayGetIs, ArraySetIs, ArraysAre
<1>2. ArrayPair("UInt16Array", "UInt16Array")
  BY OneElement, ArrayGetIs, ArraySetIs, ArraysAre
<1>3. ArrayPair("UInt32Array", "UInt32Array")
  BY OneElement, ArrayGetIs, ArraySetIs, ArraysAre
<1>4. ArrayPair("UInt64Array", "UInt64Array")
  BY OneElement, ArrayGetIs, ArraySetIs, ArraysAre
<1>5. ArrayPair("Int8Array", "Int8Array")
  BY OneElement, ArrayGetIs, ArraySetIs, ArraysAre
<1>6. ArrayPair("Int16Array", "Int16Array")
  BY OneElement, ArrayGetIs, ArraySetIs, ArraysAre
<1>7. ArrayPair("Int32Array", "Int32Array")
  BY OneElement, ArrayGetIs, ArraySetIs, ArraysAre
<1>8. ArrayPair("Int64Array", "Int64Array")
  BY OneElement, ArrayGetIs, ArraySetIs, ArraysAre
<1>9. ArrayPair("FloatArray", "FloatArray")
  BY OneElement, ArrayGetIs, ArraySetIs, ArraysAre
<1>10. ArrayPair("VersionTypeArray", "VersionTypeArray")
  BY OneElement, ArrayGetIs, ArraySetIs, ArraysAre
<1>11. ArrayPair("UUIDArray", "UUIDArray")
  BY OneElement, ArrayGetIs, ArraySetIs, ArraysAre
<1>12. ArrayPair("ULArray", "ULArray")
  BY OneElement, ArrayGetIs, ArraySetIs, ArraysAre
<1>13. ArrayPair("AUIDArray", "AUIDArray")
  BY OneElement, ArrayGetIs, ArraySetIs, ArraysAre
<1>14. ArrayPair("UMIDArray", "UMIDArray")
  BY OneElement, ArrayGetIs, ArraySetIs, ArraysAre
<1>15. ArrayPair("TimestampArray", "TimestampArray")
  BY OneElement, ArrayGetIs, ArraySetIs, ArraysAre
<1>16. ArrayPair("LengthArray", "LengthArray")
  BY OneElement, ArrayGetIs, ArraySetIs, ArraysAre
<1>17. ArrayPair("RationalArray", "RationalArray")
  BY OneElement, ArrayGetIs, ArraySetIs, ArraysAre
<1>18. ArrayPair("PositionArray", "PositionArray")
  BY OneElement, ArrayGetIs, ArraySetIs, ArraysAre
<1>19. ArrayPair("BooleanArray", "BooleanArray")
  BY OneElement, ArrayGetIs, ArraySetIs, ArraysAre
<1>20. ArrayPair("ProductVersionArray", "ProductVersionArray")
  BY OneElement, ArrayGetIs, ArraySetIs, ArraysAre
<1>21. ArrayPair("AES3FixedDataArray", "AES3FixedArray")
  BY OneElement, ArrayGetIs, ArraySetIs, ArraysAre
<1>22. \A t \in DOMAIN IntegerArrayGet : t # "AES3FixedDataArray" => ArrayPair(t, t)
  BY <1>1, <1>2, <1>3, <1>4, <1>5, <1>6, <1>7, <1>8, <1>9, <1>10, <1>11, <1>12, <1>13, <1>14,
     <1>15, <1>16, <1>17, <1>18, <1>19, <1>20, <1>21
  DEF IntegerArrayGet
<1>23. \A t \in DOMAIN StructArrayGet : t # "AES3FixedDataArray" => ArrayPair(t, t)
  BY <1>1, <1>2, <1>3, <1>4, <1>5, <1>6, <1>7, <1>8, <1>9, <1>10, <1>11, <1>12, <1>13, <1>14,
     <1>15, <1>16, <1>17, <1>18, <1>19, <1>20, <1>21
  DEF StructArrayGet
<1>24. \A t \in DOMAIN NumberArrayGet : t # "AES3FixedDataArray" => ArrayPair(t, t)
  BY <1>1, <1>2, <1>3, <1>4, <1>5, <1>6, <1>7, <1>8, <1>9, <1>10, <1>11, <1>12, <1>13, <1>14,
     <1>15, <1>16, <1>17, <1>18, <1>19, <1>20, <1>21
  DEF NumberArrayGet
<1>25. \A t \in DOMAIN AES3FixedDataArrayGet : t # "AES3FixedDataArray" => ArrayPair(t, t)
  BY <1>1, <1>2, <1>3, <1>4, <1>5, <1>6, <1>7, <1>8, <1>9, <1>10, <1>11, <1>12, <1>13, <1>14,
     <1>15, <1>16, <1>17, <1>18, <1>19, <1>20, <1>21
  DEF AES3FixedDataArrayGet
<1> QED
  BY ArrayGetIs, <1>21, <1>22, <1>23, <1>24, <1>25

-----------------------------------------------------------------------------
(* The items of the classes *)

\* An item that is a value is read and written as the same type; one reference is
\* never to a tagged value.
GoodItem(i) ==
  \/ /\ i.of = "" /\ i.get = i.set /\ i.set \in DOMAIN SingleGet /\ i.set \notin DOMAIN ArraySet
  \/ /\ i.of = "" /\ i.set \in DOMAIN ArraySet /\ ArrayPair(i.get, i.set)
  \/ /\ i.of \notin {"", "TaggedValue"} /\ i.set \in DOMAIN RefSet /\ i.set \notin DOMAIN ArraySet
  \/ /\ i.of # "" /\ i.set \in DOMAIN RefArraySet /\ i.set \in DOMAIN ArraySet

GoodItems(items) == \A n \in DOMAIN items : GoodItem(items[n])

\* An item, when its setter is of that type.
GoodPair(i, type) == GoodItem([i EXCEPT !.set = type])

\* A type of which an item may be.
GoodType(t) == t \in DOMAIN SingleGet \/ (t \in DOMAIN ArrayGet /\ t # "AES3FixedDataArray")

LEMMA GoodValue ==
  ASSUME NEW t, GoodType(t)
  PROVE  GoodItem(Item(t)) /\ GoodItem(OptItem(t)) /\ GoodPair(Item(t), t) /\ GoodPair(OptItem(t), t)
<1>1. \/ t \in DOMAIN SingleGet /\ t \notin DOMAIN ArraySet
      \/ t \in DOMAIN ArraySet /\ ArrayPair(t, t)
  BY SinglesPair, ArraysPair DEF GoodType, SinglePair, ArrayPair
<1> QED BY <1>1 DEF GoodItem, GoodPair, Item, OptItem, Opt

LEMMA RefsAre ==
  /\ "StrongRef" \in DOMAIN RefSet /\ "StrongRef" \notin DOMAIN ArraySet
  /\ "WeakRef" \in DOMAIN RefSet /\ "WeakRef" \notin DOMAIN ArraySet
  /\ "StrongRefArray" \in DOMAIN RefArraySet /\ "StrongRefArray" \in DOMAIN ArraySet
  /\ "WeakRefArray" \in DOMAIN RefArraySet /\ "WeakRefArray" \in DOMAIN ArraySet
BY ArraySetIs, ArraysAre DEF RefSet, RefArraySet, IntegerArraySet, StructArraySet, NumberArraySet,
   AES3FixedArraySet

IsName(c) == c # ""
IsOther(c) == c # "TaggedValue"

LEMMA GoodRef ==
  ASSUME NEW c, IsName(c), IsOther(c)
  PROVE  /\ GoodItem(StrongRef(c)) /\ GoodItem(Opt(StrongRef(c)))
         /\ GoodPair(StrongRef(c), "StrongRef") /\ GoodPair(Opt(WeakRef(c)), "WeakRef")
         /\ GoodItem(WeakRef(c))
BY RefsAre DEF IsName, IsOther, GoodItem, GoodPair, Item, Opt, StrongRef, WeakRef

LEMMA GoodRefArray ==
  ASSUME NEW c, IsName(c)
  PROVE  /\ GoodItem(StrongRefArray(c)) /\ GoodItem(Opt(StrongRefArray(c)))
         /\ GoodPair(StrongRefArray(c), "StrongRefArray")
BY RefsAre DEF IsName, GoodItem, GoodPair, Item, Opt, StrongRefArray

LEMMA GoodWeakRefArray ==
  ASSUME NEW c, IsName(c)
  PROVE  GoodItem([Item("WeakRefArray") EXCEPT !.of = c])
BY RefsAre DEF IsName, GoodItem, Item

LEMMA GoodFixedData == GoodPair(OptItem("AES3FixedDataArray"), "AES3FixedArray")
BY ArraysPair, ArraysAre DEF GoodItem, GoodPair, Item, OptItem, Opt

LEMMA GoodTypes ==
  /\ GoodType("Boolean")
  /\ GoodType("ISO7String")
  /\ GoodType("IndirectInt32")
  /\ GoodType("IndirectString")
  /\ GoodType("Int16")
  /\ GoodType("Int32")
  /\ GoodType("Int32Array")
  /\ GoodType("Int8")
  /\ GoodType("Length")
  /\ GoodType("Position")
  /\ GoodType("ProductVersion")
  /\ GoodType("RGBALayout")
  /\ GoodType("Rational")
  /\ GoodType("RawBytes")
  /\ GoodType("String")
  /\ GoodType("Timestamp")
  /\ GoodType("UInt16")
  /\ GoodType("UInt32")
  /\ GoodType("UInt32Array")
  /\ GoodType("UInt8")
  /\ GoodType("UInt8Array")
  /\ GoodType("UL")
  /\ GoodType("ULArray")
  /\ GoodType("UMID")
  /\ GoodType("UUID")
  /\ GoodType("UUIDArray")
  /\ GoodType("VersionType")
BY SingleGetIs, ArrayGetIs
DEF GoodType, IntegerGet, StructGet, BytesGet, StringGet, IndirectGet, IntegerArrayGet, StructArrayGet,
   NumberArrayGet, AES3FixedDataArrayGet

LEMMA ReferredTo ==
  /\ IsName("ContentStorage") /\ IsOther("ContentStorage")
  /\ IsName("DMFramework") /\ IsOther("DMFramework")
  /\ IsName("EssenceContainerData") /\ IsOther("EssenceContainerData")
  /\ IsName("GenericDescriptor") /\ IsOther("GenericDescriptor")
  /\ IsName("GenericPackage") /\ IsOther("GenericPackage")
  /\ IsName("GenericTrack") /\ IsOther("GenericTrack")
  /\ IsName("Identification") /\ IsOther("Identification")
  /\ IsName("InterchangeObject") /\ IsOther("InterchangeObject")
  /\ IsName("Locator") /\ IsOther("Locator")
  /\ IsName("StructuralComponent") /\ IsOther("StructuralComponent")
  /\ IsName("SubDescriptor") /\ IsOther("SubDescriptor")
  /\ IsName("TaggedValue")
  /\ IsName("TextBasedObject") /\ IsOther("TextBasedObject")
BY DEF IsName, IsOther

LEMMA GoodPaired ==
  ASSUME NEW g, NEW s, \A n \in DOMAIN g : GoodPair(g[n], s[n])
  PROVE  GoodItems(Paired(g, s))
BY DEF GoodItems, GoodPair, Paired

LEMMA GoodJoin ==
  ASSUME NEW f, NEW g, GoodItems(f), GoodItems(g)
  PROVE  GoodItems(f ++ g)
BY DEF GoodItems, ++

LEMMA GoodNone == GoodItems(NoItems)
BY DEF GoodItems, NoItems

LEMMA ItemsAreGood == \A c \in ClassNames : GoodItems(MetadataClass[c].items)
<1>1. GoodItems(MetadataClass["InterchangeObject"].items)
  <2>1. GoodItems(InterchangeObjectItems)
    BY GoodValue, GoodTypes DEF GoodItems, InterchangeObjectItems
  <2> QED BY <2>1, ClassIs DEF InterchangeObject, Extends
<1>2. GoodItems(MetadataClass["ContentStorage"].items)
  <2>1. GoodItems(ContentStorageItems)
    BY GoodRefArray, ReferredTo DEF GoodItems, ContentStorageItems
  <2> QED BY <2>1, ClassIs DEF ContentStorage, Extends
<1>3. GoodItems(MetadataClass["DMFramework"].items)
  BY ClassIs, GoodNone DEF DMFramework, Extends
<1>4. GoodItems(MetadataClass["TextBasedDMFramework"].items)
  <2>1. GoodItems(TextBasedDMFrameworkItems)
    BY GoodRef, ReferredTo DEF GoodItems, TextBasedDMFrameworkItems
  <2> QED BY <2>1, ClassIs DEF TextBasedDMFramework, Extends
<1>5. GoodItems(MetadataClass["DMSet"].items)
  BY ClassIs, GoodNone DEF DMSet, Extends
<1>6. GoodItems(MetadataClass["TextBasedObject"].items)
  <2>1. GoodItems(TextBasedObjectItems)
    BY GoodValue, GoodTypes DEF GoodItems, TextBasedObjectItems
  <2> QED BY <2>1, ClassIs DEF TextBasedObject, Extends
<1>7. GoodItems(MetadataClass["GenericStreamTextBasedSet"].items)
  <2>1. GoodItems(GenericStreamTextBasedSetItems)
    BY GoodValue, GoodTypes DEF GoodItems, GenericStreamTextBasedSetItems
  <2> QED BY <2>1, ClassIs DEF GenericStreamTextBasedSet, Extends
<1>8. GoodItems(MetadataClass["UTF16TextBasedSet"].items)
  <2>1. GoodItems(UTF16TextBasedSetItems)
    BY GoodValue, GoodTypes DEF GoodItems, UTF16TextBasedSetItems
  <2> QED BY <2>1, ClassIs DEF UTF16TextBasedSet, Extends
<1>9. GoodItems(MetadataClass["UTF8TextBasedSet"].items)
  <2>1. GoodItems(UTF8TextBasedSetItems)
    BY GoodValue, GoodTypes DEF GoodItems, UTF8TextBasedSetItems
  <2> QED BY <2>1, ClassIs DEF UTF8TextBasedSet, Extends
<1>10. GoodItems(MetadataClass["EssenceContainerData"].items)
  <2>1. GoodItems(EssenceContainerDataItems)
    BY GoodValue, GoodTypes DEF GoodItems, EssenceContainerDataItems
  <2> QED BY <2>1, ClassIs DEF EssenceContainerData, Extends
<1>11. GoodItems(MetadataClass["GenericDescriptor"].items)
  <2>1. GoodItems(GenericDescriptorItems)
    BY GoodRefArray, ReferredTo DEF GoodItems, GenericDescriptorItems
  <2> QED BY <2>1, ClassIs DEF GenericDescriptor, Extends
<1>12. GoodItems(MetadataClass["FileDescriptor"].items)
  <2>1. GoodItems(FileDescriptorItems)
    BY GoodValue, GoodTypes DEF GoodItems, FileDescriptorItems
  <2> QED BY <2>1, ClassIs DEF FileDescriptor, Extends
<1>13. GoodItems(MetadataClass["GenericDataEssenceDescriptor"].items)
  <2>1. GoodItems(GenericDataEssenceDescriptorItems)
    BY GoodValue, GoodTypes DEF GoodItems, GenericDataEssenceDescriptorItems
  <2> QED BY <2>1, ClassIs DEF GenericDataEssenceDescriptor, Extends
<1>14. GoodItems(MetadataClass["ANCDataDescriptor"].items)
  BY ClassIs, GoodNone DEF ANCDataDescriptor, Extends
<1>15. GoodItems(MetadataClass["DCTimedTextDescriptor"].items)
  <2>1. GoodItems(DCTimedTextDescriptorItems)
    BY GoodValue, GoodTypes DEF GoodItems, DCTimedTextDescriptorItems
  <2> QED BY <2>1, ClassIs DEF DCTimedTextDescriptor, Extends
<1>16. GoodItems(MetadataClass["VBIDataDescriptor"].items)
  BY ClassIs, GoodNone DEF VBIDataDescriptor, Extends
<1>17. GoodItems(MetadataClass["GenericPictureEssenceDescriptor"].items)
  <2>1. \A n \in DOMAIN GenericPictureEssenceDescriptorGetters :
        GoodPair(GenericPictureEssenceDescriptorGetters[n],
                 GenericPictureEssenceDescriptorSetters[n])
    BY GoodValue, GoodTypes
    DEF GenericPictureEssenceDescriptorGetters, GenericPictureEssenceDescriptorSetters
  <2> QED BY <2>1, GoodPaired, ClassIs DEF GenericPictureEssenceDescriptor, Extends
<1>18. GoodItems(MetadataClass["CDCIEssenceDescriptor"].items)
  <2>1. \A n \in DOMAIN CDCIEssenceDescriptorGetters :
        GoodPair(CDCIEssenceDescriptorGetters[n],
                 CDCIEssenceDescriptorSetters[n])
    BY GoodValue, GoodTypes, ReferredTo DEF CDCIEssenceDescriptorGetters, CDCIEssenceDescriptorSetters
  <2> QED BY <2>1, GoodPaired, ClassIs DEF CDCIEssenceDescriptor, Extends
<1>19. GoodItems(MetadataClass["MPEGVideoDescriptor"].items)
  <2>1. \A n \in DOMAIN MPEGVideoDescriptorGetters :
        GoodPair(MPEGVideoDescriptorGetters[n],
                 MPEGVideoDescriptorSetters[n])
    BY GoodValue, GoodTypes DEF MPEGVideoDescriptorGetters, MPEGVideoDescriptorSetters
  <2> QED BY <2>1, GoodPaired, ClassIs DEF MPEGVideoDescriptor, Extends
<1>20. GoodItems(MetadataClass["RGBAEssenceDescriptor"].items)
  <2>1. GoodItems(RGBAEssenceDescriptorItems)
    BY GoodValue, GoodTypes, ReferredTo DEF GoodItems, RGBAEssenceDescriptorItems
  <2> QED BY <2>1, ClassIs DEF RGBAEssenceDescriptor, Extends
<1>21. GoodItems(MetadataClass["GenericSoundEssenceDescriptor"].items)
  <2>1. GoodItems(GenericSoundEssenceDescriptorItems)
    BY GoodValue, GoodTypes, ReferredTo DEF GoodItems, GenericSoundEssenceDescriptorItems
  <2> QED BY <2>1, ClassIs DEF GenericSoundEssenceDescriptor, Extends
<1>22. GoodItems(MetadataClass["WaveAudioDescriptor"].items)
  <2>1. \A n \in DOMAIN WaveAudioDescriptorGetters :
        GoodPair(WaveAudioDescriptorGetters[n],
                 WaveAudioDescriptorSetters[n])
    BY GoodValue, GoodTypes DEF WaveAudioDescriptorGetters, WaveAudioDescriptorSetters
  <2> QED BY <2>1, GoodPaired, ClassIs DEF WaveAudioDescriptor, Extends
<1>23. GoodItems(MetadataClass["AES3AudioDescriptor"].items)
  <2>1. \A n \in DOMAIN AES3AudioDescriptorGetters :
        GoodPair(AES3AudioDescriptorGetters[n],
                 AES3AudioDescriptorSetters[n])
    BY GoodValue, GoodTypes, GoodFixedData
    DEF AES3AudioDescriptorGetters, AES3AudioDescriptorSetters
  <2> QED BY <2>1, GoodPaired, ClassIs DEF AES3AudioDescriptor, Extends
<1>24. GoodItems(MetadataClass["MultipleDescriptor"].items)
  <2>1. GoodItems(MultipleDescriptorItems)
    BY GoodRefArray, ReferredTo DEF GoodItems, MultipleDescriptorItems
  <2> QED BY <2>1, ClassIs DEF MultipleDescriptor, Extends
<1>25. GoodItems(MetadataClass["GenericPackage"].items)
  <2>1. GoodItems(GenericPackageItems)
    BY GoodValue, GoodTypes, GoodRefArray, ReferredTo DEF GoodItems, GenericPackageItems
  <2>2. GoodItems(GenericPackageAvid)
    BY GoodRefArray, ReferredTo DEF GoodItems, GenericPackageAvid
  <2>3. GoodItems(GenericPackageItems ++ GenericPackageAvid)
    BY <2>1, <2>2, GoodJoin
  <2>4. MetadataClass["GenericPackage"].items = GenericPackageItems ++ GenericPackageAvid
    BY ClassIs DEF GenericPackage, Extends
  <2> QED BY <2>3, <2>4
<1>26. GoodItems(MetadataClass["MaterialPackage"].items)
  BY ClassIs, GoodNone DEF MaterialPackage, Extends
<1>27. GoodItems(MetadataClass["SourcePackage"].items)
  <2>1. GoodItems(SourcePackageItems)
    BY GoodRef, ReferredTo DEF GoodItems, SourcePackageItems
  <2> QED BY <2>1, ClassIs DEF SourcePackage, Extends
<1>28. GoodItems(MetadataClass["GenericTrack"].items)
  <2>1. GoodItems(GenericTrackItems)
    BY GoodValue, GoodTypes, GoodRef, ReferredTo DEF GoodItems, GenericTrackItems
  <2> QED BY <2>1, ClassIs DEF GenericTrack, Extends
<1>29. GoodItems(MetadataClass["EventTrack"].items)
  <2>1. GoodItems(EventTrackItems)
    BY GoodValue, GoodTypes DEF GoodItems, EventTrackItems
  <2> QED BY <2>1, ClassIs DEF EventTrack, Extends
<1>30. GoodItems(MetadataClass["StaticTrack"].items)
  BY ClassIs, GoodNone DEF StaticTrack, Extends
<1>31. GoodItems(MetadataClass["Track"].items)
  <2>1. GoodItems(TrackItems)
    BY GoodValue, GoodTypes DEF GoodItems, TrackItems
  <2> QED BY <2>1, ClassIs DEF Track, Extends
<1>32. GoodItems(MetadataClass["Identification"].items)
  <2>1. GoodItems(IdentificationItems)
    BY GoodValue, GoodTypes DEF GoodItems, IdentificationItems
  <2> QED BY <2>1, ClassIs DEF Identification, Extends
<1>33. GoodItems(MetadataClass["Locator"].items)
  BY ClassIs, GoodNone DEF Locator, Extends
<1>34. GoodItems(MetadataClass["NetworkLocator"].items)
  <2>1. GoodItems(NetworkLocatorItems)
    BY GoodValue, GoodTypes DEF GoodItems, NetworkLocatorItems
  <2> QED BY <2>1, ClassIs DEF NetworkLocator, Extends
<1>35. GoodItems(MetadataClass["TextLocator"].items)
  <2>1. GoodItems(TextLocatorItems)
    BY GoodValue, GoodTypes DEF GoodItems, TextLocatorItems
  <2> QED BY <2>1, ClassIs DEF TextLocator, Extends
<1>36. GoodItems(MetadataClass["Preface"].items)
  <2>1. \A n \in DOMAIN PrefaceGetters : GoodPair(PrefaceGetters[n], PrefaceSetters[n])
    BY GoodValue, GoodTypes, GoodRef, GoodRefArray, ReferredTo DEF PrefaceGetters, PrefaceSetters
  <2> QED BY <2>1, GoodPaired, ClassIs DEF Preface, Extends
<1>37. GoodItems(MetadataClass["StructuralComponent"].items)
  <2>1. GoodItems(StructuralComponentItems)
    BY GoodValue, GoodTypes DEF GoodItems, StructuralComponentItems
  <2> QED BY <2>1, ClassIs DEF StructuralComponent, Extends
<1>38. GoodItems(MetadataClass["DMSegment"].items)
  <2>1. GoodItems(DMSegmentItems)
    BY GoodValue, GoodTypes, GoodRef, ReferredTo DEF GoodItems, DMSegmentItems
  <2> QED BY <2>1, ClassIs DEF DMSegment, Extends
<1>39. GoodItems(MetadataClass["Sequence"].items)
  <2>1. GoodItems(SequenceItems)
    BY GoodRefArray, ReferredTo DEF GoodItems, SequenceItems
  <2> QED BY <2>1, ClassIs DEF Sequence, Extends
<1>40. GoodItems(MetadataClass["SourceClip"].items)
  <2>1. GoodItems(SourceClipItems)
    BY GoodValue, GoodTypes DEF GoodItems, SourceClipItems
  <2> QED BY <2>1, ClassIs DEF SourceClip, Extends
<1>41. GoodItems(MetadataClass["DMSourceClip"].items)
  <2>1. GoodItems(DMSourceClipItems)
    BY GoodValue, GoodTypes DEF GoodItems, DMSourceClipItems
  <2> QED BY <2>1, ClassIs DEF DMSourceClip, Extends
<1>42. GoodItems(MetadataClass["TimecodeComponent"].items)
  <2>1. GoodItems(TimecodeComponentItems)
    BY GoodValue, GoodTypes DEF GoodItems, TimecodeComponentItems
  <2> QED BY <2>1, ClassIs DEF TimecodeComponent, Extends
<1>43. GoodItems(MetadataClass["SubDescriptor"].items)
  BY ClassIs, GoodNone DEF SubDescriptor, Extends
<1>44. GoodItems(MetadataClass["AVCSubDescriptor"].items)
  <2>1. \A n \in DOMAIN AVCSubDescriptorGetters :
        GoodPair(AVCSubDescriptorGetters[n],
                 AVCSubDescriptorSetters[n])
    BY GoodValue, GoodTypes, ReferredTo DEF AVCSubDescriptorGetters, AVCSubDescriptorSetters
  <2> QED BY <2>1, GoodPaired, ClassIs DEF AVCSubDescriptor, Extends
<1>45. GoodItems(MetadataClass["DCTimedTextResourceSubDescriptor"].items)
  <2>1. GoodItems(DCTimedTextResourceSubDescriptorItems)
    BY GoodValue, GoodTypes DEF GoodItems, DCTimedTextResourceSubDescriptorItems
  <2> QED BY <2>1, ClassIs DEF DCTimedTextResourceSubDescriptor, Extends
<1>46. GoodItems(MetadataClass["MCALabelSubDescriptor"].items)
  <2>1. \A n \in DOMAIN MCALabelSubDescriptorGetters :
        GoodPair(MCALabelSubDescriptorGetters[n],
                 MCALabelSubDescriptorSetters[n])
    BY GoodValue, GoodTypes DEF MCALabelSubDescriptorGetters, MCALabelSubDescriptorSetters
  <2> QED BY <2>1, GoodPaired, ClassIs DEF MCALabelSubDescriptor, Extends
<1>47. GoodItems(MetadataClass["AudioChannelLabelSubDescriptor"].items)
  <2>1. GoodItems(AudioChannelLabelSubDescriptorItems)
    BY GoodValue, GoodTypes DEF GoodItems, AudioChannelLabelSubDescriptorItems
  <2> QED BY <2>1, ClassIs DEF AudioChannelLabelSubDescriptor, Extends
<1>48. GoodItems(MetadataClass["GroupOfSoundfieldGroupsLabelSubDescriptor"].items)
  BY ClassIs, GoodNone DEF GroupOfSoundfieldGroupsLabelSubDescriptor, Extends
<1>49. GoodItems(MetadataClass["SoundfieldGroupLabelSubDescriptor"].items)
  <2>1. GoodItems(SoundfieldGroupLabelSubDescriptorItems)
    BY GoodValue, GoodTypes DEF GoodItems, SoundfieldGroupLabelSubDescriptorItems
  <2> QED BY <2>1, ClassIs DEF SoundfieldGroupLabelSubDescriptor, Extends
<1>50. GoodItems(MetadataClass["VC2SubDescriptor"].items)
  <2>1. GoodItems(VC2SubDescriptorItems)
    BY GoodValue, GoodTypes DEF GoodItems, VC2SubDescriptorItems
  <2> QED BY <2>1, ClassIs DEF VC2SubDescriptor, Extends
<1>51. GoodItems(MetadataClass["TaggedValue"].items)
  <2>1. GoodItems(TaggedValueItems)
    BY GoodValue, GoodTypes, GoodRefArray, ReferredTo DEF GoodItems, TaggedValueItems
  <2> QED BY <2>1, ClassIs DEF TaggedValue, Extends
<1>52. \A c \in Level1 : GoodItems(MetadataClass[c].items)
  BY <1>1 DEF Level1
<1>53. \A c \in Level2 : GoodItems(MetadataClass[c].items)
  BY <1>2, <1>3, <1>5, <1>10, <1>11, <1>25, <1>28, <1>32, <1>33, <1>36, <1>37, <1>43, <1>51 DEF Level2
<1>54. \A c \in Level3 : GoodItems(MetadataClass[c].items)
  BY <1>4, <1>6, <1>12, <1>26, <1>27, <1>29, <1>30, <1>31, <1>34, <1>35, <1>38, <1>39, <1>40,
     <1>42, <1>44, <1>45, <1>46, <1>50 DEF Level3
<1>55. \A c \in Level4 : GoodItems(MetadataClass[c].items)
  BY <1>7, <1>8, <1>9, <1>13, <1>17, <1>21, <1>24, <1>41, <1>47, <1>48, <1>49 DEF Level4
<1>56. \A c \in Level5 : GoodItems(MetadataClass[c].items)
  BY <1>14, <1>15, <1>16, <1>18, <1>20, <1>22 DEF Level5
<1>57. \A c \in Level6 : GoodItems(MetadataClass[c].items)
  BY <1>19, <1>23 DEF Level6
<1> QED
  BY NamesAre, <1>52, <1>53, <1>54, <1>55, <1>56, <1>57

-----------------------------------------------------------------------------
(* The invariant *)

AllValues == Values \cup Targets

\* The functions that may write the item when it is no array.
ItemWriters == IF IsRef(TheItem) THEN {RefSet[TheItem.set]} ELSE Writers(TheItem.set)

\* One value, as the client gave it.
HoldsValue ==
  /\ ~IsArray(TheItem)
  /\ written \in AllValues
  /\ ~IsRef(TheItem) => Converts(TheItem.set, written)
  /\ \E w \in ItemWriters : item = Single(w, written)

\* The elements, one behind the other, in the order the client gave them.
HoldsElements ==
  LET fill == ArraySet[TheItem.set]
  IN /\ IsArray(TheItem)
     /\ written \in Seq(AllValues)
     /\ item = [array |-> TRUE, length |-> fill.length, count |-> Len(written), data |-> item.data]
     /\ item.data \in Seq([at : Nat, function : DOMAIN Form, value : AllValues])
     /\ Len(item.data) = Len(written)
     /\ \A i \in 1 .. Len(written) :
          /\ item.data[i].at = (i - 1) * fill.length
          /\ Form[item.data[i].function] = Form[fill.function]
          /\ item.data[i].value = written[i]

ItemInv ==
  \/ item = Absent /\ written = Absent
  \/ item # Absent /\ written # Absent /\ (HoldsValue \/ HoldsElements)

\* Only sets that a reference can be made to are wrapped, and each as its own
\* class; a tagged value may be wrapped before its class is registered.
DirectoryInv ==
  /\ sets \subseteq Targets /\ held \subseteq sets
  /\ sets # {} => IsRef(TheItem)
  /\ extensions \subseteq {"TaggedValue"}
  /\ DOMAIN object = Targets
  /\ \A t \in Targets :
       \/ object[t] \in {Absent, subject.targets}
       \/ subject.targets = "TaggedValue" /\ object[t] = "InterchangeObject"

IInv == subject \in Subjects /\ DirectoryInv /\ ItemInv

-----------------------------------------------------------------------------
(* The subject *)

AllGood(table) == \A c \in DOMAIN table : GoodItems(table[c])

LEMMA AllGoodJoin ==
  ASSUME NEW f, NEW g, AllGood(f), AllGood(g)
  PROVE  AllGood(f ++ g)
BY DEF AllGood, ++

LEMMA AnyItemIsGood == GoodItems(AnyItem)
<1> DEFINE values == [type \in (DOMAIN SingleGet \cup DOMAIN ArrayGet) \ {"AES3FixedDataArray"} |-> Item(type)]
           refs == [ StrongRef |-> StrongRef("InterchangeObject"), WeakRef |-> WeakRef("InterchangeObject"),
                     StrongRefArray |-> StrongRefArray("InterchangeObject"),
                     WeakRefArray |-> [Item("WeakRefArray") EXCEPT !.of = "InterchangeObject"] ]
<1>1. GoodItems(values)
  <2>1. "AES3FixedDataArray" \notin DOMAIN SingleGet
    BY SingleGetIs DEF IntegerGet, StructGet, BytesGet, StringGet, IndirectGet
  <2> SUFFICES ASSUME NEW type \in (DOMAIN SingleGet \cup DOMAIN ArrayGet) \ {"AES3FixedDataArray"}
               PROVE  GoodItem(Item(type))
    BY DEF GoodItems
  <2>2. GoodType(type)
    BY <2>1 DEF GoodType
  <2> QED BY <2>2, GoodValue
<1>2. GoodItems(refs)
  <2> DEFINE w == [Item("WeakRefArray") EXCEPT !.of = "InterchangeObject"]
  <2>1. GoodItem(w)
    BY ReferredTo, GoodWeakRefArray
  <2> HIDE DEF w
  <2>2. GoodItems([ StrongRef |-> StrongRef("InterchangeObject"), WeakRef |-> WeakRef("InterchangeObject"),
                    StrongRefArray |-> StrongRefArray("InterchangeObject"), WeakRefArray |-> w ])
    BY <2>1, ReferredTo, GoodRef, GoodRefArray DEF GoodItems
  <2> QED BY <2>2 DEF w
<1> HIDE DEF values, refs
<1>3. GoodItems(values ++ refs)
  BY <1>1, <1>2, GoodJoin
<1> QED BY <1>3, Zenon DEF AnyItem, values, refs

LEMMA ItemsOfAreGood == AllGood(ItemsOf)
<1> DEFINE f == [c \in ClassNames |-> MetadataClass[c].items]
           g == [MetadataSet |-> AnyItem]
<1>1. AllGood(f)
  BY ItemsAreGood DEF AllGood
<1>2. AllGood(g)
  BY AnyItemIsGood DEF AllGood
<1> HIDE DEF f, g
<1>3. AllGood(f ++ g)
  BY <1>1, <1>2, AllGoodJoin
<1> QED BY <1>3, Zenon DEF ItemsOf, f, g

LEMMA UnrelatedIsClass ==
  ASSUME NEW class, HasUnrelated(class)
  PROVE  Unrelated(class) \in ClassNames
<1>1. "InterchangeObject" \in ClassNames /\ ~IsA("InterchangeObject", class)
  BY SomeClasses, KindsAre DEF HasUnrelated
<1> QED BY <1>1 DEF Unrelated

\* What an item can be, and what a reference can lead to.
LEMMA SubjectIs ==
  ASSUME subject \in Subjects
  PROVE  /\ GoodItem(TheItem)
         /\ IsRef(TheItem) => subject.targets \in ClassNames
<1>c. PICK c \in DOMAIN ItemsOf : \E n \in DOMAIN ItemsOf[c] :
        \E t \in TargetClasses(ItemsOf[c][n]) : subject = [class |-> c, name |-> n, targets |-> t]
  BY DEF Subjects
<1>n. PICK n \in DOMAIN ItemsOf[c] :
        \E t \in TargetClasses(ItemsOf[c][n]) : subject = [class |-> c, name |-> n, targets |-> t]
  BY <1>c
<1>1. PICK t \in TargetClasses(ItemsOf[c][n]) : subject = [class |-> c, name |-> n, targets |-> t]
  BY <1>n
<1>2. TheItem = ItemsOf[c][n] /\ subject.targets = t
  BY <1>1 DEF TheItem
<1>3. GoodItem(ItemsOf[c][n])
  BY ItemsOfAreGood DEF AllGood, GoodItems
<1>4. IsRef(TheItem) => t \in ClassNames
  BY <1>2, UnrelatedIsClass DEF TargetClasses
<1> QED BY <1>2, <1>3, <1>4

\* What is known of the functions that write the item.
LEMMA WritersAre ==
  ASSUME subject \in Subjects
  PROVE  /\ ~IsArray(TheItem) => \A w \in ItemWriters : w \in DOMAIN Form /\ Width(w) \in Nat
         /\ ~IsArray(TheItem) /\ ~IsRef(TheItem) => TheItem.get = TheItem.set /\ SinglePair(TheItem.set)
         /\ ~IsArray(TheItem) /\ IsRef(TheItem) =>
              /\ TheItem.of # "TaggedValue"
              /\ Form[RefSet[TheItem.set]] = Form["strongref"]
         /\ IsArray(TheItem) => ElementFits(TheItem.set)
         /\ IsArray(TheItem) /\ ~IsRef(TheItem) => ArrayPair(TheItem.get, TheItem.set)
         /\ IsArray(TheItem) /\ IsRef(TheItem) =>
              /\ ArraySet[TheItem.set].length = mxfUUID_extlen
              /\ Form[ArraySet[TheItem.set].function] = Form["strongref"]
<1> DEFINE i == TheItem
<1>1. GoodItem(i)
  BY SubjectIs
<1>2. /\ "strongref" \in DOMAIN Form /\ "weakref" \in DOMAIN Form
      /\ Width("strongref") = 16 /\ Width("weakref") = 16 /\ mxfUUID_extlen = 16
  BY FunctionsAre, WidthIs, ExtlenIs
<1>3. Form["weakref"] = Form["strongref"]
  BY FormIs DEF Codes
<1>4. \A s \in DOMAIN RefSet : RefSet[s] = "strongref" \/ RefSet[s] = "weakref"
  BY DEF RefSet
<1>5. \A s \in DOMAIN RefArraySet : ArraySet[s].length = 16 /\ ArraySet[s].function = "strongref"
  <2>1. WritesArray("StrongRefArray", 16, 16, "strongref") /\ WritesArray("WeakRefArray", 16, 16, "strongref")
    BY ArraySetIs
  <2>2. \A s \in DOMAIN RefArraySet : WritesArray(s, 16, 16, "strongref")
    BY <2>1 DEF RefArraySet
  <2> QED BY <2>2 DEF WritesArray, Filled
<1> HIDE DEF i
<1>6. ~IsArray(i) /\ ~IsRef(i) => i.get = i.set /\ SinglePair(i.set)
  BY <1>1, SinglesPair DEF GoodItem, IsArray, IsRef
<1>7. ~IsArray(i) /\ IsRef(i) => i.of # "TaggedValue" /\ i.set \in DOMAIN RefSet
  BY <1>1 DEF GoodItem, IsArray, IsRef
<1>8. IsArray(i) => ElementFits(i.set)
  BY ElementsFit DEF IsArray
<1>9. IsArray(i) /\ ~IsRef(i) => ArrayPair(i.get, i.set)
  BY <1>1 DEF GoodItem, IsArray, IsRef
<1>10. IsArray(i) /\ IsRef(i) => i.set \in DOMAIN RefArraySet
  BY <1>1 DEF GoodItem, IsArray, IsRef
<1>11. ~IsArray(i) => \A w \in ItemWriters : w \in DOMAIN Form /\ Width(w) \in Nat
  <2>1. CASE IsRef(i)
    <3>1. ItemWriters = {RefSet[i.set]}
      BY <2>1 DEF ItemWriters, i
    <3>2. ~IsArray(i) => RefSet[i.set] = "strongref" \/ RefSet[i.set] = "weakref"
      BY <2>1, <1>4, <1>7
    <3>3. \A w : w = "strongref" \/ w = "weakref" => w \in DOMAIN Form /\ Width(w) \in Nat
      BY <1>2
    <3> QED BY <3>1, <3>2, <3>3
  <2>2. CASE ~IsRef(i)
    <3>1. ItemWriters = Writers(i.set)
      BY <2>2 DEF ItemWriters, i
    <3> QED BY <3>1, <2>2, <1>6 DEF SinglePair
  <2> QED BY <2>1, <2>2
<1>12. ~IsArray(i) /\ IsRef(i) => Form[RefSet[i.set]] = Form["strongref"]
  <2>1. ASSUME NEW w, w = "strongref" \/ w = "weakref" PROVE Form[w] = Form["strongref"]
    BY <2>1, <1>3
  <2> QED BY <2>1, <1>7, <1>4
<1>13. IsArray(i) /\ IsRef(i) => /\ ArraySet[i.set].length = mxfUUID_extlen
                                 /\ Form[ArraySet[i.set].function] = Form["strongref"]
  <2>1. ASSUME NEW w, w = "strongref" PROVE Form[w] = Form["strongref"]
    BY <2>1
  <2> QED BY <2>1, <1>2, <1>5, <1>10
<1> QED BY <1>6, <1>7, <1>8, <1>9, <1>11, <1>12, <1>13 DEF i

-----------------------------------------------------------------------------
(* The elements that lead to a set *)

There(t) == IF t \in sets THEN <<t>> ELSE <<>>

LEMMA ThereIs ==
  ASSUME NEW S, NEW t \in S
  PROVE  There(t) \in Seq(S \cap sets)
<1>1. CASE t \in sets
  <2>1. t \in S \cap sets
    BY <1>1
  <2>2. <<t>> \in Seq(S \cap sets)
    BY <2>1
  <2> QED BY <1>1, <2>2 DEF There
<1>2. CASE t \notin sets
  BY <1>2, EmptySeq DEF There
<1> QED BY <1>1, <1>2

\* What is found after each element.
IsFound(f, elements) ==
  /\ f[0] = <<>>
  /\ \A n \in 1 .. Len(elements) : f[n] = f[n - 1] \o There(elements[n])

LEMMA FoundExists ==
  ASSUME NEW S, NEW elements \in Seq(S)
  PROVE  \E f \in [0 .. Len(elements) -> Seq(S \cap sets)] : IsFound(f, elements)
<1> DEFINE N == Len(elements)
           V == Seq(S \cap sets)
           step == [p \in (1 .. N) \X V |-> p[2] \o There(elements[p[1]])]
<1>1. N \in Nat /\ \A n \in 1 .. N : elements[n] \in S
  BY LenProperties, ElementOfSeq
<1>2. \A n \in 1 .. N : There(elements[n]) \in V
  BY <1>1, ThereIs
<1>3. \A n \in 1 .. N, v \in V : v \o There(elements[n]) \in V
  BY <1>2, ConcatProperties
<1>4. <<>> \in V
  OBVIOUS
<1> HIDE DEF V, N
<1>5. step \in [(1 .. N) \X V -> V] /\ \A n \in 1 .. N, v \in V : step[<<n, v>>] = v \o There(elements[n])
  BY <1>3
<1> HIDE DEF step
<1>6. PICK f \in [0 .. N -> V] : IsStepwiseTo(f, N, <<>>, step)
  BY <1>1, <1>4, <1>5, StepwiseRecursionTo
<1>7. ASSUME NEW n \in 1 .. N PROVE f[n] = f[n - 1] \o There(elements[n])
  <2>1. n - 1 \in 0 .. N
    BY <1>1
  <2>2. f[n - 1] \in V /\ f[n] = step[<<n, f[n - 1]>>]
    BY <2>1, <1>6 DEF IsStepwiseTo
  <2> QED BY <2>2, <1>5
<1>8. f[0] = <<>>
  BY <1>6 DEF IsStepwiseTo
<1> QED BY <1>7, <1>8 DEF IsFound, N, V

\* The iterator returns the elements that lead to a set, in their order.
LEMMA IteratedIs ==
  ASSUME NEW S, NEW elements \in Seq(S), NEW f \in [0 .. Len(elements) -> Seq(S \cap sets)],
         IsFound(f, elements)
  PROVE  Iterated(elements) = f[Len(elements)]
<1> DEFINE N == Len(elements)
           Is(g) == g = [i \in 0 .. N |->
                          IF i = 0 THEN <<>>
                          ELSE IF elements[i] \in sets THEN Append(g[i - 1], elements[i]) ELSE g[i - 1]]
           kept == CHOOSE g : Is(g)
<1>1. N \in Nat /\ \A n \in 1 .. N : elements[n] \in S
  BY LenProperties, ElementOfSeq
<1>2. Iterated(elements) = kept[N]
  BY DEF Iterated
<1>3. \A n \in 1 .. N : f[n] = IF elements[n] \in sets THEN Append(f[n - 1], elements[n]) ELSE f[n - 1]
  <2> SUFFICES ASSUME NEW n \in 1 .. N
               PROVE  f[n] = IF elements[n] \in sets THEN Append(f[n - 1], elements[n]) ELSE f[n - 1]
    OBVIOUS
  <2>1. n - 1 \in 0 .. N
    BY <1>1
  <2>2. f[n - 1] \in Seq(S \cap sets) /\ f[n] = f[n - 1] \o There(elements[n])
    BY <2>1 DEF IsFound
  <2>3. CASE elements[n] \in sets
    <3>1. elements[n] \in S \cap sets
      BY <1>1, <2>3
    <3>2. f[n - 1] \o <<elements[n]>> = Append(f[n - 1], elements[n])
      BY <2>2, <3>1, AppendIsConcat
    <3> QED BY <2>2, <2>3, <3>2 DEF There
  <2>4. CASE elements[n] \notin sets
    <3>1. f[n - 1] \o <<>> = f[n - 1]
      BY <2>2, ConcatEmptySeq
    <3> QED BY <2>2, <2>4, <3>1 DEF There
  <2> QED BY <2>3, <2>4
<1>4. Is(f)
  <2>1. f = [i \in 0 .. N |-> f[i]]
    OBVIOUS
  <2>2. \A i \in 0 .. N : f[i] = IF i = 0 THEN <<>>
          ELSE IF elements[i] \in sets THEN Append(f[i - 1], elements[i]) ELSE f[i - 1]
    <3>1. \A i \in 0 .. N : i # 0 => i \in 1 .. N
      BY <1>1
    <3> QED BY <3>1, <1>3 DEF IsFound
  <2> HIDE DEF N
  <2> QED BY <2>1, <2>2
<1>5. Is(kept)
  <2> HIDE DEF Is
  <2> QED BY <1>4
<1>6. \A n \in Nat : n \in 0 .. N => kept[n] = f[n]
  <2> DEFINE A == {n \in Nat : n \in 0 .. N => kept[n] = f[n]}
  <2>1. 0 \in A
    <3>1. 0 \in 0 .. N
      BY <1>1
    <3> QED BY <3>1, <1>4, <1>5
  <2>2. ASSUME NEW n \in Nat, n \in A PROVE n + 1 \in A
    <3> SUFFICES ASSUME n + 1 \in 0 .. N PROVE kept[n + 1] = f[n + 1]
      OBVIOUS
    <3>1. n \in 0 .. N /\ n + 1 # 0 /\ (n + 1) - 1 = n
      BY <1>1
    <3>2. kept[n] = f[n]
      BY <2>2, <3>1
    <3>3. kept[n + 1] = IF elements[n + 1] \in sets THEN Append(kept[(n + 1) - 1], elements[n + 1])
                        ELSE kept[(n + 1) - 1]
      <4> HIDE DEF kept, N
      <4> QED BY <1>5, <3>1
    <3>4. f[n + 1] = IF elements[n + 1] \in sets THEN Append(f[(n + 1) - 1], elements[n + 1])
                     ELSE f[(n + 1) - 1]
      <4> HIDE DEF kept, N
      <4> QED BY <1>4, <3>1
    <3> HIDE DEF kept, Is
    <3> QED BY <3>1, <3>2, <3>3, <3>4
  <2> HIDE DEF A
  <2>3. \A n \in Nat : n \in A
    BY <2>1, <2>2, InductionOnNat
  <2> QED BY <2>3 DEF A
<1>7. N \in 0 .. N
  BY <1>1
<1> HIDE DEF kept, Is
<1> QED BY <1>1, <1>2, <1>6, <1>7

LEMMA FlattenIs ==
  ASSUME NEW T, NEW seqs \in Seq(Seq(T)), NEW f \in [0 .. Len(seqs) -> Seq(T)],
         f[0] = <<>>, \A n \in 1 .. Len(seqs) : f[n] = f[n - 1] \o seqs[n]
  PROVE  FlattenSeq(seqs) = f[Len(seqs)]
<1> DEFINE N == Len(seqs)
           Is(g) == g = [i \in 1 .. N |-> IF i = 1 THEN seqs[i] ELSE g[i - 1] \o seqs[i]]
           flatten == CHOOSE g : Is(g)
           h == [n \in 1 .. N |-> f[n]]
<1>1. N \in Nat /\ \A n \in 1 .. N : seqs[n] \in Seq(T)
  BY LenProperties, ElementOfSeq
<1>2. FlattenSeq(seqs) = IF N = 0 THEN seqs ELSE flatten[N]
  BY DEF FlattenSeq
<1>3. ASSUME NEW n \in 1 .. N PROVE f[n] = IF n = 1 THEN seqs[n] ELSE f[n - 1] \o seqs[n]
  <2>1. n = 1 => n - 1 = 0
    OBVIOUS
  <2>2. <<>> \o seqs[n] = seqs[n]
    BY <1>1, ConcatEmptySeq
  <2> QED BY <2>1, <2>2
<1>4. Is(h)
  <2>1. ASSUME NEW n \in 1 .. N PROVE h[n] = IF n = 1 THEN seqs[n] ELSE h[n - 1] \o seqs[n]
    <3>1. n # 1 => n - 1 \in 1 .. N
      BY <1>1
    <3> QED BY <3>1, <1>3
  <2> QED BY <2>1
<1>5. Is(flatten)
  <2> HIDE DEF Is
  <2> QED BY <1>4
<1>6. \A n \in Nat : n + 1 \in 1 .. N => flatten[n + 1] = f[n + 1]
  <2> DEFINE A == {n \in Nat : n + 1 \in 1 .. N => flatten[n + 1] = f[n + 1]}
  <2>s. \A i \in 1 .. N : flatten[i] = IF i = 1 THEN seqs[i] ELSE flatten[i - 1] \o seqs[i]
    <3> HIDE DEF flatten, N
    <3> QED BY <1>5
  <2> HIDE DEF flatten, Is, h
  <2>1. 0 \in A
    <3>1. 0 + 1 = 1
      OBVIOUS
    <3> QED BY <3>1, <2>s, <1>3
  <2>2. ASSUME NEW n \in Nat, n \in A PROVE n + 1 \in A
    <3> SUFFICES ASSUME (n + 1) + 1 \in 1 .. N PROVE flatten[(n + 1) + 1] = f[(n + 1) + 1]
      OBVIOUS
    <3>1. n + 1 \in 1 .. N /\ (n + 1) + 1 # 1 /\ ((n + 1) + 1) - 1 = n + 1
      BY <1>1
    <3>2. flatten[n + 1] = f[n + 1]
      BY <2>2, <3>1
    <3>3. flatten[(n + 1) + 1] = flatten[n + 1] \o seqs[(n + 1) + 1]
      BY <2>s, <3>1
    <3>4. f[(n + 1) + 1] = f[n + 1] \o seqs[(n + 1) + 1]
      BY <1>3, <3>1
    <3> QED BY <3>2, <3>3, <3>4
  <2> HIDE DEF A
  <2>3. \A n \in Nat : n \in A
    BY <2>1, <2>2, InductionOnNat
  <2> QED BY <2>3 DEF A
<1> HIDE DEF flatten, Is, h
<1>7. CASE N = 0
  <2>1. seqs = <<>>
    BY <1>7, EmptySeq
  <2> QED BY <2>1, <1>2, <1>7
<1>8. CASE N # 0
  <2>1. N - 1 \in Nat /\ (N - 1) + 1 = N /\ N \in 1 .. N
    BY <1>1, <1>8
  <2>2. flatten[N] = f[N]
    BY <2>1, <1>6
  <2> QED BY <2>2, <1>2, <1>8
<1> QED BY <1>7, <1>8

\* The elements that lead to a set are found as those that are left when the
\* others are dropped.
LEMMA IteratedFlattens ==
  ASSUME NEW S, NEW elements \in Seq(S)
  PROVE  /\ Iterated(elements) = FlattenSeq([i \in DOMAIN elements |-> There(elements[i])])
         /\ Iterated(elements) \in Seq(S \cap sets)
<1> DEFINE N == Len(elements)
           seqs == [i \in DOMAIN elements |-> There(elements[i])]
           V == Seq(S \cap sets)
<1>1. N \in Nat /\ DOMAIN elements = 1 .. N /\ \A n \in 1 .. N : elements[n] \in S
  BY LenProperties, ElementOfSeq
<1>2. PICK f \in [0 .. N -> V] : IsFound(f, elements)
  BY FoundExists
<1>3. Iterated(elements) = f[N]
  BY <1>2, IteratedIs
<1>4. N \in 0 .. N
  BY <1>1
<1>5. \A n \in 1 .. N : There(elements[n]) \in V
  BY <1>1, ThereIs
<1> HIDE DEF V, N
<1>6. seqs = [n \in 1 .. N |-> There(elements[n])]
  BY <1>1
<1>7. seqs \in Seq(V) /\ Len(seqs) = N
  BY <1>1, <1>5, <1>6
<1>8. \A n \in 1 .. N : seqs[n] = There(elements[n])
  BY <1>6
<1> HIDE DEF seqs
<1>9. f[0] = <<>> /\ \A n \in 1 .. Len(seqs) : f[n] = f[n - 1] \o seqs[n]
  BY <1>2, <1>7, <1>8 DEF IsFound, N
<1>10. FlattenSeq(seqs) = f[N]
  <2>1. seqs \in Seq(Seq(S \cap sets)) /\ f \in [0 .. Len(seqs) -> Seq(S \cap sets)]
    BY <1>2, <1>7 DEF V
  <2>2. FlattenSeq(seqs) = f[Len(seqs)]
    BY ONLY <2>1, <1>9, FlattenIs
  <2> QED BY <2>2, <1>7
<1> QED BY <1>2, <1>3, <1>4, <1>10 DEF seqs, V

-----------------------------------------------------------------------------
(* The item *)

LEMMA ItemRecords ==
  ASSUME NEW b, NEW l, NEW n, NEW e
  PROVE  /\ \A d : [[array |-> b, length |-> l, count |-> n, data |-> e] EXCEPT !.data = d]
                    = [array |-> b, length |-> l, count |-> n, data |-> d]
         /\ \A k : [[array |-> b, length |-> l, count |-> n, data |-> e] EXCEPT !.count = k]
                    = [array |-> b, length |-> l, count |-> k, data |-> e]
OBVIOUS

LEMMA WithData ==
  ASSUME NEW b, NEW l, NEW n, NEW e, NEW g,
         g = [array |-> b, length |-> l, count |-> n, data |-> e], NEW d
  PROVE  [g EXCEPT !.data = d] = [array |-> b, length |-> l, count |-> n, data |-> d]
OBVIOUS

LEMMA WrittenIs ==
  ASSUME NEW at, NEW f, NEW v
  PROVE  Written(at, f, v).at = at /\ Written(at, f, v).function = f /\ Written(at, f, v).value = v
BY DEF Written

LEMMA RecordIsItem ==
  ASSUME NEW l \in Nat, NEW n \in Nat,
         NEW d \in Seq([at : Nat, function : DOMAIN Form, value : AllValues])
  PROVE  [array |-> TRUE, length |-> l, count |-> n, data |-> d] \in Items
BY DEF Items, AllValues

LEMMA SingleIsItem ==
  ASSUME NEW w \in DOMAIN Form, Width(w) \in Nat, NEW v \in AllValues
  PROVE  Single(w, v) \in Items
<1>1. Written(0, w, v) \in [at : Nat, function : DOMAIN Form, value : AllValues]
  BY DEF Written
<1>2. <<Written(0, w, v)>> \in Seq([at : Nat, function : DOMAIN Form, value : AllValues])
  BY <1>1
<1> QED BY <1>2 DEF Single, Items, AllValues

LEMMA NotAbsent ==
  /\ \A v \in AllValues : v # Absent
  /\ \A s \in Seq(AllValues) : s # Absent
  /\ \A i \in Items : i # Absent
BY ConstantsAssumption DEF AllValues

\* An array of elements that were written behind each other.
ElementsOf(fill, values, it) ==
  /\ values \in Seq(AllValues)
  /\ it = [array |-> TRUE, length |-> fill.length, count |-> Len(values), data |-> it.data]
  /\ it.data \in Seq([at : Nat, function : DOMAIN Form, value : AllValues])
  /\ Len(it.data) = Len(values)
  /\ \A i \in 1 .. Len(values) :
       /\ it.data[i].at = (i - 1) * fill.length
       /\ Form[it.data[i].function] = Form[fill.function]
       /\ it.data[i].value = values[i]

LEMMA ElementsAreItem ==
  ASSUME NEW t, ElementFits(t), NEW values, NEW it, ElementsOf(ArraySet[t], values, it)
  PROVE  it \in Items /\ it # Absent /\ values # Absent
<1>1. ArraySet[t].length \in Nat /\ Len(values) \in Nat
  BY LenProperties DEF ElementFits, ElementsOf
<1>2. it \in Items
  <2> DEFINE r == [array |-> TRUE, length |-> ArraySet[t].length, count |-> Len(values), data |-> it.data]
  <2>1. r \in Items
    BY <1>1, RecordIsItem DEF ElementsOf
  <2>2. it = r
    BY DEF ElementsOf
  <2> HIDE DEF r
  <2> QED BY <2>1, <2>2
<1> QED BY <1>2, NotAbsent DEF ElementsOf

\* All elements at once.
LEMMA SetElements ==
  ASSUME NEW t, ElementFits(t), NEW values \in Seq(AllValues)
  PROVE  ElementsOf(ArraySet[t], values, SetArray(t, values))
<1> DEFINE a == ArraySet[t]
           d == [i \in DOMAIN values |-> Written((i - 1) * a.stride, a.function, values[i])]
           R == [at : Nat, function : DOMAIN Form, value : AllValues]
<1>1. /\ a.length \in Nat /\ a.stride = a.length /\ a.function \in DOMAIN Form
      /\ Len(values) \in Nat /\ DOMAIN values = 1 .. Len(values)
  BY LenProperties DEF ElementFits
<1>2. \A i \in 1 .. Len(values) : values[i] \in AllValues
  BY ElementOfSeq
<1> HIDE DEF a
<1>3. \A i \in 1 .. Len(values) : (i - 1) * a.stride \in Nat
  <2> SUFFICES ASSUME NEW i \in 1 .. Len(values) PROVE (i - 1) * a.stride \in Nat
    OBVIOUS
  <2>1. i - 1 \in Nat
    BY <1>1
  <2>2. \A x, y \in Nat : x * y \in Nat
    OBVIOUS
  <2> QED BY <2>1, <2>2, <1>1
<1>4. \A i \in 1 .. Len(values) : Written((i - 1) * a.stride, a.function, values[i]) \in R
  BY <1>1, <1>2, <1>3 DEF Written
<1>5. d \in Seq(R) /\ Len(d) = Len(values)
  BY <1>1, <1>4
<1>6. \A i \in 1 .. Len(values) : d[i] = Written((i - 1) * a.length, a.function, values[i])
  BY <1>1
<1> HIDE DEF d
<1>7. SetArray(t, values) = [array |-> TRUE, length |-> a.length, count |-> Len(values), data |-> d]
  <2>1. SetArray(t, values) = [Allocated(a.length, Len(values)) EXCEPT !.data = d]
    BY DEF SetArray, a, d
  <2> QED BY <2>1, ItemRecords DEF Allocated
<1> DEFINE it == SetArray(t, values)
<1> HIDE DEF it
<1>8. it = [array |-> TRUE, length |-> a.length, count |-> Len(values), data |-> d] /\ it.data = d
  BY <1>7 DEF it
<1>9. \A i \in 1 .. Len(values) :
        /\ d[i].at = (i - 1) * a.length
        /\ Form[d[i].function] = Form[a.function]
        /\ d[i].value = values[i]
  BY <1>6, WrittenIs
<1>10. ElementsOf(a, values, it)
  BY ONLY <1>5, <1>8, <1>9, values \in Seq(AllValues) DEF ElementsOf, R
<1> QED BY <1>10 DEF a, it

\* One more element.
LEMMA AppendElement ==
  ASSUME NEW t, ElementFits(t), NEW values, NEW it, ElementsOf(ArraySet[t], values, it),
         NEW v \in AllValues
  PROVE  ElementsOf(ArraySet[t], Append(values, v), AppendArray(t, it, v))
<1> DEFINE a == ArraySet[t]
           b == ArrayAppend[t]
           n == Len(values)
           w == Written(it.count * it.length, b.function, v)
           d == Append(it.data, w)
           R == [at : Nat, function : DOMAIN Form, value : AllValues]
<1>1. /\ a.length \in Nat /\ b.function \in DOMAIN Form /\ Form[b.function] = Form[a.function]
      /\ n \in Nat /\ values \in Seq(AllValues)
      /\ it = [array |-> TRUE, length |-> a.length, count |-> n, data |-> it.data]
      /\ it.data \in Seq(R) /\ Len(it.data) = n
      /\ \A i \in 1 .. n :
           /\ it.data[i].at = (i - 1) * a.length
           /\ Form[it.data[i].function] = Form[a.function]
           /\ it.data[i].value = values[i]
  BY LenProperties DEF ElementFits, ElementsOf
<1>2. it.count = n /\ it.length = a.length
  BY <1>1
<1>3. n * a.length \in Nat
  <2>1. \A x, y \in Nat : x * y \in Nat
    OBVIOUS
  <2> QED BY <2>1, <1>1
<1>4. w = [at |-> n * a.length, function |-> b.function, value |-> v]
  BY <1>2 DEF Written
<1> HIDE DEF w
<1>5. w \in R
  BY <1>1, <1>3, <1>4
<1>6. AppendArray(t, it, v) = [array |-> TRUE, length |-> a.length, count |-> n + 1, data |-> d]
  <2> DEFINE e == it.data
  <2>0. it = [array |-> TRUE, length |-> a.length, count |-> n, data |-> e] /\ it.count = n
    BY <1>1
  <2> HIDE DEF e
  <2>2. Grown(it) = [array |-> TRUE, length |-> a.length, count |-> n + 1, data |-> e]
    <3>1. Grown(it) = [it EXCEPT !.count = n + 1]
      BY <2>0 DEF Grown
    <3> QED BY ONLY <2>0, <3>1, ItemRecords
  <2>3. Grown(it).data = e
    BY <2>2
  <2>4. AppendArray(t, it, v) = [Grown(it) EXCEPT !.data = Append(Grown(it).data, w)]
    BY DEF AppendArray, w
  <2>1. AppendArray(t, it, v) = [Grown(it) EXCEPT !.data = d]
    BY <2>3, <2>4 DEF e
  <2> DEFINE g == Grown(it)
             m == n + 1
  <2>5. g = [array |-> TRUE, length |-> a.length, count |-> m, data |-> e]
    BY <2>2
  <2>6. AppendArray(t, it, v) = [g EXCEPT !.data = d]
    BY <2>1
  <2> HIDE DEF g, m, d
  <2>c. PICK c \in BOOLEAN : c = TRUE
    OBVIOUS
  <2>8. g = [array |-> c, length |-> a.length, count |-> m, data |-> e]
    BY <2>5, <2>c
  <2>9. [g EXCEPT !.data = d] = [array |-> c, length |-> a.length, count |-> m, data |-> d]
    BY ONLY <2>8, WithData
  <2>7. [g EXCEPT !.data = d] = [array |-> TRUE, length |-> a.length, count |-> m, data |-> d]
    BY ONLY <2>9, <2>c
  <2> QED BY <2>6, <2>7 DEF m
<1> HIDE DEF a, b, n, R
<1>7. /\ d \in Seq(R) /\ Len(d) = n + 1 /\ d[n + 1] = w
      /\ \A i \in 1 .. n : d[i] = it.data[i]
  BY <1>1, <1>5, AppendProperties
<1>8. /\ Append(values, v) \in Seq(AllValues) /\ Len(Append(values, v)) = n + 1
      /\ Append(values, v)[n + 1] = v
      /\ \A i \in 1 .. n : Append(values, v)[i] = values[i]
  BY <1>1, AppendProperties DEF n
<1> HIDE DEF d
<1>9. ASSUME NEW i \in 1 .. (n + 1)
      PROVE  /\ d[i].at = (i - 1) * a.length
             /\ Form[d[i].function] = Form[a.function]
             /\ d[i].value = Append(values, v)[i]
  <2>1. CASE i \in 1 .. n
    BY <2>1, <1>1, <1>7, <1>8
  <2>2. CASE i \notin 1 .. n
    <3>1. i = n + 1 /\ i - 1 = n
      BY <2>2, <1>1
    <3>2. d[i] = w /\ Append(values, v)[i] = v
      BY <3>1, <1>7, <1>8
    <3> QED BY <3>1, <3>2, <1>1, <1>4
  <2> QED BY <2>1, <2>2
<1> QED BY <1>6, <1>7, <1>8, <1>9 DEF ElementsOf, a, R

LEMMA HoldsElementsIs ==
  HoldsElements <=> IsArray(TheItem) /\ ElementsOf(ArraySet[TheItem.set], written, item)
BY DEF HoldsElements, ElementsOf

\* What the client gives a setter is a value.
LEMMA SettableIs ==
  ASSUME DirectoryInv
  PROVE  Settable \subseteq AllValues
BY DEF DirectoryInv, Settable, AllValues

LEMMA SeqOfIs ==
  ASSUME NEW S, NEW n, S \subseteq AllValues
  PROVE  SeqOf(S, n) \subseteq Seq(AllValues)
<1> SUFFICES ASSUME NEW s \in SeqOf(S, n) PROVE s \in Seq(AllValues)
  OBVIOUS
<1>1. PICK m \in 0 .. n : s \in [1 .. m -> S]
  BY DEF SeqOf
<1>2. m \in Nat
  BY <1>1
<1> QED BY <1>1, <1>2

-----------------------------------------------------------------------------
(* The invariant holds *)

LEMMA InitIInv == Init => IInv
<1> SUFFICES ASSUME Init PROVE IInv
  OBVIOUS
<1>1. subject \in Subjects
  BY DEF Init
<1>2. DirectoryInv
  <2>1. ~WellTyped => IsRef(TheItem)
    BY DEF WellTyped
  <2> QED BY <2>1 DEF Init, DirectoryInv
<1>3. ItemInv
  <2>1. CASE item = Absent /\ written = Absent
    BY <2>1 DEF ItemInv
  <2>2. ASSUME ~WellTyped, NEW t \in Targets, IsArray(TheItem),
               item = SetArray(TheItem.set, <<t>>), written = <<t>>
        PROVE  ItemInv
    <3>1. <<t>> \in Seq(AllValues) /\ ElementFits(TheItem.set)
      BY <1>1, <2>2, WritersAre DEF AllValues
    <3>2. ElementsOf(ArraySet[TheItem.set], written, item)
      BY <2>2, <3>1, SetElements
    <3>3. item # Absent /\ written # Absent
      BY <3>1, <3>2, ElementsAreItem
    <3> QED BY <2>2, <3>2, <3>3, HoldsElementsIs DEF ItemInv
  <2>3. ASSUME ~WellTyped, NEW t \in Targets, ~IsArray(TheItem),
               item = Single(RefSet[TheItem.set], t), written = t
        PROVE  ItemInv
    <3>1. IsRef(TheItem) /\ written \in AllValues
      BY <2>3 DEF WellTyped, AllValues
    <3>2. RefSet[TheItem.set] \in ItemWriters
      BY <3>1 DEF ItemWriters
    <3>3. item # Absent /\ written # Absent
      BY <1>1, <2>3, <3>1, <3>2, WritersAre, SingleIsItem, NotAbsent
    <3> QED BY <2>3, <3>1, <3>2, <3>3 DEF ItemInv, HoldsValue
  <2> QED BY <2>1, <2>2, <2>3 DEF Init
<1> QED BY <1>1, <1>2, <1>3 DEF IInv

\* The object that a set is wrapped as.
LEMMA WrappedIs ==
  ASSUME IInv, NEW ts \in SUBSET sets
  PROVE  /\ DOMAIN Wrapped(ts) = Targets
         /\ \A t \in Targets : object[t] # Absent => Wrapped(ts)[t] = object[t]
         /\ \A t \in Targets :
              \/ Wrapped(ts)[t] \in {Absent, subject.targets}
              \/ subject.targets = "TaggedValue" /\ Wrapped(ts)[t] = "InterchangeObject"
<1>1. DOMAIN Wrapped(ts) = Targets
  BY DEF Wrapped
<1>2. \A t \in Targets : Wrapped(ts)[t] = IF t \in ts /\ object[t] = Absent
                                          THEN ObjectClass(subject.targets) ELSE object[t]
  BY DEF Wrapped
<1>3. ts # {} => subject.targets \in ClassNames
  BY SubjectIs DEF IInv, DirectoryInv
<1>4. ts # {} => \/ ObjectClass(subject.targets) = subject.targets
                 \/ subject.targets = "TaggedValue" /\ ObjectClass(subject.targets) = "InterchangeObject"
  BY <1>3, ObjectClassIs DEF IInv, DirectoryInv
<1> QED BY <1>1, <1>2, <1>4 DEF IInv, DirectoryInv

\* What the elements of an item of references lead to.
LEMMA FoundAreSets ==
  ASSUME NEW S, NEW elements \in Seq(S)
  PROVE  /\ Range(Iterated(elements)) \subseteq sets
         /\ DOMAIN Iterated(elements) = 1 .. Len(Iterated(elements))
         /\ \A n \in DOMAIN Iterated(elements) : Iterated(elements)[n] \in sets
<1>1. Iterated(elements) \in Seq(S \cap sets)
  BY IteratedFlattens
<1> QED BY <1>1, ElementOfSeq DEF Range

LEMMA ReferencedIs ==
  ASSUME IInv, item # Absent, IsArray(TheItem)
  PROVE  \E S : Referenced \in Seq(S)
<1>1. item.count = Len(written) /\ Len(written) \in Nat
  BY LenProperties DEF IInv, ItemInv, HoldsElements, HoldsValue
<1>2. Referenced = [i \in 1 .. item.count |-> Element(item, i, "strongref")]
  BY DEF Referenced
<1>3. Referenced \in Seq({Element(item, i, "strongref") : i \in 1 .. item.count})
  BY <1>1, <1>2
<1> QED BY <1>3

\* The directory after a step that wraps some sets.
LEMMA WrapsStep ==
  ASSUME IInv, NEW ts \in SUBSET sets, object' = Wrapped(ts), held' \subseteq sets,
         UNCHANGED <<subject, sets, extensions>>
  PROVE  DirectoryInv'
<1>1. TheItem' = TheItem
  BY DEF TheItem
<1> QED BY <1>1, WrappedIs DEF IInv, DirectoryInv, IsRef

\* What the getter of an array of references wraps: all that the elements lead to,
\* or those up to one that can't be cast.
LEMMA WrapsFound ==
  ASSUME IInv, getReferences
  PROVE  \E ts \in SUBSET sets : object' = Wrapped(ts) /\ held' \subseteq held \cup ts
<1> DEFINE it == Iterated(Referenced)
<1>1. UNCHANGED <<subject, sets, extensions>> /\ item # Absent /\ IsArray(TheItem)
  BY DEF getReferences
<1>2. Range(it) \subseteq sets /\ \A n \in DOMAIN it : it[n] \in sets
  BY <1>1, ReferencedIs, FoundAreSets
<1>3. CASE object' = Wrapped(Range(it)) /\ held' = held \cup Range(it)
  <2> HIDE DEF it
  <2> QED BY <1>2, <1>3
<1>4. ASSUME ~ (\A t \in Range(it) : Casts(t))
      PROVE  \E ts \in SUBSET sets : object' = Wrapped(ts) /\ held' \subseteq held \cup ts
  <2> DEFINE Bad(n) == ~Casts(it[n]) /\ \A m \in 1 .. (n - 1) : Casts(it[m])
             n == CHOOSE n \in DOMAIN it : Bad(n)
             ts == {it[m] : m \in 1 .. n}
  <2>1. object' = Wrapped(ts) /\ UNCHANGED held
    BY <1>4 DEF getReferences
  <2>2. \E k \in DOMAIN it : Bad(k)
    <3> DEFINE B == {k \in Nat : k \in DOMAIN it /\ ~Casts(it[k])}
    <3>1. DOMAIN it = 1 .. Len(it) /\ Len(it) \in Nat
      BY <1>1, ReferencedIs, IteratedFlattens, LenProperties
    <3>2. B # {} /\ B \in SUBSET Nat
      BY <1>4, <3>1 DEF Range
    <3> HIDE DEF it
    <3>3. PICK k \in B : \A j \in B : k <= j
      <4> HIDE DEF B
      <4> QED BY <3>2, LeastNatural
    <3>4. \A m \in 1 .. (k - 1) : Casts(it[m])
      <4> SUFFICES ASSUME NEW m \in 1 .. (k - 1), ~Casts(it[m]) PROVE FALSE
        OBVIOUS
      <4>1. m \in B /\ ~(k <= m)
        BY <3>1, <3>3
      <4> QED BY <4>1, <3>3
    <3> QED BY <3>3, <3>4
  <2>3. n \in DOMAIN it
    <3> HIDE DEF Bad
    <3> QED BY <2>2
  <2>4. DOMAIN it = 1 .. Len(it) /\ Len(it) \in Nat
    BY <1>1, ReferencedIs, IteratedFlattens, LenProperties
  <2> HIDE DEF it, Bad, n
  <2>5. \A m \in 1 .. n : m \in DOMAIN it
    BY <2>3, <2>4
  <2>6. ts \in SUBSET sets
    BY <2>5, <1>2
  <2> HIDE DEF ts
  <2> QED BY <2>1, <2>6
<1> QED BY <1>3, <1>4 DEF getReferences

LEMMA NextDirectory ==
  ASSUME IInv, Next
  PROVE  DirectoryInv'
<1>u. DirectoryInv
  BY DEF IInv
<1>s. subject' = subject => TheItem' = TheItem
  BY DEF TheItem
<1>1. CASE getReference
  <2> DEFINE t == Element(item, 1, "strongref")
  <2>1. t \in sets /\ UNCHANGED <<subject, sets, extensions>> /\ {t} \in SUBSET sets
    BY <1>1 DEF getReference
  <2>2. CASE object' = Wrapped({t}) /\ held' = held \cup {t}
    <3> HIDE DEF t
    <3> QED BY <2>1, <2>2, <1>u, WrapsStep DEF DirectoryInv
  <2>3. CASE object' = Rejected(t) /\ UNCHANGED held
    <3>1. DOMAIN object' = Targets /\ \A u \in Targets : object'[u] = object[u] \/ object'[u] = Absent
      BY <1>u, <2>3 DEF DirectoryInv, Rejected
    <3> QED BY <2>1, <2>3, <3>1, <1>s, <1>u DEF DirectoryInv, IsRef
  <2> QED BY <2>2, <2>3, <1>1 DEF getReference
<1>2. CASE getReferenceLight
  <2> DEFINE t == Element(item, 1, "strongref")
  <2>1. t \in sets /\ UNCHANGED <<subject, sets, extensions>> /\ {t} \in SUBSET sets
    BY <1>2 DEF getReferenceLight
  <2>2. object' = Wrapped({t}) /\ held' \subseteq held \cup {t}
    BY <1>2 DEF getReferenceLight
  <2> HIDE DEF t
  <2> QED BY <2>1, <2>2, <1>u, WrapsStep DEF DirectoryInv
<1>3. CASE getReferences
  <2>1. UNCHANGED <<subject, sets, extensions>>
    BY <1>3 DEF getReferences
  <2>2. PICK ts \in SUBSET sets : object' = Wrapped(ts) /\ held' \subseteq held \cup ts
    BY <1>3, WrapsFound
  <2> QED BY <2>1, <2>2, <1>u, WrapsStep DEF DirectoryInv
<1>4. ASSUME UNCHANGED <<subject, sets, object, held, extensions>> PROVE DirectoryInv'
  BY <1>4, <1>s, <1>u DEF DirectoryInv, IsRef
<1>5. ASSUME NEW t \in Targets, newTarget(t) PROVE DirectoryInv'
  <2>1. /\ IsRef(TheItem) /\ sets' = sets \cup {t} /\ held' = held \cup {t}
        /\ object' = [object EXCEPT ![t] = subject.targets]
        /\ UNCHANGED <<subject, extensions>>
    BY <1>5 DEF newTarget
  <2>2. DOMAIN object' = Targets /\ \A u \in Targets : object'[u] = object[u] \/ object'[u] = subject.targets
    BY <2>1, <1>u DEF DirectoryInv
  <2> QED BY <2>1, <2>2, <1>s, <1>u DEF DirectoryInv, IsRef
<1>6. ASSUME NEW t \in Targets, wrap(t) PROVE DirectoryInv'
  <2>1. {t} \in SUBSET sets /\ object' = Wrapped({t}) /\ held' = held \cup {t}
        /\ UNCHANGED <<subject, sets, extensions>>
    BY <1>6 DEF wrap
  <2> QED BY <2>1, <1>u, WrapsStep DEF DirectoryInv
<1>7. CASE registerTaggedValue
  BY <1>7, <1>s, <1>u DEF registerTaggedValue, DirectoryInv, IsRef
<1>8. CASE reopen
  <2>1. sets' \subseteq sets /\ object' = [t \in Targets |-> Absent] /\ held' = {} /\ extensions' = {}
        /\ subject' = subject
    BY <1>8 DEF reopen
  <2> QED BY <2>1, <1>s, <1>u DEF DirectoryInv, IsRef
<1> QED
  BY <1>1, <1>2, <1>3, <1>4, <1>5, <1>6, <1>7, <1>8
  DEF Next, set, append, setArray, removeItem

LEMMA NextItem ==
  ASSUME IInv, Next
  PROVE  ItemInv'
<1>u. ItemInv /\ subject \in Subjects /\ DirectoryInv
  BY DEF IInv
<1>1. ASSUME UNCHANGED <<subject, item, written>> PROVE ItemInv'
  <2>1. TheItem' = TheItem
    BY <1>1 DEF TheItem
  <2>2. HoldsValue' <=> HoldsValue
    BY <1>1, <2>1 DEF HoldsValue, ItemWriters, IsRef, IsArray
  <2>3. HoldsElements' <=> HoldsElements
    BY <1>1, <2>1 DEF HoldsElements, IsArray
  <2> QED BY <1>1, <2>2, <2>3, <1>u DEF ItemInv
<1>2. ASSUME NEW v \in Settable, set(v) PROVE ItemInv'
  <2>1. TheItem' = TheItem /\ written' = v /\ ~IsArray(TheItem) /\ Converts(TheItem.set, v) /\ v \in AllValues
    BY <1>2, <1>u, SettableIs DEF set, TheItem
  <2>2. PICK w \in ItemWriters : item' = Single(w, v)
    BY <1>2 DEF set, ItemWriters, Writers
  <2>3. item' # Absent /\ written' # Absent
    BY <1>u, <2>1, <2>2, WritersAre, SingleIsItem, NotAbsent
  <2>4. ItemWriters' = ItemWriters
    BY <2>1 DEF ItemWriters, IsRef
  <2>5. HoldsValue'
    BY <2>1, <2>2, <2>4 DEF HoldsValue, IsArray
  <2> QED BY <2>3, <2>5 DEF ItemInv
<1>3. ASSUME IsArray(TheItem), TheItem' = TheItem, ElementsOf(ArraySet[TheItem.set], written', item')
      PROVE  ItemInv'
  <2>1. item' # Absent /\ written' # Absent
    BY <1>u, <1>3, WritersAre, ElementsAreItem
  <2>2. HoldsElements'
    <3>1. (IsArray(TheItem) /\ ElementsOf(ArraySet[TheItem.set], written, item))'
      BY <1>3 DEF IsArray, ElementsOf
    <3> QED BY <3>1 DEF HoldsElements, ElementsOf
  <2> QED BY <2>1, <2>2 DEF ItemInv
<1>4. ASSUME NEW values \in SeqOf(Settable, MaxElements), setArray(values) PROVE ItemInv'
  <2>1. /\ TheItem' = TheItem /\ IsArray(TheItem)
        /\ item' = SetArray(TheItem.set, values) /\ written' = values
    BY <1>4 DEF setArray, TheItem
  <2>2. values \in Seq(AllValues) /\ ElementFits(TheItem.set)
    BY <1>u, <2>1, SettableIs, SeqOfIs, WritersAre
  <2> QED BY <2>1, <2>2, <1>3, SetElements
<1>5. ASSUME NEW v \in Settable, append(v) PROVE ItemInv'
  <2> DEFINE array == IF item = Absent THEN Allocated(ArrayAppend[TheItem.set].length, 0) ELSE item
             values == IF item = Absent THEN <<>> ELSE written
  <2>1. /\ TheItem' = TheItem /\ IsArray(TheItem) /\ v \in AllValues
        /\ item' = AppendArray(TheItem.set, array, v)
        /\ written' = IF item = Absent THEN <<v>> ELSE Append(written, v)
    BY <1>5, <1>u, SettableIs DEF append, TheItem
  <2>2. ElementFits(TheItem.set)
    BY <1>u, <2>1, WritersAre
  <2>3. ElementsOf(ArraySet[TheItem.set], values, array)
    <3>1. CASE item = Absent
      <4>1. array = [array |-> TRUE, length |-> ArraySet[TheItem.set].length, count |-> 0, data |-> <<>>]
        BY <3>1, <2>2 DEF Allocated, ElementFits
      <4>2. <<>> \in Seq(AllValues) /\ Len(<<>>) = 0
            /\ <<>> \in Seq([at : Nat, function : DOMAIN Form, value : AllValues])
        OBVIOUS
      <4> HIDE DEF array
      <4>3. array.data = <<>>
        BY <4>1
      <4> QED BY <4>1, <4>2, <4>3, <3>1 DEF ElementsOf
    <3>2. CASE item # Absent
      <4>1. HoldsElements
        BY <3>2, <2>1, <1>u DEF ItemInv, HoldsValue
      <4> QED BY <4>1, <3>2, HoldsElementsIs
    <3> QED BY <3>1, <3>2
  <2>4. written' = Append(values, v)
    <3>1. CASE item = Absent
      <4>1. Append(<<>>, v) = <<v>>
        OBVIOUS
      <4> QED BY <2>1, <3>1, <4>1
    <3>2. CASE item # Absent
      BY <2>1, <3>2
    <3> QED BY <3>1, <3>2
  <2> HIDE DEF array, values
  <2> QED BY <2>1, <2>2, <2>3, <2>4, <1>3, AppendElement
<1>6. CASE removeItem
  BY <1>6 DEF removeItem, ItemInv
<1> QED
  BY <1>1, <1>2, <1>4, <1>5, <1>6
  DEF Next, getReference, getReferenceLight, getReferences, newTarget, wrap, registerTaggedValue, reopen

LEMMA NextIInv ==
  ASSUME IInv, Next
  PROVE  IInv'
<1>1. subject' = subject
  BY DEF Next, getReference, getReferenceLight, getReferences, set, append, setArray, removeItem,
         newTarget, wrap, registerTaggedValue, reopen
<1> QED BY <1>1, NextDirectory, NextItem DEF IInv

LEMMA StutterIInv ==
  ASSUME IInv, UNCHANGED vars
  PROVE  IInv'
<1>1. /\ subject' = subject /\ item' = item /\ written' = written /\ sets' = sets /\ object' = object
      /\ held' = held /\ extensions' = extensions /\ TheItem' = TheItem
  BY DEF vars, TheItem
<1>2. DirectoryInv'
  BY <1>1 DEF IInv, DirectoryInv, IsRef
<1>3. HoldsValue' <=> HoldsValue
  BY <1>1 DEF HoldsValue, ItemWriters, IsRef, IsArray
<1>4. HoldsElements' <=> HoldsElements
  BY <1>1 DEF HoldsElements, IsArray
<1> QED BY <1>1, <1>2, <1>3, <1>4 DEF IInv, ItemInv

LEMMA Invariant == Spec => []IInv
<1>1. IInv /\ [Next]_vars => IInv'
  BY NextIInv, StutterIInv
<1> QED BY <1>1, InitIInv, PTL DEF Spec

-----------------------------------------------------------------------------
(* What follows *)

\* ObjectsHaveTheirClass: in every file, the object that a reference leads to is
\* of the class of its set, so that a client can cast it; only a tagged value that
\* was wrapped before its class was registered is not.
THEOREM ObjectsAreOfTheirClass == Spec => []ObjectsHaveTheirClass
<1>1. IInv => ObjectsHaveTheirClass
  BY DEF IInv, DirectoryInv, ObjectsHaveTheirClass
<1> QED BY <1>1, Invariant, PTL

\* The memory of an item is what its values take.
LEMMA SingleFills ==
  ASSUME NEW w, Width(w) \in Nat, NEW v, NEW it, it = Single(w, v)
  PROVE  /\ DOMAIN it.data = {1} /\ Len(it.data) = 1
         /\ it.data[1].at = 0 /\ it.data[1].function = w /\ it.data[1].value = v
         /\ it.count = 1 /\ it.length = Width(w)
<1>1. it.data = <<Written(0, w, v)>> /\ it.count = 1 /\ it.length = Width(w)
  BY DEF Single
<1>2. DOMAIN it.data = {1} /\ Len(it.data) = 1 /\ it.data[1] = Written(0, w, v)
  BY <1>1
<1> QED BY <1>1, <1>2, WrittenIs

LEMMA NextMultiple ==
  ASSUME NEW i \in Nat \ {0}, NEW n \in Nat
  PROVE  (i - 1) * n + n = i * n
<1>1. PICK k \in Nat : i = k + 1
  <2>1. i - 1 \in Nat /\ i = (i - 1) + 1
    OBVIOUS
  <2> QED BY <2>1
<1>2. i - 1 = k /\ (k + 1) * n = k * n + n
  BY <1>1
<1> QED BY <1>1, <1>2

\* ElementsFillItem: for every type of an array, what a setter or an appender
\* allocates for an element is what it writes of it, so that an array has no gaps
\* and no element lies behind the end of its memory.
THEOREM ArraysAreFilled == Spec => []ElementsFillItem
<1>1. ASSUME IInv PROVE ElementsFillItem
  <2> SUFFICES ASSUME item # Absent, NEW i \in DOMAIN item.data
               PROVE  /\ item.data[i].at = IF i = 1 THEN 0
                           ELSE item.data[i - 1].at + Width(item.data[i - 1].function)
                      /\ i = Len(item.data) =>
                           item.data[i].at + Width(item.data[i].function) = item.count * item.length
    BY DEF ElementsFillItem
  <2>1. CASE HoldsValue
    <3>1. PICK w \in ItemWriters : item = Single(w, written)
      BY <2>1 DEF HoldsValue
    <3>2. Width(w) \in Nat
      BY <1>1, <2>1, <3>1, WritersAre DEF IInv, HoldsValue
    <3>3. /\ i = 1 /\ item.data[i].at = 0 /\ item.data[i].function = w
          /\ item.count = 1 /\ item.length = Width(w)
      BY <3>1, <3>2, SingleFills
    <3>4. 0 + Width(w) = 1 * Width(w)
      BY <3>2
    <3> QED BY <3>3, <3>4
  <2>2. CASE HoldsElements
    <3> DEFINE fill == ArraySet[TheItem.set]
               n == fill.length
    <3>1. n \in Nat \ {0} /\ Width(fill.function) = n
      BY <1>1, <2>2, WritersAre DEF IInv, HoldsElements, ElementFits
    <3>2. /\ item.count = Len(written) /\ item.length = n
          /\ Len(item.data) = Len(written) /\ DOMAIN item.data = 1 .. Len(written)
          /\ Len(written) \in Nat
      BY <2>2, LenProperties DEF HoldsElements
    <3>3. \A k \in 1 .. Len(written) : /\ item.data[k].at = (k - 1) * n
                                       /\ Form[item.data[k].function] = Form[fill.function]
      BY <2>2 DEF HoldsElements
    <3> HIDE DEF fill
    <3>4. \A k \in 1 .. Len(written) : Width(item.data[k].function) = n
      BY <3>1, <3>3 DEF Width
    <3> HIDE DEF n
    <3>5. i \in 1 .. Len(written) /\ i \in Nat \ {0}
      BY <3>2
    <3>6. item.data[i].at = IF i = 1 THEN 0 ELSE item.data[i - 1].at + Width(item.data[i - 1].function)
      <4>1. CASE i = 1
        BY <4>1, <3>1, <3>3, <3>5
      <4>2. CASE i # 1
        <5>1. i - 1 \in 1 .. Len(written) /\ i - 1 \in Nat \ {0}
          BY <4>2, <3>2, <3>5
        <5>2. item.data[i - 1].at + Width(item.data[i - 1].function) = ((i - 1) - 1) * n + n
          BY <5>1, <3>3, <3>4
        <5>3. ((i - 1) - 1) * n + n = (i - 1) * n
          BY <5>1, <3>1, NextMultiple
        <5> QED BY <4>2, <5>2, <5>3, <3>3, <3>5
      <4> QED BY <4>1, <4>2
    <3>7. ASSUME i = Len(item.data)
          PROVE  item.data[i].at + Width(item.data[i].function) = item.count * item.length
      <4>1. item.data[i].at + Width(item.data[i].function) = (i - 1) * n + n
        BY <3>3, <3>4, <3>5
      <4>2. (i - 1) * n + n = i * n
        BY <3>1, <3>5, NextMultiple
      <4> QED BY <4>1, <4>2, <3>2, <3>7
    <3> QED BY <3>6, <3>7
  <2> QED BY <2>1, <2>2, <1>1 DEF IInv, ItemInv
<1> QED BY <1>1, Invariant, PTL

\* The object of a set can be cast to the class of the getter if the set can be
\* given as that class.
LEMMA CastsIs ==
  ASSUME IInv, IsRef(TheItem), NEW t \in sets
  PROVE  Casts(t) <=> Readable(t)
<1> DEFINE c == subject.targets
           of == TheItem.of
           o == Wrapped({t})[t]
<1>1. t \in Targets /\ c \in ClassNames /\ extensions \subseteq {"TaggedValue"}
  BY SubjectIs DEF IInv, DirectoryInv
<1>2. o = IF object[t] = Absent THEN ObjectClass(c) ELSE object[t]
  BY <1>1 DEF Wrapped
<1>3. object[t] \in {Absent, c} \/ (c = "TaggedValue" /\ object[t] = "InterchangeObject")
  BY <1>1 DEF IInv, DirectoryInv
<1>4. Casts(t) <=> IsA(o, of)
  BY DEF Casts
<1>5. Readable(t) <=> /\ IsA(c, of)
                      /\ of = "TaggedValue" =>
                           IF object[t] = Absent THEN "TaggedValue" \in Factories
                           ELSE object[t] = "TaggedValue"
  BY DEF Readable
<1> HIDE DEF c, of, o
<1>6. CASE c # "TaggedValue"
  <2>1. o = c
    BY <1>1, <1>2, <1>3, <1>6, ObjectClassIs
  <2>2. of = "TaggedValue" => ~IsA(c, of)
    BY <1>1, <1>6, KindsAre
  <2> QED BY <2>1, <2>2, <1>4, <1>5
<1>7. CASE c = "TaggedValue"
  <2>1. IsA(c, of) <=> of \in {"TaggedValue", "InterchangeObject"}
    BY <1>7, KindsAre
  <2>2. IsA("InterchangeObject", of) <=> of = "InterchangeObject"
    BY KindsAre
  <2>3. ObjectClass(c) = IF "TaggedValue" \in Factories THEN "TaggedValue" ELSE "InterchangeObject"
    BY <1>1, <1>7, ObjectClassIs
  <2>4. o = IF (IF object[t] = Absent THEN "TaggedValue" \in Factories ELSE object[t] = "TaggedValue")
            THEN "TaggedValue" ELSE "InterchangeObject"
    BY <1>2, <1>3, <1>7, <2>3
  <2>5. "InterchangeObject" # "TaggedValue"
    OBVIOUS
  <2> QED BY <2>1, <2>2, <2>4, <2>5, <1>4, <1>5, <1>7
<1> QED BY <1>6, <1>7

\* ReadingKeepsObjects: no getter takes away an object that the client has a
\* pointer to, as long as the file is well typed.
THEOREM ReadingKeepsTheObjects == Spec => ReadingKeepsObjects
<1> DEFINE Keeps == \A t \in held : object[t] # Absent /\ object'[t] = Absent => held' = {} \/ ~WellTyped
<1>1. ASSUME IInv, Next PROVE Keeps
  <2> SUFFICES ASSUME NEW u \in held, object[u] # Absent, object'[u] = Absent, WellTyped
               PROVE  held' = {}
    OBVIOUS
  <2>1. u \in Targets /\ u \in sets /\ DOMAIN object = Targets
    BY <1>1 DEF IInv, DirectoryInv
  <2>2. \A ts \in SUBSET sets : Wrapped(ts)[u] # Absent
    BY <1>1, <2>1, WrappedIs
  <2>3. ASSUME NEW t, object' = [object EXCEPT ![t] = subject.targets], t \notin sets PROVE FALSE
    BY <2>1, <2>3
  <2>4. ~getReference
    <3> SUFFICES ASSUME getReference PROVE FALSE
      OBVIOUS
    <3> DEFINE t == Element(item, 1, "strongref")
    <3>1. t \in sets /\ IsRef(TheItem) /\ ~IsArray(TheItem)
      BY DEF getReference
    <3>2. Casts(t)
      <4>1. TheItem.of # "TaggedValue" /\ IsA(subject.targets, TheItem.of)
        BY <1>1, <3>1, WritersAre DEF IInv, WellTyped
      <4>2. Readable(t)
        BY <4>1 DEF Readable
      <4> HIDE DEF t
      <4> QED BY <1>1, <3>1, <4>2, CastsIs
    <3>3. object' = Wrapped({t})
      BY <3>2 DEF getReference
    <3> HIDE DEF t
    <3> QED BY <3>1, <3>3, <2>2
  <2>5. ~getReferenceLight
    BY <2>2 DEF getReferenceLight
  <2>6. ~getReferences
    <3> SUFFICES ASSUME getReferences PROVE FALSE
      OBVIOUS
    <3> DEFINE it == Iterated(Referenced)
    <3>1. \E ts \in SUBSET sets : object' = Wrapped(ts)
      BY <1>1, WrapsFound
    <3> QED BY <3>1, <2>2
  <2>7. \A t \in Targets : ~newTarget(t)
    BY <2>3 DEF newTarget
  <2>8. \A t \in Targets : ~wrap(t)
    BY <2>2 DEF wrap
  <2>9. UNCHANGED object => FALSE
    OBVIOUS
  <2> QED
    BY <1>1, <2>4, <2>5, <2>6, <2>7, <2>8, <2>9
    DEF Next, set, append, setArray, removeItem, registerTaggedValue, reopen
<1>2. ASSUME UNCHANGED vars PROVE Keeps
  BY <1>2 DEF vars
<1> HIDE DEF Keeps
<1>3. IInv /\ [Next]_vars => [Keeps]_vars
  BY <1>1
<1>4. Spec => [][Keeps]_vars
  BY <1>3, Invariant, PTL DEF Spec
<1> QED BY <1>4 DEF ReadingKeepsObjects, Keeps

-----------------------------------------------------------------------------
(* Reading what was written *)

LEMMA SameMultiple ==
  ASSUME NEW i \in Nat, NEW j \in Nat, NEW n \in Nat \ {0}, i * n = j * n
  PROVE  i = j
<1>1. ASSUME NEW a \in Nat, NEW b \in Nat, a < b PROVE a * n # b * n
  <2>1. PICK k \in Nat : b = a + (k + 1)
    <3>1. b - a - 1 \in Nat /\ b = a + ((b - a - 1) + 1)
      BY <1>1
    <3> QED BY <3>1
  <2>2. b * n = a * n + (k + 1) * n /\ (k + 1) * n = k * n + n
    BY <2>1
  <2>3. a * n \in Nat /\ k * n \in Nat
    OBVIOUS
  <2> QED BY <2>2, <2>3
<1> QED BY <1>1

LEMMA DecodeSingle ==
  ASSUME NEW w, Width(w) \in Nat, NEW v, NEW f, Form[w] = Form[f]
  PROVE  Decode(Single(w, v), 0, f) = v
<1> DEFINE it == Single(w, v)
<1>1. /\ DOMAIN it.data = {1} /\ it.data[1].at = 0
      /\ it.data[1].function = w /\ it.data[1].value = v
  BY SingleFills
<1> HIDE DEF it
<1>2. {i \in DOMAIN it.data : it.data[i].at = 0} = {1}
  BY <1>1
<1>3. Decode(it, 0, f) = it.data[CHOOSE i \in {1} : TRUE].value
  BY <1>1, <1>2 DEF Decode
<1> QED BY <1>1, <1>3 DEF it

LEMMA DecodeElement ==
  ASSUME HoldsElements, ElementFits(TheItem.set), NEW i \in 1 .. Len(written),
         NEW f, Form[f] = Form[ArraySet[TheItem.set].function]
  PROVE  Element(item, i, f) = written[i]
<1> DEFINE fill == ArraySet[TheItem.set]
           n == fill.length
<1>1. n \in Nat \ {0}
  BY DEF ElementFits
<1>2. item.length = n /\ DOMAIN item.data = 1 .. Len(written) /\ Len(written) \in Nat
  BY LenProperties DEF HoldsElements
<1>3. \A k \in 1 .. Len(written) : /\ item.data[k].at = (k - 1) * n
                                   /\ Form[item.data[k].function] = Form[f]
                                   /\ item.data[k].value = written[k]
  BY DEF HoldsElements
<1> HIDE DEF n, fill
<1>4. ASSUME NEW k \in 1 .. Len(written), (k - 1) * n = (i - 1) * n PROVE k = i
  <2>1. k - 1 \in Nat /\ i - 1 \in Nat
    BY <1>2
  <2>2. k - 1 = i - 1
    BY <2>1, <1>1, <1>4, SameMultiple
  <2> QED BY <2>2, <1>2
<1>5. {k \in DOMAIN item.data : item.data[k].at = (i - 1) * n} = {i}
  BY <1>2, <1>3, <1>4
<1>6. Decode(item, (i - 1) * n, f) = item.data[CHOOSE k \in {i} : TRUE].value
  BY <1>3, <1>5 DEF Decode
<1> QED BY <1>2, <1>3, <1>6 DEF Element

\* What the elements of an array are read as.
LEMMA ElementsRead ==
  ASSUME HoldsElements, ElementFits(TheItem.set), NEW f,
         Form[f] = Form[ArraySet[TheItem.set].function]
  PROVE  [i \in 1 .. item.count |-> Element(item, i, f)] = written
<1>1. item.count = Len(written) /\ written \in Seq(AllValues)
  BY DEF HoldsElements
<1>2. written = [i \in 1 .. Len(written) |-> written[i]]
  BY <1>1
<1>3. \A i \in 1 .. Len(written) : Element(item, i, f) = written[i]
  BY DecodeElement
<1> QED BY <1>1, <1>2, <1>3

\* The getters, each of what its setters have written.
LEMMA ValueReads ==
  ASSUME IInv, HoldsValue, ~IsRef(TheItem)
  PROVE  GetSingle(TheItem.get, item) = written
<1> DEFINE t == TheItem.set
<1>1. PICK w \in ItemWriters : item = Single(w, written)
  BY DEF HoldsValue
<1>2. TheItem.get = t /\ SinglePair(t) /\ w \in Writers(t) /\ Converts(t, written)
  BY <1>1, WritersAre DEF IInv, HoldsValue, ItemWriters
<1> HIDE DEF t
<1>3. Width(w) \in Nat
  BY <1>2 DEF SinglePair
<1>4. item.length = Width(w)
  BY <1>1, <1>3, SingleFills
<1> DEFINE readers == {f \in SingleGet[t] : Width(f) = item.length}
           f == CHOOSE f \in readers : TRUE
<1>5. readers # {} /\ \A g \in readers : Form[g] = Form[w]
  BY <1>2, <1>4 DEF SinglePair
<1>6. GetSingle(t, item) = IF readers = {} THEN Throws
                           ELSE IF Converts(t, Decode(item, 0, f)) THEN Decode(item, 0, f) ELSE Throws
  BY DEF GetSingle
<1> HIDE DEF readers
<1>7. f \in readers
  BY <1>5
<1> HIDE DEF f
<1>8. Decode(item, 0, f) = written
  BY <1>1, <1>3, <1>5, <1>7, DecodeSingle
<1> QED BY <1>2, <1>5, <1>6, <1>8

LEMMA ArrayReads ==
  ASSUME IInv, HoldsElements, ~IsRef(TheItem)
  PROVE  GetArray(TheItem.get, item) = written
<1> DEFINE a == ArrayGet[TheItem.get]
<1>1. ElementFits(TheItem.set) /\ ArrayPair(TheItem.get, TheItem.set)
  BY WritersAre DEF IInv, HoldsElements
<1>2. item.length = a.length /\ Form[a.function] = Form[ArraySet[TheItem.set].function]
  BY <1>1 DEF HoldsElements, ArrayPair
<1>3. GetArray(TheItem.get, item) = IF item.count > 0 /\ item.length # a.length THEN Throws
                                    ELSE [i \in 1 .. item.count |-> Element(item, i, a.function)]
  BY DEF GetArray
<1> HIDE DEF a
<1>4. [i \in 1 .. item.count |-> Element(item, i, a.function)] = written
  BY <1>1, <1>2, ElementsRead
<1> QED BY <1>2, <1>3, <1>4

LEMMA ReferenceReads ==
  ASSUME IInv, HoldsValue, IsRef(TheItem)
  PROVE  Element(item, 1, "strongref") = written
<1>1. PICK w \in ItemWriters : item = Single(w, written)
  BY DEF HoldsValue
<1>2. w = RefSet[TheItem.set]
  BY <1>1 DEF ItemWriters
<1>3. Width(w) \in Nat /\ Form[w] = Form["strongref"]
  BY <1>1, <1>2, WritersAre DEF IInv, HoldsValue
<1>4. item.length = Width(w)
  BY <1>1, <1>3, SingleFills
<1>5. (1 - 1) * item.length = 0
  BY <1>3, <1>4
<1>6. Element(item, 1, "strongref") = Decode(item, 0, "strongref")
  BY <1>5 DEF Element
<1> QED BY <1>1, <1>3, <1>6, DecodeSingle

LEMMA ReferencesRead ==
  ASSUME IInv, HoldsElements, IsRef(TheItem)
  PROVE  item.length = mxfUUID_extlen /\ Referenced = written
<1>1. /\ ElementFits(TheItem.set) /\ ArraySet[TheItem.set].length = mxfUUID_extlen
      /\ Form["strongref"] = Form[ArraySet[TheItem.set].function]
  BY WritersAre DEF IInv, HoldsElements
<1>2. item.length = mxfUUID_extlen
  BY <1>1 DEF HoldsElements
<1> QED BY <1>1, <1>2, ElementsRead DEF Referenced

\* ReadsWhatWasWritten: for every item of every class and every accessor, the
\* getter returns what was set and appended, in any order, also after the file was
\* written and read again, without the references to sets that are not there.
THEOREM GettersReadWhatWasWritten == Spec => []ReadsWhatWasWritten
<1>1. ASSUME IInv PROVE GetOutcome = Expected
  <2> DEFINE Found == FlattenSeq([i \in DOMAIN written |-> There(written[i])])
  <2>1. CASE item = Absent
    <3>1. written = Absent
      BY <1>1, <2>1 DEF IInv, ItemInv
    <3> QED BY <2>1, <3>1 DEF GetOutcome, Expected
  <2>2. ASSUME item # Absent, written # Absent, HoldsValue PROVE GetOutcome = Expected
    <3>1. ~IsArray(TheItem)
      BY <2>2 DEF HoldsValue
    <3>2. CASE ~IsRef(TheItem)
      <4>1. GetOutcome = GetSingle(TheItem.get, item)
        BY <2>2, <3>1, <3>2 DEF GetOutcome
      <4>2. Expected = written
        BY <2>2, <3>2 DEF Expected
      <4> QED BY <1>1, <2>2, <3>2, <4>1, <4>2, ValueReads
    <3>3. CASE IsRef(TheItem)
      <4>1. GetOutcome = IF written \in sets /\ Casts(written) THEN written ELSE Throws
        <5>1. GetOutcome = GetRef
          BY <2>2, <3>1, <3>3 DEF GetOutcome
        <5>2. Element(item, 1, "strongref") = written
          BY <1>1, <2>2, <3>3, ReferenceReads
        <5> QED BY <5>1, <5>2 DEF GetRef
      <4>2. Range(<<written>>) = {written}
        BY DEF Range
      <4>3. Expected = IF written \in sets /\ Readable(written) THEN written ELSE Throws
        <5>1. Expected = IF ~(\A t \in Range(<<written>>) : t \in sets /\ Readable(t)) THEN Throws ELSE written
          BY <2>2, <3>1, <3>3 DEF Expected
        <5> QED BY <5>1, <4>2
      <4>4. written \in sets => (Casts(written) <=> Readable(written))
        BY <1>1, <3>3, CastsIs
      <4> QED BY <4>1, <4>3, <4>4
    <3> QED BY <3>2, <3>3
  <2>3. ASSUME item # Absent, written # Absent, HoldsElements PROVE GetOutcome = Expected
    <3>1. IsArray(TheItem) /\ written \in Seq(AllValues)
      BY <2>3 DEF HoldsElements
    <3>2. CASE ~IsRef(TheItem)
      <4>1. GetOutcome = GetArray(TheItem.get, item)
        BY <2>3, <3>1, <3>2 DEF GetOutcome
      <4>2. Expected = written
        BY <2>3, <3>2 DEF Expected
      <4> QED BY <1>1, <2>3, <3>2, <4>1, <4>2, ArrayReads
    <3>3. CASE IsRef(TheItem)
      <4> DEFINE found == Iterated(written)
      <4>1. GetOutcome = IF \A t \in Range(found) : Casts(t) THEN found ELSE Throws
        <5>1. GetOutcome = GetRefArray
          BY <2>3, <3>1, <3>3 DEF GetOutcome
        <5>2. item.length = mxfUUID_extlen /\ Referenced = written
          BY <1>1, <2>3, <3>3, ReferencesRead
        <5> QED BY <5>1, <5>2 DEF GetRefArray
      <4>2. found = Found
        BY <3>1, IteratedFlattens
      <4>3. Expected = IF ~(\A t \in Range(Found) : t \in sets /\ Readable(t)) THEN Throws ELSE Found
        BY <2>3, <3>1, <3>3, Zenon DEF Expected, There
      <4>4. Range(found) \subseteq sets
        BY <3>1, FoundAreSets
      <4> HIDE DEF found, Found
      <4>5. \A t \in Range(found) : t \in sets /\ (Casts(t) <=> Readable(t))
        BY <1>1, <3>3, <4>4, CastsIs
      <4> QED BY <4>1, <4>2, <4>3, <4>5
    <3> QED BY <3>2, <3>3
  <2> QED BY <2>1, <2>2, <2>3, <1>1 DEF IInv, ItemInv
<1> QED BY <1>1, Invariant, PTL DEF ReadsWhatWasWritten
=============================================================================
