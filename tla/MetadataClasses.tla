--------------------------- MODULE MetadataClasses ---------------------------
(***************************************************************************)
(* The metadata classes of libMXF++ (libMXF++/metadata/base, one pair of   *)
(* files per class): the class each one extends and the items it reads and *)
(* writes.                                                                 *)
(*                                                                         *)
(* An item Foo has a getFoo and a setFoo, an array also an appendFoo, and  *)
(* each calls an accessor of MetadataSet: getFoo of an Item("UInt32")      *)
(* calls getUInt32Item, setFoo calls setUInt32Item.  An optional item has  *)
(* a haveFoo.  The accessors of a reference cast the object they find to   *)
(* the class that is named.                                                *)
(*                                                                         *)
(* The two constructors of a class, which are the same in every class, are *)
(* modelled in ObjectDirectory.                                            *)
(***************************************************************************)
EXTENDS Tables, Sequences

Item(type) == [get |-> type, set |-> type, of |-> "", optional |-> FALSE]
Opt(i) == [i EXCEPT !.optional = TRUE]
OptItem(type) == Opt(Item(type))

StrongRef(class) == [Item("StrongRef") EXCEPT !.of = class]
WeakRef(class) == [Item("WeakRef") EXCEPT !.of = class]
StrongRefArray(class) == [Item("StrongRefArray") EXCEPT !.of = class]

\* The items of a class whose readers and writers are listed apart.
Paired(getters, setters) ==
  [i \in DOMAIN getters |-> [getters[i] EXCEPT !.set = setters[i]]]

NoItems == <<>>

Extends(parent, items) == [parent |-> parent, items |-> items]

-----------------------------------------------------------------------------

InterchangeObjectItems ==
  [ InstanceUID |-> Item("UUID"), GenerationUID |-> OptItem("UUID") ]

InterchangeObject == Extends("MetadataSet", InterchangeObjectItems)

ContentStorageItems ==
  [ Packages |-> StrongRefArray("GenericPackage"),
    EssenceContainerData |-> Opt(StrongRefArray("EssenceContainerData")) ]

ContentStorage == Extends("InterchangeObject", ContentStorageItems)

DMFramework == Extends("InterchangeObject", NoItems)

TextBasedDMFrameworkItems ==
  [ TextBasedObject |-> Opt(StrongRef("TextBasedObject")) ]

TextBasedDMFramework == Extends("DMFramework", TextBasedDMFrameworkItems)

DMSet == Extends("InterchangeObject", NoItems)

TextBasedObjectItems ==
  [ TextBasedMetadataPayloadSchemaID |-> Item("UL"),
    TextMIMEMediaType |-> Item("String"), RFC5646TextLanguageCode |-> Item("String"),
    TextDataDescription |-> OptItem("String") ]

TextBasedObject == Extends("DMSet", TextBasedObjectItems)

GenericStreamTextBasedSetItems ==
  [ GenericStreamSID |-> Item("UInt32") ]

GenericStreamTextBasedSet == Extends("TextBasedObject", GenericStreamTextBasedSetItems)

UTF16TextBasedSetItems ==
  [ UTF16TextData |-> Item("RawBytes") ]

UTF16TextBasedSet == Extends("TextBasedObject", UTF16TextBasedSetItems)

UTF8TextBasedSetItems ==
  [ UTF8TextData |-> Item("RawBytes") ]

UTF8TextBasedSet == Extends("TextBasedObject", UTF8TextBasedSetItems)

EssenceContainerDataItems ==
  [ LinkedPackageUID |-> Item("UMID"), IndexSID |-> OptItem("UInt32"),
    BodySID |-> Item("UInt32") ]

EssenceContainerData == Extends("InterchangeObject", EssenceContainerDataItems)

GenericDescriptorItems ==
  [ Locators |-> Opt(StrongRefArray("Locator")),
    SubDescriptors |-> Opt(StrongRefArray("SubDescriptor")) ]

GenericDescriptor == Extends("InterchangeObject", GenericDescriptorItems)

FileDescriptorItems ==
  [ LinkedTrackID |-> OptItem("UInt32"), SampleRate |-> Item("Rational"),
    ContainerDuration |-> OptItem("Length"), EssenceContainer |-> Item("UL"),
    Codec |-> OptItem("UL") ]

FileDescriptor == Extends("GenericDescriptor", FileDescriptorItems)

GenericDataEssenceDescriptorItems ==
  [ DataEssenceCoding |-> OptItem("UL") ]

GenericDataEssenceDescriptor ==
  Extends("FileDescriptor", GenericDataEssenceDescriptorItems)

ANCDataDescriptor == Extends("GenericDataEssenceDescriptor", NoItems)

DCTimedTextDescriptorItems ==
  [ ResourceID |-> OptItem("UUID"), NamespaceURI |-> Item("String"),
    RFC5646LanguageTagList |-> OptItem("String"), UCSEncoding |-> Item("String") ]

DCTimedTextDescriptor ==
  Extends("GenericDataEssenceDescriptor", DCTimedTextDescriptorItems)

VBIDataDescriptor == Extends("GenericDataEssenceDescriptor", NoItems)

GenericPictureEssenceDescriptorGetters ==
  [ SignalStandard |-> OptItem("UInt8"), FrameLayout |-> OptItem("UInt8"),
    StoredWidth |-> OptItem("UInt32"), StoredHeight |-> OptItem("UInt32"),
    StoredF2Offset |-> OptItem("Int32"), SampledWidth |-> OptItem("UInt32"),
    SampledHeight |-> OptItem("UInt32"), SampledXOffset |-> OptItem("Int32"),
    SampledYOffset |-> OptItem("Int32"), DisplayHeight |-> OptItem("UInt32"),
    DisplayWidth |-> OptItem("UInt32"), DisplayXOffset |-> OptItem("Int32"),
    DisplayYOffset |-> OptItem("Int32"), DisplayF2Offset |-> OptItem("Int32"),
    AspectRatio |-> OptItem("Rational"), ActiveFormatDescriptor |-> OptItem("UInt8"),
    VideoLineMap |-> OptItem("Int32Array"), AlphaTransparency |-> OptItem("UInt8"),
    CaptureGamma |-> OptItem("UL"), ImageAlignmentOffset |-> OptItem("UInt32"),
    ImageStartOffset |-> OptItem("UInt32"), ImageEndOffset |-> OptItem("UInt32"),
    FieldDominance |-> OptItem("UInt8"), PictureEssenceCoding |-> OptItem("UL"),
    CodingEquations |-> OptItem("UL"), ColorPrimaries |-> OptItem("UL") ]

GenericPictureEssenceDescriptorSetters ==
  [ SignalStandard |-> "UInt8", FrameLayout |-> "UInt8", StoredWidth |-> "UInt32",
    StoredHeight |-> "UInt32", StoredF2Offset |-> "Int32", SampledWidth |-> "UInt32",
    SampledHeight |-> "UInt32", SampledXOffset |-> "Int32", SampledYOffset |-> "Int32",
    DisplayHeight |-> "UInt32", DisplayWidth |-> "UInt32", DisplayXOffset |-> "Int32",
    DisplayYOffset |-> "Int32", DisplayF2Offset |-> "Int32",
    AspectRatio |-> "Rational", ActiveFormatDescriptor |-> "UInt8",
    VideoLineMap |-> "Int32Array", AlphaTransparency |-> "UInt8",
    CaptureGamma |-> "UL", ImageAlignmentOffset |-> "UInt32",
    ImageStartOffset |-> "UInt32", ImageEndOffset |-> "UInt32",
    FieldDominance |-> "UInt8", PictureEssenceCoding |-> "UL",
    CodingEquations |-> "UL", ColorPrimaries |-> "UL" ]

GenericPictureEssenceDescriptor ==
  Extends("FileDescriptor",
    Paired(GenericPictureEssenceDescriptorGetters,
         GenericPictureEssenceDescriptorSetters))

CDCIEssenceDescriptorGetters ==
  [ ComponentDepth |-> OptItem("UInt32"), HorizontalSubsampling |-> OptItem("UInt32"),
    VerticalSubsampling |-> OptItem("UInt32"), ColorSiting |-> OptItem("UInt8"),
    ReversedByteOrder |-> OptItem("Boolean"), PaddingBits |-> OptItem("Int16"),
    AlphaSampleDepth |-> OptItem("UInt32"), BlackRefLevel |-> OptItem("UInt32"),
    WhiteReflevel |-> OptItem("UInt32"), ColorRange |-> OptItem("UInt32") ]

CDCIEssenceDescriptorSetters ==
  [ ComponentDepth |-> "UInt32", HorizontalSubsampling |-> "UInt32",
    VerticalSubsampling |-> "UInt32", ColorSiting |-> "UInt8",
    ReversedByteOrder |-> "Boolean", PaddingBits |-> "Int16",
    AlphaSampleDepth |-> "UInt32", BlackRefLevel |-> "UInt32",
    WhiteReflevel |-> "UInt32", ColorRange |-> "UInt32" ]

CDCIEssenceDescriptor ==
  Extends("GenericPictureEssenceDescriptor",
    Paired(CDCIEssenceDescriptorGetters,
         CDCIEssenceDescriptorSetters))

MPEGVideoDescriptorGetters ==
  [ SingleSequence |-> OptItem("Boolean"), ConstantBFrames |-> OptItem("Boolean"),
    CodedContentType |-> OptItem("UInt8"), LowDelay |-> OptItem("Boolean"),
    ClosedGOP |-> OptItem("Boolean"), IdenticalGOP |-> OptItem("Boolean"),
    MaxGOP |-> OptItem("UInt16"), MaxBPictureCount |-> OptItem("UInt16"),
    BitRate |-> OptItem("UInt32"), ProfileAndLevel |-> OptItem("UInt8") ]

MPEGVideoDescriptorSetters ==
  [ SingleSequence |-> "Boolean", ConstantBFrames |-> "Boolean",
    CodedContentType |-> "UInt8", LowDelay |-> "Boolean", ClosedGOP |-> "Boolean",
    IdenticalGOP |-> "Boolean", MaxGOP |-> "UInt16", MaxBPictureCount |-> "UInt16",
    BitRate |-> "UInt32", ProfileAndLevel |-> "UInt8" ]

MPEGVideoDescriptor ==
  Extends("CDCIEssenceDescriptor",
    Paired(MPEGVideoDescriptorGetters,
         MPEGVideoDescriptorSetters))

RGBAEssenceDescriptorItems ==
  [ ComponentMaxRef |-> OptItem("UInt32"), ComponentMinRef |-> OptItem("UInt32"),
    AlphaMaxRef |-> OptItem("UInt32"), AlphaMinRef |-> OptItem("UInt32"),
    ScanningDirection |-> OptItem("UInt8"), PixelLayout |-> OptItem("RGBALayout"),
    Palette |-> OptItem("RawBytes"), PaletteLayout |-> OptItem("RGBALayout") ]

RGBAEssenceDescriptor ==
  Extends("GenericPictureEssenceDescriptor", RGBAEssenceDescriptorItems)

GenericSoundEssenceDescriptorItems ==
  [ AudioSamplingRate |-> OptItem("Rational"), Locked |-> OptItem("Boolean"),
    AudioRefLevel |-> OptItem("Int8"), ElectroSpatialFormulation |-> OptItem("UInt8"),
    ChannelCount |-> OptItem("UInt32"), QuantizationBits |-> OptItem("UInt32"),
    DialNorm |-> OptItem("Int8"), SoundEssenceCompression |-> OptItem("UL") ]

GenericSoundEssenceDescriptor ==
  Extends("FileDescriptor", GenericSoundEssenceDescriptorItems)

WaveAudioDescriptorGetters ==
  [ BlockAlign |-> Item("UInt16"), SequenceOffset |-> OptItem("UInt8"),
    AvgBps |-> Item("UInt32"), ChannelAssignment |-> OptItem("UL"),
    PeakEnvelopeVersion |-> OptItem("UInt32"),
    PeakEnvelopeFormat |-> OptItem("UInt32"), PointsPerPeakValue |-> OptItem("UInt32"),
    PeakEnvelopeBlockSize |-> OptItem("UInt32"), PeakChannels |-> OptItem("UInt32"),
    PeakFrames |-> OptItem("UInt32"), PeakOfPeaksPosition |-> OptItem("Position"),
    PeakEnvelopeTimestamp |-> OptItem("Timestamp"),
    PeakEnvelopeData |-> OptItem("RawBytes") ]

WaveAudioDescriptorSetters ==
  [ BlockAlign |-> "UInt16", SequenceOffset |-> "UInt8", AvgBps |-> "UInt32",
    ChannelAssignment |-> "UL", PeakEnvelopeVersion |-> "UInt32",
    PeakEnvelopeFormat |-> "UInt32", PointsPerPeakValue |-> "UInt32",
    PeakEnvelopeBlockSize |-> "UInt32", PeakChannels |-> "UInt32",
    PeakFrames |-> "UInt32", PeakOfPeaksPosition |-> "Position",
    PeakEnvelopeTimestamp |-> "Timestamp", PeakEnvelopeData |-> "RawBytes" ]

WaveAudioDescriptor ==
  Extends("GenericSoundEssenceDescriptor",
    Paired(WaveAudioDescriptorGetters,
         WaveAudioDescriptorSetters))

AES3AudioDescriptorGetters ==
  [ Emphasis |-> OptItem("UInt8"), BlockStartOffset |-> OptItem("UInt16"),
    AuxiliaryBitsMode |-> OptItem("UInt8"),
    ChannelStatusMode |-> OptItem("UInt8Array"),
    FixedChannelStatusData |-> OptItem("AES3FixedDataArray"),
    UserDataMode |-> OptItem("UInt8Array"),
    FixedUserData |-> OptItem("AES3FixedDataArray"),
    LinkedTimecodeTrackID |-> OptItem("UInt32"),
    SMPTE377MDataStreamNumber |-> OptItem("UInt8") ]

AES3AudioDescriptorSetters ==
  [ Emphasis |-> "UInt8", BlockStartOffset |-> "UInt16", AuxiliaryBitsMode |-> "UInt8",
    ChannelStatusMode |-> "UInt8Array", FixedChannelStatusData |-> "AES3FixedArray",
    UserDataMode |-> "UInt8Array", FixedUserData |-> "AES3FixedArray",
    LinkedTimecodeTrackID |-> "UInt32", SMPTE377MDataStreamNumber |-> "UInt8" ]

AES3AudioDescriptor ==
  Extends("WaveAudioDescriptor",
    Paired(AES3AudioDescriptorGetters,
         AES3AudioDescriptorSetters))

MultipleDescriptorItems ==
  [ SubDescriptorUIDs |-> StrongRefArray("GenericDescriptor") ]

MultipleDescriptor == Extends("FileDescriptor", MultipleDescriptorItems)

\* Fault: a date is written as a position.
GenericPackageItems_WrongSetter ==
  [ PackageUID |-> Item("UMID"), Name |-> OptItem("String"),
    PackageCreationDate |-> Item("Timestamp"),
    PackageModifiedDate |-> [Item("Timestamp") EXCEPT !.set = "Position"],
    Tracks |-> StrongRefArray("GenericTrack") ]

GenericPackageItems ==
  [ PackageUID |-> Item("UMID"), Name |-> OptItem("String"),
    PackageCreationDate |-> Item("Timestamp"),
    PackageModifiedDate |-> Item("Timestamp"),
    Tracks |-> StrongRefArray("GenericTrack") ]

GenericPackage == Extends("InterchangeObject", GenericPackageItems)

MaterialPackage == Extends("GenericPackage", NoItems)

SourcePackageItems ==
  [ Descriptor |-> Opt(StrongRef("GenericDescriptor")) ]

SourcePackage == Extends("GenericPackage", SourcePackageItems)

GenericTrackItems ==
  [ TrackID |-> OptItem("UInt32"), TrackNumber |-> Item("UInt32"),
    TrackName |-> OptItem("String"), Sequence |-> StrongRef("StructuralComponent") ]

GenericTrack == Extends("InterchangeObject", GenericTrackItems)

EventTrackItems ==
  [ EventEditRate |-> Item("Rational"), EventOrigin |-> OptItem("Position") ]

EventTrack == Extends("GenericTrack", EventTrackItems)

StaticTrack == Extends("GenericTrack", NoItems)

TrackItems ==
  [ EditRate |-> Item("Rational"), Origin |-> Item("Position") ]

Track == Extends("GenericTrack", TrackItems)

IdentificationItems ==
  [ ThisGenerationUID |-> Item("UUID"), CompanyName |-> Item("String"),
    ProductName |-> Item("String"), ProductVersion |-> OptItem("ProductVersion"),
    VersionString |-> Item("String"), ProductUID |-> Item("UUID"),
    ModificationDate |-> Item("Timestamp"),
    ToolkitVersion |-> OptItem("ProductVersion"), Platform |-> OptItem("String") ]

Identification == Extends("InterchangeObject", IdentificationItems)

Locator == Extends("InterchangeObject", NoItems)

NetworkLocatorItems ==
  [ URLString |-> Item("String") ]

NetworkLocator == Extends("Locator", NetworkLocatorItems)

TextLocatorItems ==
  [ LocatorName |-> Item("String") ]

TextLocator == Extends("Locator", TextLocatorItems)

PrefaceGetters ==
  [ LastModifiedDate |-> Item("Timestamp"), Version |-> Item("VersionType"),
    ObjectModelVersion |-> OptItem("UInt32"),
    PrimaryPackage |-> Opt(WeakRef("GenericPackage")),
    Identifications |-> StrongRefArray("Identification"),
    ContentStorage |-> StrongRef("ContentStorage"), OperationalPattern |-> Item("UL"),
    EssenceContainers |-> Item("ULArray"), DMSchemes |-> Item("ULArray"),
    IsRIPPresent |-> OptItem("Boolean") ]

PrefaceSetters ==
  [ LastModifiedDate |-> "Timestamp", Version |-> "VersionType",
    ObjectModelVersion |-> "UInt32", PrimaryPackage |-> "WeakRef",
    Identifications |-> "StrongRefArray", ContentStorage |-> "StrongRef",
    OperationalPattern |-> "UL", EssenceContainers |-> "ULArray",
    DMSchemes |-> "ULArray", IsRIPPresent |-> "Boolean" ]

Preface == Extends("InterchangeObject", Paired(PrefaceGetters, PrefaceSetters))

StructuralComponentItems ==
  [ DataDefinition |-> Item("UL"), Duration |-> OptItem("Length") ]

StructuralComponent == Extends("InterchangeObject", StructuralComponentItems)

DMSegmentItems ==
  [ EventStartPosition |-> Item("Position"), EventComment |-> OptItem("String"),
    TrackIDs |-> OptItem("UInt32Array"),
    DMFramework |-> Opt(StrongRef("DMFramework")) ]

DMSegment == Extends("StructuralComponent", DMSegmentItems)

SequenceItems ==
  [ StructuralComponents |-> StrongRefArray("StructuralComponent") ]

Sequence == Extends("StructuralComponent", SequenceItems)

SourceClipItems ==
  [ StartPosition |-> Item("Position"), SourcePackageID |-> Item("UMID"),
    SourceTrackID |-> Item("UInt32") ]

SourceClip == Extends("StructuralComponent", SourceClipItems)

DMSourceClipItems ==
  [ DMSourceClipTrackIDs |-> OptItem("UInt32Array") ]

DMSourceClip == Extends("SourceClip", DMSourceClipItems)

TimecodeComponentItems ==
  [ RoundedTimecodeBase |-> Item("UInt16"), StartTimecode |-> Item("Position"),
    DropFrame |-> Item("Boolean") ]

TimecodeComponent == Extends("StructuralComponent", TimecodeComponentItems)

SubDescriptor == Extends("InterchangeObject", NoItems)

AVCSubDescriptorGetters ==
  [ AVCDecodingDelay |-> Item("UInt8"), AVCConstantBPictureFlag |-> OptItem("Boolean"),
    AVCCodedContentKind |-> OptItem("UInt8"),
    AVCClosedGOPIndicator |-> OptItem("Boolean"),
    AVCIdenticalGOPIndicator |-> OptItem("Boolean"),
    AVCMaximumGOPSize |-> OptItem("UInt16"),
    AVCMaximumBPictureCount |-> OptItem("UInt16"),
    AVCMaximumBitrate |-> OptItem("UInt32"), AVCAverageBitrate |-> OptItem("UInt32"),
    AVCProfile |-> OptItem("UInt8"), AVCProfileConstraint |-> OptItem("UInt8"),
    AVCLevel |-> OptItem("UInt8"), AVCMaximumRefFrames |-> OptItem("UInt8"),
    AVCSequenceParameterSetFlag |-> OptItem("UInt8"),
    AVCPictureParameterSetFlag |-> OptItem("UInt8") ]

AVCSubDescriptorSetters ==
  [ AVCDecodingDelay |-> "UInt8", AVCConstantBPictureFlag |-> "Boolean",
    AVCCodedContentKind |-> "UInt8", AVCClosedGOPIndicator |-> "Boolean",
    AVCIdenticalGOPIndicator |-> "Boolean", AVCMaximumGOPSize |-> "UInt16",
    AVCMaximumBPictureCount |-> "UInt16", AVCMaximumBitrate |-> "UInt32",
    AVCAverageBitrate |-> "UInt32", AVCProfile |-> "UInt8",
    AVCProfileConstraint |-> "UInt8", AVCLevel |-> "UInt8",
    AVCMaximumRefFrames |-> "UInt8", AVCSequenceParameterSetFlag |-> "UInt8",
    AVCPictureParameterSetFlag |-> "UInt8" ]

AVCSubDescriptor ==
  Extends("SubDescriptor",
    Paired(AVCSubDescriptorGetters,
         AVCSubDescriptorSetters))

DCTimedTextResourceSubDescriptorItems ==
  [ AncillaryResourceID |-> Item("UUID"), EssenceStreamID |-> Item("UInt32"),
    MIMEType |-> Item("String") ]

DCTimedTextResourceSubDescriptor ==
  Extends("SubDescriptor", DCTimedTextResourceSubDescriptorItems)

MCALabelSubDescriptorGetters ==
  [ MCAChannelID |-> OptItem("UInt32"), MCALabelDictionaryID |-> Item("UL"),
    MCATagSymbol |-> Item("String"), MCATagName |-> OptItem("String"),
    MCALinkID |-> Item("UUID"), MCAPartitionKind |-> OptItem("String"),
    MCAPartitionNumber |-> OptItem("String"), MCATitle |-> OptItem("String"),
    MCATitleVersion |-> OptItem("String"), MCATitleSubVersion |-> OptItem("String"),
    MCAEpisode |-> OptItem("String"), RFC5646SpokenLanguage |-> OptItem("ISO7String"),
    MCAAudioContentKind |-> OptItem("String"),
    MCAAudioElementKind |-> OptItem("String") ]

MCALabelSubDescriptorSetters ==
  [ MCAChannelID |-> "UInt32", MCALabelDictionaryID |-> "UL",
    MCATagSymbol |-> "String", MCATagName |-> "String", MCALinkID |-> "UUID",
    MCAPartitionKind |-> "String", MCAPartitionNumber |-> "String",
    MCATitle |-> "String", MCATitleVersion |-> "String",
    MCATitleSubVersion |-> "String", MCAEpisode |-> "String",
    RFC5646SpokenLanguage |-> "ISO7String", MCAAudioContentKind |-> "String",
    MCAAudioElementKind |-> "String" ]

MCALabelSubDescriptor ==
  Extends("SubDescriptor",
    Paired(MCALabelSubDescriptorGetters,
         MCALabelSubDescriptorSetters))

AudioChannelLabelSubDescriptorItems ==
  [ SoundfieldGroupLinkID |-> OptItem("UUID") ]

AudioChannelLabelSubDescriptor ==
  Extends("MCALabelSubDescriptor", AudioChannelLabelSubDescriptorItems)

GroupOfSoundfieldGroupsLabelSubDescriptor == Extends("MCALabelSubDescriptor", NoItems)

SoundfieldGroupLabelSubDescriptorItems ==
  [ GroupOfSoundfieldGroupsLinkID |-> OptItem("UUIDArray") ]

SoundfieldGroupLabelSubDescriptor ==
  Extends("MCALabelSubDescriptor", SoundfieldGroupLabelSubDescriptorItems)

VC2SubDescriptorItems ==
  [ VC2MajorVersion |-> Item("UInt8"), VC2MinorVersion |-> Item("UInt8"),
    VC2Profile |-> Item("UInt8"), VC2Level |-> Item("UInt8"),
    VC2WaveletFilters |-> OptItem("UInt8Array"),
    VC2SequenceHeadersIdentical |-> OptItem("Boolean"),
    VC2EditUnitsAreCompleteSequences |-> OptItem("Boolean") ]

VC2SubDescriptor == Extends("SubDescriptor", VC2SubDescriptorItems)

-----------------------------------------------------------------------------
(* Extensions for files made by Avid: items of a package that are no part   *)
(* of the base class, and a class that the library does not register.       *)

\* getAvidAttributes and getAvidUserComments, with their appends.
GenericPackageAvid ==
  [ MobAttributeList |-> StrongRefArray("TaggedValue"),
    UserComments |-> StrongRefArray("TaggedValue") ]

\* The item Value holds a string or an integer; getStringValue and setValue(string)
\* are listed as one item, getInt32Value and setValue(int32_t) as another.
TaggedValueItems ==
  [ Name |-> Item("String"), StringValue |-> Item("IndirectString"),
    Int32Value |-> Item("IndirectInt32"),
    TaggedValueAttributeList |-> StrongRefArray("TaggedValue") ]

TaggedValue == Extends("InterchangeObject", TaggedValueItems)

-----------------------------------------------------------------------------

\* Every class, under its name.
MetadataClass ==
  [ InterchangeObject |-> InterchangeObject,
    ContentStorage |-> ContentStorage,
    DMFramework |-> DMFramework,
    TextBasedDMFramework |-> TextBasedDMFramework,
    DMSet |-> DMSet,
    TextBasedObject |-> TextBasedObject,
    GenericStreamTextBasedSet |-> GenericStreamTextBasedSet,
    UTF16TextBasedSet |-> UTF16TextBasedSet,
    UTF8TextBasedSet |-> UTF8TextBasedSet,
    EssenceContainerData |-> EssenceContainerData,
    GenericDescriptor |-> GenericDescriptor,
    FileDescriptor |-> FileDescriptor,
    GenericDataEssenceDescriptor |-> GenericDataEssenceDescriptor,
    ANCDataDescriptor |-> ANCDataDescriptor,
    DCTimedTextDescriptor |-> DCTimedTextDescriptor,
    VBIDataDescriptor |-> VBIDataDescriptor,
    GenericPictureEssenceDescriptor |-> GenericPictureEssenceDescriptor,
    CDCIEssenceDescriptor |-> CDCIEssenceDescriptor,
    MPEGVideoDescriptor |-> MPEGVideoDescriptor,
    RGBAEssenceDescriptor |-> RGBAEssenceDescriptor,
    GenericSoundEssenceDescriptor |-> GenericSoundEssenceDescriptor,
    WaveAudioDescriptor |-> WaveAudioDescriptor,
    AES3AudioDescriptor |-> AES3AudioDescriptor,
    MultipleDescriptor |-> MultipleDescriptor,
    GenericPackage |->
      [GenericPackage EXCEPT !.items = @ ++ GenericPackageAvid],
    MaterialPackage |-> MaterialPackage,
    SourcePackage |-> SourcePackage,
    GenericTrack |-> GenericTrack,
    EventTrack |-> EventTrack,
    StaticTrack |-> StaticTrack,
    Track |-> Track,
    Identification |-> Identification,
    Locator |-> Locator,
    NetworkLocator |-> NetworkLocator,
    TextLocator |-> TextLocator,
    Preface |-> Preface,
    StructuralComponent |-> StructuralComponent,
    DMSegment |-> DMSegment,
    Sequence |-> Sequence,
    SourceClip |-> SourceClip,
    DMSourceClip |-> DMSourceClip,
    TimecodeComponent |-> TimecodeComponent,
    SubDescriptor |-> SubDescriptor,
    AVCSubDescriptor |-> AVCSubDescriptor,
    DCTimedTextResourceSubDescriptor |-> DCTimedTextResourceSubDescriptor,
    MCALabelSubDescriptor |-> MCALabelSubDescriptor,
    AudioChannelLabelSubDescriptor |-> AudioChannelLabelSubDescriptor,
    GroupOfSoundfieldGroupsLabelSubDescriptor |-> GroupOfSoundfieldGroupsLabelSubDescriptor,
    SoundfieldGroupLabelSubDescriptor |-> SoundfieldGroupLabelSubDescriptor,
    VC2SubDescriptor |-> VC2SubDescriptor,
    TaggedValue |-> TaggedValue ]

ClassNames == DOMAIN MetadataClass

\* A class and all the classes it extends, nearest first.
LineageFrom[c \in ClassNames \cup {"MetadataSet"}] ==
  IF c = "MetadataSet" THEN <<>>
  ELSE <<c>> \o LineageFrom[MetadataClass[c].parent]

Lineage == [c \in ClassNames |-> LineageFrom[c]]

\* dynamic_cast<class*>(object) succeeds.
IsA(c, class) == \E i \in DOMAIN Lineage[c] : Lineage[c][i] = class

=============================================================================
