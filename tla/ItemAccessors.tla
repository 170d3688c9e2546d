---------------------------- MODULE ItemAccessors ----------------------------
(***************************************************************************)
(* The typed accessors of mxfpp::MetadataSet (libMXF++/MetadataSet.cpp):   *)
(* which function of libMXF reads and writes a value of each type, and,    *)
(* for arrays, the element length that a getter checks, a setter allocates *)
(* and an appender asks for, and the stride at which a setter writes.      *)
(*                                                                         *)
(* A value that is written is remembered with the place it is written at   *)
(* and the function that wrote it: read at another place, or by a function *)
(* for another form, it is garbage.                                        *)
(***************************************************************************)
EXTENDS Tables, Naturals, Sequences, SequencesExt

CONSTANTS
  Malformed,       \* a string that can't be converted between UTF-8 and UTF-16
  Garbage,         \* what is read where something else was written
  Throws           \* the outcome of a call that throws MXFException

-----------------------------------------------------------------------------
(* libMXF *)

\* A form in the file and the number of bytes it takes; 0 bytes stands for a
\* variable length.
Coded(form, width) == <<form, width>>

\* What each pair of mxf_set_ and mxf_get_ functions handles.
Form ==
  [ uint8 |-> Coded("unsigned", 1), uint16 |-> Coded("unsigned", 2),
    uint32 |-> Coded("unsigned", 4), uint64 |-> Coded("unsigned", 8), int8 |-> Coded("signed", 1),
    int16 |-> Coded("signed", 2), int32 |-> Coded("signed", 4), int64 |-> Coded("signed", 8),
    length |-> Coded("signed", 8), position |-> Coded("signed", 8), float |-> Coded("float", 4),
    boolean |-> Coded("boolean", 1), version_type |-> Coded("version", 2),
    uuid |-> Coded("uuid", 16), ul |-> Coded("ul", 16), auid |-> Coded("auid", 16),
    umid |-> Coded("umid", 32), timestamp |-> Coded("timestamp", 8),
    rational |-> Coded("rational", 8), product_version |-> Coded("product", 10),
    avid_product_version |-> Coded("shortProduct", 9),
    aes3_fixed_data |-> Coded("AES3", 24), rgba_layout |-> Coded("layout", 16),
    utf16string |-> Coded("UTF16", 0), utf8string |-> Coded("UTF8", 0),
    iso7string |-> Coded("ISO646", 0), bytes |-> Coded("bytes", 0),
    avid_indirect_string |-> Coded("indirectUTF16", 0),
    avid_indirect_int32 |-> Coded("indirectInteger", 0), strongref |-> Coded("instanceUID", 16),
    weakref |-> Coded("instanceUID", 16) ]

Width(function) == Form[function][2]

mxfVersionType_extlen == Width("version_type")
mxfUUID_extlen == Width("uuid")
mxfUL_extlen == Width("ul")
mxfAUID_extlen == Width("auid")
mxfUMID_extlen == Width("umid")
mxfTimestamp_extlen == Width("timestamp")
mxfRational_extlen == Width("rational")
mxfBoolean_extlen == Width("boolean")
mxfProductVersion_extlen == Width("product_version")
mxfAES3FixedData_extlen == Width("aes3_fixed_data")

\* A value written at an offset, and an item of a C set: one value, or an array
\* with its element length and number of elements.
Written(at, function, v) == [at |-> at, function |-> function, value |-> v]
Single(function, v) ==
  [array |-> FALSE, length |-> Width(function), count |-> 1, data |-> <<Written(0, function, v)>>]

\* What a function reads at an offset of an item.
Decode(it, at, function) ==
  LET here == {i \in DOMAIN it.data : it.data[i].at = at}
  IN IF \E i \in here : Form[it.data[i].function] = Form[function]
     THEN it.data[CHOOSE i \in here : TRUE].value
     ELSE Garbage

\* mxf_alloc_array_item_elements and mxf_grow_array_item; the second fails on an
\* array of another element length.
Allocated(length, count) == [array |-> TRUE, length |-> length, count |-> count, data |-> <<>>]
CanGrow(it, length) == it.array /\ it.length = length
Grown(it) == [it EXCEPT !.count = @ + 1]

-----------------------------------------------------------------------------
(* Single values *)

\* The functions with which get<Type>Item may read an item.  A product version is
\* read by its length, as Avid writes it with one byte less.
IntegerGet ==
  [ UInt8 |-> {"uint8"}, UInt16 |-> {"uint16"}, UInt32 |-> {"uint32"}, UInt64 |-> {"uint64"},
    Int8 |-> {"int8"}, Int16 |-> {"int16"}, Int32 |-> {"int32"}, Int64 |-> {"int64"},
    Float |-> {"float"} ]

StructGet ==
  [ VersionType |-> {"version_type"}, UUID |-> {"uuid"}, UL |-> {"ul"}, AUID |-> {"auid"},
    UMID |-> {"umid"}, Timestamp |-> {"timestamp"}, Length |-> {"length"},
    Rational |-> {"rational"}, Position |-> {"position"}, Boolean |-> {"boolean"},
    ProductVersion |-> {"product_version", "avid_product_version"},
    RGBALayout |-> {"rgba_layout"} ]

\* getRawBytesItem returns the bytes of any item, in the item's own memory.
BytesGet == [ RawBytes |-> {"bytes"} ]

\* Each reads the length of the string and then the string.
StringGet ==
  [ String |-> {"utf16string"}, UTF8String |-> {"utf8string"}, ISO7String |-> {"iso7string"} ]

IndirectGet ==
  [ IndirectString |-> {"avid_indirect_string"}, IndirectInt32 |-> {"avid_indirect_int32"} ]

SingleGet == IntegerGet ++ StructGet ++ BytesGet ++ StringGet ++ IndirectGet

NumberSet ==
  [ UInt8 |-> "uint8", UInt16 |-> "uint16", UInt32 |-> "uint32", UInt64 |-> "uint64",
    Int8 |-> "int8", Int16 |-> "int16", Int32 |-> "int32", Int64 |-> "int64", Float |-> "float",
    VersionType |-> "version_type", UUID |-> "uuid", UL |-> "ul", AUID |-> "auid",
    UMID |-> "umid", Timestamp |-> "timestamp", Length |-> "length", Rational |-> "rational",
    Position |-> "position", Boolean |-> "boolean", ProductVersion |-> "product_version",
    RGBALayout |-> "rgba_layout" ]

BytesSet == [ RawBytes |-> "bytes" ]

StringSet ==
  [ String |-> "utf16string", UTF8String |-> "utf8string", ISO7String |-> "iso7string" ]

IndirectSet ==
  [ IndirectString |-> "avid_indirect_string", IndirectInt32 |-> "avid_indirect_int32" ]

\* setAvidProductVersion.
AvidSet == [ AvidProductVersion |-> "avid_product_version" ]

SingleSet == NumberSet ++ BytesSet ++ StringSet ++ IndirectSet ++ AvidSet

\* The strings that are held as UTF-16 are converted, before they are written and
\* after they are read; a conversion that fails throws.
Converts(type, v) == v = Malformed => type \notin {"String", "IndirectString"}

\* Outcome of get<Type>Item.
GetSingle(type, it) ==
  LET readers == {f \in SingleGet[type] : Width(f) = it.length}
  IN IF readers = {} THEN Throws
     ELSE LET v == Decode(it, 0, CHOOSE f \in readers : TRUE)
          IN IF Converts(type, v) THEN v ELSE Throws

-----------------------------------------------------------------------------
(* Arrays *)

\* The element length that get<Type>ArrayItem checks, and its reader.
Checked(length, function) == [length |-> length, function |-> function]

IntegerArrayGet ==
  [ UInt8Array |-> Checked(1, "uint8"), UInt16Array |-> Checked(2, "uint16"),
    UInt32Array |-> Checked(4, "uint32"), UInt64Array |-> Checked(8, "uint64"),
    Int8Array |-> Checked(1, "int8"), Int16Array |-> Checked(2, "int16"),
    Int32Array |-> Checked(4, "int32"), Int64Array |-> Checked(8, "int64") ]

StructArrayGet ==
  [ FloatArray |-> Checked(4, "float"),
    VersionTypeArray |-> Checked(mxfVersionType_extlen, "version_type"),
    UUIDArray |-> Checked(mxfUUID_extlen, "uuid"), ULArray |-> Checked(mxfUL_extlen, "ul"),
    AUIDArray |-> Checked(mxfAUID_extlen, "auid"), UMIDArray |-> Checked(mxfUMID_extlen, "umid"),
    TimestampArray |-> Checked(mxfTimestamp_extlen, "timestamp") ]

NumberArrayGet ==
  [ LengthArray |-> Checked(8, "int64"), RationalArray |-> Checked(mxfRational_extlen, "rational"),
    PositionArray |-> Checked(8, "int64"), BooleanArray |-> Checked(mxfBoolean_extlen, "boolean"),
    ProductVersionArray |-> Checked(mxfProductVersion_extlen, "product_version") ]

\* The element length that set<Type>ArrayItem allocates, its stride and its writer.
Filled(length, stride, function) == [length |-> length, stride |-> stride, function |-> function]

IntegerArraySet ==
  [ UInt8Array |-> Filled(1, 1, "uint8"), UInt16Array |-> Filled(2, 2, "uint16"),
    UInt32Array |-> Filled(4, 4, "uint32"), UInt64Array |-> Filled(8, 8, "uint64"),
    Int8Array |-> Filled(1, 1, "int8"), Int16Array |-> Filled(2, 2, "int16"),
    Int32Array |-> Filled(4, 4, "int32"), Int64Array |-> Filled(8, 8, "int64"),
    FloatArray |-> Filled(4, 4, "float") ]

\* Fault: the pointer is moved by the size of another struct.
StructArraySet_Stride ==
  [ VersionTypeArray |-> Filled(mxfVersionType_extlen, mxfVersionType_extlen, "version_type"),
    UUIDArray |-> Filled(mxfUUID_extlen, mxfUUID_extlen, "uuid"),
    ULArray |-> Filled(mxfUL_extlen, mxfUL_extlen, "ul"),
    AUIDArray |-> Filled(mxfAUID_extlen, mxfAUID_extlen, "auid"),
    UMIDArray |-> Filled(mxfUMID_extlen, mxfUMID_extlen, "umid"),
    TimestampArray |-> Filled(mxfTimestamp_extlen, mxfUUID_extlen, "timestamp") ]

StructArraySet ==
  [ VersionTypeArray |-> Filled(mxfVersionType_extlen, mxfVersionType_extlen, "version_type"),
    UUIDArray |-> Filled(mxfUUID_extlen, mxfUUID_extlen, "uuid"),
    ULArray |-> Filled(mxfUL_extlen, mxfUL_extlen, "ul"),
    AUIDArray |-> Filled(mxfAUID_extlen, mxfAUID_extlen, "auid"),
    UMIDArray |-> Filled(mxfUMID_extlen, mxfUMID_extlen, "umid"),
    TimestampArray |-> Filled(mxfTimestamp_extlen, mxfTimestamp_extlen, "timestamp") ]

NumberArraySet ==
  [ LengthArray |-> Filled(8, 8, "int64"),
    RationalArray |-> Filled(mxfRational_extlen, mxfRational_extlen, "rational"),
    PositionArray |-> Filled(8, 8, "int64"),
    BooleanArray |-> Filled(mxfBoolean_extlen, mxfBoolean_extlen, "boolean"),
    ProductVersionArray |->
      Filled(mxfProductVersion_extlen, mxfProductVersion_extlen, "product_version") ]

\* The element length that append<Type>ArrayItem asks for, and its writer.
IntegerArrayAppend ==
  [ UInt8Array |-> Checked(1, "uint8"), UInt16Array |-> Checked(2, "uint16"),
    UInt32Array |-> Checked(4, "uint32"), UInt64Array |-> Checked(8, "uint64"),
    Int8Array |-> Checked(1, "int8"), Int16Array |-> Checked(2, "int16"),
    Int32Array |-> Checked(4, "int32"), Int64Array |-> Checked(8, "int64"),
    FloatArray |-> Checked(4, "float") ]

StructArrayAppend ==
  [ VersionTypeArray |-> Checked(mxfVersionType_extlen, "version_type"),
    UUIDArray |-> Checked(mxfUUID_extlen, "uuid"), ULArray |-> Checked(mxfUL_extlen, "ul"),
    AUIDArray |-> Checked(mxfAUID_extlen, "auid"), UMIDArray |-> Checked(mxfUMID_extlen, "umid"),
    TimestampArray |-> Checked(mxfTimestamp_extlen, "timestamp"),
    LengthArray |-> Checked(8, "int64"), RationalArray |-> Checked(mxfRational_extlen, "rational"),
    PositionArray |-> Checked(8, "int64"), BooleanArray |-> Checked(mxfBoolean_extlen, "boolean"),
    ProductVersionArray |-> Checked(mxfProductVersion_extlen, "product_version") ]

\* AES3AudioDescriptor has its own accessors for an array of fixed data.
AES3FixedDataArrayGet ==
  [ AES3FixedDataArray |-> Checked(mxfAES3FixedData_extlen, "aes3_fixed_data") ]
AES3FixedArraySet ==
  [ AES3FixedArray |-> Filled(mxfAES3FixedData_extlen, mxfAES3FixedData_extlen, "aes3_fixed_data") ]
AES3FixedArrayAppend == [ AES3FixedArray |-> Checked(mxfAES3FixedData_extlen, "aes3_fixed_data") ]

\* References are instance UIDs.  The setter of an array of weak references calls
\* mxf_set_strongref too.
RefArraySet ==
  [ StrongRefArray |-> Filled(mxfUUID_extlen, mxfUUID_extlen, "strongref"),
    WeakRefArray |-> Filled(mxfUUID_extlen, mxfUUID_extlen, "strongref") ]
RefArrayAppend ==
  [ StrongRefArray |-> Checked(mxfUUID_extlen, "strongref"),
    WeakRefArray |-> Checked(mxfUUID_extlen, "weakref") ]
RefSet == [ StrongRef |-> "strongref", WeakRef |-> "weakref" ]

ArrayGet == IntegerArrayGet ++ StructArrayGet ++ NumberArrayGet ++ AES3FixedDataArrayGet
ArraySet == IntegerArraySet ++ StructArraySet ++ NumberArraySet ++ AES3FixedArraySet ++ RefArraySet
ArrayAppend == IntegerArrayAppend ++ StructArrayAppend ++ AES3FixedArrayAppend ++ RefArrayAppend

\* Every element is written, each at its multiple of the stride.
SetArray(type, values) ==
  LET a == ArraySet[type]
  IN [Allocated(a.length, Len(values)) EXCEPT
        !.data = [i \in DOMAIN values |-> Written((i - 1) * a.stride, a.function, values[i])]]

\* The new element is written behind the others.
AppendArray(type, it, v) ==
  LET a == ArrayAppend[type]
  IN [Grown(it) EXCEPT
        !.data = Append(@, Written(it.count * it.length, a.function, v))]

\* mxf_next_array_item_element: element i of an array, read by one function.
Element(it, i, function) == Decode(it, (i - 1) * it.length, function)

\* Outcome of get<Type>ArrayItem.
GetArray(type, it) ==
  LET a == ArrayGet[type]
  IN IF it.count > 0 /\ it.length # a.length THEN Throws
     ELSE [i \in 1 .. it.count |-> Element(it, i, a.function)]

=============================================================================
