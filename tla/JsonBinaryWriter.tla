--------------------------- MODULE JsonBinaryWriter ---------------------------
(***************************************************************************)
(* binary_writer of json.hpp: the bytes of a value in CBOR, MessagePack,   *)
(* UBJSON, BJData and BSON.                                                *)
(*                                                                         *)
(* A value is <<kind, content>>: "null", "boolean", "integer" and "unsigned"*)
(* with eight bytes, "float", "string" with its bytes, "binary" with its   *)
(* bytes and its subtype, none or eight bytes, "array" with a sequence of  *)
(* values and "object" with a sequence of <<key, value>>.                 *)
(***************************************************************************)
EXTENDS JsonBytes

Size(v) == Bytes(Len(v[2]))
ConcatAll(n, Item(_)) == FlattenSeq([k \in 1..n |-> Item(k)])

-----------------------------------------------------------------------------
(* CBOR and MessagePack.                                                   *)

\* A number or a length with its type: in the first byte up to 0x17, and else in the
\* 1, 2, 4 or 8 bytes after it.
CborHead(major, x) ==
    IF FitsUnsigned(x, 1) /\ x[8] <= 23 THEN <<32 * major + x[8]>>
    ELSE LET n == Least(x, FitsUnsigned) IN <<32 * major + 24 + Log[n]>> \o Low(x, n)

\* write_compact_float: a single-precision float when that is the same number.
CompactFloat(d, single, double) ==
    IF IsSingle(d) THEN <<single>> \o NarrowBytes(d) ELSE <<double>> \o d

CborFloat(d) ==
    CASE IsNaN(d) -> <<249, 126, 0>>
      [] IsInf(d) -> <<249, IF Negative(d) THEN 252 ELSE 124, 0>>
      [] OTHER -> CompactFloat(d, 250, 251)

\* The tag of a subtype, always with bytes of its own.
CborSubtype(x) == LET n == Least(x, FitsUnsigned) IN <<216 + Log[n]>> \o Low(x, n)

RECURSIVE write_cbor(_)
write_cbor(j) ==
    CASE j[1] = "null" -> <<246>>
      [] j[1] = "boolean" -> <<IF j[2] THEN 245 ELSE 244>>
      [] j[1] = "integer" -> IF Negative(j[2]) THEN CborHead(1, Complement(j[2]))
                                               ELSE CborHead(0, j[2])
      [] j[1] = "unsigned" -> CborHead(0, j[2])
      [] j[1] = "float" -> CborFloat(j[2])
      [] j[1] = "string" -> CborHead(3, Size(j)) \o j[2]
      [] j[1] = "binary" ->
            (IF j[2].subtype = << >> THEN << >> ELSE CborSubtype(j[2].subtype))
            \o CborHead(2, Bytes(Len(j[2].bytes))) \o j[2].bytes
      [] j[1] = "array" ->
            CborHead(4, Size(j)) \o ConcatAll(Len(j[2]), LAMBDA k : write_cbor(j[2][k]))
      [] j[1] = "object" ->
            CborHead(5, Size(j)) \o ConcatAll(Len(j[2]), LAMBDA k :
                write_cbor(<<"string", j[2][k][1]>>) \o write_cbor(j[2][k][2]))

MsgpackUnsigned(x) ==
    IF FitsUnsigned(x, 1) /\ x[8] < 128 THEN <<x[8]>>
    ELSE LET n == Least(x, FitsUnsigned) IN <<204 + Log[n]>> \o Low(x, n)

\* Faulty variant: every negative number of one byte is taken for a fixnum.
MsgpackInteger_Fixnum(x) ==
    CASE ~Negative(x) -> MsgpackUnsigned(x)
      [] Negative(x) /\ FitsSigned(x, 1) -> Low(x, 1)
      [] OTHER -> LET n == Least(x, FitsSigned) IN <<208 + Log[n]>> \o Low(x, n)

\* A signed number: the fixnums, then the smallest type that holds it.
MsgpackInteger(x) ==
    CASE ~Negative(x) -> MsgpackUnsigned(x)
      [] Negative(x) /\ FitsSigned(x, 1) /\ x[8] >= 224 -> Low(x, 1)
      [] OTHER -> LET n == Least(x, FitsSigned) IN <<208 + Log[n]>> \o Low(x, n)

\* The type and the length: in the first byte up to limit, with one byte after it
\* where there is such a type, or with two or four.
MsgpackHead(x, fix, limit, one, two, four) ==
    IF FitsUnsigned(x, 1) /\ x[8] <= limit THEN <<fix + x[8]>>
    ELSE IF FitsUnsigned(x, 1) /\ one # 0 THEN <<one>> \o Low(x, 1)
    ELSE IF FitsUnsigned(x, 2) THEN <<two>> \o Low(x, 2)
    ELSE <<four>> \o Low(x, 4)

\* A binary value with a subtype is an extension, of a fixed size if there is one.
MsgpackBinary(b) ==
    LET n == Bytes(Len(b.bytes))
        fixext == 1 :> 212 @@ 2 :> 213 @@ 4 :> 214 @@ 8 :> 215 @@ 16 :> 216
    IN (CASE b.subtype = << >> -> MsgpackHead(n, 0, -1, 196, 197, 198)
          [] b.subtype # << >> /\ Len(b.bytes) \in DOMAIN fixext -> <<fixext[Len(b.bytes)]>> \o Low(b.subtype, 1)
          [] OTHER -> MsgpackHead(n, 0, -1, 199, 200, 201) \o Low(b.subtype, 1))
       \o b.bytes

RECURSIVE write_msgpack(_)
write_msgpack(j) ==
    CASE j[1] = "null" -> <<192>>
      [] j[1] = "boolean" -> <<IF j[2] THEN 195 ELSE 194>>
      [] j[1] = "integer" -> MsgpackInteger(j[2])
      [] j[1] = "unsigned" -> MsgpackUnsigned(j[2])
      [] j[1] = "float" -> CompactFloat(j[2], 202, 203)
      [] j[1] = "string" -> MsgpackHead(Size(j), 160, 31, 217, 218, 219) \o j[2]
      [] j[1] = "binary" -> MsgpackBinary(j[2])
      [] j[1] = "array" ->
            MsgpackHead(Size(j), 144, 15, 0, 220, 221)
            \o ConcatAll(Len(j[2]), LAMBDA k : write_msgpack(j[2][k]))
      [] j[1] = "object" ->
            MsgpackHead(Size(j), 128, 15, 0, 222, 223)
            \o ConcatAll(Len(j[2]), LAMBDA k :
                   write_msgpack(<<"string", j[2][k][1]>>) \o write_msgpack(j[2][k][2]))

-----------------------------------------------------------------------------
(* UBJSON and BJData.                                                      *)

Ascii == [Z |-> 90, T |-> 84, F |-> 70, N |-> 78, i |-> 105, U |-> 85, I |-> 73, u |-> 117,
          l |-> 108, m |-> 109, h |-> 104, L |-> 76, M |-> 77, d |-> 100, D |-> 68, H |-> 72, C |-> 67,
          S |-> 83, array |-> 91, end_array |-> 93, object |-> 123, end_object |-> 125,
          type |-> 36, count |-> 35]
Width == [i |-> 1, U |-> 1, I |-> 2, u |-> 2, l |-> 4, m |-> 4, L |-> 8, M |-> 8]

\* BJData is little-endian.
Order(bs, bj) == IF bj THEN Reverse(bs) ELSE bs

\* The first type that holds a number: signed or not, of which only BJData has several.
Types(bj) == IF bj THEN <<"i", "U", "I", "u", "l", "m", "L", "M">> ELSE <<"i", "U", "I", "l", "L">>
HoldsNumber(t, x, below_2_63) ==
    IF t \in {"i", "I", "l", "L"} THEN below_2_63 /\ FitsSigned(x, Width[t]) ELSE FitsUnsigned(x, Width[t])
FirstType(x, below_2_63, bj) ==
    LET fits == {k \in DOMAIN Types(bj) : HoldsNumber(Types(bj)[k], x, below_2_63)}
    IN IF fits = {} THEN "H" ELSE Types(bj)[Min(fits)]
UnsignedType(x, bj) == FirstType(x, ~Negative(x), bj)
SignedType(x, bj) == FirstType(x, TRUE, bj)

\* write_number_with_ubjson_prefix; what no type holds is written as its digits.
RECURSIVE UbjsonNumber(_, _, _, _)
UbjsonNumber(t, x, prefix, bj) ==
    (IF prefix THEN <<Ascii[t]>> ELSE << >>)
    \o IF t # "H" THEN Order(Low(x, Width[t]), bj)
       ELSE LET digits == Decimal(x)
            IN UbjsonNumber("i", Bytes(Len(digits)), TRUE, bj) \o digits
Length(n, bj) == UbjsonNumber(UnsignedType(Bytes(n), bj), Bytes(n), TRUE, bj)

\* The type of a value, which the elements of a container can have in common.
ubjson_prefix(j, bj) ==
    CASE j[1] = "null" -> "Z"
      [] j[1] = "boolean" -> IF j[2] THEN "T" ELSE "F"
      [] j[1] = "integer" -> SignedType(j[2], bj)
      [] j[1] = "unsigned" -> UnsignedType(j[2], bj)
      [] j[1] = "float" -> "D"
      [] j[1] = "string" -> "S"
      [] j[1] \in {"array", "binary"} -> "array"
      [] j[1] = "object" -> "object"

\* The types that BJData does not factor out.
NotInBjdata == {"array", "object", "S", "H", "T", "F", "N", "Z"}

\* Faulty variant: only the first value is looked at.
OneType_First(vs, use_type, bj) ==
    use_type /\ vs # << >> /\ ~(bj /\ ubjson_prefix(vs[1], bj) \in NotInBjdata)

OneType(vs, use_type, bj) ==
    /\ use_type /\ vs # << >>
    /\ \A k \in DOMAIN vs : ubjson_prefix(vs[k], bj) = ubjson_prefix(vs[1], bj)
    /\ ~(bj /\ ubjson_prefix(vs[1], bj) \in NotInBjdata)

\* What stands before the n elements of a container, and after them.
Optimised(t, n, one_type, use_count, bj) ==
    (IF one_type THEN <<Ascii.type, Ascii[t]>> ELSE << >>)
    \o IF use_count THEN <<Ascii.count>> \o Length(n, bj) ELSE << >>
Closing(c, use_count) == IF use_count THEN << >> ELSE <<Ascii[c]>>

\* A string that is written as it is: with its length, without its type.
UbjsonText(bs, bj) == Length(Len(bs), bj) \o bs

\* The bytes of a binary value, each with its type unless the container has it.
UbjsonBinary(bs, use_count, use_type, bj) ==
    Optimised("U", Len(bs), use_type /\ bs # << >>, use_count, bj)
    \o (IF use_type THEN bs
        ELSE [k \in 1..(2 * Len(bs)) |-> IF k % 2 = 1 THEN Ascii.U ELSE bs[k \div 2]])
    \o Closing("end_array", use_count)

\* An object that describes an array of several dimensions in the JData format: the keys
\* _ArraySize_, _ArrayType_ and _ArrayData_ and the names of the types are kept short.
ArraySize == <<95, 83>>
ArrayType == <<95, 84>>
ArrayData == <<95, 68>>
DTypes == {"U", "i", "u", "I", "m", "l", "M", "L", "d", "D", "C"}
TypeName(t) == <<"string", <<Ascii[t]>>>>
Lookup(o, key) == o[CHOOSE k \in DOMAIN o : o[k][1] = key][2]
IsJData(o) == Len(o) = 3 /\ {o[k][1] : k \in 1..3} = {ArraySize, ArrayType, ArrayData}
Extent(size) == IF size = << >> THEN 0
                ELSE FoldLeft(LAMBDA n, d : n * Natural(d[2]), 1, size)

\* Whether it is written so, and the bytes of an element: whatever the element is, its
\* eight bytes are taken for a number of the array's type.
IsNdarray(o) ==
    /\ \E t \in DTypes : Lookup(o, ArrayType) = TypeName(t)
    /\ Len(Lookup(o, ArrayData)[2]) = Extent(Lookup(o, ArraySize)[2])
NdarrayElement(t, x) ==
    Reverse(CASE t = "d" -> NarrowBytes(x)
              [] t = "D" -> x
              [] t = "C" -> Low(x, 1)
              [] OTHER -> Low(x, Width[t]))

RECURSIVE write_ubjson(_, _, _, _, _)
write_bjdata_ndarray(o, use_count, use_type) ==
    LET t == CHOOSE u \in DTypes : Lookup(o, ArrayType) = TypeName(u)
        data == Lookup(o, ArrayData)[2]
    IN <<Ascii.array, Ascii.type, Ascii[t], Ascii.count>>
       \o write_ubjson(Lookup(o, ArraySize), use_count, use_type, TRUE, TRUE)
       \o ConcatAll(Len(data), LAMBDA k : NdarrayElement(t, data[k][2]))

\* The elements of an array and the members of an object.
UbjsonArray(vs, use_count, use_type, bj) ==
    LET one_type == OneType(vs, use_type, bj)
    IN Optimised(IF one_type THEN ubjson_prefix(vs[1], bj) ELSE "Z", Len(vs), one_type, use_count, bj)
       \o ConcatAll(Len(vs), LAMBDA k : write_ubjson(vs[k], use_count, use_type, ~one_type, bj))
       \o Closing("end_array", use_count)
UbjsonObject(o, use_count, use_type, bj) ==
    LET vs == [k \in DOMAIN o |-> o[k][2]]
        one_type == OneType(vs, use_type, bj)
    IN Optimised(IF one_type THEN ubjson_prefix(vs[1], bj) ELSE "Z", Len(vs), one_type, use_count, bj)
       \o ConcatAll(Len(vs), LAMBDA k : UbjsonText(o[k][1], bj)
                                        \o write_ubjson(vs[k], use_count, use_type, ~one_type, bj))
       \o Closing("end_object", use_count)

write_ubjson(j, use_count, use_type, add_prefix, bj) ==
    LET prefix == IF add_prefix THEN <<Ascii[ubjson_prefix(j, bj)]>> ELSE << >>
    IN CASE j[1] \in {"null", "boolean"} -> prefix
         [] j[1] = "integer" -> UbjsonNumber(SignedType(j[2], bj), j[2], add_prefix, bj)
         [] j[1] = "unsigned" -> UbjsonNumber(UnsignedType(j[2], bj), j[2], add_prefix, bj)
         [] j[1] = "float" -> prefix \o Order(j[2], bj)
         [] j[1] = "string" -> prefix \o UbjsonText(j[2], bj)
         [] j[1] = "binary" -> prefix \o UbjsonBinary(j[2].bytes, use_count, use_type, bj)
         [] j[1] = "array" -> prefix \o UbjsonArray(j[2], use_count, use_type, bj)
         [] j[1] = "object" ->
               IF bj /\ IsJData(j[2]) /\ IsNdarray(j[2])
               THEN write_bjdata_ndarray(j[2], use_count, use_type)
               ELSE prefix \o UbjsonObject(j[2], use_count, use_type, bj)

-----------------------------------------------------------------------------
(* BSON.  An array is a document whose keys are the indices.               *)

Int32(n) == Reverse(Low(Bytes(n), 4))
Named(j) == IF j[1] = "object" THEN j[2]
            ELSE [k \in DOMAIN j[2] |-> <<Decimal(Bytes(k - 1)), j[2][k]>>]

\* What calc_bson_entry_header_size and write_bson_unsigned throw for.
RECURSIVE Entries(_)
Entries(j) == IF j[1] \notin {"array", "object"} THEN {}
              ELSE Range(Named(j)) \cup UNION {Entries(e[2]) : e \in Range(Named(j))}
NulInKey(j) == \E e \in Entries(j) : 0 \in Range(e[1])
TooLarge(j) == \E e \in Entries(j) : e[2][1] = "unsigned" /\ Negative(e[2][2])

calc_bson_entry_header_size(name) == 1 + Len(name) + 1
calc_bson_integer_size(x) == IF FitsSigned(x, 4) THEN 4 ELSE 8

calc_bson_string_size(s) == 4 + Len(s) + 1
calc_bson_binary_size(b) == 4 + Len(b.bytes) + 1

RECURSIVE calc_bson_element_size(_, _)
calc_bson_object_size(j) ==
    4 + FoldLeft(LAMBDA n, e : n + calc_bson_element_size(e[1], e[2]), 0, Named(j)) + 1

calc_bson_element_size(name, j) ==
    calc_bson_entry_header_size(name) +
    CASE j[1] \in {"object", "array"} -> calc_bson_object_size(j)
      [] j[1] = "binary" -> calc_bson_binary_size(j[2])
      [] j[1] = "boolean" -> 1
      [] j[1] = "float" -> 8
      [] j[1] \in {"integer", "unsigned"} -> calc_bson_integer_size(j[2])
      [] j[1] = "string" -> calc_bson_string_size(j[2])
      [] j[1] = "null" -> 0

write_bson_entry_header(name, element_type) == <<element_type>> \o name \o <<0>>
write_bson_integer(name, x) ==
    IF FitsSigned(x, 4) THEN write_bson_entry_header(name, 16) \o Reverse(Low(x, 4))
    ELSE write_bson_entry_header(name, 18) \o Reverse(x)

RECURSIVE write_bson_element(_, _)
write_bson_object(j) ==
    Int32(calc_bson_object_size(j))
    \o ConcatAll(Len(j[2]), LAMBDA k : write_bson_element(Named(j)[k][1], Named(j)[k][2]))
    \o <<0>>
write_bson_element(name, j) ==
    CASE j[1] = "object" -> write_bson_entry_header(name, 3) \o write_bson_object(j)
      [] j[1] = "array" -> write_bson_entry_header(name, 4) \o write_bson_object(j)
      [] j[1] = "binary" ->
            write_bson_entry_header(name, 5) \o Int32(Len(j[2].bytes))
            \o (IF j[2].subtype = << >> THEN <<0>> ELSE Low(j[2].subtype, 1)) \o j[2].bytes
      [] j[1] = "boolean" -> write_bson_entry_header(name, 8) \o <<IF j[2] THEN 1 ELSE 0>>
      [] j[1] = "float" -> write_bson_entry_header(name, 1) \o Reverse(j[2])
      [] j[1] \in {"integer", "unsigned"} -> write_bson_integer(name, j[2])
      [] j[1] = "string" ->
            write_bson_entry_header(name, 2) \o Int32(Len(j[2]) + 1) \o j[2] \o <<0>>
      [] j[1] = "null" -> write_bson_entry_header(name, 10)

\* The error of to_bson, none for 0.
BsonRefusal(j) == CASE j[1] # "object" -> 317
                    [] NulInKey(j) -> 409
                    [] TooLarge(j) -> 407
                    [] OTHER -> 0
=============================================================================
