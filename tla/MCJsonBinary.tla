----------------------------- MODULE MCJsonBinary -----------------------------
(***************************************************************************)
(* A document is written in one of the formats, the bytes are cut, extended*)
(* or left alone, and are read again; and short byte strings that nothing  *)
(* wrote are read, and what they are taken for is written and read.        *)
(***************************************************************************)
EXTENDS JsonBinaryReader

CONSTANTS ForeignLength   \* how long the byte strings are that nothing wrote

VARIABLES document, options, phase, result, before

vars == <<input, format, tag_handler, document, options, phase, result, before>>

-----------------------------------------------------------------------------
(* The documents: the numbers around the limits of every width, lengths    *)
(* around those of the short forms, and containers of them.                *)

High(n, bs) == bs \o Fill(8 - n, 0)
Limit(n, below) == IF below THEN ZeroExtend(<<127>> \o Fill(n - 1, 255))
                   ELSE ZeroExtend(<<128>> \o Fill(n - 1, 0))
Naturals == {Bytes(n) : n \in {0, 23, 24, 127, 128, 255, 256, 65535, 65536}}
            \cup {Limit(n, b) : n \in {2, 4, 8}, b \in BOOLEAN}
            \cup {ZeroExtend(Fill(4, 255)), ZeroExtend(<<1, 0, 0, 0, 0>>), Fill(8, 255)}
Negatives == {Complement(Bytes(n)) : n \in {0, 23, 24, 31, 32, 127, 128, 255, 256}}
             \cup {Complement(Limit(n, b)) : n \in {2, 4}, b \in BOOLEAN}
             \cup {Limit(8, FALSE)}
Floats == {Double(0, 1023, 0), Double(1, 1150, 2^23 - 1), Double(1, 0, 0), Double(0, 2047, 0),
           Double(1, 2047, 0), Double(0, 2047, 2^22), Double(0, 1151, 0),
           <<63, 185, 153, 153, 153, 153, 153, 154>>}

U(n) == <<"unsigned", Bytes(n)>>
Text(n) == <<"string", Fill(n, 97)>>
Blob(n, subtype) == <<"binary", [bytes |-> Fill(n, 200), subtype |-> subtype]>>
Scalars ==
    {<<"null">>, <<"boolean", TRUE>>, <<"boolean", FALSE>>, <<"string", <<0, 78, 195, 164>>>>}
    \cup {<<"unsigned", x>> : x \in Naturals} \cup {<<"float", x>> : x \in Floats}
    \cup {<<"integer", x>> : x \in Negatives \cup (Naturals \ {Limit(8, FALSE), Fill(8, 255)})}
    \cup {Text(n) : n \in {0, 1, 23, 24, 31, 32, 127, 128, 255, 256}}
    \cup {Blob(n, << >>) : n \in {0, 1, 4, 24, 256}}
    \cup {Blob(n, s) : n \in {0, 1, 3, 4, 16}, s \in {Bytes(0), Bytes(200), Bytes(300), Bytes(65536),
                                                       <<1, 0, 0, 0, 0, 0, 0, 7>>}}

Object(vs) == <<"object", [k \in DOMAIN vs |-> <<<<96 + k>>, vs[k]>>]>>
JData(t, size, data) ==
    <<"object", <<<<ArraySize, <<"array", [k \in DOMAIN size |-> U(size[k])]>>>>,
                  <<ArrayType, TypeName(t)>>, <<ArrayData, <<"array", data>>>>>>>>
Contents ==
    {<< >>, <<U(1), U(2)>>, <<U(1), U(200)>>, <<U(200), U(201)>>, <<U(40000), U(50000)>>,
     <<<<"integer", Complement(Bytes(0))>>, U(1)>>, <<<<"unsigned", Fill(8, 255)>>, <<"unsigned", Fill(8, 255)>>>>,
     <<<<"null">>, <<"null">>>>, <<<<"boolean", TRUE>>, <<"boolean", TRUE>>>>,
     <<<<"boolean", TRUE>>, <<"boolean", FALSE>>>>, <<Text(1), Text(0)>>,
     <<Blob(2, << >>), <<"array", <<U(1)>>>>>>, <<Object(<< >>), Object(<<U(5)>>)>>,
     <<<<"float", Double(0, 1023, 0)>>, <<"float", Double(1, 1023, 0)>>>>,
     <<<<"array", <<U(1), U(2)>>>>, <<"array", << >>>>>>, Fill(15, <<"null">>), Fill(16, <<"null">>),
     Fill(24, U(7))}
Documents ==
    Scalars \cup {<<"array", c>> : c \in Contents} \cup {Object(c) : c \in Contents}
    \cup {Object(<<v>>) : v \in Scalars}
    \cup {<<"object", <<<<<<97, 0>>, U(1)>>>>>>, <<"object", <<<<<< >>, Object(<<Text(2)>>)>>>>>>}
    \cup {JData(t, size, <<U(1), U(2), U(3), U(4)>>) : t \in {"U", "i", "I", "M", "C"},
             size \in {<<2, 2>>, <<4>>, <<1, 4>>, <<4, 1>>, <<2, 3>>}}
    \cup {JData("d", <<2, 1>>, <<<<"float", Double(0, 1023, 0)>>, <<"float", Double(1, 0, 0)>>>>),
          JData("U", <<2, 0>>, << >>), JData("U", << >>, << >>)}

\* UBJSON writes a byte string as an array; these would be long ones.
Long == {Blob(256, << >>), Object(<<Blob(256, << >>)>>)}

\* use_count and use_type of to_ubjson and to_bjdata.
Options == {<<FALSE, FALSE>>, <<TRUE, FALSE>>, <<TRUE, TRUE>>}
Formats == {"cbor", "msgpack", "ubjson", "bjdata", "bson"}
Written(j) ==
    CASE format = "cbor" -> write_cbor(j)
      [] format = "msgpack" -> write_msgpack(j)
      [] format \in {"ubjson", "bjdata"} ->
            write_ubjson(j, options[1], options[2], TRUE, format = "bjdata")
      [] format = "bson" -> write_bson_object(j)

-----------------------------------------------------------------------------
(* The steps.                                                              *)

Nothing == Bad(0, 0)

\* The bytes of short inputs: those that begin or end a value or a container, those that
\* announce a number of one or two bytes, and some that are only contents.
Alphabet ==
    CASE format = "cbor" -> {0, 1, 24, 25, 32, 56, 65, 95, 97, 127, 129, 155, 159, 161, 191, 198, 216, 246, 249, 250, 255}
      [] format = "msgpack" -> {0, 1, 129, 145, 161, 193, 192, 196, 199, 204, 208, 212, 217, 220, 222, 255}
      [] format \in {"ubjson", "bjdata"} ->
            {0, 2} \cup {Ascii[m] : m \in {"Z", "T", "N", "i", "U", "u", "M", "C", "S", "H", "array", "end_array", "object",
                                   "end_object", "type", "count"}}
      [] format = "bson" -> {0, 1, 2, 3, 4, 5, 8, 10, 97}

\* Longer inputs of BJData: arrays of several dimensions.
Marks(ms) == [k \in DOMAIN ms |-> Ascii[ms[k]]]
Shaped ==
    {Marks(<<"array", "type", t, "count", "array">>) \o dims \o Marks(<<"end_array">>) \o data :
        t \in {"U", "C", "H"}, data \in {<< >>, <<7, 8>>, <<7, 8, 9, 10>>},
        dims \in {<<105, 2, 105, 2>>, <<105, 2>>, <<105, 1, 105, 2>>, <<105, 0, 105, 2>>, << >>,
                  <<105, 255>>, <<0, 105, 2, 105, 1>>, <<91, 105, 2, 93>>,
                  <<77>> \o Fill(8, 128) \o <<105, 2>>,
                  <<77>> \o High(8, <<0, 0, 0, 0, 1, 0, 0, 0>>) \o <<77, 0, 0, 0, 0, 1, 0, 0, 0>>,
                  <<36, 85, 35, 105, 2, 2, 1>>, <<35, 105, 2, 105, 2, 105, 2>>, <<36, 78, 35, 105, 2>>}}
    \cup {Marks(<<"object", "type", "U", "count", "array">>) \o <<105, 2, 105, 1, 93, 1, 2>>,
          Marks(<<"array", "count", "array">>) \o <<105, 2, 105, 1, 93, 1, 2>>,
          Marks(<<"array", "type", "U", "count", "array", "type", "U", "count", "array">>)
             \o <<105, 2, 105, 2, 93>> \o <<1, 2, 3, 4>>}

\* Numbers by their digits: 2^63 - 1 and the numbers around it and around 2^64.
Ds(ds) == [k \in DOMAIN ds |-> 48 + ds[k]]
Max63 == <<9, 2, 2, 3, 3, 7, 2, 0, 3, 6, 8, 5, 4, 7, 7, 5, 8, 0>>
Max64 == <<1, 8, 4, 4, 6, 7, 4, 4, 0, 7, 3, 7, 0, 9, 5, 5, 1, 6, 1>>
HighPrecisions ==
    {Marks(<<"H", "U">>) \o <<Len(text)>> \o text :
        text \in {<<45>> \o Ds(ds) : ds \in {<<0>>, <<1>>, <<0, 1>>, << >>, Max63 \o <<8>>, Max63 \o <<9>>, Max64 \o <<5>>}}
               \cup {Ds(ds) : ds \in {<<0>>, <<7>>, <<0, 1>>, << >>, Max63 \o <<8>>, Max64 \o <<5>>, Max64 \o <<6>>}}
               \cup {<<55, 90>>}}

Init ==
    /\ format \in Formats
    /\ options \in (IF format \in {"ubjson", "bjdata"} THEN Options ELSE {<<FALSE, FALSE>>})
    /\ tag_handler \in (IF format = "cbor" THEN {"error", "ignore", "store"} ELSE {"error"})
    /\ phase \in {"document", "foreign"}
    /\ \/ /\ phase = "document"
          /\ document \in Documents \ (IF format \in {"ubjson", "bjdata"} THEN Long ELSE {})
       \/ phase = "foreign" /\ document = <<"null">>
    /\ input = << >> /\ result = Nothing /\ before = Nothing

Write ==
    /\ phase = "document"
    /\ format = "bson" => BsonRefusal(document) = 0
    /\ input' = Written(document)
    /\ phase' = "whole"
    /\ UNCHANGED <<format, tag_handler, document, options, result, before>>

\* to_bson throws before it has written a document.
Refuse ==
    /\ phase = "document" /\ format = "bson" /\ BsonRefusal(document) # 0
    /\ phase' = "refused"
    /\ UNCHANGED <<input, format, tag_handler, document, options, result, before>>

\* Short documents are cut at every byte, long ones near their ends.
Cut ==
    /\ phase = "whole" /\ result = Nothing
    /\ \E n \in {k \in 0..(Len(input) - 1) : k < 8 \/ k > Len(input) - 4} :
          input' = SubSeq(input, 1, n)
    /\ phase' = "cut"
    /\ UNCHANGED <<format, tag_handler, document, options, result, before>>

Extend ==
    /\ phase = "whole" /\ result = Nothing
    /\ \E b \in {0, Ascii.N, 255} : input' = Append(input, b)
    /\ phase' = "extended"
    /\ UNCHANGED <<format, tag_handler, document, options, result, before>>

Read ==
    /\ phase \in {"whole", "cut", "extended"} /\ result = Nothing
    /\ result' = sax_parse
    /\ UNCHANGED <<input, format, tag_handler, document, options, phase, before>>

Byteways ==
    /\ phase = "foreign" /\ result = Nothing
    /\ \/ /\ Len(input) < ForeignLength
          /\ \E b \in Alphabet : input' = Append(input, b)
       \/ format = "bjdata" /\ input = << >> /\ input' \in Shaped
       \/ format \in {"ubjson", "bjdata"} /\ input = << >> /\ input' \in HighPrecisions
       \/ /\ format = "bson" /\ Len(input) < ForeignLength
          /\ \E n \in {0, 1, 2, 255} : input' = input \o <<n, 0, 0, 0>>
    /\ UNCHANGED <<format, tag_handler, document, options, phase, result, before>>

ReadForeign ==
    /\ phase = "foreign" /\ result = Nothing /\ input # << >>
    /\ result' = sax_parse
    /\ UNCHANGED <<input, format, tag_handler, document, options, phase, before>>

\* What was read is written and read once more, but for a float that is only known by its
\* digits.
Rewrite ==
    /\ phase = "foreign" /\ result # Nothing /\ result.error = Accepted
    /\ result.value[1] = "float" => Len(result.value[2]) = 8
    /\ input' = Written(result.value)
    /\ phase' = "rewritten" /\ before' = result /\ result' = Nothing
    /\ UNCHANGED <<format, tag_handler, document, options>>

ReadAgain ==
    /\ phase = "rewritten" /\ result = Nothing
    /\ result' = sax_parse
    /\ UNCHANGED <<input, format, tag_handler, document, options, phase, before>>

Next == Write \/ Refuse \/ Cut \/ Extend \/ Read \/ Byteways \/ ReadForeign \/ Rewrite \/ ReadAgain
Spec == Init /\ [][Next]_vars

-----------------------------------------------------------------------------
(* What a format keeps of a value.  Numbers are compared as operator== does:*)
(* a signed and an unsigned integer by value.                              *)

Number(v) == IF v[1] = "integer" /\ ~Negative(v[2]) THEN <<"unsigned", v[2]>> ELSE v
KeptBinary(b) ==
    CASE format = "cbor" -> <<"binary", [b EXCEPT !.subtype = IF tag_handler = "store" THEN @ ELSE << >>]>>
      [] format = "msgpack" ->
            <<"binary", [b EXCEPT !.subtype = IF @ = << >> THEN @ ELSE ZeroExtend(Low(@, 1))]>>
      [] format = "bson" ->
            <<"binary", [b EXCEPT !.subtype = IF @ = << >> THEN Bytes(0) ELSE ZeroExtend(Low(@, 1))]>>
      [] OTHER -> <<"array", [k \in DOMAIN b.bytes |-> U(b.bytes[k])]>>

\* An array of one dimension is no longer a JData object, and one of "char" is of strings.
RECURSIVE Kept(_)
KeptNdarray(o) ==
    LET size == Lookup(o, ArraySize)[2]
        n == Extent(size)
    IN IF n # 0 /\ (Len(size) > 2 \/ (Len(size) = 2 /\ size[1] # U(1)))
       THEN <<"object", [k \in 1..3 |-> <<o[k][1], Kept(o[k][2])>>]>>
       ELSE IF Lookup(o, ArrayType) = TypeName("C")
       THEN <<"array", [k \in DOMAIN Lookup(o, ArrayData)[2] |->
                           <<"string", Low(Lookup(o, ArrayData)[2][k][2], 1)>>]>>
       ELSE Kept(Lookup(o, ArrayData))
Kept(v) ==
    CASE v[1] \in {"integer", "unsigned"} -> Number(v)
      [] v[1] = "float" -> IF IsNaN(v[2]) THEN <<"float", Double(0, 2047, 2^22)>> ELSE v
      [] v[1] = "binary" -> KeptBinary(v[2])
      [] v[1] = "array" -> <<"array", [k \in DOMAIN v[2] |-> Kept(v[2][k])]>>
      [] v[1] = "object" ->
            IF format = "bjdata" /\ IsJData(v[2]) /\ IsNdarray(v[2]) THEN KeptNdarray(v[2])
            ELSE <<"object", [k \in DOMAIN v[2] |-> <<v[2][k][1], Kept(v[2][k][2])>>]>>
      [] OTHER -> v

\* A byte string with a subtype has a tag, which from_cbor refuses by default.
RECURSIVE Tagged(_)
Tagged(v) == CASE v[1] = "binary" -> v[2].subtype # << >>
               [] v[1] = "array" -> \E k \in DOMAIN v[2] : Tagged(v[2][k])
               [] v[1] = "object" -> \E k \in DOMAIN v[2] : Tagged(v[2][k][2])
               [] OTHER -> FALSE
Readable(v) == ~(format = "cbor" /\ tag_handler = "error" /\ Tagged(v))

-----------------------------------------------------------------------------
(* Properties.                                                             *)

\* A written document is read back as the value that its format keeps of it, whatever the
\* width of its numbers, the length of its strings and the types its containers factor out
\* (write_cbor, write_msgpack, write_ubjson, write_bson against the parse functions).
DocumentComesBack ==
    phase = "whole" /\ result # Nothing =>
        IF Readable(document)
        THEN result.error = Accepted /\ Kept(result.value) = Kept(document)
        ELSE result.error = 112

\* No document is a proper beginning of another: an input that ends early, at whatever
\* byte, is refused and never taken for a shorter document (unexpect_eof).
CutIsRefused == phase = "cut" /\ result # Nothing => result.error # Accepted

\* A byte after the document is met at its place and refused; UBJSON and BJData pass over
\* the byte for no operation (the strict end of sax_parse).
ExtraIsRefused ==
    phase = "extended" /\ result # Nothing /\ Readable(document) =>
        IF format \in {"ubjson", "bjdata"} /\ Last(input) = Ascii.N
        THEN result.error = Accepted
        ELSE result.error = 110 /\ result.at = Len(input)

\* The size that is computed for a BSON document before it is written is what is written,
\* for every document inside it too (calc_bson_object_size and its parts).
RECURSIVE SizesTrue(_)
SizesTrue(j) ==
    /\ SubSeq(write_bson_object(j), 1, 4) = Int32(Len(write_bson_object(j)))
    /\ \A e \in Range(Named(j)) : e[2][1] \in {"array", "object"} => SizesTrue(e[2])
BsonSizesTrue == phase = "whole" /\ format = "bson" => SizesTrue(document)

\* A document survives its format, and BSON's sizes, which its reader skips, are right for
\* the readers that do not.
RoundTrip == DocumentComesBack /\ BsonSizesTrue

\* Whatever bytes are accepted, from whatever writer, the value they are taken for can be
\* written, and what was written is read as the same value.
ForeignIsStable ==
    phase = "rewritten" /\ result # Nothing /\ Readable(before.value) =>
        result.error = Accepted /\ Kept(result.value) = Kept(before.value)

\* An array of several dimensions has as many elements as the dimensions multiply to, unless
\* the product has passed 2^64 (get_ubjson_size_value looks for 0 and Npos only).
NdarrayFilled ==
    phase = "foreign" /\ format = "bjdata" /\ result # Nothing /\ result.error = Accepted
    /\ result.value[1] = "object" /\ IsJData(result.value[2]) =>
        LET size == Lookup(result.value[2], ArraySize)[2]
        IN /\ Len(size) > 1 /\ U(0) \notin Range(size)
           /\ (\A k \in DOMAIN size : Natural(size[k][2]) < 2^8) =>
                 Len(Lookup(result.value[2], ArrayData)[2]) = Extent(size)

\* A failure names a byte that was there or the end after the last one.  A BSON boolean is
\* the exception: it reads the end as a value and the list goes on after it.
ErrorIsPlaced ==
    result # Nothing /\ result.error \notin {Accepted, 408} =>
        result.at \in 1..(Len(input) + IF format = "bson" THEN 2 ELSE 1)

\* A damaged document is never taken for another one: cut anywhere or with a byte behind
\* it, it is refused where the damage is (unexpect_eof, the strict end of sax_parse).
DamageIsRefused == CutIsRefused /\ ExtraIsRefused /\ ErrorIsPlaced
=============================================================================
