--------------------------- MODULE JsonBinaryReader ---------------------------
(***************************************************************************)
(* binary_reader of json.hpp over input: what parsing returns, and the     *)
(* position it has read up to or the error and the byte it was met at.     *)
(* The value is what json_sax_dom_parser builds from the events, for an    *)
(* ordered_json; parse errors throw, so the first one ends the reading.    *)
(***************************************************************************)
EXTENDS JsonBinaryWriter

VARIABLES input, format, tag_handler

\* The identifiers of the exceptions; Silent is a failure that throws none.
Accepted == 0
Silent == 1
Good(v, p) == [error |-> Accepted, value |-> v, at |-> p]
Bad(e, p) == [error |-> e, value |-> <<"null">>, at |-> p]
Then(r, Rest(_, _)) == IF r.error = Accepted THEN Rest(r.value, r.at) ELSE r
As(kind, r) == Then(r, LAMBDA x, p : Good(<<kind, x>>, p))

-----------------------------------------------------------------------------
(* Reading bytes.                                                          *)

EOF == -1
Byte(p) == IF p <= Len(input) THEN input[p] ELSE EOF

\* Faulty variant: the end is looked for before the last byte only.
Chunk_Short(p, n) ==
    CASE n = 0 -> Good(<< >>, p)
      [] n > 0 /\ p + n - 2 > Len(input) -> Bad(110, IF p > Len(input) THEN p ELSE Len(input) + 1)
      [] OTHER -> Good([k \in 1..n |-> IF p + k - 1 > Len(input) THEN 0 ELSE input[p + k - 1]], p + n)

\* get_string and get_binary: n bytes, or the end of the input is unexpected.
Chunk(p, n) ==
    CASE n = 0 -> Good(<< >>, p)
      [] n > 0 /\ p + n - 1 > Len(input) -> Bad(110, IF p > Len(input) THEN p ELSE Len(input) + 1)
      [] OTHER -> Good(SubSeq(input, p, p + n - 1), p + n)

get_number(p, n) ==
    Then(Chunk(p, n), LAMBDA x, q : Good(Order(x, format \in {"bjdata", "bson"}), q))
Unsigned(p, n) == Then(get_number(p, n), LAMBDA x, q : Good(ZeroExtend(x), q))
Signed(p, n) == Then(get_number(p, n), LAMBDA x, q : Good(SignExtend(x), q))
Float(p, n) ==
    Then(get_number(p, n), LAMBDA x, q : Good(<<"float", IF n = 4 THEN Single(x) ELSE x>>, q))

\* A length as a number, and the bytes it announces: none if it is negative.
Counted(r, signed) ==
    Then(r, LAMBDA x, p : Chunk(p, IF signed /\ Negative(x) THEN 0 ELSE Natural(x)))

\* No length is Npos, and no container holds more than MaxSize elements.
Npos == Fill(8, 255)
TooMany(n) == n[1] >= 8

\* UBJSON and BJData have a byte for no operation.
Skip(p) ==
    IF format \notin {"ubjson", "bjdata"} THEN p
    ELSE CHOOSE q \in p..(p + Len(input)) :
            Byte(q) # Ascii.N /\ \A r \in p..(q - 1) : Byte(r) = Ascii.N

\* A member of an object: a key that is there gets the new value.
Put(o, key, v) ==
    IF \E k \in DOMAIN o : o[k][1] = key
    THEN [k \in DOMAIN o |-> IF o[k][1] = key THEN <<key, v>> ELSE o[k]]
    ELSE Append(o, <<key, v>>)

-----------------------------------------------------------------------------
(* The loops over elements and members.  The values of an optimised        *)
(* container have the type that precedes it, 0 if there is none: value is  *)
(* the function of a position and that type which Value defines, passed to *)
(* all that reads values inside of values.                                 *)

RECURSIVE get_cbor_string(_)

get_msgpack_string(p) ==
    LET b == Byte(p)
    IN CASE b = EOF -> Bad(110, p)
         [] b \in 160..191 -> Chunk(p + 1, b % 32)
         [] b \in 217..219 -> Counted(Unsigned(p + 1, 2^(b - 217)), FALSE)
         [] OTHER -> Bad(113, p)

\* The types of the integers by their byte.
SignedMarkers == {"i", "I", "l", "L"}
Markers == SignedMarkers \cup {"U"} \cup IF format = "bjdata" THEN {"u", "m", "M"} ELSE {}
IsMarker(b) == \E m \in Markers : Ascii[m] = b
MarkerOf(b) == CHOOSE m \in Markers : Ascii[m] = b
Integer(b, p) == IF MarkerOf(b) \in SignedMarkers THEN As("integer", Signed(p, Width[MarkerOf(b)]))
                 ELSE As("unsigned", Unsigned(p, Width[MarkerOf(b)]))

get_ubjson_string(p) ==
    LET b == Byte(p)
    IN CASE b = EOF -> Bad(110, p)
         [] IsMarker(b) -> Then(Integer(b, p + 1), LAMBDA n, q :
                                    Counted(Good(n[2], q), n[1] = "integer"))
         [] OTHER -> Bad(113, p)

Key(p) == CASE format = "cbor" -> get_cbor_string(p)
            [] format = "msgpack" -> get_msgpack_string(p)
            [] OTHER -> get_ubjson_string(p)

RECURSIVE Elements(_, _, _, _, _)
Elements(value, n, p, type, done) ==
    LET v == value[p, type]
    IN IF n = 0 THEN Good(<<"array", done>>, p)
       ELSE IF v.error # Accepted THEN v
       ELSE Elements(value, n - 1, v.at, type, Append(done, v.value))

RECURSIVE Members(_, _, _, _, _)
Members(value, n, p, type, done) ==
    LET key == Key(p)
        v == value[key.at, type]
    IN IF n = 0 THEN Good(<<"object", done>>, p)
       ELSE IF key.error # Accepted THEN key
       ELSE IF v.error # Accepted THEN v
       ELSE Members(value, n - 1, v.at, type, Put(done, key.value, v.value))

\* Without a count, up to the byte that ends the container.
RECURSIVE ElementsUntil(_, _, _, _)
ElementsUntil(value, stop, p, done) ==
    LET v == value[Skip(p), 0]
    IN IF Byte(Skip(p)) = stop THEN Good(<<"array", done>>, Skip(p) + 1)
       ELSE IF v.error # Accepted THEN v
       ELSE ElementsUntil(value, stop, v.at, Append(done, v.value))

RECURSIVE MembersUntil(_, _, _, _)
MembersUntil(value, stop, p, done) ==
    LET key == Key(Skip(p))
        v == value[key.at, 0]
    IN IF Byte(Skip(p)) = stop THEN Good(<<"object", done>>, Skip(p) + 1)
       ELSE IF key.error # Accepted THEN key
       ELSE IF v.error # Accepted THEN v
       ELSE MembersUntil(value, stop, v.at, Put(done, key.value, v.value))

-----------------------------------------------------------------------------
(* CBOR: the upper three bits of a byte are a type, the lower ones a       *)
(* number or how many bytes it has.                                        *)

Major(b) == b \div 32
Info(b) == b % 32
Argument(p) == IF Info(Byte(p)) < 24 THEN Good(Bytes(Info(Byte(p))), p + 1)
               ELSE Unsigned(p + 1, 2^(Info(Byte(p)) - 24))

\* A byte string of type 2 or a text string of type 3, which may come in chunks.
RECURSIVE CborBytes(_, _)
RECURSIVE CborChunks(_, _, _)
CborChunks(p, major, done) ==
    IF Byte(p) = 255 THEN Good(done, p + 1)
    ELSE Then(CborBytes(p, major), LAMBDA bs, q : CborChunks(q, major, done \o bs))
CborBytes(p, major) ==
    LET b == Byte(p)
    IN CASE b = EOF -> Bad(110, p)
         [] b # EOF /\ Major(b) = major /\ Info(b) < 28 -> Counted(Argument(p), FALSE)
         [] b # EOF /\ Major(b) = major /\ Info(b) = 31 -> CborChunks(p + 1, major, << >>)
         [] OTHER -> Bad(113, p)
get_cbor_string(p) == CborBytes(p, 3)
get_cbor_binary(p, subtype) ==
    Then(CborBytes(p, 2), LAMBDA bs, q :
        Good(<<"binary", [bytes |-> bs, subtype |-> subtype]>>, q))

get_cbor_array(value, n, p) ==
    CASE n = Npos -> ElementsUntil(value, 255, p, << >>)
      [] n # Npos /\ TooMany(n) -> Bad(408, 0)
      [] OTHER -> Elements(value, Natural(n), p, 0, << >>)
get_cbor_object(value, n, p) ==
    CASE n = Npos -> MembersUntil(value, 255, p, << >>)
      [] n # Npos /\ TooMany(n) -> Bad(408, 0)
      [] OTHER -> Members(value, Natural(n), p, 0, << >>)

\* A tag: an error, or passed over, or kept as the subtype of the byte string after it.
CborTag(value, p) ==
    CASE tag_handler = "error" -> Bad(112, p)
      [] tag_handler # "error" /\ Info(Byte(p)) < 24 -> value[p + 1, 0]
      [] OTHER -> Then(Argument(p), LAMBDA subtype, q :
                      IF tag_handler = "ignore" THEN value[q, 0]
                      ELSE get_cbor_binary(q, subtype))

\* null, the booleans and the floats of two, four and eight bytes.
CborSimple(p) ==
    LET b == Byte(p)
    IN CASE b = 244 -> Good(<<"boolean", FALSE>>, p + 1)
         [] b = 245 -> Good(<<"boolean", TRUE>>, p + 1)
         [] b = 246 -> Good(<<"null">>, p + 1)
         [] b = 249 -> Then(Chunk(p + 1, 2), LAMBDA h, q : Good(<<"float", Half(h[1], h[2])>>, q))
         [] b = 250 -> Float(p + 1, 4)
         [] b = 251 -> Float(p + 1, 8)
         [] OTHER -> Bad(112, p)

parse_cbor_internal(value, p) ==
    LET b == Byte(p)
        sized == Info(b) < 28
        indefinite == Info(b) = 31
    IN IF b = EOF THEN Bad(110, p)
       ELSE CASE Major(b) = 0 /\ sized -> As("unsigned", Argument(p))
              [] Major(b) = 1 /\ sized -> Then(Argument(p), LAMBDA x, q :
                                              Good(<<"integer", Complement(x)>>, q))
              [] Major(b) = 2 /\ (sized \/ indefinite) -> get_cbor_binary(p, << >>)
              [] Major(b) = 3 /\ (sized \/ indefinite) -> As("string", get_cbor_string(p))
              [] Major(b) = 4 /\ sized -> Then(Argument(p), LAMBDA n, q : get_cbor_array(value, n, q))
              [] Major(b) = 4 /\ indefinite -> get_cbor_array(value, Npos, p + 1)
              [] Major(b) = 5 /\ sized -> Then(Argument(p), LAMBDA n, q : get_cbor_object(value, n, q))
              [] Major(b) = 5 /\ indefinite -> get_cbor_object(value, Npos, p + 1)
              [] Major(b) = 6 /\ Info(b) \in (6..20) \cup (24..27) -> CborTag(value, p)
              [] Major(b) = 7 -> CborSimple(p)
              [] OTHER -> Bad(112, p)

-----------------------------------------------------------------------------
(* MessagePack.                                                            *)

get_msgpack_binary(p) ==
    LET b == Byte(p)
        Data(r, subtype) == Then(Counted(r, FALSE), LAMBDA bs, q :
                                Good(<<"binary", [bytes |-> bs, subtype |-> subtype]>>, q))
    IN CASE b \in 196..198 -> Data(Unsigned(p + 1, 2^(b - 196)), << >>)
         [] b \in 199..201 -> Then(Unsigned(p + 1, 2^(b - 199)), LAMBDA n, q :
                                  Then(Unsigned(q, 1), LAMBDA s, r : Data(Good(n, r), s)))
         [] b \in 212..216 -> Then(Unsigned(p + 1, 1), LAMBDA s, q :
                                  Data(Good(Bytes(2^(b - 212)), q), s))

get_msgpack_array(value, n, p) == Elements(value, Natural(n), p, 0, << >>)
get_msgpack_object(value, n, p) == Members(value, Natural(n), p, 0, << >>)

MsgpackNumber(p) ==
    LET b == Byte(p)
    IN CASE b < 128 -> Good(<<"unsigned", Bytes(b)>>, p + 1)
         [] b \in {202, 203} -> Float(p + 1, 4 * (b - 201))
         [] b \in 204..207 -> As("unsigned", Unsigned(p + 1, 2^(b - 204)))
         [] b \in 208..211 -> As("integer", Signed(p + 1, 2^(b - 208)))
         [] b >= 224 -> Good(<<"integer", SignExtend(<<b>>)>>, p + 1)

parse_msgpack_internal(value, p) ==
    LET b == Byte(p)
    IN CASE b = EOF -> Bad(110, p)
         [] b \in 128..143 -> get_msgpack_object(value, Bytes(b % 16), p + 1)
         [] b \in 144..159 -> get_msgpack_array(value, Bytes(b % 16), p + 1)
         [] b \in (160..191) \cup (217..219) -> As("string", get_msgpack_string(p))
         [] b = 192 -> Good(<<"null">>, p + 1)
         [] b \in {194, 195} -> Good(<<"boolean", b = 195>>, p + 1)
         [] b \in (196..201) \cup (212..216) -> get_msgpack_binary(p)
         [] b \in {220, 221} -> Then(Unsigned(p + 1, 2 * (b - 219)), LAMBDA n, q : get_msgpack_array(value, n, q))
         [] b \in {222, 223} -> Then(Unsigned(p + 1, 2 * (b - 221)), LAMBDA n, q : get_msgpack_object(value, n, q))
         [] b \in (0..127) \cup (202..211) \cup (224..255) -> MsgpackNumber(p)
         [] OTHER -> Bad(112, p)

-----------------------------------------------------------------------------
(* UBJSON and BJData.  A byte that was read before is passed together with *)
(* the position after it.                                                  *)

RECURSIVE get_ubjson_size_value(_, _, _)

SizeInteger(b, p) ==
    Then(Integer(b, p), LAMBDA n, q :
        IF n[1] = "integer" /\ Negative(n[2]) THEN Bad(113, q - 1)
        ELSE Good([size |-> n[2], dims |-> << >>], q))

\* Faulty variant: the last dimension is not multiplied.
Shape_Short(dims, p) ==
    CASE Len(dims) < 2 \/ (Len(dims) = 2 /\ dims[1] = Bytes(1)) ->
            Good([size |-> IF dims = << >> THEN Bytes(0) ELSE Last(dims), dims |-> << >>], p)
      [] OTHER -> Good([size |-> FoldLeft(Times, Bytes(1), Front(dims)), dims |-> dims], p)

\* The number of elements that dimensions amount to: a vector is a plain array, and an
\* overflow is noticed when what is left is 0 or Npos.
Shape(dims, p) ==
    LET product == [n \in 1..Len(dims) |-> FoldLeft(Times, Bytes(1), SubSeq(dims, 1, n))]
    IN IF Len(dims) = 1 \/ (Len(dims) = 2 /\ dims[1] = Bytes(1))
       THEN Good([size |-> Last(dims), dims |-> << >>], p)
       ELSE IF dims = << >> \/ Bytes(0) \in Range(dims)
       THEN Good([size |-> Bytes(0), dims |-> << >>], p)
       ELSE IF Range(product) \cap {Bytes(0), Npos} # {} THEN Bad(408, 0)
       ELSE Good([size |-> product[Len(dims)], dims |-> dims], p)

\* What '$' and '#' say of a container.  Without a count the elements start at the byte
\* just read.
SizeAndType(type, s, p) ==
    Good([type |-> type, size |-> s.size, dims |-> s.dims], IF s.size = Npos THEN p - 1 ELSE p)
get_ubjson_size_type(p, inside_ndarray) ==
    LET q == Skip(p)
        type == Byte(q + 1)
        hash == Skip(q + 2)
        Count(c) == get_ubjson_size_value(Byte(Skip(c)), Skip(c) + 1, FALSE)
    IN CASE Byte(q) = Ascii.type ->
              IF format = "bjdata" /\ \E m \in NotInBjdata : Ascii[m] = type THEN Bad(112, q + 1)
              ELSE IF EOF \in {type, Byte(hash)} THEN Bad(110, IF type = EOF THEN q + 1 ELSE hash)
              ELSE IF Byte(hash) # Ascii.count THEN Bad(112, hash)
              ELSE Then(Count(hash + 1), LAMBDA s, r :
                       IF s.dims # << >> /\ inside_ndarray THEN Bad(112, r - 1)
                       ELSE SizeAndType(type, s, r))
         [] Byte(q) = Ascii.count ->
              Then(Count(q + 1), LAMBDA s, r :
                  IF s.dims # << >> THEN Bad(112, r - 1) ELSE SizeAndType(0, s, r))
         [] OTHER -> Good([type |-> 0, size |-> Npos, dims |-> << >>], q)

\* The dimensions, counted or up to a ']'.  The byte 0 stands for no byte read.
SizeAfter(b, p) == IF b # 0 THEN get_ubjson_size_value(b, p, TRUE)
                   ELSE get_ubjson_size_value(Byte(Skip(p)), Skip(p) + 1, TRUE)
RECURSIVE Dimensions(_, _, _, _)
Dimensions(n, p, type, done) ==
    IF n = 0 THEN Good(done, p)
    ELSE Then(SizeAfter(type, p), LAMBDA s, q : Dimensions(n - 1, q, type, Append(done, s.size)))
RECURSIVE DimensionsUntil(_, _)
DimensionsUntil(p, done) ==
    IF Byte(Skip(p)) = Ascii.end_array THEN Good(done, Skip(p) + 1)
    ELSE Then(SizeAfter(Byte(Skip(p)), Skip(p) + 1), LAMBDA s, q :
             DimensionsUntil(q, Append(done, s.size)))
get_ubjson_ndarray_size(p) ==
    Then(get_ubjson_size_type(p, TRUE), LAMBDA s, q :
        CASE s.size = Npos -> DimensionsUntil(q, << >>)
          [] s.size # Npos /\ s.type = Ascii.N -> Good(<< >>, q)
          [] OTHER -> Dimensions(Natural(s.size), q, s.type, << >>))

get_ubjson_size_value(b, p, is_ndarray) ==
    CASE IsMarker(b) -> SizeInteger(b, p)
      [] format = "bjdata" /\ b = Ascii.array /\ ~is_ndarray ->
            Then(get_ubjson_ndarray_size(p), Shape)
      [] OTHER -> Bad(113, p - 1)

\* An array of several dimensions as an object in the JData format.
Ndarray(value, s, p) ==
    IF ~\E t \in DTypes : Ascii[t] = s.type THEN Bad(112, p - 1)
    ELSE IF TooMany(s.size) THEN Bad(408, 0)
    ELSE Then(Elements(value, Natural(s.size), p, IF s.type = Ascii.C THEN Ascii.U ELSE s.type, << >>),
              LAMBDA data, q :
                  Good(<<"object", <<
                      <<ArraySize, <<"array", [k \in DOMAIN s.dims |-> <<"unsigned", s.dims[k]>>]>>>>,
                      <<ArrayType, <<"string", <<s.type>>>>>>, <<ArrayData, data>> >> >>, q))

get_ubjson_array(value, p) ==
    Then(get_ubjson_size_type(p, FALSE), LAMBDA s, q :
        CASE s.dims # << >> -> Ndarray(value, s, q)
          [] s.dims = << >> /\ s.size = Npos -> ElementsUntil(value, Ascii.end_array, q, << >>)
          [] s.dims = << >> /\ s.size # Npos /\ TooMany(s.size) -> Bad(408, 0)
          [] OTHER -> Elements(value, IF s.type = Ascii.N THEN 0 ELSE Natural(s.size), q, s.type, << >>))

get_ubjson_object(value, p) ==
    Then(get_ubjson_size_type(p, FALSE), LAMBDA s, q :
        CASE s.dims # << >> -> Bad(112, q - 1)
          [] s.dims = << >> /\ s.size = Npos -> MembersUntil(value, Ascii.end_object, q, << >>)
          [] s.dims = << >> /\ s.size # Npos /\ TooMany(s.size) -> Bad(408, 0)
          [] OTHER -> Members(value, Natural(s.size), q, s.type, << >>))

\* A number by its digits.  The lexer's other numbers are in JsonLexer.
Digits == 48..57
IsNatural(ds) == ds # << >> /\ Range(ds) \subseteq Digits /\ (ds[1] = 48 => Len(ds) = 1)
HighPrecision(text, p) ==
    LET negative == text # << >> /\ text[1] = 45
        digits == IF negative THEN Tail(text) ELSE text
        number == FromDecimal(digits)
        least == negative /\ number.x = Negated(number.x)
    IN IF ~IsNatural(digits) THEN Bad(115, p - 1)
       ELSE IF ~number.fits \/ (negative /\ Negative(number.x) /\ ~least) THEN Good(<<"float", text>>, p)
       ELSE Good(IF negative THEN <<"integer", Negated(number.x)>> ELSE <<"unsigned", number.x>>, p)
get_ubjson_high_precision_number(p) ==
    Then(get_ubjson_size_value(Byte(Skip(p)), Skip(p) + 1, TRUE), LAMBDA s, q :
        Then(Chunk(q, Natural(s.size)), HighPrecision))

get_ubjson_value(value, b, p) ==
    CASE b = EOF -> Bad(110, p - 1)
      [] b \in {Ascii.T, Ascii.F} -> Good(<<"boolean", b = Ascii.T>>, p)
      [] b = Ascii.Z -> Good(<<"null">>, p)
      [] IsMarker(b) -> Integer(b, p)
      [] b = Ascii.h /\ format = "bjdata" ->
            Then(Chunk(p, 2), LAMBDA h, q : Good(<<"float", Half(h[2], h[1])>>, q))
      [] b = Ascii.d -> Float(p, 4)
      [] b = Ascii.D -> Float(p, 8)
      [] b = Ascii.H -> get_ubjson_high_precision_number(p)
      [] b = Ascii.C -> Then(Chunk(p, 1), LAMBDA c, q :
                             IF c[1] > 127 THEN Bad(113, p) ELSE Good(<<"string", c>>, q))
      [] b = Ascii.S -> As("string", get_ubjson_string(p))
      [] b = Ascii.array -> get_ubjson_array(value, p)
      [] b = Ascii.object -> get_ubjson_object(value, p)
      [] OTHER -> Bad(112, p - 1)

-----------------------------------------------------------------------------
(* BSON.  The size of a document is read and not used.                     *)

get_bson_cstr(p) ==
    IF \E q \in p..Len(input) : input[q] = 0
    THEN LET nul == CHOOSE q \in p..Len(input) : input[q] = 0 /\ \A r \in p..(q - 1) : input[r] # 0
         IN Good(SubSeq(input, p, nul - 1), nul + 1)
    ELSE Bad(110, IF p > Len(input) THEN p ELSE Len(input) + 1)

\* The byte after a string is read, whatever it is; without one there is no error either.
get_bson_string(p) ==
    Then(Signed(p, 4), LAMBDA n, q :
        IF Negative(n) \/ n = Bytes(0) THEN Bad(112, q - 1)
        ELSE Then(Chunk(q, Natural(n) - 1), LAMBDA s, r :
                 IF Byte(r) = EOF THEN Bad(Silent, r) ELSE Good(<<"string", s>>, r + 1)))

get_bson_binary(p) ==
    Then(Signed(p, 4), LAMBDA n, q :
        IF Negative(n) THEN Bad(112, q - 1)
        ELSE Then(Unsigned(q, 1), LAMBDA subtype, r : Then(Chunk(r, Natural(n)), LAMBDA bs, e :
                 Good(<<"binary", [bytes |-> bs, subtype |-> subtype]>>, e))))

RECURSIVE parse_bson_document(_, _)

\* The end of the input is a true.
parse_bson_element_internal(type, p, type_at) ==
    CASE type = 1 -> Float(p, 8)
      [] type = 2 -> get_bson_string(p)
      [] type = 3 -> parse_bson_document(p, "object")
      [] type = 4 -> parse_bson_document(p, "array")
      [] type = 5 -> get_bson_binary(p)
      [] type = 8 -> Good(<<"boolean", Byte(p) # 0>>, p + 1)
      [] type = 10 -> Good(<<"null">>, p)
      [] type = 16 -> As("integer", Signed(p, 4))
      [] type = 18 -> As("integer", Signed(p, 8))
      [] OTHER -> Bad(114, type_at)

RECURSIVE parse_bson_element_list(_, _, _)
parse_bson_element_list(p, kind, done) ==
    CASE Byte(p) = 0 -> Good(<<kind, done>>, p + 1)
      [] Byte(p) = EOF -> Bad(110, p)
      [] OTHER -> Then(get_bson_cstr(p + 1), LAMBDA key, q :
                      Then(parse_bson_element_internal(Byte(p), q, p), LAMBDA v, r :
                          parse_bson_element_list(r, kind, IF kind = "array" THEN Append(done, v)
                                                           ELSE Put(done, key, v))))
parse_bson_document(p, kind) ==
    Then(Signed(p, 4), LAMBDA document_size, q : parse_bson_element_list(q, kind, << >>))

-----------------------------------------------------------------------------

Value[p \in Nat, type \in Nat] ==
    CASE format = "cbor" -> parse_cbor_internal(Value, p)
      [] format = "msgpack" -> parse_msgpack_internal(Value, p)
      [] OTHER -> IF type # 0 THEN get_ubjson_value(Value, type, p)
                              ELSE get_ubjson_value(Value, Byte(Skip(p)), Skip(p) + 1)

\* The whole input, after which there must be nothing.
sax_parse ==
    Then(IF format = "bson" THEN parse_bson_document(1, "object") ELSE Value[1, 0],
         LAMBDA v, p : IF Byte(Skip(p)) = EOF THEN Good(v, p) ELSE Bad(110, Skip(p)))
=============================================================================
