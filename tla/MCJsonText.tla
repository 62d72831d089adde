------------------------------ MODULE MCJsonText ------------------------------
(***************************************************************************)
(* The lexer on texts made of the bytes that its cases tell apart, and on  *)
(* what the serializer dumps, against what RFC 8259 and RFC 3629 say of    *)
(* the same bytes.                                                         *)
(***************************************************************************)
EXTENDS JsonSerializer

\* The value of four hex digits at i, the value of a pair of surrogates.
Hex4(s, i) == 4096 * HexValue(s[i]) + 256 * HexValue(s[i+1])
              + 16 * HexValue(s[i+2]) + HexValue(s[i+3])
Supplementary(h, l) == 65536 + (h - 55296) * 1024 + (l - 56320)

\* What the characters between two quotes stand for.
RECURSIVE Unescape(_)
Unescape(s) ==
    LET Rest(n) == Unescape(SubSeq(s, n + 1, Len(s)))
    IN CASE s = << >> -> << >>
         [] s[1] # Backslash -> <<s[1]>> \o Rest(1)
         [] s[2] # 117 -> <<Escapes[s[2]]>> \o Rest(2)
         [] IsHigh(Hex4(s, 3)) -> Encode(Supplementary(Hex4(s, 3), Hex4(s, 9))) \o Rest(12)
         [] OTHER -> Encode(Hex4(s, 3)) \o Rest(6)

\* A string without its quotes, by the grammar of RFC 8259; escaped surrogates
\* come in pairs.
RECURSIVE IsBody(_)
IsBody(s) ==
    LET Rest(n) == IsBody(SubSeq(s, n + 1, Len(s)))
        Unicode(i) == /\ Len(s) >= i + 5
                      /\ s[i] = Backslash /\ s[i + 1] = 117
                      /\ \A k \in 2..5 : IsHex(s[i + k])
    IN \/ s = << >>
       \/ \E n \in 1..4 : /\ n <= Len(s)
                          /\ s[1] >= 32 /\ s[1] \notin {Quote, Backslash}
                          /\ IsCharacter(s, 1, n)
                          /\ Rest(n)
       \/ Len(s) > 1 /\ s[1] = Backslash /\ s[2] \in DOMAIN Escapes /\ Rest(2)
       \/ Unicode(1) /\ ~IsHigh(Hex4(s, 3)) /\ ~IsLow(Hex4(s, 3)) /\ Rest(6)
       \/ Unicode(1) /\ IsHigh(Hex4(s, 3)) /\ Unicode(7) /\ IsLow(Hex4(s, 9)) /\ Rest(12)


\* u0000, and uD800\uDC00
Completions ==
    {<< >>, <<110>>}
    \cup Suffixes(<<117, 48, 48, 48, 48>>)
    \cup Suffixes(<<117, 68, 56, 48, 48, 92, 117, 68, 67, 48, 48>>)
    \cup {<<b>> : b \in {128, 144, 160}}
    \cup {<<b, 128>> : b \in {128, 144, 160}}
    \cup {<<b, 128, 128>> : b \in {128, 144}}

\* s can still become a string.
IsBodyPrefix(s) == \E t \in Completions : IsBody(s \o t)

\* s with every character kept, and what is between two characters cut into the
\* longest beginnings of characters, each replaced by r: what the Unicode
\* standard calls replacing maximal subparts.
BeginsCharacter(s) ==
    \E t \in {<<b>> : b \in {128, 144, 160}} \cup {<<b, 128>> : b \in {128, 144, 160}}
             \cup {<<b, 128, 128>> : b \in {128, 144}} : IsCharacter(s \o t, 1, Len(s \o t))

RECURSIVE Repair(_, _)
Repair(s, r) ==
    LET From(n) == SubSeq(s, n + 1, Len(s))
        whole == {n \in 1..Len(s) : n <= 4 /\ IsCharacter(s, 1, n)}
        begun == {n \in 1..Len(s) : n <= 3 /\ BeginsCharacter(SubSeq(s, 1, n))}
    IN CASE s = << >> -> << >>
         [] whole # {} -> SubSeq(s, 1, Max(whole)) \o Repair(From(Max(whole)), r)
         [] OTHER -> r \o Repair(From(Max(begun \cup {1})), r)

\* A number text as its sign, its digits without outer zeros and the exponent.
RECURSIVE Normal(_, _)
Normal(ds, e) ==
    CASE ds = << >> -> [digits |-> <<48>>, exponent |-> 0]
      [] Head(ds) = 48 -> Normal(Tail(ds), e)
      [] Last(ds) = 48 -> Normal(Front(ds), e + 1)
      [] OTHER -> [digits |-> ds, exponent |-> e]

Denotes(s) ==
    LET body == IF s[1] = 45 THEN Tail(s) ELSE s
        parts == {i \in DOMAIN body : body[i] \in Exponent}
        mantissa == IF parts = {} THEN body ELSE SubSeq(body, 1, Max(parts) - 1)
        exp == IF parts = {} THEN <<43, 48>> ELSE SubSeq(body, Max(parts) + 1, Len(body))
        e == IF exp[1] = 45 THEN -DigitsValue(Tail(exp)) ELSE DigitsValue(Tail(exp))
        dots == {i \in DOMAIN mantissa : mantissa[i] = Dot}
        digits == SelectSeq(mantissa, LAMBDA b : b # Dot)
    IN [neg |-> s[1] = 45,
        value |-> Normal(digits, e - (IF dots = {} THEN 0 ELSE Len(mantissa) - Max(dots)))]

-----------------------------------------------------------------------------
(* Instances.                                                              *)

\* The bytes that the cases of the scanner tell apart, at each of its labels.
\* Strings come first in the text; what follows a string is the end.
MCInputs(l, d, t) ==
    LET First == {239, Quote, EOF, 0, 32, LF, Slash, 91, 116, 45, 48, 57, 120}
    IN CASE l = "bom" -> First
         [] l \in {"bom2", "bom3"} -> {187, 191}
         [] l = "start" -> IF Len(t) < 4 /\ t[1] # Quote THEN First \ {Quote, 239} ELSE {EOF}
         [] l = "literal" -> {Head(d[2]), EOF}
         [] l = "string" -> {Quote, EOF} \cup
               (IF Len(t) > 2 THEN {} ELSE
                {Backslash, 31, 127, 128, 193, 194, 224, 225, 237, 240, 241, 244, 245})
         [] l = "escape" -> {Quote, 110, 117, 120}
         [] l = "hex" -> IF d[3] = 0 THEN {48, 55, 56, 68, 102, 103} ELSE {48, 67, 68, 70, 71}
         [] l \in {"pair", "pair_u"} -> {Backslash, 117}
         [] l = "utf8" -> {127, 128, 143, 144, 159, 160, 191, 192}
         [] l \in {"comment", "line_comment", "block_comment", "block_star"} ->
               {EOF} \cup (IF Len(t) > 5 THEN {} ELSE {Slash, Star, LF})
         [] OTHER -> {EOF, LF} \cup (IF Len(t) > 5 THEN {} ELSE {48, 57, Dot, 101, 45})

\* Short strings of the bytes the decoder tells apart, and longer ones around
\* the last code points and the room that is kept in string_buffer.
MCStrings ==
    UNION {[1..n -> {Quote, 31, 128, 160, 194, 224, 237, 240}] : n \in 0..2}
    \cup [1..3 -> {128, 160, 224, 237}]
    \cup {<<a, b, 128, c>> : a \in {240, 243, 244}, b \in {143, 144, 191}, c \in {127, 128}}
    \cup {<<97, 97, 97, 240, 144, 128, 128>>, <<1, 240, 144, 128, 128>>,
          <<97, 97, 97, 226, 130>>, <<194, 128, 31, 244, 143, 191, 65>>}

MCNumbers == {-8192, -8191, -1001, -100, -99, -10, -9, -1, 0, 9, 10, 99, 100, 999, 1000,
              9999, 10000, 16383}

MCMinExp == -2

MCFloats ==
    {[finite |-> TRUE, neg |-> neg, digits |-> d, exponent |-> e] :
        neg \in BOOLEAN, d \in {<<49>>, <<49, 55>>, <<49, 48, 55>>},
        e \in {-120, -12, -7, -4, -3, -2, -1, 0, 1, 2, 3, 4, 5, 105}}
    \cup {[finite |-> f, neg |-> neg, digits |-> <<48>>, exponent |-> 0] :
             f \in BOOLEAN, neg \in BOOLEAN}

-----------------------------------------------------------------------------
(* Properties.                                                             *)

Raw == SubSeq(text, start, Taken)

\* token_buffer is what the escaped string stands for; a string is refused at the first byte after which none
\* is possible, but for a surrogate out of place, whose four digits are read.
StringsScanned ==
    label = "token" /\ start > 0 /\ text[start] = Quote =>
        IF token = "parse_error"
        THEN LET body == Tail(Raw)
             IN /\ ~IsBodyPrefix(body)
                /\ \E n \in 0..(Len(body) - 1) :
                      /\ IsBodyPrefix(SubSeq(body, 1, n))
                      /\ Len(body) - n <= 4
                      /\ \A i \in (n + 1)..(Len(body) - 1) : IsHex(body[i])
        ELSE /\ IsBody(Front(Tail(Raw)))
             /\ token_buffer = Unescape(Front(Tail(Raw)))

\* The lexer gives a dumped string back: as it was when it is well-formed, and
\* else with its ill-formed parts replaced or left out.
StringsScanBack ==
    kind = "string" =>
        /\ StrictIsExact
        /\ PrintableOnly
        /\ WellFormedScansBack
        /\ label = "token" /\ scans = 1 =>
              /\ token = "value_string"
              /\ token_buffer = Repair(val, IF error_handler = "replace" THEN Encode(65533)
                                            ELSE << >>)

\* A dumped number is scanned as the same number; an integer stays an integer,
\* and a float a float, whatever its value.
NumbersScanBack ==
    label = "token" /\ scans = 1 =>
        /\ kind = "integer" =>
              /\ token = IF val < 0 THEN "value_integer" ELSE "value_unsigned"
              /\ val = IF val < 0 THEN -DigitsValue(Tail(token_buffer)) ELSE DigitsValue(token_buffer)
        /\ kind = "float" =>
              IF ~val.finite THEN token = "literal_null"
              ELSE /\ token = "value_float"
                   /\ Denotes(token_buffer) =
                         [neg |-> val.neg, value |-> Normal(val.digits, val.exponent)]

\* A string is read for what its escapes stand for, and dump() and scan() are inverses
\* on the values a text can carry (json.hpp:8205, 18399).
ScansBack == StringsScanned /\ StringsScanBack /\ NumbersScanBack
=============================================================================
