----------------------------- MODULE Announcement ----------------------------
(***************************************************************************)
(* The datagram of the multicast group: written by NETConnect's Multicast  *)
(* (System.Text.Json of a MulticastPacket), read by the C++ program with   *)
(* MulticastPacket::FromJson, the base64 decoder and xg::Guid.             *)
(*                                                                         *)
(* A text is the sequence of its ASCII codes.  A document is a function    *)
(* from the names of its members to their values, <<type, value>>, or      *)
(* NotJson; how JSON text becomes a document is JsonLexer and JsonParser.  *)
(***************************************************************************)
EXTENDS Integers, Sequences, SequencesExt

\* What a function returns that may throw: the set of its value, or nothing.
Throws == {}

-----------------------------------------------------------------------------
(* base64.cpp.                                                             *)

IsUpper(c) == c \in 65..90
IsLower(c) == c \in 97..122
IsDigit(c) == c \in 48..57
Equals == 61
Dot == 46

\* Where pos_of_char throws.
Invalid == 64

\* Faulty variant: the alphabet for URLs is not known.
pos_of_char_Standard(c) ==
    CASE IsUpper(c) -> c - 65
      [] IsLower(c) -> c - 97 + 26
      [] IsDigit(c) -> c - 48 + 52
      [] c = 43 -> 62
      [] c = 47 -> 63
      [] OTHER -> Invalid
\* The position of a character of either alphabet.
pos_of_char(c) ==
    CASE IsUpper(c) -> c - 65
      [] IsLower(c) -> c - 97 + 26
      [] IsDigit(c) -> c - 48 + 52
      [] c \in {43, 45} -> 62
      [] c \in {47, 95} -> 63
      [] OTHER -> Invalid

base64_chars(url) ==
    [n \in 0..63 |->
        CASE n < 26 -> 65 + n
          [] n \in 26..51 -> 97 + n - 26
          [] n \in 52..61 -> 48 + n - 52
          [] n = 62 -> IF url THEN 45 ELSE 43
          [] n = 63 -> IF url THEN 95 ELSE 47]

\* The k-th six bits of up to three bytes, with zeros behind them.
Sextet(b, k) ==
    LET byte(n) == IF n <= Len(b) THEN b[n] ELSE 0
    IN CASE k = 1 -> byte(1) \div 4
         [] k = 2 -> (byte(1) % 4) * 16 + byte(2) \div 16
         [] k = 3 -> (byte(2) % 16) * 4 + byte(3) \div 64
         [] k = 4 -> byte(3) % 64

\* Up to three bytes as four characters, those without a bit of them trailing.
EncodedChunk(b, url) ==
    [k \in 1..4 |-> IF k <= Len(b) + 1 THEN base64_chars(url)[Sextet(b, k)]
                    ELSE IF url THEN Dot ELSE Equals]

\* The sequence cut into pieces of n, the last of which may be shorter.
Pieces(s, n) ==
    [k \in 1..(Len(s) + n - 1) \div n |->
        SubSeq(s, n * (k - 1) + 1, IF n * k < Len(s) THEN n * k ELSE Len(s))]

base64_encode(bytes, url) ==
    FlattenSeq([k \in DOMAIN Pieces(bytes, 3) |-> EncodedChunk(Pieces(bytes, 3)[k], url)])

\* Up to four characters as one to three bytes, none where the code throws: on a
\* chunk of one character, or on a character of neither alphabet.  A third or
\* fourth character that is missing or trailing ends the chunk.
DecodedChunk(c) ==
    LET Ends(k) == Len(c) < k \/ c[k] \in {Equals, Dot}
        used == IF Ends(3) THEN 2 ELSE IF Ends(4) THEN 3 ELSE 4
        pos(k) == pos_of_char(c[k])
        first == (pos(1) * 4 + pos(2) \div 16) % 256
        second == (pos(2) % 16) * 16 + pos(3) \div 4
        third == (pos(3) % 4) * 64 + pos(4)
    IN CASE Len(c) < 2 \/ (\E k \in 1..used : pos(k) = Invalid) -> << >>
         [] OTHER -> IF used = 2 THEN <<first>>
                     ELSE IF used = 3 THEN <<first, second>> ELSE <<first, second, third>>

base64_decode(text) ==
    LET chunks == [k \in DOMAIN Pieces(text, 4) |-> DecodedChunk(Pieces(text, 4)[k])]
    IN IF << >> \in Range(chunks) THEN Throws ELSE {FlattenSeq(chunks)}

-----------------------------------------------------------------------------
(* guid.cpp.                                                               *)

Hyphen == 45
zeroify == [k \in 1..16 |-> 0]

isValidHexChar(c) == IsDigit(c) \/ c \in 97..102 \/ c \in 65..70
hexDigitToChar(c) ==
    CASE IsDigit(c) -> c - 48
      [] c \in 97..102 -> c - 87
      [] c \in 65..70 -> c - 55
      [] OTHER -> 0
hexPairToChar(a, b) == hexDigitToChar(a) * 16 + hexDigitToChar(b)

\* Hyphens are passed over wherever they are.
WithoutHyphens(text) == SelectSeq(text, LAMBDA c : c # Hyphen)

\* Anything else that is wrong gives the empty GUID.
Guid(fromString) ==
    LET digits == WithoutHyphens(fromString)
    IN IF Len(digits) # 32 \/ \E k \in 1..32 : ~isValidHexChar(digits[k])
       THEN zeroify
       ELSE [k \in 1..16 |-> hexPairToChar(digits[2 * k - 1], digits[2 * k])]

\* "%02x" of one byte.
HexDigit(n) == IF n < 10 THEN 48 + n ELSE 87 + n
Hex(b) == <<HexDigit(b \div 16), HexDigit(b % 16)>>

str(bytes) ==
    FlattenSeq([k \in 1..16 |-> (IF k \in {5, 7, 9, 11} THEN <<Hyphen>> ELSE << >>) \o Hex(bytes[k])])

-----------------------------------------------------------------------------
(* MulticastPacket, in both programs.                                      *)

\* What is no JSON object: parse or the first at throws.
NotJson == << >>

\* at of a member that is there, and get<std::string> or get<int> of what it holds.
at(doc, name) == IF name \in DOMAIN doc THEN {doc[name]} ELSE Throws
get_string(values) == {v[2] : v \in {w \in values : w[1] = "string"}}
get_int(values) == {IF v[1] = "boolean" THEN (IF v[2] THEN 1 ELSE 0) ELSE v[2] :
                       v \in {w \in values : w[1] \in {"number", "boolean"}}}

\* The packet, or nothing where FromJson catches and returns nullptr (and loses
\* the packet it has allocated).  MulticastAction is an unsigned byte.
FromJson(doc) ==
    {[SenderId |-> Guid(s), Data |-> d, Action |-> a % 256] :
        s \in get_string(at(doc, "SenderId")),
        d \in UNION {base64_decode(b) : b \in get_string(at(doc, "Data"))},
        a \in get_int(at(doc, "Action"))}

\* The C++ program's own form: a vector of bytes becomes an array of numbers.
ToJson(p) ==
    [SenderId |-> <<"string", str(p.SenderId)>>,
     Data |-> <<"array", p.Data>>,
     Action |-> <<"number", p.Action>>]

\* SendMessage of NETConnect: System.Text.Json writes a Guid as str does, a byte[]
\* as base64 and an enumeration as its number.
Serialize(p) ==
    [ToJson(p) EXCEPT !.Data = <<"string", base64_encode(p.Data, FALSE)>>]

-----------------------------------------------------------------------------
(* What an announcement is, by the formats and not by the programs.        *)

GUIDs == [1..16 -> 0..255]

\* Base64 of RFC 4648: of either alphabet, and the last chunk filled up or not.
SpellsChunk(c, b) ==
    /\ Len(c) \in (Len(b) + 1)..4
    /\ \A k \in 1..Len(c) :
          IF k <= Len(b) + 1 THEN \E url \in BOOLEAN : c[k] = base64_chars(url)[Sextet(b, k)]
          ELSE c[k] \in {Equals, Dot}

SpellsBytes(text, bytes) ==
    /\ DOMAIN Pieces(text, 4) = DOMAIN Pieces(bytes, 3)
    /\ \A k \in DOMAIN Pieces(bytes, 3) : SpellsChunk(Pieces(text, 4)[k], Pieces(bytes, 3)[k])

\* A GUID by its 32 hexadecimal digits, small or capital.
SpellsDigit(c, n) == c = HexDigit(n) \/ (n >= 10 /\ c = 55 + n)

SpellsGuid(text, guid) ==
    LET digits == WithoutHyphens(text)
    IN /\ Len(digits) = 32
       /\ \A k \in 1..16 : /\ SpellsDigit(digits[2 * k - 1], guid[k] \div 16)
                           /\ SpellsDigit(digits[2 * k], guid[k] % 16)

\* doc announces the packet p.
Announces(doc, p) ==
    /\ {"SenderId", "Data", "Action"} \subseteq DOMAIN doc
    /\ doc["SenderId"][1] = "string" /\ SpellsGuid(doc["SenderId"][2], p.SenderId)
    /\ doc["Data"][1] = "string" /\ SpellsBytes(doc["Data"][2], p.Data)
    /\ doc["Action"] = <<"number", p.Action>>
=============================================================================
