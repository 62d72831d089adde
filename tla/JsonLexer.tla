------------------------------ MODULE JsonLexer ------------------------------
(***************************************************************************)
(* The lexer of json.hpp: scan() returns the next token of a JSON text.    *)
(* Bytes are 0..255, and EOF is what an input adapter returns at the end.  *)
(* One action is one get(): the scanner is at `label`, a byte arrives, and *)
(* the scanner moves on or scan() returns `token`.                         *)
(*                                                                         *)
(* token_string, kept for error messages, is left out, and the 64 bits of  *)
(* the number types are scaled to MaxUnsigned and MaxInteger.              *)
(***************************************************************************)
EXTENDS Integers, SequencesExt

CONSTANTS
    Inputs(_, _, _), \* the bytes that may come at a label, with its locals and the text
    MaxTokens,       \* bound: calls of scan()
    MaxUnsigned,     \* the largest number_unsigned_t
    MaxInteger       \* the largest number_integer_t

ASSUME NumbersAssumption == /\ MaxUnsigned \in Nat
                            /\ MaxInteger \in 0..MaxUnsigned

VARIABLES
    ia,              \* lexer::ia: the bytes it has, and whether any may follow
    ignore_comments, \* lexer::ignore_comments
    text,            \* every byte read from the adapter, EOF included
    current,         \* lexer::current
    next_unget,      \* lexer::next_unget
    position,        \* lexer::position
    token_buffer,    \* lexer::token_buffer
    label,           \* where the scanner is, "token" between two calls of scan()
    detail,          \* its locals there
    token,           \* what scan() returned last
    called,          \* how many bytes the calls of scan() before took
    start,           \* index in text of the first byte of the token
    scans            \* the calls of scan() so far

lexer == <<ia, ignore_comments, text, current, next_unget, position, token_buffer,
           label, detail, token, called, start, scans>>

EOF == -1
LF == 10
CR == 13
Quote == 34
Slash == 47
Star == 42
Backslash == 92
Whitespace == {32, 9, LF, CR}
Digits == 48..57

Open == [bytes |-> << >>, open |-> TRUE]

\* A parser is constructed over the adapter and asks for its first token.
LexerInit ==
    /\ ignore_comments \in BOOLEAN
    /\ text = << >>
    /\ current = EOF
    /\ next_unget = FALSE
    /\ position = [chars_read_total |-> 0, chars_read_current_line |-> 0, lines_read |-> 0]
    /\ token_buffer = << >>
    /\ label = "bom"
    /\ detail = << >>
    /\ token = "uninitialized"
    /\ called = 0
    /\ start = 0
    /\ scans = 1

-----------------------------------------------------------------------------
(* Input management.                                                       *)

\* A newline starts a line.
Advance(p, b) ==
    [chars_read_total |-> p.chars_read_total + 1,
     chars_read_current_line |-> IF b = LF THEN 0 ELSE p.chars_read_current_line + 1,
     lines_read |-> p.lines_read + (IF b = LF THEN 1 ELSE 0)]

\* A newline is taken back too, but the column before it is not known.
Retreat(p) ==
    [chars_read_total |-> p.chars_read_total - 1,
     chars_read_current_line |-> IF p.chars_read_current_line = 0 THEN 0
                                 ELSE p.chars_read_current_line - 1,
     lines_read |-> IF p.chars_read_current_line = 0 /\ p.lines_read > 0
                    THEN p.lines_read - 1 ELSE p.lines_read]

\* The bytes taken for good.
Taken == Len(text) - (IF next_unget THEN 1 ELSE 0)

\* get(): the character that was put back, or the next one of the adapter.
get(b) ==
    /\ IF next_unget THEN b = current /\ text' = text
                     ELSE text' = Append(text, b)
    /\ current' = b
    /\ start' = IF label = "start" THEN Len(text') ELSE start
    /\ UNCHANGED <<ia, ignore_comments, called, scans>>

\* The scanner takes b and goes on at l with the locals d and the buffer.
Goto(b, l, d, buffer) ==
    /\ get(b)
    /\ next_unget' = FALSE
    /\ position' = Advance(position, b)
    /\ label' = l
    /\ detail' = d
    /\ token_buffer' = buffer
    /\ UNCHANGED token

Skip(b, l) == Goto(b, l, << >>, token_buffer)
Add(b, l, d) == Goto(b, l, d, Append(token_buffer, b))

\* unget(): the scanner goes on at l with b put back.
Unget(b, l) ==
    /\ get(b)
    /\ next_unget' = TRUE
    /\ position' = Retreat(Advance(position, b))
    /\ label' = l
    /\ detail' = << >>
    /\ UNCHANGED token_buffer

\* scan() returns t after b.
Return(b, t) ==
    /\ get(b)
    /\ next_unget' = FALSE
    /\ position' = Advance(position, b)
    /\ label' = "token"
    /\ detail' = << >>
    /\ token' = t
    /\ UNCHANGED token_buffer

-----------------------------------------------------------------------------
(* The byte order mark, comments and literals.                             *)

\* The first byte is put back unless it begins the mark.
skip_bom(b) ==
    \/ label = "bom" /\ b = 239 /\ Skip(b, "bom2")
    \/ label = "bom" /\ b # 239 /\ Unget(b, "start") /\ UNCHANGED token
    \/ label = "bom2" /\ b = 187 /\ Skip(b, "bom3")
    \/ label = "bom3" /\ b = 191 /\ Skip(b, "start")
    \/ label = "bom2" /\ b # 187 /\ Return(b, "parse_error")
    \/ label = "bom3" /\ b # 191 /\ Return(b, "parse_error")

\* unget() after an asterisk that does not end the comment.
AfterStar(b) == Unget(b, "block_comment") /\ UNCHANGED token

scan_comment(b) ==
    \/ /\ label = "comment"
       /\ CASE b = Slash -> Skip(b, "line_comment")
            [] b = Star -> Skip(b, "block_comment")
            [] OTHER -> Return(b, "parse_error")
    \/ /\ label = "line_comment"
       /\ Skip(b, IF b \in {LF, CR, EOF, 0} THEN "start" ELSE label)
    \/ /\ label = "block_comment"
       /\ IF b \in {EOF, 0} THEN Return(b, "parse_error")
          ELSE Skip(b, IF b = Star THEN "block_star" ELSE label)
    \/ label = "block_star" /\ b = Slash /\ Skip(b, "start")
    \/ label = "block_star" /\ b # Slash /\ AfterStar(b)

\* true, false and null by their first byte, and the tokens they are.
Literals == [b \in {116, 102, 110} |->
    CASE b = 116 -> <<"literal_true", <<114, 117, 101>> >>
      [] b = 102 -> <<"literal_false", <<97, 108, 115, 101>> >>
      [] b = 110 -> <<"literal_null", <<117, 108, 108>> >>]

\* detail is the token and the rest of literal_text.
scan_literal(b) ==
    /\ label = "literal"
    /\ IF b # Head(detail[2]) THEN Return(b, "parse_error")
       ELSE IF Len(detail[2]) = 1 THEN Return(b, detail[1])
       ELSE Goto(b, label, <<detail[1], Tail(detail[2])>>, token_buffer)

-----------------------------------------------------------------------------
(* Numbers; detail is number_type.                                         *)

Dot == 46
Exponent == {69, 101}
Sign == {43, 45}

DigitsValue(ds) == FoldLeft(LAMBDA n, d : 10 * n + (d - 48), 0, ds)

\* scan_number_done: where strtoull or strtoll fails the number becomes a float.
Convert(number_type, buffer) ==
    CASE number_type = "value_unsigned" /\ DigitsValue(buffer) <= MaxUnsigned ->
            "value_unsigned"
      [] number_type = "value_integer" /\ DigitsValue(Tail(buffer)) <= MaxInteger + 1 ->
            "value_integer"
      [] OTHER -> "value_float"

\* The column "1-9" of the table of scan_number; after a zero the number is done.
AfterDigit == [minus |-> "any1", any1 |-> "any1", decimal1 |-> "decimal2",
    decimal2 |-> "decimal2", exponent |-> "any2", sign |-> "any2", any2 |-> "any2"]

\* The automaton of scan_number, a label for each of its states.
Finished(b) == Unget(b, "token") /\ token' = Convert(detail, token_buffer)

integer_part(b) ==
    /\ label \in {"minus", "zero", "any1"}
    /\ IF b = 48 /\ label = "minus" THEN Add(b, "zero", detail)
       ELSE IF b \in Digits /\ label \in DOMAIN AfterDigit THEN Add(b, AfterDigit[label], detail)
       ELSE IF label = "minus" THEN Return(b, "parse_error")
       ELSE IF b = Dot THEN Add(b, "decimal1", "value_float")
       ELSE IF b \in Exponent THEN Add(b, "exponent", "value_float")
       ELSE Finished(b)

fraction_part(b) ==
    /\ label \in {"decimal1", "decimal2"}
    /\ IF b \in Digits THEN Add(b, AfterDigit[label], detail)
       ELSE IF label = "decimal1" THEN Return(b, "parse_error")
       ELSE IF b \in Exponent THEN Add(b, "exponent", "value_float")
       ELSE Finished(b)

exponent_part(b) ==
    /\ label \in {"exponent", "sign", "any2"}
    /\ IF b \in Digits THEN Add(b, AfterDigit[label], detail)
       ELSE IF b \in Sign /\ label = "exponent" THEN Add(b, "sign", detail)
       ELSE IF label # "any2" THEN Return(b, "parse_error")
       ELSE Finished(b)

scan_number(b) == integer_part(b) \/ fraction_part(b) \/ exponent_part(b)

-----------------------------------------------------------------------------
(* Strings.                                                                *)

Escapes == [b \in {Quote, Backslash, Slash, 98, 102, 110, 114, 116} |->
    CASE b = 98 -> 8 [] b = 102 -> 12 [] b = 110 -> LF [] b = 114 -> CR [] b = 116 -> 9
      [] OTHER -> b]

HexValue(b) == CASE b \in 48..57 -> b - 48
                 [] b \in 65..70 -> b - 55
                 [] b \in 97..102 -> b - 87

IsHex(b) == b \in (48..57) \cup (65..70) \cup (97..102)

\* The UTF-8 bytes of a code point.
Encode(c) ==
    CASE c < 128 -> <<c>>
      [] 128 <= c /\ c <= 2047 -> <<192 + c \div 64, 128 + (c % 64)>>
      [] 2048 <= c /\ c <= 65535 ->
            <<224 + c \div 4096, 128 + ((c \div 64) % 64), 128 + (c % 64)>>
      [] OTHER -> <<240 + c \div 262144, 128 + ((c \div 4096) % 64),
                    128 + ((c \div 64) % 64), 128 + (c % 64)>>

IsHigh(c) == 55296 <= c /\ c <= 56319 \* D800..DBFF
IsLow(c) == 56320 <= c /\ c <= 57343  \* DC00..DFFF

\* The four hex digits after \u.  detail has the digits to come, the code point
\* so far, and the high surrogate before it or 0.
get_codepoint(b) ==
    /\ label = "hex"
    /\ LET left == detail[1]
           c == 16 * detail[2] + HexValue(b)
           high == detail[3]
       IN IF ~IsHex(b) THEN Return(b, "parse_error")
          ELSE IF left > 1 THEN Goto(b, label, <<left - 1, c, high>>, token_buffer)
          ELSE IF high # 0 /\ IsLow(c)
               THEN Goto(b, "string", << >>, token_buffer \o Encode(high * 1024 + c - 56613888))
          ELSE IF high = 0 /\ IsHigh(c) THEN Goto(b, "pair", <<c>>, token_buffer)
          ELSE IF high # 0 \/ IsLow(c) THEN Return(b, "parse_error")
          ELSE Goto(b, "string", << >>, token_buffer \o Encode(c))

\* Faulty variant: surrogates are not told apart after ED.
Continuations_Surrogates(b) ==
    CASE b \in 194..223 -> << <<128, 191>> >>
      [] b = 224 -> << <<160, 191>>, <<128, 191>> >>
      [] b \in 225..239 -> << <<128, 191>>, <<128, 191>> >>
      [] b = 240 -> << <<144, 191>>, <<128, 191>>, <<128, 191>> >>
      [] b \in 241..243 -> << <<128, 191>>, <<128, 191>>, <<128, 191>> >>
      [] b = 244 -> << <<128, 143>>, <<128, 191>>, <<128, 191>> >>
      [] OTHER -> << >>

\* The ranges passed to next_byte_in_range after a lead byte.
Continuations(b) ==
    CASE b \in 194..223 -> << <<128, 191>> >>
      [] b = 224 -> << <<160, 191>>, <<128, 191>> >>
      [] b \in 225..236 \cup 238..239 -> << <<128, 191>>, <<128, 191>> >>
      [] b = 237 -> << <<128, 159>>, <<128, 191>> >>
      [] b = 240 -> << <<144, 191>>, <<128, 191>>, <<128, 191>> >>
      [] b \in 241..243 -> << <<128, 191>>, <<128, 191>>, <<128, 191>> >>
      [] b = 244 -> << <<128, 143>>, <<128, 191>>, <<128, 191>> >>
      [] OTHER -> << >>

\* detail is the ranges of the bytes to come.
next_byte_in_range(b) ==
    /\ label = "utf8"
    /\ IF b \notin detail[1][1]..detail[1][2] THEN Return(b, "parse_error")
       ELSE IF Len(detail) = 1 THEN Add(b, "string", << >>)
       ELSE Add(b, label, Tail(detail))

\* A control character has to be written as an escape.
Controls == 0..31

\* Taken as they are.
Plain == 32..127 \ {Quote, Backslash}

scan_string(b) ==
    \/ /\ label = "string"
       /\ CASE b = Quote -> Return(b, "value_string")
            [] b = Backslash -> Skip(b, "escape")
            [] b \in Controls -> Return(b, "parse_error")
            [] b \in Plain -> Add(b, label, << >>)
            [] Continuations(b) # << >> -> Add(b, "utf8", Continuations(b))
            [] OTHER -> Return(b, "parse_error") \* the end, or ill-formed
    \/ /\ label = "escape"
       /\ CASE b \in DOMAIN Escapes ->
                 Goto(b, "string", << >>, Append(token_buffer, Escapes[b]))
            [] b = 117 -> Goto(b, "hex", <<4, 0, 0>>, token_buffer)
            [] OTHER -> Return(b, "parse_error")
    \/ /\ label = "pair" \* the backslash of the low surrogate, then its u
       /\ IF b = Backslash THEN Goto(b, "pair_u", detail, token_buffer)
          ELSE Return(b, "parse_error")
    \/ /\ label = "pair_u"
       /\ IF b = 117 THEN Goto(b, "hex", <<4, 0, detail[1]>>, token_buffer)
          ELSE Return(b, "parse_error")

-----------------------------------------------------------------------------
(* scan().                                                                 *)

Structural == [b \in {91, 93, 123, 125, 58, 44} |->
    CASE b = 91 -> "begin_array" [] b = 93 -> "end_array"
      [] b = 123 -> "begin_object" [] b = 125 -> "end_object"
      [] b = 58 -> "name_separator" [] b = 44 -> "value_separator"]

\* Whitespace is skipped, and the first other character says what the token is.
\* A string and a number reset token_buffer.
scan(b) ==
    /\ label = "start"
    /\ CASE b \in Whitespace -> Skip(b, label)
         [] b = Slash /\ ignore_comments -> Skip(b, "comment")
         [] b \in DOMAIN Structural -> Return(b, Structural[b])
         [] b \in DOMAIN Literals -> Goto(b, "literal", Literals[b], token_buffer)
         [] b = Quote -> Goto(b, "string", << >>, << >>)
         [] b = 45 -> Goto(b, "minus", "value_integer", <<b>>)
         [] b = 48 -> Goto(b, "zero", "value_unsigned", <<b>>)
         [] b \in Digits \ {48} -> Goto(b, "any1", "value_unsigned", <<b>>)
         [] b \in {0, EOF} -> Return(b, "end_of_input")
         [] OTHER -> Return(b, "parse_error")

\* The parser asks for the next token; after an error or the end it does not.
NextScan ==
    /\ label = "token"
    /\ token \notin {"parse_error", "end_of_input"}
    /\ scans < MaxTokens
    /\ scans' = scans + 1
    /\ called' = Taken
    /\ label' = "start"
    /\ UNCHANGED <<ia, ignore_comments, text, current, next_unget, position,
                   token_buffer, detail, token, start>>

Consume(b) ==
    \/ skip_bom(b) \/ scan_comment(b) \/ scan(b) \/ scan_literal(b)
    \/ scan_number(b) \/ scan_string(b) \/ get_codepoint(b) \/ next_byte_in_range(b)

\* The next byte: an adapter that has reached its end stays there.
Arriving ==
    CASE next_unget -> {current}
      [] ~next_unget /\ EOF \in Range(text) -> {EOF}
      [] ~next_unget /\ EOF \notin Range(text) /\ Len(text) < Len(ia.bytes) ->
            {ia.bytes[Len(text) + 1]}
      [] OTHER -> IF ia.open THEN Inputs(label, detail, text) ELSE {EOF}

get_token ==
    \/ NextScan
    \/ label # "token" /\ \E b \in Arriving : Consume(b)

-----------------------------------------------------------------------------
(* What RFC 3629 calls UTF-8.                                              *)

\* The code point that the bytes of s from a to b stand for.
CodePoint(s, a, b) ==
    CASE b = a -> s[a]
      [] b = a + 1 -> (s[a] - 192) * 64 + (s[b] - 128)
      [] b = a + 2 -> (s[a] - 224) * 4096 + (s[a + 1] - 128) * 64 + (s[b] - 128)
      [] b = a + 3 -> (s[a] - 240) * 262144 + (s[a + 1] - 128) * 4096
                      + (s[a + 2] - 128) * 64 + (s[b] - 128)

\* They are the shortest encoding of a code point that is no surrogate.
IsCharacter(s, a, b) ==
    /\ \A i \in (a + 1)..b : s[i] \in 128..191
    /\ \/ b = a /\ s[a] \in 0..127
       \/ b = a + 1 /\ s[a] \in 192..223 /\ CodePoint(s, a, b) >= 128
       \/ b = a + 2 /\ s[a] \in 224..239 /\ CodePoint(s, a, b) >= 2048
          /\ ~IsHigh(CodePoint(s, a, b)) /\ ~IsLow(CodePoint(s, a, b))
       \/ b = a + 3 /\ s[a] \in 240..247 /\ CodePoint(s, a, b) >= 65536
          /\ CodePoint(s, a, b) <= 1114111

\* Every byte belongs to a character.  No two characters overlap: the first byte
\* of one is never a later byte of another, and says how long it is.
WellFormed(s) ==
    \A i \in DOMAIN s : \E a, b \in DOMAIN s : a <= i /\ i <= b /\ IsCharacter(s, a, b)

-----------------------------------------------------------------------------
(* What RFC 8259 calls a number, and what may stand between two tokens.  The *)
(* bytes are those of s from a to b.                                       *)

AllDigits(s, a, b) == a <= b /\ \A i \in a..b : s[i] \in Digits
IsInt(s, a, b) == AllDigits(s, a, b) /\ (a < b => s[a] # 48)
IsFrac(s, a, b) == a > b \/ (s[a] = Dot /\ AllDigits(s, a + 1, b))
IsExp(s, a, b) ==
    \/ a > b
    \/ s[a] \in Exponent /\ AllDigits(s, a + 1, b)
    \/ s[a] \in Exponent /\ a < b /\ s[a + 1] \in Sign /\ AllDigits(s, a + 2, b)

Unsigned(s, a) == IF s[a] = 45 THEN a + 1 ELSE a

\* number = [ minus ] int [ frac ] [ exp ]
IsNumber(s, a, b) ==
    \E i, j \in Unsigned(s, a)..(b + 1) :
        /\ i <= j
        /\ IsInt(s, Unsigned(s, a), i - 1)
        /\ IsFrac(s, i, j - 1)
        /\ IsExp(s, j, b)

\* They are a number, or become one with a digit.
BeginsNumber(s, a, b) ==
    IsNumber(s, a, b) \/ IsNumber(Append(SubSeq(s, 1, b), 48), a, b + 1)

LineEnds == {LF, CR, 0, EOF}

\* A comment goes to the end of the line or of the input, or to the first asterisk
\* before a slash.
IsComment(s, a, b) ==
    /\ a + 2 <= b /\ s[a] = Slash
    /\ \/ /\ s[a + 1] = Slash /\ s[b] \in LineEnds
          /\ \A i \in (a + 2)..(b - 1) : s[i] \notin LineEnds
       \/ /\ s[a + 1] = Star /\ a + 3 <= b /\ s[b - 1] = Star /\ s[b] = Slash
          /\ \A i \in (a + 3)..(b - 1) : ~(s[i - 1] = Star /\ s[i] = Slash)

IsSpace(s, comments, a, b) ==
    \/ a = b /\ s[b] \in Whitespace
    \/ comments /\ IsComment(s, a, b)

\* Whitespace and comments, each of which ends where the next one begins.
IsBlank(s, comments, a, b) ==
    \E ends \in SUBSET (a..b) :
        /\ a <= b => b \in ends
        /\ \A e \in ends : \E d \in ends \cup {a - 1} : d < e /\ IsSpace(s, comments, d + 1, e)

-----------------------------------------------------------------------------
(* Properties.                                                             *)

\* position, which every error message shows, counts the characters, the lines
\* and the characters of the last line through every put back character; only
\* the column is lost when that character was a newline.
PositionTracks ==
    LET lines == {i \in 1..Taken : text[i] = LF}
    IN /\ position.chars_read_total = Taken
       /\ position.lines_read = Cardinality(lines)
       /\ \/ \E last \in lines \cup {0} :
                /\ \A i \in lines : i <= last
                /\ position.chars_read_current_line = Taken - last
          \/ next_unget /\ current = LF /\ position.chars_read_current_line = 0

\* Every string that scan() returns is well-formed UTF-8, whatever bytes the text
\* has and whatever they escape (json.hpp:8205).
StringsWellFormed == label = "token" /\ token = "value_string" => WellFormed(token_buffer)

\* A number token is the longest number the text has there, with the type that the grammar
\* and the range give it; a number is refused at the first byte after which none is
\* possible.
NumbersScanned ==
    label = "token" /\ start > 0 /\ text[start] \in Digits \cup {45} =>
        IF token = "parse_error"
        THEN ~BeginsNumber(text, start, Taken) /\ BeginsNumber(text, start, Taken - 1)
        ELSE /\ next_unget
             /\ IsNumber(text, start, Taken) /\ ~BeginsNumber(text, start, Taken + 1)
             /\ token_buffer = SubSeq(text, start, Taken)
             /\ token = CASE AllDigits(text, start, Taken)
                             /\ DigitsValue(token_buffer) <= MaxUnsigned -> "value_unsigned"
                          [] text[start] = 45 /\ AllDigits(text, start + 1, Taken)
                             /\ DigitsValue(Tail(token_buffer)) <= MaxInteger + 1 -> "value_integer"
                          [] OTHER -> "value_float"

\* The first byte behind the token before, or behind the byte order mark.
Origin == IF called = 0 /\ text[1] = 239 THEN 4 ELSE called + 1

\* Between two tokens there is nothing but whitespace and, when they are ignored,
\* comments; a comment is refused only when it has no end.
OnlyBlankSkipped ==
    label = "token" /\ start > 0 =>
        /\ IsBlank(text, ignore_comments, Origin, start - 1)
        /\ ignore_comments /\ text[start] = Slash =>
              ~\E n \in start..Taken : IsBlank(text, ignore_comments, start, n)

\* What scan() hands the parser is what the text has at that place: the longest number, a
\* string that is UTF-8, nothing skipped but blanks, and a position that counts right; a
\* number or a comment is refused at the first byte that makes it impossible
\* (json.hpp:8881).
TokensScanned ==
    PositionTracks /\ StringsWellFormed /\ NumbersScanned /\ OnlyBlankSkipped
=============================================================================
