--------------------------- MODULE JsonSerializer ---------------------------
(***************************************************************************)
(* serializer::dump of json.hpp for strings and numbers, composed with the *)
(* lexer: what is written is then scanned, as when one program parses what *)
(* another has dumped.  A string is escaped byte by byte, one action for   *)
(* each turn of the loop in dump_escaped.                                  *)
(*                                                                         *)
(* string_buffer has BufferSize bytes, 512 in the code.  Grisu2, which     *)
(* finds the digits of a float, is left out: a float is its decimal        *)
(* digits, its exponent and its sign.                                      *)
(***************************************************************************)
EXTENDS JsonLexer

CONSTANTS
    Strings,       \* the strings that are dumped, as their bytes
    Numbers,       \* the integers
    Floats,        \* the floats: [finite, neg, digits, exponent]
    BufferSize,    \* the size of string_buffer
    MinExp, MaxExp \* kMinExp and kMaxExp of to_chars

\* "There must be 13 bytes left."
ASSUME BufferAssumption == BufferSize \in Nat /\ BufferSize >= 16
ASSUME StringsAssumption == Strings \subseteq Seq(0..255)
ASSUME ExpAssumption == MinExp \in Int /\ MinExp < 0 /\ MaxExp \in Nat \ {0}

VARIABLES
    phase,           \* "dump", "scan", or "thrown" by the serializer
    kind,            \* what is scanned: "text", or the dump of a "string", "integer", "float"
    val,             \* the value that is dumped
    error_handler,   \* serializer::error_handler
    ensure_ascii,
    index,               \* the loop variable of dump_escaped
    state,           \* the state of decode
    codepoint,
    string_buffer,   \* what it holds: bytes is its length
    bytes_after_last_accept,
    undumped_chars,
    written,         \* how far string_buffer was ever written
    o                \* serializer::o, the output

dumper == <<kind, val, error_handler, ensure_ascii, index, state, codepoint, string_buffer,
            bytes_after_last_accept, undumped_chars, written, o>>
vars == <<lexer, phase, dumper>>

-----------------------------------------------------------------------------
(* Numbers.                                                                *)

Digit(n) == 48 + n

count_digits[x \in Nat] ==
    CASE x < 10 -> 1 [] x \in 10..99 -> 2 [] x \in 100..999 -> 3 [] x \in 1000..9999 -> 4
      [] OTHER -> 4 + count_digits[x \div 10000]

\* -(x + 1) + 1 in unsigned arithmetic: the smallest integer has no negation.
remove_sign(x) == -(x + 1) + 1

\* The loop of dump_integer fills n places from the back, two digits at a time.
FillDigits[x \in Nat, n \in Int] ==
    CASE x >= 100 -> FillDigits[x \div 100, n - 2]
                     \o <<Digit((x % 100) \div 10), Digit(x % 10)>>
      [] x \in 10..99 -> [p \in 1..(n - 2) |-> 0] \o <<Digit(x \div 10), Digit(x % 10)>>
      [] OTHER -> [p \in 1..(n - 1) |-> 0] \o <<Digit(x)>>

dump_integer(x) ==
    CASE x = 0 -> <<Digit(0)>>
      [] x < 0 -> <<45>> \o FillDigits[remove_sign(x), count_digits[remove_sign(x)]]
      [] OTHER -> FillDigits[x, count_digits[x]]

Zeros(n) == [p \in 1..n |-> Digit(0)]

\* At least two digits.
append_exponent(e) ==
    LET k == IF e < 0 THEN -e ELSE e
    IN <<IF e < 0 THEN 45 ELSE 43>>
       \o CASE k < 10 -> <<Digit(0), Digit(k)>>
            [] k \in 10..99 -> <<Digit(k \div 10), Digit(k % 10)>>
            [] OTHER -> <<Digit(k \div 100), Digit((k % 100) \div 10), Digit(k % 10)>>

\* "Make it look like a floating-point number."
LookLikeFloat == <<Dot, Digit(0)>>

\* buf * 10^decimal_exponent: fixed-point between 10^MinExp and 10^MaxExp.
format_buffer(buf, decimal_exponent) ==
    LET k == Len(buf)
        n == k + decimal_exponent
    IN CASE k <= n /\ n <= MaxExp -> buf \o Zeros(n - k) \o LookLikeFloat
         [] 0 < n /\ n <= MaxExp /\ n < k -> SubSeq(buf, 1, n) \o <<Dot>> \o SubSeq(buf, n + 1, k)
         [] MinExp < n /\ n <= 0 -> <<Digit(0), Dot>> \o Zeros(-n) \o buf
         [] OTHER -> <<buf[1]>> \o (IF k = 1 THEN << >> ELSE <<Dot>> \o Tail(buf))
                     \o <<101>> \o append_exponent(n - 1)

\* to_chars; a float that is not finite is dumped as null.
dump_float(x) ==
    CASE ~x.finite -> <<110, 117, 108, 108>>
      [] x.finite -> (IF x.neg THEN <<45>> ELSE << >>)
                  \o IF x.digits = <<Digit(0)>> THEN <<Digit(0)>> \o LookLikeFloat
                     ELSE format_buffer(x.digits, x.exponent)

-----------------------------------------------------------------------------
(* The decoder of UTF-8.                                                   *)

ACCEPT == 0
REJECT == 1

\* The first 256 entries of utf8d.
ByteType(b) ==
    CASE b < 128 -> 0 [] b \in 128..143 -> 1 [] b \in 144..159 -> 9 [] b \in 160..191 -> 7
      [] b \in 192..193 -> 8 [] b \in 194..223 -> 2 [] b = 224 -> 10 [] b = 237 -> 4
      [] b \in 225..239 \ {237} -> 3 [] b = 240 -> 11 [] b \in 241..243 -> 6 [] b = 244 -> 5
      [] OTHER -> 8

\* Faulty variant: after F4 any continuation byte is taken.
NextState_PastLast(st, t) ==
    CASE st = ACCEPT -> <<0, 1, 2, 3, 5, 8, 7, 1, 1, 1, 4, 6>>[t + 1]
      [] st = 2 /\ t \in {1, 7, 9} -> ACCEPT
      [] st = 3 /\ t \in {1, 7, 9} -> 2
      [] st = 4 /\ t = 7 -> 2
      [] st = 5 /\ t \in {1, 9} -> 2
      [] st = 6 /\ t \in {7, 9} -> 3
      [] st \in {7, 8} /\ t \in {1, 7, 9} -> 3
      [] OTHER -> REJECT

\* Its other entries, a row of types for each state.
NextState(st, t) ==
    CASE st = ACCEPT -> <<0, 1, 2, 3, 5, 8, 7, 1, 1, 1, 4, 6>>[t + 1]
      [] st = 2 /\ t \in {1, 7, 9} -> ACCEPT
      [] st = 3 /\ t \in {1, 7, 9} -> 2
      [] st = 4 /\ t = 7 -> 2
      [] st = 5 /\ t \in {1, 9} -> 2
      [] st = 6 /\ t \in {7, 9} -> 3
      [] st = 7 /\ t \in {1, 7, 9} -> 3
      [] st = 8 /\ t = 1 -> 3
      [] OTHER -> REJECT

\* The bits of a first byte that belong to the code point.
FirstBits(b) == IF ByteType(b) > 8 THEN 0 ELSE b % 2^(8 - ByteType(b))

\* The code point: those bits, or six more.
DecodePoint(b) == IF state = ACCEPT THEN FirstBits(b) ELSE codepoint * 64 + (b % 64)

-----------------------------------------------------------------------------
(* dump_escaped.                                                           *)

HexDigit(n) == IF n < 10 THEN 48 + n ELSE 87 + n
HexEscape(c) == <<Backslash, 117, HexDigit(c \div 4096), HexDigit((c \div 256) % 16),
                  HexDigit((c \div 16) % 16), HexDigit(c % 16)>>

ShortEscapes == [c \in {8, 9, LF, 12, CR, Quote, Backslash} |->
    CASE c = 8 -> 98 [] c = 9 -> 116 [] c = LF -> 110 [] c = 12 -> 102 [] c = CR -> 114
      [] OTHER -> c]

\* What is written for the code point c, and whether snprintf ends it with NUL.
\* Without an escape only the last byte is: the others were copied before.
Escaped(c, b) ==
    IF c \in DOMAIN ShortEscapes THEN [bytes |-> <<Backslash, ShortEscapes[c]>>, nul |-> 0]
    ELSE IF c <= 31 \/ (ensure_ascii /\ 127 <= c)
         THEN [bytes |-> IF c <= 65535 THEN HexEscape(c)
                         ELSE HexEscape(55232 + (c \div 1024)) \o HexEscape(56320 + (c % 1024)),
               nul |-> 1]
    ELSE [bytes |-> <<b>>, nul |-> 0]

\* Faulty variant: room for one \u escape only is kept.
Flush_Late(buffer) == BufferSize - Len(buffer) < 7

\* The buffer is written out when fewer than 13 bytes are left.
Flush(buffer) == BufferSize - Len(buffer) < 13

Replacement == IF ensure_ascii THEN HexEscape(65533) ELSE Encode(65533)

Largest(a, b) == IF a < b THEN b ELSE a

\* A code point is complete, or a replacement was added: buffer is what
\* string_buffer now holds.
Accepted(buffer, nul) ==
    /\ o' = IF Flush(buffer) THEN o \o buffer ELSE o
    /\ string_buffer' = IF Flush(buffer) THEN << >> ELSE buffer
    /\ bytes_after_last_accept' = IF Flush(buffer) THEN 0 ELSE Len(buffer)
    /\ written' = Largest(written, Len(buffer) + nul)
    /\ undumped_chars' = 0

\* undumped_chars after a byte was rejected.
Rewind == 0

\* One turn of the loop over the bytes of the string.
DumpByte ==
    /\ phase = "dump"
    /\ index <= Len(val)
    /\ LET b == val[index]
           next == NextState(state, ByteType(b))
           c == DecodePoint(b)
           kept == SubSeq(string_buffer, 1, bytes_after_last_accept)
       IN /\ codepoint' = c
          /\ state' = IF next = REJECT THEN ACCEPT ELSE next
          /\ CASE next = ACCEPT ->
                    /\ Accepted(string_buffer \o Escaped(c, b).bytes, Escaped(c, b).nul)
                    /\ index' = index + 1
                    /\ UNCHANGED phase
               [] next = REJECT /\ error_handler = "strict" ->
                    /\ phase' = "thrown"
                    /\ UNCHANGED <<index, string_buffer, bytes_after_last_accept, undumped_chars,
                                   written, o>>
               [] next = REJECT /\ error_handler = "ignore" ->
                    /\ string_buffer' = kept
                    /\ index' = IF undumped_chars > 0 THEN index ELSE index + 1
                    /\ undumped_chars' = Rewind
                    /\ UNCHANGED <<phase, bytes_after_last_accept, written, o>>
               [] next = REJECT /\ error_handler = "replace" ->
                    /\ Accepted(kept \o Replacement, 0)
                    /\ index' = IF undumped_chars > 0 THEN index ELSE index + 1
                    /\ UNCHANGED phase
               [] OTHER ->
                    /\ string_buffer' = IF ensure_ascii THEN string_buffer
                                        ELSE Append(string_buffer, b)
                    /\ written' = Largest(written, Len(string_buffer'))
                    /\ undumped_chars' = undumped_chars + 1
                    /\ index' = index + 1
                    /\ UNCHANGED <<phase, bytes_after_last_accept, o>>
    /\ UNCHANGED <<lexer, kind, val, error_handler, ensure_ascii>>

\* The string is finished: what is left of the buffer is written, and the
\* output with its quotes becomes the input of a lexer.
DumpEnds ==
    /\ phase = "dump"
    /\ index > Len(val)
    /\ IF state # ACCEPT /\ error_handler = "strict"
       THEN phase' = "thrown" /\ UNCHANGED <<o, ia>>
       ELSE /\ phase' = "scan"
            /\ LET kept == SubSeq(string_buffer, 1, bytes_after_last_accept)
               IN o' = o \o IF state = ACCEPT THEN string_buffer
                            ELSE IF error_handler = "ignore" THEN kept
                            ELSE kept \o Replacement
            /\ ia' = [bytes |-> <<Quote>> \o o' \o <<Quote>>, open |-> FALSE]
    /\ UNCHANGED <<ignore_comments, text, current, next_unget, position, token_buffer, label,
                   detail, token, called, start, scans>>
    /\ UNCHANGED <<kind, val, error_handler, ensure_ascii, index, state, codepoint, string_buffer,
                   bytes_after_last_accept, undumped_chars, written>>

Scan ==
    /\ phase = "scan"
    /\ get_token
    /\ UNCHANGED <<phase, dumper>>

-----------------------------------------------------------------------------
DumperInit(bytes) ==
    /\ index = 1
    /\ state = ACCEPT
    /\ codepoint = 0
    /\ string_buffer = << >>
    /\ bytes_after_last_accept = 0
    /\ undumped_chars = 0
    /\ written = 0
    /\ o = bytes

\* Any text, the dump of a number, or a string that is to be dumped.
Init ==
    /\ LexerInit
    /\ \/ /\ kind = "text" /\ val = << >> /\ DumperInit(<< >>)
          /\ ia = Open
       \/ /\ kind = "integer" /\ val \in Numbers /\ DumperInit(dump_integer(val))
          /\ ia = [bytes |-> o, open |-> FALSE]
       \/ /\ kind = "float" /\ val \in Floats /\ DumperInit(dump_float(val))
          /\ ia = [bytes |-> o, open |-> FALSE]
       \/ /\ kind = "string" /\ val \in Strings /\ DumperInit(<< >>)
          /\ ia = [bytes |-> << >>, open |-> FALSE]
    /\ phase = IF kind = "string" THEN "dump" ELSE "scan"
    /\ error_handler \in IF kind = "string" THEN {"strict", "replace", "ignore"} ELSE {"strict"}
    /\ ensure_ascii \in IF kind = "string" THEN BOOLEAN ELSE {FALSE}
    /\ kind # "text" => ~ignore_comments

Next == DumpByte \/ DumpEnds \/ Scan

Spec == Init /\ [][Next]_vars /\ WF_vars(DumpByte \/ DumpEnds)

-----------------------------------------------------------------------------
(* Properties.                                                             *)

\* string_buffer never overflows, neither by a character copied byte by byte nor
\* by an escape and the NUL that snprintf puts behind it.
BufferHolds == written <= BufferSize

\* A strict dump throws exactly for the strings that are not UTF-8 (json.hpp:18519).
StrictIsExact ==
    kind = "string" =>
        /\ phase = "thrown" => error_handler = "strict" /\ ~WellFormed(val)
        /\ phase = "scan" /\ error_handler = "strict" => WellFormed(val)

\* The text between the quotes has no control character, and with ensure_ascii
\* nothing but ASCII: what is not is written as \u escapes.
PrintableOnly ==
    kind = "string" => \A i \in DOMAIN o : o[i] \in 32..(IF ensure_ascii THEN 126 ELSE 255)

\* A string that is UTF-8 is dumped, by every handler, and scanned back as it was
\* (json.hpp:18399).
WellFormedScansBack ==
    kind = "string" /\ WellFormed(val) =>
        /\ phase # "thrown"
        /\ phase = "scan" /\ label = "token" /\ scans = 1 =>
              token = "value_string" /\ token_buffer = val
=============================================================================
