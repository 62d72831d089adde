--------------------------- MODULE JsonTextProofs ---------------------------
(***************************************************************************)
(* What the serializer promises of every string it dumps: string_buffer    *)
(* never overflows, a strict dump throws exactly for what is not UTF-8,    *)
(* and the output can stand between two quotes.  And what the lexer        *)
(* promises of every text: its strings are well-formed UTF-8, its position *)
(* is the place in the text, its numbers are the longest that the grammar  *)
(* has there, and it skips only blanks.  And what the two promise          *)
(* together: a string that is UTF-8 is read back as it was.                *)
(*                                                                         *)
(* The first three rest on what the decoder's two numbers mean: after      *)
(* every byte state and codepoint tell which bytes of a character have     *)
(* been read, and that these can still become one.  So at most three bytes *)
(* wait in the buffer behind the last complete character, a code point is  *)
(* complete when its character is, and a byte is rejected only where no    *)
(* character goes on.                                                      *)
(*                                                                         *)
(* What a token is rests on what each label of the scanner says of the     *)
(* bytes it has taken: the parts of a number that are complete, and that   *)
(* no other split of the text into these parts reaches as far; a comment   *)
(* that has not ended yet.                                                 *)
(*                                                                         *)
(* The last one rests on a relation between the two texts: the pairs of    *)
(* places where a character begins in the string and in its dump, of which *)
(* each shows the character up to the next pair.  The dumper extends it,   *)
(* and the lexer follows it.                                               *)
(***************************************************************************)
EXTENDS JsonSerializer, SequenceTheorems, FiniteSetTheorems, TLAPS

Byte == 0..255
LastCodePoint == 1114111

Within(b, least, most) == least <= b /\ b <= most
Continuing(b) == Within(b, 128, 191)

\* The second bytes that may follow x, and the third and fourth ones: no character
\* is longer than it need be, a surrogate, or after the last code point.
Second3(x, y) == Continuing(y) /\ (x = 224 => y >= 160) /\ (x = 237 => y <= 159)
Second4(x, y) == Continuing(y) /\ (x = 240 => y >= 144) /\ (x = 244 => y <= 143)

\* x, y, z and w are the n bytes of a character, as far as it has them: what the
\* Unicode standard tabulates as well-formed.
Tabled(n, x, y, z, w) ==
    \/ n = 1 /\ Within(x, 0, 127)
    \/ n = 2 /\ Within(x, 194, 223) /\ Continuing(y)
    \/ n = 3 /\ Within(x, 224, 239) /\ Second3(x, y) /\ Continuing(z)
    \/ n = 4 /\ Within(x, 240, 244) /\ Second4(x, y) /\ Continuing(z) /\ Continuing(w)

\* The decoder is in state st with the code point c after u bytes of a character,
\* of which the first are x, y and z.
Begins(x, y, z, u, st, c) ==
    \/ st = 2 /\ u = 1 /\ Within(x, 194, 223) /\ c = x - 192
    \/ st = 2 /\ u = 2 /\ Within(x, 224, 239) /\ Second3(x, y)
       /\ c = (x - 224) * 64 + (y - 128)
    \/ st = 2 /\ u = 3 /\ Within(x, 240, 244) /\ Second4(x, y) /\ Continuing(z)
       /\ c = (x - 240) * 4096 + (y - 128) * 64 + (z - 128)
    \/ st = 3 /\ u = 1 /\ Within(x, 225, 239) /\ x # 237 /\ c = x - 224
    \/ st = 3 /\ u = 2 /\ Within(x, 240, 244) /\ Second4(x, y)
       /\ c = (x - 240) * 64 + (y - 128)
    \/ st = 4 /\ u = 1 /\ x = 224 /\ c = 0
    \/ st = 5 /\ u = 1 /\ x = 237 /\ c = 13
    \/ st = 6 /\ u = 1 /\ x = 240 /\ c = 0
    \/ st = 7 /\ u = 1 /\ Within(x, 241, 243) /\ c = x - 240
    \/ st = 8 /\ u = 1 /\ x = 244 /\ c = 4

\* The same for the bytes of s from f.
At(s, i) == IF i \in DOMAIN s THEN s[i] ELSE 0
Partial(s, f, u, st, c) ==
    \/ st = ACCEPT /\ u = 0
    \/ Begins(At(s, f), At(s, f + 1), At(s, f + 2), u, st, c)

\* The first byte that belongs to no complete character yet.
Begun == index - undumped_chars

\* Every byte of s before n belongs to a character that ends before n.
WellFormedBefore(s, n) ==
    \A i \in 1..(n - 1) : \E a, b \in 1..(n - 1) : a <= i /\ i <= b /\ IsCharacter(s, a, b)

\* The bytes that can stand between two quotes.
Shown == 32..(IF ensure_ascii THEN 126 ELSE 255)

DumperTypes ==
    /\ val \in Seq(Byte)
    /\ index \in 1..(Len(val) + 1)
    /\ undumped_chars \in 0..(index - 1)
    /\ string_buffer \in Seq(Shown)
    /\ bytes_after_last_accept \in Nat
    /\ error_handler \in {"strict", "ignore", "replace"}
    /\ ensure_ascii \in BOOLEAN

\* The buffer holds complete characters, with room for the longest escape behind
\* them, and the bytes of the one that is being read.
BufferKeepsRoom ==
    /\ Len(string_buffer) = bytes_after_last_accept + (IF ensure_ascii THEN 0 ELSE undumped_chars)
    /\ bytes_after_last_accept + 13 <= BufferSize

Dumping ==
    /\ kind = "string"
    /\ DumperTypes
    /\ BufferKeepsRoom
    /\ Partial(val, Begun, undumped_chars, state, codepoint)
    /\ error_handler = "strict" => WellFormedBefore(val, Begun)

IInv ==
    /\ written \in Nat /\ BufferHolds
    /\ kind = "string" => o \in Seq(Shown)
    /\ StrictIsExact
    /\ phase \in {"dump", "scan", "thrown"}
    /\ phase = "dump" => Dumping

-----------------------------------------------------------------------------
(* The decoder.                                                            *)

\* The bytes of a character.
LEMMA OneByte ==
    ASSUME NEW s, NEW f \in Nat, NEW x \in Int, x = s[f]
    PROVE  IsCharacter(s, f, f) <=> Within(x, 0, 127)
  BY SMT DEF IsCharacter, Within

LEMMA TwoBytes ==
    ASSUME NEW s, NEW f \in Nat, NEW x \in Int, NEW y \in Int, x = s[f], y = s[f + 1]
    PROVE  IsCharacter(s, f, f + 1) <=> Within(x, 194, 223) /\ Continuing(y)
  <1>1. CodePoint(s, f, f + 1) = (x - 192) * 64 + (y - 128)
    BY DEF CodePoint
  <1>2. (f + 1)..(f + 1) = {f + 1}
    OBVIOUS
  <1>3. IsCharacter(s, f, f + 1) <=> /\ Within(x, 192, 223) /\ Continuing(y)
                                     /\ (x - 192) * 64 + (y - 128) >= 128
    BY <1>1, <1>2, SMT DEF IsCharacter, Within, Continuing
  <1> QED
    BY <1>3, SMT DEF Within, Continuing

LEMMA ThreeBytes ==
    ASSUME NEW s, NEW f \in Nat, NEW x \in Int, NEW y \in Int, NEW z \in Int,
           x = s[f], y = s[f + 1], z = s[f + 2]
    PROVE  IsCharacter(s, f, f + 2) <=> Within(x, 224, 239) /\ Second3(x, y) /\ Continuing(z)
  <1> PICK p : p = (x - 224) * 4096 + (y - 128) * 64 + (z - 128)
    OBVIOUS
  <1>1. CodePoint(s, f, f + 2) = p
    BY DEF CodePoint
  <1>2. (\A i \in (f + 1)..(f + 2) : s[i] \in 128..191) <=> Continuing(y) /\ Continuing(z)
    <2>1. (f + 1)..(f + 2) = {f + 1, f + 2}
      OBVIOUS
    <2> QED
      BY <2>1 DEF Within, Continuing
  <1>3. p \in Int /\ (~Within(p, 55296, 57343) <=> ~IsHigh(p) /\ ~IsLow(p))
    BY DEF Within, IsHigh, IsLow
  <1>4. s[f] \in 224..239 <=> Within(x, 224, 239)
    BY DEF Within
  <1>5. f + 2 # f /\ f + 2 # f + 1 /\ f + 2 # f + 3
    OBVIOUS
  <1>6. IsCharacter(s, f, f + 2) <=> /\ Within(x, 224, 239) /\ Continuing(y) /\ Continuing(z)
                                     /\ p >= 2048 /\ ~Within(p, 55296, 57343)
    BY <1>1, <1>2, <1>3, <1>4, <1>5, SMT DEF IsCharacter
  <1> QED
    BY <1>6, SMT DEF Within, Continuing, Second3

LEMMA FourBytes ==
    ASSUME NEW s, NEW f \in Nat, NEW x \in Int, NEW y \in Int, NEW z \in Int, NEW w \in Int,
           x = s[f], y = s[f + 1], z = s[f + 2], w = s[f + 3]
    PROVE  IsCharacter(s, f, f + 3) <=>
               Within(x, 240, 244) /\ Second4(x, y) /\ Continuing(z) /\ Continuing(w)
  <1> PICK p : p = (x - 240) * 262144 + (y - 128) * 4096 + (z - 128) * 64 + (w - 128)
    OBVIOUS
  <1>1. CodePoint(s, f, f + 3) = p
    BY DEF CodePoint
  <1>2. (\A i \in (f + 1)..(f + 3) : s[i] \in 128..191)
           <=> Continuing(y) /\ Continuing(z) /\ Continuing(w)
    <2>1. (f + 1)..(f + 3) = {f + 1, f + 2, f + 3}
      OBVIOUS
    <2> QED
      BY <2>1 DEF Within, Continuing
  <1>3. s[f] \in 240..247 <=> Within(x, 240, 247)
    BY DEF Within
  <1>4. f + 3 # f /\ f + 3 # f + 1 /\ f + 3 # f + 2
    OBVIOUS
  <1>5. IsCharacter(s, f, f + 3) <=>
            /\ Within(x, 240, 247) /\ Continuing(y) /\ Continuing(z) /\ Continuing(w)
            /\ p >= 65536 /\ p <= 1114111
    BY <1>1, <1>2, <1>3, <1>4, SMT DEF IsCharacter
  <1> QED
    BY <1>5, SMT DEF Within, Continuing, Second4

\* The first byte of a character says how many there are, and is no later one.
LEMMA FirstByteSaysLength ==
    ASSUME NEW s, NEW f \in Nat, NEW g \in Nat, IsCharacter(s, f, g)
    PROVE  /\ \/ g = f /\ s[f] \in 0..127
              \/ g = f + 1 /\ s[f] \in 192..223
              \/ g = f + 2 /\ s[f] \in 224..239
              \/ g = f + 3 /\ s[f] \in 240..247
           /\ \A i \in (f + 1)..g : s[i] \in 128..191
  BY DEF IsCharacter

\* utf8d by the bytes themselves.
LEMMA Types ==
    ASSUME NEW b \in Byte, NEW t, t = ByteType(b)
    PROVE  /\ t \in 0..11
           /\ t = 0 <=> b < 128
           /\ t = 1 <=> b \in 128..143
           /\ t = 9 <=> b \in 144..159
           /\ t = 7 <=> b \in 160..191
           /\ t = 2 <=> b \in 194..223
           /\ t = 10 <=> b = 224
           /\ t = 3 <=> b \in 225..239 \ {237}
           /\ t = 4 <=> b = 237
           /\ t = 11 <=> b = 240
           /\ t = 6 <=> b \in 241..243
           /\ t = 5 <=> b = 244
  <1>1. b \in Int /\ 0 <= b /\ b <= 255
    BY DEF Byte
  <1>2. b < 128 => t = 0
    BY <1>1 DEF ByteType
  <1>3. b \in 128..143 => t = 1
    BY <1>1 DEF ByteType
  <1>4. b \in 144..159 => t = 9
    BY <1>1 DEF ByteType
  <1>5. b \in 160..191 => t = 7
    BY <1>1 DEF ByteType
  <1>6. b \in 192..193 => t = 8
    BY <1>1 DEF ByteType
  <1>7. b \in 194..223 => t = 2
    BY <1>1 DEF ByteType
  <1>8. b = 224 => t = 10
    BY <1>1 DEF ByteType
  <1>9. b = 237 => t = 4
    BY <1>1 DEF ByteType
  <1>10. b \in 225..239 \ {237} => t = 3
    BY <1>1 DEF ByteType
  <1>11. b = 240 => t = 11
    BY <1>1 DEF ByteType
  <1>12. b \in 241..243 => t = 6
    BY <1>1 DEF ByteType
  <1>13. b = 244 => t = 5
    BY <1>1 DEF ByteType
  <1>14. b >= 245 => t = 8
    BY <1>1 DEF ByteType
  <1> QED
    BY <1>1, <1>2, <1>3, <1>4, <1>5, <1>6, <1>7, <1>8, <1>9, <1>10, <1>11, <1>12, <1>13, <1>14

\* The first row of the states.
LEMMA FirstTransition ==
    ASSUME NEW b \in Byte, NEW next, next = NextState(ACCEPT, ByteType(b))
    PROVE  /\ next \in 0..8
           /\ next = 0 <=> b < 128
           /\ next = 2 <=> b \in 194..223
           /\ next = 3 <=> b \in 225..239 \ {237}
           /\ next = 4 <=> b = 224
           /\ next = 5 <=> b = 237
           /\ next = 6 <=> b = 240
           /\ next = 7 <=> b \in 241..243
           /\ next = 8 <=> b = 244
  <1> PICK t : t = ByteType(b)
    OBVIOUS
  <1>1. next = <<0, 1, 2, 3, 5, 8, 7, 1, 1, 1, 4, 6>>[t + 1]
    BY DEF NextState, ACCEPT
  <1>2. /\ t \in 0..11
        /\ t = 0 <=> b < 128
        /\ t = 2 <=> b \in 194..223
        /\ t = 10 <=> b = 224
        /\ t = 3 <=> b \in 225..239 \ {237}
        /\ t = 4 <=> b = 237
        /\ t = 11 <=> b = 240
        /\ t = 6 <=> b \in 241..243
        /\ t = 5 <=> b = 244
    BY Types
  <1>3. <<0, 1, 2, 3, 5, 8, 7, 1, 1, 1, 4, 6>>[t + 1] =
           CASE t = 0 -> 0 [] t = 1 -> 1 [] t = 2 -> 2 [] t = 3 -> 3 [] t = 4 -> 5 [] t = 5 -> 8
             [] t = 6 -> 7 [] t = 7 -> 1 [] t = 8 -> 1 [] t = 9 -> 1 [] t = 10 -> 4 [] t = 11 -> 6
    BY <1>2
  <1> QED
    BY <1>1, <1>2, <1>3

\* The other rows.
LEMMA LaterTransition ==
    ASSUME NEW b \in Byte, NEW st \in 2..8, NEW next, next = NextState(st, ByteType(b))
    PROVE  next = IF st = 2 /\ b \in 128..191 THEN 0
                  ELSE IF \/ st = 3 /\ b \in 128..191
                          \/ st = 4 /\ b \in 160..191
                          \/ st = 5 /\ b \in 128..159 THEN 2
                  ELSE IF \/ st = 6 /\ b \in 144..191
                          \/ st = 7 /\ b \in 128..191
                          \/ st = 8 /\ b \in 128..143 THEN 3
                  ELSE 1
  <1> PICK t : t = ByteType(b)
    OBVIOUS
  <1>1. /\ t = 1 <=> b \in 128..143
        /\ t = 9 <=> b \in 144..159
        /\ t = 7 <=> b \in 160..191
    BY Types
  <1>2. next = NextState(st, t)
    OBVIOUS
  <1> QED
    BY <1>1, <1>2 DEF NextState, ACCEPT, REJECT, Byte

\* What a first byte leaves of the code point.
LEMMA FirstPoint ==
    ASSUME NEW b \in Byte, NEW c, c = FirstBits(b)
    PROVE  /\ b < 128 => c = b
           /\ b \in 194..223 => c = b - 192
           /\ b \in {224, 240} => c = 0
           /\ b \in 225..239 => c = b - 224
           /\ b \in 241..244 => c = b - 240
  <1> PICK t : t = ByteType(b)
    OBVIOUS
  <1>1. /\ b < 128 => t = 0
        /\ b \in 194..223 => t = 2
        /\ b = 224 => t = 10
        /\ b \in 225..239 \ {237} => t = 3
        /\ b = 237 => t = 4
        /\ b = 240 => t = 11
        /\ b \in 241..243 => t = 6
        /\ b = 244 => t = 5
    BY Types
  <1>2. c = IF t > 8 THEN 0 ELSE b % 2^(8 - t)
    BY DEF FirstBits
  <1>3. b \in Int /\ 0 <= b /\ b <= 255
    BY DEF Byte
  <1>4. /\ t = 0 => c = b % 256
        /\ t = 2 => c = b % 64
        /\ t = 3 => c = b % 32
        /\ t = 4 => c = b % 16
        /\ t = 5 => c = b % 8
        /\ t = 6 => c = b % 4
    <2>1. t = 0 => c = b % 2^8
      BY <1>2
    <2>2. t = 2 => c = b % 2^6
      BY <1>2
    <2>3. t = 3 => c = b % 2^5
      BY <1>2
    <2>4. t = 4 => c = b % 2^4
      BY <1>2
    <2>5. t = 5 => c = b % 2^3
      BY <1>2
    <2>6. t = 6 => c = b % 2^2
      BY <1>2
    <2>7. 2^8 = 256 /\ 2^6 = 64 /\ 2^5 = 32 /\ 2^4 = 16 /\ 2^3 = 8 /\ 2^2 = 4
      OBVIOUS
    <2> QED
      BY <2>1, <2>2, <2>3, <2>4, <2>5, <2>6, <2>7
  <1>5. b < 128 => c = b
    BY <1>1, <1>3, <1>4
  <1>6. b \in 194..223 => c = b - 192
    BY <1>1, <1>3, <1>4
  <1>7. b \in {224, 240} => c = 0
    BY <1>1, <1>2
  <1>8. b \in 225..239 => c = b - 224
    BY <1>1, <1>3, <1>4
  <1>9. b \in 241..244 => c = b - 240
    BY <1>1, <1>3, <1>4
  <1> QED
    BY <1>5, <1>6, <1>7, <1>8, <1>9

\* Between two characters the byte is one, or begins one, or no character is there.
LEMMA FirstByte ==
    ASSUME NEW b \in Byte, NEW next, next = NextState(ACCEPT, ByteType(b)),
           NEW c, c = FirstBits(b), NEW y, NEW z
    PROVE  /\ next \in 0..8
           /\ next = ACCEPT => b \in 0..127 /\ c = b
           /\ next \in 2..8 => Begins(b, y, z, 1, next, c)
           /\ next = REJECT => b \in 128..193 \/ b >= 245
  <1>1. b \in Int /\ 0 <= b /\ b <= 255
    BY DEF Byte
  <1>2. /\ next \in 0..8
        /\ next = 0 <=> b < 128
        /\ next = 2 <=> b \in 194..223
        /\ next = 3 <=> b \in 225..239 \ {237}
        /\ next = 4 <=> b = 224
        /\ next = 5 <=> b = 237
        /\ next = 6 <=> b = 240
        /\ next = 7 <=> b \in 241..243
        /\ next = 8 <=> b = 244
    BY FirstTransition
  <1>3. /\ b < 128 => c = b
        /\ b \in 194..223 => c = b - 192
        /\ b \in {224, 240} => c = 0
        /\ b \in 225..239 => c = b - 224
        /\ b \in 241..244 => c = b - 240
    BY FirstPoint
  <1>4. next = ACCEPT => b \in 0..127 /\ c = b
    BY <1>1, <1>2, <1>3, SMT DEF ACCEPT
  <1>5. next = REJECT => b \in 128..193 \/ b >= 245
    BY <1>1, <1>2, SMT DEF REJECT
  <1>6. ASSUME next \in 2..8 PROVE Begins(b, y, z, 1, next, c)
    BY <1>1, <1>2, <1>3, <1>6, SMT DEF Begins, Within
  <1> QED
    BY <1>2, <1>4, <1>5, <1>6

\* Within a character the byte is the last one, or the next, or cannot follow.
LEMMA LaterByte ==
    ASSUME NEW x \in Int, NEW y \in Int, NEW z \in Int, NEW u, NEW st, NEW c,
           Begins(x, y, z, u, st, c),
           NEW b \in Byte, u = 1 => y = b, u = 2 => z = b,
           NEW next, next = NextState(st, ByteType(b)),
           NEW d, d = c * 64 + (b % 64)
    PROVE  /\ st \in 2..8 /\ u \in 1..3 /\ next \in 0..3 /\ d \in Int
           /\ next = ACCEPT =>
                 /\ Continuing(b) /\ 128 <= d /\ d <= LastCodePoint
                 /\ \/ u = 1 /\ Within(x, 194, 223)
                    \/ u = 2 /\ Within(x, 224, 239) /\ Second3(x, y)
                    \/ u = 3 /\ Within(x, 240, 244) /\ Second4(x, y) /\ Continuing(z)
           /\ next \in 2..3 => Begins(x, y, z, u + 1, next, d)
           /\ next = REJECT => /\ Within(x, 194, 223) => u = 1 /\ ~Continuing(b)
                               /\ Within(x, 224, 239) => \/ u = 1 /\ ~Second3(x, b)
                                                         \/ u = 2 /\ ~Continuing(b)
                               /\ Within(x, 240, 244) => \/ u = 1 /\ ~Second4(x, b)
                                                         \/ u \in 2..3 /\ ~Continuing(b)
  <1>1. b \in Int /\ 0 <= b /\ b <= 255
    BY DEF Byte
  <1>2. st \in 2..8 /\ u \in 1..3 /\ c \in Int
    BY SMT DEF Begins
  <1>3. next = IF st = 2 /\ b \in 128..191 THEN 0
                  ELSE IF \/ st = 3 /\ b \in 128..191
                          \/ st = 4 /\ b \in 160..191
                          \/ st = 5 /\ b \in 128..159 THEN 2
                  ELSE IF \/ st = 6 /\ b \in 144..191
                          \/ st = 7 /\ b \in 128..191
                          \/ st = 8 /\ b \in 128..143 THEN 3
                  ELSE 1
    BY <1>2, LaterTransition
  <1>4. Continuing(b) => b % 64 = b - 128
    BY <1>1, SMT DEF Continuing, Within
  <1>5. next \in 0..3 /\ d \in Int
    BY <1>1, <1>2, <1>3, SMT
  <1>6. ASSUME next = ACCEPT
        PROVE  /\ Continuing(b) /\ 128 <= d /\ d <= LastCodePoint
               /\ \/ u = 1 /\ Within(x, 194, 223)
                  \/ u = 2 /\ Within(x, 224, 239) /\ Second3(x, y)
                  \/ u = 3 /\ Within(x, 240, 244) /\ Second4(x, y) /\ Continuing(z)
    <2>1. st = 2 /\ Continuing(b)
      BY <1>1, <1>3, <1>6, SMT DEF ACCEPT, Continuing, Within
    <2>2. d = c * 64 + (b - 128)
      BY <1>4, <2>1
    <2> QED
      BY <1>1, <2>1, <2>2, SMT DEF Begins, Continuing, Within, Second3, Second4, LastCodePoint
  <1>7. ASSUME next \in 2..3 PROVE Begins(x, y, z, u + 1, next, d)
    <2>1. Continuing(b) /\ \/ next = 2 /\ st = 3
                           \/ next = 2 /\ st = 4 /\ b >= 160
                           \/ next = 2 /\ st = 5 /\ b <= 159
                           \/ next = 3 /\ st = 6 /\ b >= 144
                           \/ next = 3 /\ st = 7
                           \/ next = 3 /\ st = 8 /\ b <= 143
      BY <1>1, <1>2, <1>3, <1>7, SMT DEF Continuing, Within
    <2>2. d = c * 64 + (b - 128)
      BY <1>4, <2>1
    <2> QED
      BY <1>1, <2>1, <2>2, SMT DEF Begins, Continuing, Within, Second3, Second4
  <1>8. ASSUME next = REJECT
        PROVE  /\ Within(x, 194, 223) => u = 1 /\ ~Continuing(b)
               /\ Within(x, 224, 239) => \/ u = 1 /\ ~Second3(x, b)
                                         \/ u = 2 /\ ~Continuing(b)
               /\ Within(x, 240, 244) => \/ u = 1 /\ ~Second4(x, b)
                                         \/ u \in 2..3 /\ ~Continuing(b)
    <2>1. /\ st \in {2, 3, 7} => ~Continuing(b)
          /\ st = 4 => ~(Continuing(b) /\ b >= 160)
          /\ st = 5 => ~(Continuing(b) /\ b <= 159)
          /\ st = 6 => ~(Continuing(b) /\ b >= 144)
          /\ st = 8 => ~(Continuing(b) /\ b <= 143)
      BY <1>1, <1>2, <1>3, <1>8, SMT DEF Continuing, Within, REJECT
    <2>2. Within(x, 194, 223) => st = 2 /\ u = 1
      BY SMT DEF Begins, Within
    <2>3. Within(x, 224, 239) => \/ u = 1 /\ \/ x = 224 /\ st = 4
                                             \/ x = 237 /\ st = 5
                                             \/ st = 3
                                 \/ u = 2 /\ st = 2
      BY SMT DEF Begins, Within
    <2>4. Within(x, 240, 244) => \/ u = 1 /\ \/ x = 240 /\ st = 6
                                             \/ x = 244 /\ st = 8
                                             \/ st = 7
                                 \/ u \in 2..3 /\ st \in 2..3
      BY SMT DEF Begins, Within
    <2> QED
      BY <1>1, <2>1, <2>2, <2>3, <2>4, SMT DEF Second3, Second4
  <1> QED
    BY <1>2, <1>5, <1>6, <1>7, <1>8

\* b is the next byte after the first u of x, y, z and w, which led to st and c.
Follows(x, y, z, w, u, st, c, b) ==
    /\ x \in Int /\ y \in Int /\ z \in Int /\ w \in Int /\ b \in Byte
    /\ \/ st = ACCEPT /\ u = 0 /\ x = b
       \/ Begins(x, y, z, u, st, c)
    /\ u = 1 => y = b
    /\ u = 2 => z = b
    /\ u = 3 => w = b

\* It leads to the state next and the code point d: it completes the character, or
\* continues it, or there is none.
Decodes(x, y, z, w, u, st, b, next, d) ==
    /\ u \in 0..3 /\ next \in 0..8
    /\ st = ACCEPT <=> u = 0
    /\ next = ACCEPT => /\ Tabled(u + 1, x, y, z, w)
                        /\ d \in Int /\ 0 <= d /\ d <= LastCodePoint
                        /\ u = 0 => d = b
                        /\ u > 0 => d >= 128 /\ b >= 128
    /\ next \in 2..8 => Begins(x, y, z, u + 1, next, d)
    /\ next = REJECT => \A n \in 1..4 : ~Tabled(n, x, y, z, w)

LEMMA AnyByte ==
    ASSUME NEW x, NEW y, NEW z, NEW w, NEW u, NEW st, NEW c, NEW b,
           Follows(x, y, z, w, u, st, c, b),
           NEW next, next = NextState(st, ByteType(b)),
           NEW d, d = IF st = ACCEPT THEN FirstBits(b) ELSE c * 64 + (b % 64)
    PROVE  Decodes(x, y, z, w, u, st, b, next, d)
  <1>0. /\ x \in Int /\ y \in Int /\ z \in Int /\ w \in Int /\ b \in Byte
        /\ u = 1 => y = b
        /\ u = 2 => z = b
        /\ u = 3 => w = b
    BY DEF Follows
  <1>1. b \in Int /\ 0 <= b /\ b <= 255
    BY <1>0 DEF Byte
  <1>2. CASE st = ACCEPT /\ u = 0 /\ x = b
    <2>1. next = NextState(ACCEPT, ByteType(x)) /\ d = FirstBits(x) /\ x = b
      BY <1>2
    <2>2. /\ next \in 0..8
          /\ next = ACCEPT => x \in 0..127 /\ d = x
          /\ next \in 2..8 => Begins(x, y, z, 1, next, d)
          /\ next = REJECT => x \in 128..193 \/ x >= 245
      BY <1>0, <2>1, FirstByte
    <2>3. next = ACCEPT => /\ Tabled(1, x, y, z, w)
                           /\ d \in Int /\ 0 <= d /\ d <= LastCodePoint
      BY <1>0, <1>1, <2>1, <2>2, SMT DEF Tabled, Within, LastCodePoint
    <2>4. next = REJECT => \A n \in 1..4 : ~Tabled(n, x, y, z, w)
      BY <1>0, <2>2, SMT DEF Tabled, Within
    <2>5. u \in 0..3 /\ ~(u > 0) /\ u + 1 = 1
      BY <1>2
    <2> QED
      BY <1>2, <2>1, <2>2, <2>3, <2>4, <2>5, Zenon DEF Decodes
  <1>3. CASE Begins(x, y, z, u, st, c)
    <2>1. st \in 2..8 /\ u \in 1..3
      BY <1>0, <1>3, SMT DEF Begins
    <2>2. st # ACCEPT
      BY <2>1 DEF ACCEPT
    <2>3. d = c * 64 + (b % 64)
      BY <2>2, Zenon
    <2>4. /\ next \in 0..3 /\ d \in Int
          /\ next = ACCEPT =>
                 /\ Continuing(b) /\ 128 <= d /\ d <= LastCodePoint
                 /\ \/ u = 1 /\ Within(x, 194, 223)
                    \/ u = 2 /\ Within(x, 224, 239) /\ Second3(x, y)
                    \/ u = 3 /\ Within(x, 240, 244) /\ Second4(x, y) /\ Continuing(z)
          /\ next \in 2..3 => Begins(x, y, z, u + 1, next, d)
          /\ next = REJECT => /\ Within(x, 194, 223) => u = 1 /\ ~Continuing(b)
                              /\ Within(x, 224, 239) => \/ u = 1 /\ ~Second3(x, b)
                                                        \/ u = 2 /\ ~Continuing(b)
                              /\ Within(x, 240, 244) => \/ u = 1 /\ ~Second4(x, b)
                                                        \/ u \in 2..3 /\ ~Continuing(b)
      BY <1>0, <1>3, <2>3, LaterByte
    <2>5. ASSUME next = ACCEPT
          PROVE  Tabled(u + 1, x, y, z, w) /\ 0 <= d /\ d >= 128 /\ b >= 128
      BY <1>0, <1>1, <2>4, <2>5, SMT DEF Tabled, Continuing, Within
    <2>6. next \in 2..8 => Begins(x, y, z, u + 1, next, d)
      BY <2>4
    <2>7. ASSUME next = REJECT, NEW n \in 1..4, Tabled(n, x, y, z, w) PROVE FALSE
      <3>1. ~Within(x, 0, 127)
        BY <1>0, <1>3, SMT DEF Begins, Within
      <3> QED
        BY <1>0, <2>4, <2>7, <3>1, SMT DEF Tabled, Second3, Second4
    <2>8. next \in 0..8 /\ u # 0 /\ u \in 0..3
      BY <2>1, <2>4
    <2> QED
      BY <2>2, <2>4, <2>5, <2>6, <2>7, <2>8 DEF Decodes
  <1> QED
    BY <1>2, <1>3, Zenon DEF Follows

-----------------------------------------------------------------------------
(* The decoder in a string.                                                *)

LEMMA ByteRange ==
    ASSUME NEW b \in Byte
    PROVE  b \in Int /\ 0 <= b /\ b <= 255
  BY DEF Byte

LEMMA AtByte ==
    ASSUME NEW s \in Seq(Byte), NEW i
    PROVE  /\ At(s, i) \in Byte
           /\ i \in DOMAIN s => At(s, i) = s[i]
  <1>1. i \in DOMAIN s => s[i] \in Byte
    OBVIOUS
  <1>2. 0 \in Byte
    BY DEF Byte
  <1> QED
    BY <1>1, <1>2, Zenon DEF At

\* The characters of a string, by their bytes.
LEMMA CharacterTable ==
    ASSUME NEW s \in Seq(Byte), NEW f \in DOMAIN s, NEW g \in DOMAIN s,
           NEW x, NEW y, NEW z, NEW w,
           x = At(s, f), y = At(s, f + 1), z = At(s, f + 2), w = At(s, f + 3)
    PROVE  IsCharacter(s, f, g) <=> \E n \in 1..4 : g = f + (n - 1) /\ Tabled(n, x, y, z, w)
  <1>1. f \in Nat /\ g \in Nat /\ x = s[f]
    BY AtByte
  <1>2. x \in Int /\ y \in Int /\ z \in Int /\ w \in Int
    BY AtByte, ByteRange, Zenon
  <1>3. /\ g = f + 1 => y = s[f + 1]
        /\ g = f + 2 => y = s[f + 1] /\ z = s[f + 2]
        /\ g = f + 3 => y = s[f + 1] /\ z = s[f + 2] /\ w = s[f + 3]
    <2>1. /\ g = f + 2 => f + 1 \in DOMAIN s
          /\ g = f + 3 => f + 1 \in DOMAIN s /\ f + 2 \in DOMAIN s
      OBVIOUS
    <2> QED
      BY <2>1, AtByte, Zenon
  <1>4. IsCharacter(s, f, g) => g \in {f, f + 1, f + 2, f + 3}
    BY <1>1, FirstByteSaysLength
  <1>5. (\E n \in 1..4 : g = f + (n - 1) /\ Tabled(n, x, y, z, w)) <=>
              \/ g = f /\ Tabled(1, x, y, z, w)
              \/ g = f + 1 /\ Tabled(2, x, y, z, w)
              \/ g = f + 2 /\ Tabled(3, x, y, z, w)
              \/ g = f + 3 /\ Tabled(4, x, y, z, w)
    <2>1. f + (1 - 1) = f /\ f + (2 - 1) = f + 1 /\ f + (3 - 1) = f + 2 /\ f + (4 - 1) = f + 3
      BY <1>1
    <2>2. 1..4 = {1, 2, 3, 4}
      OBVIOUS
    <2> QED
      BY <2>1, <2>2, Zenon
  <1>6. /\ f # f + 1 /\ f # f + 2 /\ f # f + 3
        /\ f + 1 # f + 2 /\ f + 1 # f + 3 /\ f + 2 # f + 3
    BY <1>1
  <1>7. CASE g = f
    <2>1. IsCharacter(s, f, f) <=> Within(x, 0, 127)
      BY <1>1, <1>2, OneByte, Zenon
    <2>2. Tabled(1, x, y, z, w) <=> Within(x, 0, 127)
      BY DEF Tabled
    <2> QED
      BY <1>5, <1>6, <1>7, <2>1, <2>2, Zenon
  <1>8. CASE g = f + 1
    <2>1. IsCharacter(s, f, f + 1) <=> Within(x, 194, 223) /\ Continuing(y)
      BY <1>1, <1>2, <1>3, <1>8, TwoBytes, Zenon
    <2>2. Tabled(2, x, y, z, w) <=> Within(x, 194, 223) /\ Continuing(y)
      BY DEF Tabled
    <2> QED
      BY <1>5, <1>6, <1>8, <2>1, <2>2, Zenon
  <1>9. CASE g = f + 2
    <2>1. /\ f \in Nat /\ x \in Int /\ y \in Int /\ z \in Int
          /\ x = s[f] /\ y = s[f + 1] /\ z = s[f + 2]
      BY <1>1, <1>2, <1>3, <1>9, Zenon
    <2>2. IsCharacter(s, f, f + 2) <=>
             Within(x, 224, 239) /\ Second3(x, y) /\ Continuing(z)
      BY <2>1, ThreeBytes, Zenon
    <2>3. Tabled(3, x, y, z, w) <=> Within(x, 224, 239) /\ Second3(x, y) /\ Continuing(z)
      BY DEF Tabled
    <2> QED
      BY <1>5, <1>6, <1>9, <2>2, <2>3, Zenon
  <1>10. CASE g = f + 3
    <2>1. /\ f \in Nat /\ x \in Int /\ y \in Int /\ z \in Int /\ w \in Int
          /\ x = s[f] /\ y = s[f + 1] /\ z = s[f + 2] /\ w = s[f + 3]
      BY <1>1, <1>2, <1>3, <1>10, Zenon
    <2>2. IsCharacter(s, f, f + 3) <=>
             Within(x, 240, 244) /\ Second4(x, y) /\ Continuing(z) /\ Continuing(w)
      BY <2>1, FourBytes, Zenon
    <2>3. Tabled(4, x, y, z, w) <=>
             Within(x, 240, 244) /\ Second4(x, y) /\ Continuing(z) /\ Continuing(w)
      BY DEF Tabled
    <2> QED
      BY <1>5, <1>6, <1>10, <2>2, <2>3, Zenon
  <1> QED
    BY <1>4, <1>5, <1>7, <1>8, <1>9, <1>10, Zenon

\* From st and c, after u bytes of a character that begins at f, the decoder reads b,
\* comes to next and d, and what that says of the string.
Reads(s, f, u, st, c, b, next, d) ==
    /\ s \in Seq(Byte) /\ f \in DOMAIN s /\ f + u \in DOMAIN s
    /\ Partial(s, f, u, st, c)
    /\ b = s[f + u] /\ next = NextState(st, ByteType(b))
    /\ d = IF st = ACCEPT THEN FirstBits(b) ELSE c * 64 + (b % 64)

Understands(s, f, u, st, b, next, d) ==
    /\ u \in 0..3 /\ next \in 0..8 /\ b \in Byte
    /\ st = ACCEPT <=> u = 0
    /\ next = ACCEPT => /\ IsCharacter(s, f, f + u)
                        /\ d \in Int /\ 0 <= d /\ d <= LastCodePoint
                        /\ u = 0 => d = b
                        /\ u > 0 => d >= 128 /\ b >= 128
    /\ next \in 2..8 => Partial(s, f, u + 1, next, d)
    /\ next = REJECT => \A g \in DOMAIN s : ~IsCharacter(s, f, g)

LEMMA OneMoreByte ==
    ASSUME NEW s, NEW f, NEW u, NEW st, NEW c, NEW b, NEW next, NEW d,
           Reads(s, f, u, st, c, b, next, d)
    PROVE  Understands(s, f, u, st, b, next, d)
  <1> USE DEF Reads
  <1> PICK x, y, z, w :
         x = At(s, f) /\ y = At(s, f + 1) /\ z = At(s, f + 2) /\ w = At(s, f + 3)
    OBVIOUS
  <1>1. x \in Int /\ y \in Int /\ z \in Int /\ w \in Int
    BY AtByte, ByteRange, Zenon
  <1>2. b \in Byte /\ b = At(s, f + u)
    BY AtByte, Zenon
  <1>3. f \in Nat /\ f + 0 = f
    OBVIOUS
  <1>4. /\ u = 0 => x = b
        /\ u = 1 => y = b
        /\ u = 2 => z = b
        /\ u = 3 => w = b
    BY <1>2, <1>3, Zenon
  <1>5. Follows(x, y, z, w, u, st, c, b)
    BY <1>1, <1>2, <1>4, Zenon DEF Follows, Partial
  <1>6. Decodes(x, y, z, w, u, st, b, next, d)
    BY <1>5, AnyByte, Zenon
  <1>7. \A g \in DOMAIN s : IsCharacter(s, f, g) <=>
              \E n \in 1..4 : g = f + (n - 1) /\ Tabled(n, x, y, z, w)
    BY CharacterTable, SMTT(30)
  <1>8. next = ACCEPT => IsCharacter(s, f, f + u)
    <2>1. u + 1 \in 1..4 /\ f + u = f + ((u + 1) - 1)
      BY <1>3, <1>6 DEF Decodes
    <2> QED
      BY <1>6, <1>7, <2>1, Zenon DEF Decodes
  <1>9. next = REJECT => \A g \in DOMAIN s : ~IsCharacter(s, f, g)
    BY <1>6, <1>7, Zenon DEF Decodes
  <1> QED
    BY <1>2, <1>6, <1>8, <1>9, Zenon DEF Decodes, Partial, Understands

\* The bytes of a character that is not complete are beyond ASCII.
BeyondASCII(x, y, z, u) ==
    (u = 0 => x >= 128) /\ (u = 1 => y >= 128) /\ (u = 2 => z >= 128) /\ u # 3

LEMMA BegunBytes ==
    ASSUME NEW x \in Int, NEW y \in Int, NEW z \in Int, NEW u \in 0..3, NEW st, NEW c,
           NEW n, n = u + 1, Begins(x, y, z, n, st, c)
    PROVE  BeyondASCII(x, y, z, u)
  BY SMT DEF Begins, Within, Second3, Second4, Continuing, BeyondASCII

LEMMA BegunByte ==
    ASSUME NEW s \in Seq(Byte), NEW f \in DOMAIN s, NEW u \in 0..3, f + u \in DOMAIN s,
           NEW st, NEW c, st # ACCEPT, Partial(s, f, u + 1, st, c)
    PROVE  s[f + u] >= 128
  <1> PICK x, y, z : x = At(s, f) /\ y = At(s, f + 1) /\ z = At(s, f + 2)
    OBVIOUS
  <1>1. x \in Int /\ y \in Int /\ z \in Int /\ s[f + u] = At(s, f + u)
    BY AtByte, ByteRange, Zenon
  <1>2. Begins(x, y, z, u + 1, st, c)
    BY Zenon DEF Partial
  <1>3. BeyondASCII(x, y, z, u)
    BY <1>1, <1>2, BegunBytes, Zenon
  <1>4. u \in {0, 1, 2, 3} /\ f + 0 = f
    OBVIOUS
  <1> QED
    BY <1>1, <1>3, <1>4, Zenon DEF BeyondASCII

\* A character that has begun needs another byte.
LEMMA NeedsAnother ==
    ASSUME NEW x \in Int, NEW y, NEW z, NEW w, NEW u, NEW st, NEW c, Begins(x, y, z, u, st, c),
           NEW n \in 1..4, Tabled(n, x, y, z, w)
    PROVE  u \in 1..3 /\ n > u
  BY SMT DEF Begins, Tabled, Within

\* The string is at its end within a character.
LEMMA CutOff ==
    ASSUME NEW s \in Seq(Byte), NEW f \in DOMAIN s, NEW u, NEW st, NEW c,
           Partial(s, f, u, st, c), st # ACCEPT, f + u = Len(s) + 1
    PROVE  \A g \in DOMAIN s : ~IsCharacter(s, f, g)
  <1> PICK x, y, z, w :
         x = At(s, f) /\ y = At(s, f + 1) /\ z = At(s, f + 2) /\ w = At(s, f + 3)
    OBVIOUS
  <1>1. \A g \in DOMAIN s : IsCharacter(s, f, g) <=>
              \E n \in 1..4 : g = f + (n - 1) /\ Tabled(n, x, y, z, w)
    BY CharacterTable, SMTT(30)
  <1>2. Begins(x, y, z, u, st, c) /\ x \in Int
    BY AtByte, ByteRange, Zenon DEF Partial
  <1>3. SUFFICES ASSUME NEW g \in DOMAIN s, IsCharacter(s, f, g) PROVE FALSE
    OBVIOUS
  <1>4. PICK n \in 1..4 : g = f + (n - 1) /\ Tabled(n, x, y, z, w)
    BY <1>1, <1>3, Zenon
  <1>5. u \in 1..3 /\ n > u
    BY <1>2, <1>4, NeedsAnother, Zenon
  <1>6. f \in Nat /\ g <= Len(s)
    OBVIOUS
  <1> QED
    BY <1>4, <1>5, <1>6

\* Two characters do not overlap.
LEMMA Disjoint ==
    ASSUME NEW s, NEW p \in Nat, NEW q \in Nat, NEW a \in Nat, NEW b \in Nat,
           IsCharacter(s, p, q), IsCharacter(s, a, b), p <= a, a <= q
    PROVE  p = a /\ q = b
  <1>1. /\ \/ b = a /\ s[a] \in 0..127
           \/ b = a + 1 /\ s[a] \in 192..223
           \/ b = a + 2 /\ s[a] \in 224..239
           \/ b = a + 3 /\ s[a] \in 240..247
        /\ \/ q = p /\ s[p] \in 0..127
           \/ q = p + 1 /\ s[p] \in 192..223
           \/ q = p + 2 /\ s[p] \in 224..239
           \/ q = p + 3 /\ s[p] \in 240..247
        /\ \A i \in (p + 1)..q : s[i] \in 128..191
    BY FirstByteSaysLength
  <1>2. s[a] \notin 128..191
    <2>1. s[a] \in 0..127 \/ s[a] \in 192..247
      BY <1>1
    <2> HIDE <1>1
    <2> QED
      BY <2>1
  <1>3. p = a
    BY <1>1, <1>2
  <1> QED
    BY <1>1, <1>3

\* The characters of a well-formed string follow each other: where the ones before n
\* are complete, one begins at n.
LEMMA NextOneBegins ==
    ASSUME NEW s \in Seq(Byte), NEW n \in DOMAIN s, WellFormedBefore(s, n),
           \A g \in DOMAIN s : ~IsCharacter(s, n, g)
    PROVE  ~WellFormed(s)
  <1>1. SUFFICES ASSUME WellFormed(s) PROVE FALSE
    OBVIOUS
  <1>2. PICK a \in DOMAIN s, b \in DOMAIN s : a <= n /\ n <= b /\ IsCharacter(s, a, b)
    BY <1>1 DEF WellFormed
  <1>3. a \in 1..(n - 1) /\ n \in Nat /\ a \in Nat /\ b \in Nat
    BY <1>2
  <1>4. PICK p \in 1..(n - 1), q \in 1..(n - 1) : p <= a /\ a <= q /\ IsCharacter(s, p, q)
    BY <1>3 DEF WellFormedBefore
  <1>5. p \in Nat /\ q \in Nat
    OBVIOUS
  <1>6. b = q
    BY <1>2, <1>3, <1>4, <1>5, Disjoint, Zenon
  <1> QED
    BY <1>2, <1>3, <1>6

LEMMA OneCharacterMore ==
    ASSUME NEW s \in Seq(Byte), NEW f \in DOMAIN s, NEW g \in DOMAIN s, f <= g,
           WellFormedBefore(s, f), IsCharacter(s, f, g)
    PROVE  WellFormedBefore(s, g + 1)
  <1>1. f \in Nat /\ g \in Nat /\ f >= 1 /\ (g + 1) - 1 = g
    OBVIOUS
  <1>2. SUFFICES ASSUME NEW i \in 1..g
                 PROVE  \E a, b \in 1..g : a <= i /\ i <= b /\ IsCharacter(s, a, b)
    BY <1>1 DEF WellFormedBefore
  <1>3. CASE i < f
    <2>1. i \in 1..(f - 1) /\ 1..(f - 1) \subseteq 1..g
      BY <1>1, <1>3
    <2> QED
      BY <2>1 DEF WellFormedBefore
  <1>4. CASE i >= f
    BY <1>1, <1>4
  <1> QED
    BY <1>1, <1>3, <1>4

LEMMA WholeString ==
    ASSUME NEW s \in Seq(Byte), WellFormedBefore(s, Len(s) + 1)
    PROVE  WellFormed(s)
  <1>1. (Len(s) + 1) - 1 = Len(s) /\ DOMAIN s = 1..Len(s)
    OBVIOUS
  <1> QED
    BY <1>1, Zenon DEF WellFormed, WellFormedBefore

-----------------------------------------------------------------------------
(* What is written for a code point.                                       *)

LEMMA SeqMonotone ==
    ASSUME NEW A, NEW B, A \subseteq B, NEW t \in Seq(A)
    PROVE  t \in Seq(B)
  <1>1. PICK n \in Nat : t \in [1..n -> A]
    BY SeqDef
  <1>2. t \in [1..n -> B]
    BY <1>1
  <1> QED
    BY <1>2, SeqDef

LEMMA HexDigitShown ==
    ASSUME NEW n \in Int, 0 <= n, n <= 15
    PROVE  HexDigit(n) \in 32..126
  BY SMT DEF HexDigit

LEMMA HexEscapeShown ==
    ASSUME NEW c \in Int, 0 <= c, c <= 65535
    PROVE  HexEscape(c) \in Seq(32..126) /\ Len(HexEscape(c)) = 6
  <1> PICK h, i, j, k : /\ h = HexDigit(c \div 4096)
                        /\ i = HexDigit((c \div 256) % 16)
                        /\ j = HexDigit((c \div 16) % 16)
                        /\ k = HexDigit(c % 16)
    OBVIOUS
  <1>1. h \in 32..126
    <2>1. c \div 4096 \in Int /\ 0 <= c \div 4096 /\ c \div 4096 <= 15
      BY SMT
    <2> QED
      BY <2>1, HexDigitShown
  <1>2. i \in 32..126
    <2>1. (c \div 256) % 16 \in Int /\ 0 <= (c \div 256) % 16 /\ (c \div 256) % 16 <= 15
      BY SMT
    <2> QED
      BY <2>1, HexDigitShown
  <1>3. j \in 32..126
    <2>1. (c \div 16) % 16 \in Int /\ 0 <= (c \div 16) % 16 /\ (c \div 16) % 16 <= 15
      BY SMT
    <2> QED
      BY <2>1, HexDigitShown
  <1>4. k \in 32..126
    <2>1. c % 16 \in Int /\ 0 <= c % 16 /\ c % 16 <= 15
      BY SMT
    <2> QED
      BY <2>1, HexDigitShown
  <1>5. HexEscape(c) = <<92, 117, h, i, j, k>>
    BY SMT DEF HexEscape, Backslash
  <1>6. 92 \in 32..126 /\ 117 \in 32..126
    OBVIOUS
  <1> QED
    BY <1>1, <1>2, <1>3, <1>4, <1>5, <1>6

LEMMA TwoEscapes ==
    ASSUME NEW h \in Seq(32..126), NEW l \in Seq(32..126), Len(h) = 6, Len(l) = 6
    PROVE  h \o l \in Seq(32..126) /\ Len(h \o l) = 12
  <1>1. h \o l \in Seq(32..126) /\ Len(h \o l) = Len(h) + Len(l)
    BY ConcatProperties, Zenon
  <1> QED
    BY <1>1

\* The two \u escapes of a code point that needs them.
Unit(n) == n \in Int /\ 0 <= n /\ n <= 65535
High(c) == 55232 + (c \div 1024)
Low(c) == 56320 + (c % 1024)

LEMMA UnitShown ==
    ASSUME NEW n, Unit(n)
    PROVE  HexEscape(n) \in Seq(32..126) /\ Len(HexEscape(n)) = 6
  BY HexEscapeShown, SMT DEF Unit

LEMMA SurrogatesShown ==
    ASSUME NEW c \in Int, ~Unit(c), 0 <= c, c <= LastCodePoint
    PROVE  /\ HexEscape(High(c)) \o HexEscape(Low(c)) \in Seq(32..126)
           /\ Len(HexEscape(High(c)) \o HexEscape(Low(c))) = 12
  <1>1. Unit(High(c)) /\ Unit(Low(c))
    <2> PICK h \in Int, l \in Int : h = High(c) /\ l = Low(c)
      BY SMT DEF High, Low
    <2>1. 0 <= h /\ h <= 65535 /\ 0 <= l /\ l <= 65535
      BY SMT DEF LastCodePoint, Unit, High, Low
    <2> QED
      BY <2>1, SMT DEF Unit
  <1> QED
    BY <1>1, UnitShown, TwoEscapes, Zenon

\* At most two \u escapes and a NUL; without ensure_ascii one.
LEMMA EscapedShown ==
    ASSUME NEW c \in Int, 0 <= c, c <= LastCodePoint, NEW b \in Byte,
           c = b \/ (c >= 128 /\ b >= 128),
           ensure_ascii \in BOOLEAN, NEW e, e = Escaped(c, b)
    PROVE  /\ e.bytes \in Seq(Shown) /\ e.nul \in {0, 1}
           /\ Len(e.bytes) + e.nul <= 13
           /\ ~ensure_ascii => Len(e.bytes) + e.nul <= 7
  <1>1. 32..126 \subseteq Shown
    BY SMT DEF Shown
  <1>2. \A t \in Seq(32..126) : t \in Seq(Shown)
    BY <1>1, SeqMonotone, Zenon
  <1>3. CASE c \in DOMAIN ShortEscapes
    <2>1. e = [bytes |-> <<92, ShortEscapes[c]>>, nul |-> 0]
      BY <1>3, SMT DEF Escaped, Backslash
    <2>2. ShortEscapes[c] \in 32..126
      BY <1>3, SMT DEF ShortEscapes, LF, CR, Quote, Backslash
    <2>3. 92 \in 32..126
      OBVIOUS
    <2>4. e.bytes \in Seq(32..126) /\ Len(e.bytes) = 2 /\ e.nul = 0
      BY <2>1, <2>2, <2>3
    <2> QED
      BY <1>2, <2>4
  <1>4. CASE c \notin DOMAIN ShortEscapes /\ (c <= 31 \/ (ensure_ascii /\ 127 <= c))
    <2>1. e = [bytes |-> IF Unit(c) THEN HexEscape(c) ELSE HexEscape(High(c)) \o HexEscape(Low(c)),
               nul |-> 1]
      BY <1>4, SMT DEF Escaped, Unit, High, Low
    <2>2. CASE Unit(c)
      <3>1. e.bytes = HexEscape(c) /\ e.nul = 1
        BY <2>1, <2>2
      <3>2. e.bytes \in Seq(32..126) /\ Len(e.bytes) = 6
        BY <2>2, <3>1, UnitShown, Zenon
      <3> QED
        BY <1>2, <3>1, <3>2
    <2>3. CASE ~Unit(c)
      <3>1. e.bytes \in Seq(32..126) /\ Len(e.bytes) = 12 /\ e.nul = 1
        <4>1. e.bytes = HexEscape(High(c)) \o HexEscape(Low(c)) /\ e.nul = 1
          BY <2>1, <2>3
        <4> QED
          BY <2>3, <4>1, SurrogatesShown, Zenon
      <3>2. ensure_ascii
        BY <1>4, <2>3, SMT DEF Unit
      <3>3. Len(e.bytes) + e.nul <= 13 /\ e.nul \in {0, 1}
        BY <3>1, SMT
      <3> QED
        BY <1>2, <3>1, <3>2, <3>3, Zenon
    <2> QED
      BY <2>2, <2>3, Zenon
  <1>5. CASE c \notin DOMAIN ShortEscapes /\ ~(c <= 31 \/ (ensure_ascii /\ 127 <= c))
    <2>1. e = [bytes |-> <<b>>, nul |-> 0]
      BY <1>5, SMT DEF Escaped
    <2>2. b \in Shown
      BY <1>5, SMT DEF Shown, Byte
    <2>3. <<b>> \in Seq(Shown) /\ Len(<<b>>) = 1
      BY <2>2
    <2> QED
      BY <2>1, <2>3
  <1> QED
    BY <1>3, <1>4, <1>5, Zenon

\* What stands for a character that is not one.
LEMMA ReplacementShown ==
    ASSUME ensure_ascii \in BOOLEAN
    PROVE  /\ Replacement \in Seq(Shown)
           /\ Len(Replacement) = IF ensure_ascii THEN 6 ELSE 3
  <1>1. CASE ensure_ascii
    BY <1>1, HexEscapeShown, SMT DEF Replacement, Shown
  <1>2. CASE ~ensure_ascii
    <2>1. Encode(65533) = <<239, 191, 189>>
      BY SMT DEF Encode
    <2>2. Shown = 32..255
      BY <1>2 DEF Shown
    <2>3. <<239, 191, 189>> \in Seq(32..255) /\ Len(<<239, 191, 189>>) = 3
      BY SMT
    <2>4. Replacement = <<239, 191, 189>>
      BY <1>2, <2>1, SMT DEF Replacement
    <2> QED
      BY <1>2, <2>2, <2>3, <2>4, Zenon
  <1> QED
    BY <1>1, <1>2, Zenon

-----------------------------------------------------------------------------
(* The steps.                                                              *)

LEMMA Kept ==
    ASSUME NEW A, NEW t \in Seq(A), NEW n \in Nat, n <= Len(t)
    PROVE  SubSeq(t, 1, n) \in Seq(A) /\ Len(SubSeq(t, 1, n)) = n
  <1>1. \A i \in 1..n : t[i] \in A
    OBVIOUS
  <1>2. /\ SubSeq(t, 1, n) = [i \in 1..n |-> t[i]]
        /\ Len(SubSeq(t, 1, n)) = n
    BY SMT
  <1>3. [i \in 1..n |-> t[i]] \in Seq(A)
    BY <1>1
  <1> QED
    BY <1>2, <1>3, Zenon

\* After a complete character or a replacement there is room for the next one.
LEMMA AcceptedKeepsRoom ==
    ASSUME NEW buffer \in Seq(Shown), NEW nul \in {0, 1}, Len(buffer) + nul <= BufferSize,
           o \in Seq(Shown), written \in Nat, BufferHolds, Accepted(buffer, nul)
    PROVE  /\ o' \in Seq(Shown) /\ string_buffer' \in Seq(Shown)
           /\ written' \in Nat /\ BufferHolds'
           /\ bytes_after_last_accept' \in Nat /\ undumped_chars' = 0
           /\ Len(string_buffer') = bytes_after_last_accept'
           /\ bytes_after_last_accept' + 13 <= BufferSize
  <1>1. Len(buffer) \in Nat
    OBVIOUS
  <1>2. /\ string_buffer' \in Seq(Shown) /\ o' \in Seq(Shown)
        /\ bytes_after_last_accept' = Len(string_buffer')
        /\ undumped_chars' = 0
    BY ConcatProperties, EmptySeq DEF Accepted
  <1>3. bytes_after_last_accept' \in Nat /\ bytes_after_last_accept' + 13 <= BufferSize
    <2> PICK n \in Nat : n = Len(buffer)
      BY <1>1
    <2>1. bytes_after_last_accept' = IF BufferSize - n < 13 THEN 0 ELSE n
      BY Zenon DEF Accepted, Flush
    <2> QED
      BY <2>1, BufferAssumption, SMT
  <1>4. written' \in Nat /\ BufferHolds'
    <2> PICK n \in Nat : n = Len(buffer)
      BY <1>1
    <2>1. written' = Largest(written, n + nul) /\ n + nul <= BufferSize
      BY Zenon DEF Accepted
    <2> QED
      BY <2>1, SMT DEF Largest, BufferHolds
  <1> QED
    BY <1>2, <1>3, <1>4, Zenon

LEMMA InitIInv == Init => IInv
  <1> SUFFICES ASSUME Init PROVE IInv
    OBVIOUS
  <1>1. /\ index = 1 /\ undumped_chars = 0 /\ written = 0 /\ state = ACCEPT
        /\ string_buffer = << >> /\ bytes_after_last_accept = 0
    BY DEF Init, DumperInit
  <1>2. phase = IF kind = "string" THEN "dump" ELSE "scan"
    BY DEF Init
  <1>3. written \in Nat /\ BufferHolds
    BY <1>1, BufferAssumption DEF BufferHolds
  <1>4. CASE kind = "string"
    <2>1. /\ val \in Seq(Byte) /\ o = << >>
          /\ error_handler \in {"strict", "ignore", "replace"} /\ ensure_ascii \in BOOLEAN
      BY <1>4, StringsAssumption DEF Init, DumperInit, Byte
    <2>2. DumperTypes
      <3>1. Len(val) \in Nat /\ << >> \in Seq(Shown)
        BY <2>1, EmptySeq
      <3> QED
        BY <1>1, <2>1, <3>1 DEF DumperTypes
    <2>3. BufferKeepsRoom
      <3>1. Len(string_buffer) = 0
        BY <1>1
      <3> QED
        BY <1>1, <3>1, BufferAssumption DEF BufferKeepsRoom
    <2>4. Begun = 1
      BY <1>1 DEF Begun
    <2>5. WellFormedBefore(val, 1)
      BY DEF WellFormedBefore
    <2>6. Partial(val, Begun, undumped_chars, state, codepoint)
      BY <1>1, Zenon DEF Partial
    <2>7. Dumping
      BY <1>4, <2>2, <2>3, <2>4, <2>5, <2>6, Zenon DEF Dumping
    <2>8. o \in Seq(Shown)
      BY <2>1, EmptySeq
    <2> QED
      BY <1>2, <1>3, <1>4, <2>7, <2>8 DEF IInv, StrictIsExact
  <1>5. CASE kind # "string"
    BY <1>2, <1>3, <1>5 DEF IInv, StrictIsExact
  <1> QED
    BY <1>4, <1>5, Zenon

\* Outside the loop nothing of the dumper changes.
LEMMA ScanKeeps ==
    ASSUME IInv, UNCHANGED <<phase, dumper>>
    PROVE  IInv'
  BY DEF IInv, Dumping, DumperTypes, BufferKeepsRoom, Begun, Partial, Begins, WellFormedBefore,
         Shown, BufferHolds, StrictIsExact, dumper

LEMMA DumpEndsKeeps ==
    ASSUME IInv, DumpEnds
    PROVE  IInv'
  <1>1. Dumping /\ index > Len(val)
    BY DEF IInv, DumpEnds
  <1>2. /\ DumperTypes /\ BufferKeepsRoom /\ kind = "string"
        /\ Partial(val, Begun, undumped_chars, state, codepoint)
        /\ error_handler = "strict" => WellFormedBefore(val, Begun)
    BY <1>1, Zenon DEF Dumping
  <1>3. /\ val \in Seq(Byte) /\ Len(val) \in Nat /\ index = Len(val) + 1
        /\ undumped_chars \in 0..Len(val) /\ Begun + undumped_chars = Len(val) + 1
    BY <1>1, <1>2 DEF DumperTypes, Begun
  <1>4. UNCHANGED <<kind, val, error_handler, ensure_ascii, index, state, codepoint, string_buffer,
                    bytes_after_last_accept, undumped_chars, written>>
    BY DEF DumpEnds
  <1>5. /\ Shown' = Shown /\ written' \in Nat /\ BufferHolds'
        /\ WellFormed(val)' = WellFormed(val)
    BY <1>4 DEF Shown, IInv, BufferHolds, WellFormed
  <1>6. CASE state # ACCEPT /\ error_handler = "strict"
    <2>1. phase' = "thrown" /\ o' = o
      BY <1>6 DEF DumpEnds
    <2>2. Begun \in DOMAIN val
      <3>1. undumped_chars # 0
        BY <1>2, <1>6 DEF Partial, Begins, ACCEPT
      <3> QED
        BY <1>3, <3>1 DEF Begun
    <2>3. \A g \in DOMAIN val : ~IsCharacter(val, Begun, g)
      BY <1>2, <1>3, <1>6, <2>2, CutOff, Zenon
    <2>4. ~WellFormed(val)
      BY <1>2, <1>3, <1>6, <2>2, <2>3, NextOneBegins, Zenon
    <2> QED
      BY <1>2, <1>4, <1>5, <1>6, <2>1, <2>4 DEF IInv, StrictIsExact
  <1>7. CASE ~(state # ACCEPT /\ error_handler = "strict")
    <2> DEFINE kept == SubSeq(string_buffer, 1, bytes_after_last_accept)
    <2>1. /\ phase' = "scan"
          /\ o' = o \o IF state = ACCEPT THEN string_buffer
                        ELSE IF error_handler = "ignore" THEN kept ELSE kept \o Replacement
      BY <1>7, Zenon DEF DumpEnds
    <2>2. string_buffer \in Seq(Shown) /\ o \in Seq(Shown)
      BY <1>2 DEF DumperTypes, IInv
    <2>3. kept \in Seq(Shown)
      <3>1. bytes_after_last_accept \in Nat /\ bytes_after_last_accept <= Len(string_buffer)
        BY <1>2, <1>3 DEF DumperTypes, BufferKeepsRoom
      <3> QED
        BY <2>2, <3>1, Kept, Zenon
    <2>4. Replacement \in Seq(Shown)
      BY <1>2, ReplacementShown, Zenon DEF DumperTypes
    <2> HIDE DEF kept
    <2>5. o' \in Seq(Shown)
      <3>1. kept \o Replacement \in Seq(Shown)
        BY <2>3, <2>4, ConcatProperties, Zenon
      <3>2. \A t \in Seq(Shown) : o \o t \in Seq(Shown)
        BY <2>2, ConcatProperties, Zenon
      <3> QED
        BY <2>1, <2>2, <2>3, <3>1, <3>2, Zenon
    <2>6. error_handler = "strict" => WellFormed(val)
      <3>1. SUFFICES ASSUME error_handler = "strict" PROVE WellFormed(val)
        OBVIOUS
      <3>2. undumped_chars = 0
        BY <1>2, <1>7, <3>1 DEF Partial, Begins, ACCEPT
      <3>3. Begun = Len(val) + 1
        BY <1>3, <3>2 DEF Begun
      <3> QED
        BY <1>2, <1>3, <3>1, <3>3, WholeString, Zenon
    <2> QED
      BY <1>2, <1>4, <1>5, <2>1, <2>5, <2>6 DEF IInv, StrictIsExact
  <1> QED
    BY <1>6, <1>7, Zenon

\* Arithmetic of the buffer and the index.
LEMMA PlusZero ==
    ASSUME NEW n \in Nat
    PROVE  n + 0 = n /\ n - 0 = n
  OBVIOUS

LEMMA FirstOfRest ==
    ASSUME NEW k \in Nat, NEW n \in 1..(k + 1)
    PROVE  n \in Nat /\ 0 \in 0..(n - 1)
  OBVIOUS

LEMMA RoomForOne ==
    ASSUME NEW k \in Nat, k + 13 <= BufferSize, NEW u \in 0..3, NEW a \in BOOLEAN,
           NEW m \in Nat, NEW n \in {0, 1}, m + n <= 13, ~a => m + n <= 7
    PROVE  ((k + IF a THEN 0 ELSE u) + m) + n <= BufferSize
  <1>1. CASE a
    BY <1>1, BufferAssumption
  <1>2. CASE ~a
    BY <1>2, BufferAssumption
  <1> QED
    BY <1>1, <1>2

\* After a character, or when the replacement or nothing stands for a byte, the next
\* one begins.
LEMMA NextBegins ==
    ASSUME Dumping, phase' = "dump", kind' = kind, val' = val, error_handler' = error_handler,
           ensure_ascii' = ensure_ascii,
           index' \in 1..(Len(val) + 1), undumped_chars' = 0, state' = ACCEPT,
           string_buffer' \in Seq(Shown), bytes_after_last_accept' \in Nat,
           Len(string_buffer') = bytes_after_last_accept',
           bytes_after_last_accept' + 13 <= BufferSize,
           error_handler = "strict" => WellFormedBefore(val, index')
    PROVE  Dumping'
  <1>1. Shown' = Shown
    BY DEF Shown
  <1>2. index' - 0 = index' /\ 0 \in 0..(index' - 1)
    <2>1. Len(val) \in Nat
      BY DEF Dumping, DumperTypes
    <2> QED
      BY <2>1, FirstOfRest, PlusZero, Zenon
  <1>3. Begun' = index'
    BY <1>2, Zenon DEF Begun
  <1>4. DumperTypes'
    BY <1>1, <1>2, Zenon DEF Dumping, DumperTypes
  <1>5. BufferKeepsRoom'
    <2>1. bytes_after_last_accept' + 0 = bytes_after_last_accept'
      BY PlusZero, Zenon
    <2> QED
      BY <2>1, Zenon DEF BufferKeepsRoom
  <1>6. Partial(val, Begun, undumped_chars, state, codepoint)'
    BY Zenon DEF Partial
  <1>7. (error_handler = "strict" => WellFormedBefore(val, Begun))'
    BY <1>3 DEF WellFormedBefore
  <1>8. (kind = "string")'
    BY DEF Dumping
  <1> QED
    BY <1>4, <1>5, <1>6, <1>7, <1>8, Zenon DEF Dumping

LEMMA DumpByteKeeps ==
    ASSUME IInv, DumpByte
    PROVE  IInv'
  <1> DEFINE b == val[index]
             next == NextState(state, ByteType(b))
             c == DecodePoint(b)
             kept == SubSeq(string_buffer, 1, bytes_after_last_accept)
             f == Begun
             u == undumped_chars
  <1>1. Dumping /\ index <= Len(val) /\ phase = "dump"
    BY DEF IInv, DumpByte
  <1>2. /\ DumperTypes /\ BufferKeepsRoom /\ kind = "string"
        /\ Partial(val, f, u, state, codepoint)
        /\ error_handler = "strict" => WellFormedBefore(val, f)
    BY <1>1, Zenon DEF Dumping
  <1>3. /\ val \in Seq(Byte) /\ Len(val) \in Nat /\ index \in 1..Len(val)
        /\ u \in 0..(index - 1) /\ f \in DOMAIN val /\ f + u = index /\ index \in DOMAIN val
        /\ f <= index
    BY <1>1, <1>2 DEF DumperTypes, Begun
  <1>4. /\ codepoint' = c /\ state' = IF next = REJECT THEN ACCEPT ELSE next
        /\ UNCHANGED <<kind, val, error_handler, ensure_ascii>>
    BY DEF DumpByte
  <1>5. /\ Shown' = Shown /\ WellFormed(val)' = WellFormed(val)
        /\ string_buffer \in Seq(Shown) /\ o \in Seq(Shown)
        /\ written \in Nat /\ BufferHolds /\ ensure_ascii \in BOOLEAN
        /\ bytes_after_last_accept \in Nat
    BY <1>2, <1>4 DEF Shown, IInv, DumperTypes, WellFormed
  <1>6. /\ u \in 0..3 /\ next \in 0..8 /\ b \in Byte
        /\ state = ACCEPT <=> u = 0
        /\ next = ACCEPT => /\ IsCharacter(val, f, index)
                            /\ c \in Int /\ 0 <= c /\ c <= LastCodePoint
                            /\ u = 0 => c = b
                            /\ u > 0 => c >= 128 /\ b >= 128
        /\ next \in 2..8 => Partial(val, f, u + 1, next, c)
        /\ next = REJECT => \A g \in DOMAIN val : ~IsCharacter(val, f, g)
    <2>1. /\ b = val[f + u] /\ next = NextState(state, ByteType(b))
          /\ c = IF state = ACCEPT THEN FirstBits(b) ELSE codepoint * 64 + (b % 64)
          /\ f + u \in DOMAIN val
      BY <1>3, Zenon DEF DecodePoint
    <2>2. val \in Seq(Byte) /\ f \in DOMAIN val /\ Partial(val, f, u, state, codepoint)
      BY <1>2, <1>3, Zenon
    <2> HIDE DEF b, next, c, f, u
    <2>3. Reads(val, f, u, state, codepoint, b, next, c)
      BY <2>1, <2>2, Zenon DEF Reads
    <2>4. Understands(val, f, u, state, b, next, c)
      BY <2>3, OneMoreByte, Zenon
    <2> QED
      BY <1>3, <2>4, Zenon DEF Understands
  <1>7. /\ kept \in Seq(Shown) /\ Len(kept) = bytes_after_last_accept
        /\ bytes_after_last_accept + 13 <= BufferSize
        /\ Len(string_buffer) = bytes_after_last_accept + IF ensure_ascii THEN 0 ELSE u
    <2>1. bytes_after_last_accept <= Len(string_buffer)
      BY <1>2, <1>3, <1>5 DEF BufferKeepsRoom
    <2> QED
      BY <1>2, <1>5, <2>1, Kept, Zenon DEF BufferKeepsRoom
  <1> HIDE DEF next, c, kept, f, u
  <1>8. CASE next = ACCEPT
    <2> PICK e : e = Escaped(c, b)
      OBVIOUS
    <2>1. /\ Accepted(string_buffer \o e.bytes, e.nul) /\ index' = index + 1
          /\ phase' = "dump"
      BY <1>1, <1>8 DEF DumpByte, next, c, ACCEPT, REJECT
    <2>2. /\ e.bytes \in Seq(Shown) /\ e.nul \in {0, 1}
          /\ Len(e.bytes) + e.nul <= 13
          /\ ~ensure_ascii => Len(e.bytes) + e.nul <= 7
      <3>1. c \in Int /\ 0 <= c /\ c <= LastCodePoint /\ (c = b \/ (c >= 128 /\ b >= 128))
        <4>1. u = 0 \/ u > 0
          BY <1>6
        <4> QED
          BY <1>6, <1>8, <4>1, Zenon
      <3> HIDE DEF b
      <3> QED
        BY <1>5, <1>6, <3>1, EscapedShown, Zenon
    <2>3. /\ string_buffer \o e.bytes \in Seq(Shown)
          /\ Len(string_buffer \o e.bytes) = Len(string_buffer) + Len(e.bytes)
      BY <1>5, <2>2, ConcatProperties, Zenon
    <2>4. Len(string_buffer \o e.bytes) + e.nul <= BufferSize
      <3> PICK m, n : m = Len(e.bytes) /\ n = e.nul
        OBVIOUS
      <3>1. m \in Nat /\ n \in {0, 1} /\ m + n <= 13 /\ (~ensure_ascii => m + n <= 7)
        BY <2>2
      <3>2. Len(string_buffer \o e.bytes)
              = (bytes_after_last_accept + IF ensure_ascii THEN 0 ELSE u) + m
        BY <1>7, <2>3, Zenon
      <3> HIDE <2>2, <2>3
      <3>3. bytes_after_last_accept \in Nat /\ bytes_after_last_accept + 13 <= BufferSize
        BY <1>5, <1>7, Zenon
      <3>4. ((bytes_after_last_accept + IF ensure_ascii THEN 0 ELSE u) + m) + n <= BufferSize
        BY <1>5, <1>6, <3>1, <3>3, RoomForOne, Zenon
      <3> QED
        BY <3>2, <3>4, Zenon
    <2>5. /\ o' \in Seq(Shown) /\ string_buffer' \in Seq(Shown)
          /\ written' \in Nat /\ BufferHolds'
          /\ bytes_after_last_accept' \in Nat /\ undumped_chars' = 0
          /\ Len(string_buffer') = bytes_after_last_accept'
          /\ bytes_after_last_accept' + 13 <= BufferSize
      BY <1>5, <2>1, <2>2, <2>3, <2>4, AcceptedKeepsRoom, Zenon
    <2>6. index' \in 1..(Len(val) + 1)
      BY <1>3, <2>1
    <2>7. error_handler = "strict" => WellFormedBefore(val, index')
      BY <1>2, <1>3, <1>6, <1>8, <2>1, OneCharacterMore, Zenon
    <2>8. state' = ACCEPT
      BY <1>4, <1>8 DEF ACCEPT, REJECT
    <2>9. Dumping'
      BY <1>1, <1>4, <2>1, <2>5, <2>6, <2>7, <2>8, NextBegins, Zenon
    <2> QED
      BY <1>5, <2>1, <2>5, <2>9 DEF IInv, StrictIsExact
  <1>9. CASE next = REJECT /\ error_handler = "strict"
    <2>1. phase' = "thrown" /\ UNCHANGED <<written, o>>
      BY <1>9 DEF DumpByte, next, ACCEPT, REJECT
    <2>2. ~WellFormed(val)
      BY <1>2, <1>3, <1>6, <1>9, NextOneBegins, Zenon
    <2> QED
      BY <1>2, <1>4, <1>5, <1>9, <2>1, <2>2 DEF IInv, StrictIsExact, BufferHolds
  <1>10. CASE next = REJECT /\ error_handler = "ignore"
    <2>1. /\ string_buffer' = kept /\ undumped_chars' = 0 /\ phase' = "dump"
          /\ index' = IF undumped_chars > 0 THEN index ELSE index + 1
          /\ UNCHANGED <<bytes_after_last_accept, written, o>>
      BY <1>1, <1>10 DEF DumpByte, Rewind, next, kept, ACCEPT, REJECT
    <2>2. index' \in 1..(Len(val) + 1)
      BY <1>3, <2>1
    <2>3. state' = ACCEPT /\ error_handler # "strict"
      BY <1>4, <1>10
    <2>4. /\ string_buffer' \in Seq(Shown) /\ bytes_after_last_accept' \in Nat
          /\ Len(string_buffer') = bytes_after_last_accept'
          /\ bytes_after_last_accept' + 13 <= BufferSize
      BY <1>5, <1>7, <2>1, Zenon
    <2>5. Dumping'
      BY <1>1, <1>4, <2>1, <2>2, <2>3, <2>4, NextBegins, Zenon
    <2> QED
      BY <1>5, <2>1, <2>5 DEF IInv, StrictIsExact, BufferHolds
  <1>11. CASE next = REJECT /\ error_handler = "replace"
    <2>1. /\ Accepted(kept \o Replacement, 0) /\ phase' = "dump"
          /\ index' = IF undumped_chars > 0 THEN index ELSE index + 1
      BY <1>1, <1>11 DEF DumpByte, next, kept, ACCEPT, REJECT
    <2>2. Replacement \in Seq(Shown) /\ Len(Replacement) <= 13
      <3>1. /\ Replacement \in Seq(Shown)
            /\ Len(Replacement) = IF ensure_ascii THEN 6 ELSE 3
        BY <1>5, ReplacementShown, Zenon
      <3> QED
        BY <3>1
    <2>3. /\ kept \o Replacement \in Seq(Shown)
          /\ Len(kept \o Replacement) = Len(kept) + Len(Replacement)
      BY <1>7, <2>2, ConcatProperties, Zenon
    <2>4. Len(kept \o Replacement) + 0 <= BufferSize
      <3> PICK m : m = Len(Replacement)
        OBVIOUS
      <3>1. m \in Nat /\ m <= 13
        BY <2>2
      <3>2. Len(kept \o Replacement) = bytes_after_last_accept + m
        BY <1>7, <2>3, Zenon
      <3>3. (bytes_after_last_accept + m) + 0 <= BufferSize
        BY <1>5, <1>7, <3>1, BufferAssumption
      <3> QED
        BY <3>2, <3>3, Zenon
    <2>5. /\ o' \in Seq(Shown) /\ string_buffer' \in Seq(Shown)
          /\ written' \in Nat /\ BufferHolds'
          /\ bytes_after_last_accept' \in Nat /\ undumped_chars' = 0
          /\ Len(string_buffer') = bytes_after_last_accept'
          /\ bytes_after_last_accept' + 13 <= BufferSize
      BY <1>5, <2>1, <2>3, <2>4, AcceptedKeepsRoom
    <2>6. index' \in 1..(Len(val) + 1)
      BY <1>3, <2>1
    <2>7. state' = ACCEPT /\ error_handler # "strict"
      BY <1>4, <1>11
    <2>8. Dumping'
      BY <1>1, <1>4, <2>1, <2>5, <2>6, <2>7, NextBegins, Zenon
    <2> QED
      BY <1>5, <2>1, <2>5, <2>8 DEF IInv, StrictIsExact
  <1>12. CASE next \in 2..8
    <2>1. /\ string_buffer' = IF ensure_ascii THEN string_buffer ELSE Append(string_buffer, b)
          /\ written' = Largest(written, Len(string_buffer'))
          /\ undumped_chars' = u + 1 /\ index' = index + 1 /\ state' = next
          /\ UNCHANGED <<bytes_after_last_accept, o>> /\ phase' = "dump"
      BY <1>1, <1>4, <1>12 DEF DumpByte, next, u, ACCEPT, REJECT
    <2>2. Partial(val, f, u + 1, next, c) /\ u + 1 <= 3
      <3>1. Partial(val, f, u + 1, next, c)
        BY <1>6, <1>12, Zenon
      <3> QED
        BY <1>6, <1>12, <3>1 DEF Partial, Begins, ACCEPT
    <2>3. Begun' = f
      BY <1>3, <2>1 DEF Begun, f
    <2>4. Partial(val, Begun, undumped_chars, state, codepoint)'
      <3>1. Partial(val', Begun', undumped_chars', state', codepoint')
        BY <1>4, <2>1, <2>2, <2>3, Zenon
      <3> QED
        BY <3>1 DEF Partial, Begins, At
    <2>5. (error_handler = "strict" => WellFormedBefore(val, Begun))'
      <3>1. error_handler = "strict" => WellFormedBefore(val, f)
        BY <1>2
      <3> QED
        BY <1>4, <2>3, <3>1 DEF WellFormedBefore
    <2>6. /\ string_buffer' \in Seq(Shown)
          /\ Len(string_buffer') = bytes_after_last_accept + IF ensure_ascii THEN 0 ELSE u + 1
      <3>1. CASE ensure_ascii
        BY <1>5, <1>7, <2>1, <3>1, Zenon
      <3>2. CASE ~ensure_ascii
        <4>1. b \in Shown
          <5>1. next # ACCEPT
            BY <1>12 DEF ACCEPT
          <5>2. b >= 128
            BY <1>3, <1>6, <2>2, <5>1, BegunByte, Zenon
          <5> QED
            BY <1>6, <3>2, <5>2 DEF Shown, Byte
        <4>2. /\ Append(string_buffer, b) \in Seq(Shown)
              /\ Len(Append(string_buffer, b)) = Len(string_buffer) + 1
          BY <1>5, <4>1, AppendProperties, Zenon
        <4>3. (bytes_after_last_accept + u) + 1 = bytes_after_last_accept + (u + 1)
          BY <1>5, <1>6
        <4> QED
          BY <1>7, <2>1, <3>2, <4>2, <4>3, Zenon
      <3> QED
        BY <3>1, <3>2, Zenon
    <2>7. DumperTypes'
      <3>1. index + 1 \in 1..(Len(val) + 1) /\ u + 1 \in 0..((index + 1) - 1)
        BY <1>3
      <3> QED
        BY <1>2, <1>4, <1>5, <2>1, <2>6, <3>1, Zenon DEF DumperTypes
    <2>8. BufferKeepsRoom'
      BY <1>4, <1>7, <2>1, <2>6, Zenon DEF BufferKeepsRoom
    <2>9. written' \in Nat /\ BufferHolds'
      <3> PICK k \in Nat : k = bytes_after_last_accept /\ k + 13 <= BufferSize
        BY <1>5, <1>7, Zenon
      <3>1. Len(string_buffer') = k + IF ensure_ascii THEN 0 ELSE u + 1
        BY <2>6, Zenon
      <3>2. \A n : n = k + (IF ensure_ascii THEN 0 ELSE u + 1) => n \in Nat /\ n <= BufferSize
        BY <2>2, <1>6, BufferAssumption
      <3>3. Len(string_buffer') \in Nat /\ Len(string_buffer') <= BufferSize
        BY <3>1, <3>2, Zenon
      <3> QED
        BY <1>5, <2>1, <3>3 DEF Largest, BufferHolds
    <2>10. Dumping'
      BY <1>2, <1>4, <2>4, <2>5, <2>7, <2>8, Zenon DEF Dumping
    <2> QED
      BY <1>5, <2>1, <2>9, <2>10 DEF IInv, StrictIsExact
  <1> QED
    BY <1>2, <1>6, <1>8, <1>9, <1>10, <1>11, <1>12 DEF DumperTypes, ACCEPT, REJECT

-----------------------------------------------------------------------------
(* The lexer: position.                                                    *)

\* The places of the newlines among the first n bytes, and where the last line begins.
Newlines(s, n) == {i \in 1..n : s[i] = LF}
LineBegins(s, n, last) == last \in Newlines(s, n) \cup {0} /\ \A i \in Newlines(s, n) : i <= last

\* p counts the first n bytes of s, all of it, and its column is k.
Counts(p, s, n, k) ==
    /\ p.chars_read_total = n
    /\ p.lines_read = Cardinality(Newlines(s, n))
    /\ p.chars_read_current_line = k

Column(s, n, k) == \E last \in 0..n : LineBegins(s, n, last) /\ k = n - last

\* What position is between two calls of get().
PositionInv ==
    /\ text \in Seq(Range(text))
    /\ next_unget \in BOOLEAN
    /\ \E n \in 0..Len(text), k \in Nat :
          /\ Counts(position, text, n, k)
          /\ ~next_unget => n = Len(text) /\ Column(text, n, k)
          /\ next_unget => /\ Len(text) = n + 1 /\ text[n + 1] = current
                           /\ IF current = LF THEN k = 0 ELSE Column(text, n, k)

LEMMA NewlinesFinite ==
    ASSUME NEW s, NEW n \in Nat
    PROVE  IsFiniteSet(Newlines(s, n)) /\ Cardinality(Newlines(s, n)) \in Nat
  <1>1. IsFiniteSet(1..n)
    BY FS_Interval
  <1>2. Newlines(s, n) \subseteq 1..n
    BY DEF Newlines
  <1>3. IsFiniteSet(Newlines(s, n))
    BY <1>1, <1>2, FS_Subset
  <1> QED
    BY <1>3, FS_CardinalityType

\* One byte more.
LEMMA OneMoreCounted ==
    ASSUME NEW s, NEW n \in Nat
    PROVE  /\ s[n + 1] # LF => Newlines(s, n + 1) = Newlines(s, n)
           /\ s[n + 1] = LF =>
                 /\ Newlines(s, n + 1) = Newlines(s, n) \cup {n + 1}
                 /\ Cardinality(Newlines(s, n + 1)) = Cardinality(Newlines(s, n)) + 1
  <1>1. 1..(n + 1) = (1..n) \cup {n + 1} /\ n + 1 \notin 1..n
    OBVIOUS
  <1>2. s[n + 1] # LF => Newlines(s, n + 1) = Newlines(s, n)
    BY <1>1 DEF Newlines
  <1>3. ASSUME s[n + 1] = LF
        PROVE  /\ Newlines(s, n + 1) = Newlines(s, n) \cup {n + 1}
               /\ n + 1 \notin Newlines(s, n)
    BY <1>1, <1>3 DEF Newlines
  <1>4. \A S, x : IsFiniteSet(S) /\ x \notin S => Cardinality(S \cup {x}) = Cardinality(S) + 1
    BY FS_AddElement
  <1> QED
    BY <1>2, <1>3, <1>4, NewlinesFinite

\* A byte that is taken: Advance counts it.
LEMMA AdvanceCounts ==
    ASSUME NEW p, NEW s, NEW n \in Nat, NEW k \in Nat, Counts(p, s, n, k),
           NEW b, b = s[n + 1], b = LF \/ Column(s, n, k), NEW j, j = IF b = LF THEN 0 ELSE k + 1
    PROVE  /\ Counts(Advance(p, b), s, n + 1, j)
           /\ Column(s, n + 1, j) /\ j \in Nat
  <1>1. Counts(Advance(p, b), s, n + 1, j)
    BY OneMoreCounted, NewlinesFinite DEF Counts, Advance
  <1>2. CASE b = LF
    <2>1. Newlines(s, n + 1) = Newlines(s, n) \cup {n + 1}
      BY <1>2, OneMoreCounted
    <2>2. LineBegins(s, n + 1, n + 1)
      BY <2>1 DEF LineBegins, Newlines
    <2> QED
      BY <1>1, <1>2, <2>2 DEF Column
  <1>3. CASE b # LF
    <2>1. PICK last \in 0..n : LineBegins(s, n, last) /\ k = n - last
      BY <1>3 DEF Column
    <2>2. LineBegins(s, n + 1, last)
      BY <1>3, <2>1, OneMoreCounted DEF LineBegins
    <2>3. last \in 0..(n + 1) /\ j = (n + 1) - last /\ j \in Nat
      BY <1>3, <2>1
    <2> QED
      BY <1>1, <2>2, <2>3, Zenon DEF Column
  <1> QED
    BY <1>2, <1>3

\* A byte that is put back: Retreat takes it back, but for the column before a newline.
LEMMA RetreatCounts ==
    ASSUME NEW p, NEW s, NEW n \in Nat, NEW k \in Nat, Counts(p, s, n, k), NEW b, b = s[n + 1]
    PROVE  Counts(Retreat(Advance(p, b)), s, n, IF b = LF THEN 0 ELSE k)
  <1>1. /\ Advance(p, b).chars_read_total = n + 1
        /\ Advance(p, b).lines_read = p.lines_read + (IF b = LF THEN 1 ELSE 0)
        /\ Advance(p, b).chars_read_current_line = IF b = LF THEN 0 ELSE k + 1
    BY DEF Counts, Advance
  <1>2. p.lines_read \in Nat /\ p.lines_read = Cardinality(Newlines(s, n))
    BY NewlinesFinite DEF Counts
  <1>3. CASE b = LF
    BY <1>1, <1>2, <1>3 DEF Retreat, Counts
  <1>4. CASE b # LF
    BY <1>1, <1>2, <1>4 DEF Retreat, Counts
  <1> QED
    BY <1>3, <1>4

\* Every scanner calls get() once, and unget() only right after it.
Moves(b) ==
    /\ get(b)
    /\ \/ next_unget' = FALSE /\ position' = Advance(position, b)
       \/ next_unget' = TRUE /\ position' = Retreat(Advance(position, b))

LEMMA ConsumeMoves ==
    ASSUME NEW b, Consume(b)
    PROVE  Moves(b)
  <1> USE DEF Moves, Skip, Add, Goto, Unget, Return
  <1>1. CASE skip_bom(b)
    BY <1>1, Zenon DEF skip_bom
  <1>2. CASE scan_comment(b)
    BY <1>2 DEF scan_comment, AfterStar
  <1>3. CASE scan(b)
    BY <1>3 DEF scan
  <1>4. CASE scan_literal(b)
    BY <1>4 DEF scan_literal
  <1>5. CASE scan_number(b)
    BY <1>5 DEF scan_number, integer_part, fraction_part, exponent_part, Finished
  <1>6. CASE scan_string(b)
    BY <1>6 DEF scan_string
  <1>7. CASE get_codepoint(b)
    BY <1>7 DEF get_codepoint
  <1>8. CASE next_byte_in_range(b)
    BY <1>8 DEF next_byte_in_range
  <1> QED
    BY <1>1, <1>2, <1>3, <1>4, <1>5, <1>6, <1>7, <1>8, Zenon DEF Consume

\* What get() leaves: the text up to b and the position before b.
BeforeByte(t, b, n, k) ==
    /\ t \in Seq(Range(t)) /\ Len(t) = n + 1 /\ t[n + 1] = b
    /\ Counts(position, t, n, k)
    /\ b = LF \/ Column(t, n, k)

LEMMA SameCounts ==
    ASSUME NEW s, NEW t, NEW n \in Nat, NEW k, \A i \in 1..n : s[i] = t[i]
    PROVE  /\ Counts(position, s, n, k) => Counts(position, t, n, k)
           /\ Column(s, n, k) => Column(t, n, k)
  <1>1. Newlines(s, n) = Newlines(t, n)
    BY DEF Newlines
  <1> QED
    BY <1>1, Zenon DEF Counts, Column, LineBegins

OneLonger(t, b, u) ==
    /\ u \in Seq(Range(u)) /\ Len(u) = Len(t) + 1 /\ u[Len(t) + 1] = b
    /\ \A i \in 1..Len(t) : t[i] = u[i]

LEMMA OneAppended ==
    ASSUME NEW t, t \in Seq(Range(t)), NEW b, NEW u, u = Append(t, b)
    PROVE  OneLonger(t, b, u)
  <1> DEFINE A == Range(t) \cup {b}
  <1>1. t \in Seq(A)
    <2>1. \A x \in Range(t) : x \in A
      OBVIOUS
    <2> HIDE DEF A
    <2>2. \A i \in 1..Len(t) : t[i] \in Range(t)
      OBVIOUS
    <2> QED
      BY <2>1, <2>2
  <1>2. b \in A
    OBVIOUS
  <1> HIDE DEF A
  <1>3. /\ u \in Seq(A) /\ Len(u) = Len(t) + 1 /\ u[Len(t) + 1] = b
        /\ \A i \in 1..Len(t) : u[i] = t[i]
    BY <1>1, <1>2, AppendProperties
  <1>4. \A i \in 1..Len(u) : u[i] \in Range(u)
    BY <1>3 DEF Range
  <1> QED
    BY <1>3, <1>4 DEF OneLonger

LEMMA GetKeeps ==
    ASSUME PositionInv, NEW b, get(b)
    PROVE  \E n \in Nat, k \in Nat : BeforeByte(text', b, n, k)
  <1>1. PICK n \in 0..Len(text), k \in Nat :
           /\ Counts(position, text, n, k)
           /\ ~next_unget => n = Len(text) /\ Column(text, n, k)
           /\ next_unget => /\ Len(text) = n + 1 /\ text[n + 1] = current
                            /\ IF current = LF THEN k = 0 ELSE Column(text, n, k)
    BY DEF PositionInv
  <1>2. n \in Nat
    OBVIOUS
  <1>3. CASE next_unget
    <2>1. text' = text /\ b = current
      BY <1>3 DEF get
    <2> QED
      BY <1>1, <1>2, <1>3, <2>1, Zenon DEF BeforeByte, PositionInv
  <1>4. CASE ~next_unget
    <2>1. text' = Append(text, b)
      BY <1>4 DEF get
    <2>2. /\ text' \in Seq(Range(text')) /\ Len(text') = n + 1 /\ text'[n + 1] = b
          /\ \A i \in 1..n : text[i] = text'[i]
      <3>1. text \in Seq(Range(text)) /\ n = Len(text)
        BY <1>1, <1>4, Zenon DEF PositionInv
      <3>2. PICK u : u = Append(text, b)
        BY Zenon
      <3>3. OneLonger(text, b, u)
        BY <3>1, <3>2, OneAppended, Zenon
      <3> QED
        BY <2>1, <3>1, <3>2, <3>3, Zenon DEF OneLonger
    <2>3. Counts(position, text', n, k) /\ Column(text', n, k)
      BY <1>1, <1>2, <1>4, <2>2, SameCounts, Zenon
    <2> QED
      BY <1>2, <2>2, <2>3, Zenon DEF BeforeByte
  <1> QED
    BY <1>3, <1>4 DEF PositionInv

LEMMA MovesKeepsPosition ==
    ASSUME PositionInv, NEW b, Moves(b)
    PROVE  PositionInv'
  <1>1. get(b)
    BY DEF Moves
  <1>2. PICK n \in Nat, k \in Nat : BeforeByte(text', b, n, k)
    BY <1>1, GetKeeps
  <1>3. /\ text' \in Seq(Range(text')) /\ Len(text') = n + 1 /\ text'[n + 1] = b /\ current' = b
        /\ Counts(position, text', n, k)
        /\ b = LF \/ Column(text', n, k)
    BY <1>1, <1>2 DEF BeforeByte, get
  <1>4. CASE next_unget' = FALSE /\ position' = Advance(position, b)
    <2>1. PICK j : j = IF b = LF THEN 0 ELSE k + 1
      OBVIOUS
    <2>2. Counts(position', text', n + 1, j) /\ Column(text', n + 1, j) /\ j \in Nat
      BY <1>3, <1>4, <2>1, AdvanceCounts, Zenon
    <2>3. n + 1 \in 0..Len(text')
      BY <1>3
    <2> QED
      BY <1>3, <1>4, <2>2, <2>3, Zenon DEF PositionInv
  <1>5. CASE next_unget' = TRUE /\ position' = Retreat(Advance(position, b))
    <2>1. PICK j \in Nat : j = IF b = LF THEN 0 ELSE k
      OBVIOUS
    <2>2. Counts(position', text', n, j)
      BY <1>3, <1>5, <2>1, RetreatCounts, Zenon
    <2>3. n \in 0..Len(text')
      BY <1>3
    <2>4. IF b = LF THEN j = 0 ELSE Column(text', n, j)
      BY <1>3, <2>1, Zenon
    <2> QED
      BY <1>3, <1>5, <2>2, <2>3, <2>4, Zenon DEF PositionInv
  <1> QED
    BY <1>4, <1>5 DEF Moves

LEMMA PositionKept ==
    ASSUME PositionInv, [Next]_vars
    PROVE  PositionInv'
  <1>1. ASSUME NEW b, Consume(b)
        PROVE  PositionInv'
    BY <1>1, ConsumeMoves, MovesKeepsPosition
  <1>2. CASE UNCHANGED <<text, next_unget, current, position>>
    BY <1>2 DEF PositionInv, Counts, Column, LineBegins, Newlines
  <1>3. (\E b : Consume(b)) \/ UNCHANGED <<text, next_unget, current, position>>
    BY DEF Next, DumpByte, DumpEnds, Scan, get_token, NextScan, vars, lexer
  <1> QED
    BY <1>1, <1>2, <1>3

LEMMA PositionBegins == Init => PositionInv
  <1> SUFFICES ASSUME Init PROVE PositionInv
    OBVIOUS
  <1>1. /\ text = << >> /\ next_unget = FALSE
        /\ position.chars_read_total = 0 /\ position.lines_read = 0
        /\ position.chars_read_current_line = 0
    BY DEF Init, LexerInit
  <1>2. Newlines(text, 0) = {}
    BY DEF Newlines
  <1>3. Counts(position, text, 0, 0)
    BY <1>1, <1>2, FS_EmptySet DEF Counts
  <1>4. Column(text, 0, 0)
    <2>1. LineBegins(text, 0, 0) /\ 0 \in 0..0 /\ 0 = 0 - 0
      BY <1>2, SMT DEF LineBegins
    <2> QED
      BY <2>1, Zenon DEF Column
  <1>5. text \in Seq(Range(text)) /\ Len(text) = 0
    BY <1>1
  <1> QED
    <2>1. 0 \in Nat /\ 0 \in 0..Len(text)
      BY <1>5
    <2> QED
      BY <1>1, <1>3, <1>4, <1>5, <2>1, Zenon DEF PositionInv

LEMMA PositionFollows == PositionInv => PositionTracks
  <1> SUFFICES ASSUME PositionInv PROVE PositionTracks
    OBVIOUS
  <1>1. PICK n \in 0..Len(text), k \in Nat :
           /\ Counts(position, text, n, k)
           /\ ~next_unget => n = Len(text) /\ Column(text, n, k)
           /\ next_unget => /\ Len(text) = n + 1 /\ text[n + 1] = current
                            /\ IF current = LF THEN k = 0 ELSE Column(text, n, k)
    BY DEF PositionInv
  <1>2. Taken = n
    BY <1>1 DEF Taken, PositionInv
  <1>3. ASSUME Column(text, n, k)
        PROVE  \E last \in Newlines(text, n) \cup {0} :
                  (\A i \in Newlines(text, n) : i <= last) /\ k = n - last
    BY <1>3, Zenon DEF Column, LineBegins
  <1> QED
    BY <1>1, <1>2, <1>3, Zenon DEF PositionTracks, Counts, Newlines, PositionInv

-----------------------------------------------------------------------------
(* The lexer: strings.                                                     *)

\* n bytes.
Chars(n, x, y, z, w) ==
    IF n = 1 THEN <<x>> ELSE IF n = 2 THEN <<x, y>> ELSE IF n = 3 THEN <<x, y, z>> ELSE <<x, y, z, w>>

\* A string that is well-formed.
IsText(s) == s \in Seq(Byte) /\ WellFormed(s)

AreBytes(x, y, z, w) == x \in Byte /\ y \in Byte /\ z \in Byte /\ w \in Byte

\* What s and t have in common.
Extends(t, s) ==
    /\ s \in Seq(Byte) /\ t \in Seq(Byte) /\ Len(s) <= Len(t)
    /\ \A i \in 1..Len(s) : t[i] = s[i]

\* The bytes of s from f on are the character of n bytes of the table.
Spelt(s, f, n) == Tabled(n, At(s, f), At(s, f + 1), At(s, f + 2), At(s, f + 3))

LEMMA SpeltCharacter ==
    ASSUME NEW s \in Seq(Byte), NEW f \in DOMAIN s, NEW g \in DOMAIN s
    PROVE  IsCharacter(s, f, g) <=> \E n \in 1..4 : g = f + (n - 1) /\ Spelt(s, f, n)
  <1> PICK x, y, z, w :
         x = At(s, f) /\ y = At(s, f + 1) /\ z = At(s, f + 2) /\ w = At(s, f + 3)
    OBVIOUS
  <1>1. IsCharacter(s, f, g) <=> \E n \in 1..4 : g = f + (n - 1) /\ Tabled(n, x, y, z, w)
    BY CharacterTable, SMTT(30)
  <1>2. \A n : Spelt(s, f, n) <=> Tabled(n, x, y, z, w)
    BY Zenon DEF Spelt
  <1> QED
    BY <1>1, <1>2, Zenon

LEMMA CharacterStays ==
    ASSUME NEW s, NEW t, Extends(t, s), NEW f \in DOMAIN s, NEW g \in DOMAIN s, IsCharacter(s, f, g)
    PROVE  f \in DOMAIN t /\ g \in DOMAIN t /\ IsCharacter(t, f, g)
  <1>1. s \in Seq(Byte) /\ t \in Seq(Byte) /\ DOMAIN s \subseteq DOMAIN t
    BY DEF Extends
  <1>2. PICK n \in 1..4 : g = f + (n - 1) /\ Spelt(s, f, n)
    BY <1>1, SpeltCharacter, Zenon
  <1>3. \A i \in DOMAIN s : At(t, i) = At(s, i)
    BY <1>1 DEF Extends, At
  <1>4. f \in DOMAIN s /\ (n >= 2 => f + 1 \in DOMAIN s) /\ (n >= 3 => f + 2 \in DOMAIN s)
        /\ (n >= 4 => f + 3 \in DOMAIN s)
    BY <1>1, <1>2
  <1>5. /\ At(t, f) = At(s, f)
        /\ n >= 2 => At(t, f + 1) = At(s, f + 1)
        /\ n >= 3 => At(t, f + 2) = At(s, f + 2)
        /\ n >= 4 => At(t, f + 3) = At(s, f + 3)
    BY <1>3, <1>4, Zenon
  <1>6. Spelt(t, f, n)
    BY <1>2, <1>5 DEF Spelt, Tabled
  <1>7. f \in DOMAIN t /\ g \in DOMAIN t
    BY <1>1, Zenon
  <1> QED
    BY <1>1, <1>2, <1>6, <1>7, SpeltCharacter, Zenon

\* One character more.
LEMMA CharacterAppended ==
    ASSUME NEW s, IsText(s), NEW n \in 1..4, NEW x, NEW y, NEW z, NEW w,
           AreBytes(x, y, z, w), Tabled(n, x, y, z, w),
           NEW t, t = s \o Chars(n, x, y, z, w)
    PROVE  IsText(t)
  <1> DEFINE c == Chars(n, x, y, z, w)
  <1>1. /\ c \in Seq(Byte) /\ Len(c) = n /\ c[1] = x /\ (n >= 2 => c[2] = y)
        /\ (n >= 3 => c[3] = z) /\ (n >= 4 => c[4] = w)
    <2> USE DEF Chars, AreBytes
    <2>1. CASE n = 1
      BY <2>1
    <2>2. CASE n = 2
      BY <2>2
    <2>3. CASE n = 3
      BY <2>3
    <2>4. CASE n = 4
      BY <2>4
    <2> QED
      BY <2>1, <2>2, <2>3, <2>4
  <1> HIDE DEF c
  <1>2. s \in Seq(Byte) /\ WellFormed(s)
    BY DEF IsText
  <1>3. PICK m \in Nat : m = Len(s)
    BY <1>2
  <1>4. /\ t \in Seq(Byte) /\ Len(t) = m + n
        /\ \A i \in 1..m : t[i] = s[i]
        /\ \A i \in 1..n : t[m + i] = c[i]
    <2>1. /\ s \o c \in Seq(Byte) /\ Len(s \o c) = m + n
          /\ \A i \in 1..(m + n) : (s \o c)[i] = IF i <= m THEN s[i] ELSE c[i - m]
      BY <1>1, <1>2, <1>3, ConcatProperties
    <2>2. \A i \in 1..m : i \in 1..(m + n) /\ i <= m
      OBVIOUS
    <2>3. \A i \in 1..n : m + i \in 1..(m + n) /\ ~(m + i <= m) /\ (m + i) - m = i
      OBVIOUS
    <2>4. t = s \o c
      BY Zenon DEF c
    <2>5. \A i \in 1..m : (s \o c)[i] = s[i]
      BY <2>1, <2>2, Zenon
    <2>6. \A i \in 1..n : (s \o c)[m + i] = c[i]
      BY <2>1, <2>3, Zenon
    <2> QED
      BY <2>1, <2>4, <2>5, <2>6, Zenon
  <1>5. Extends(t, s)
    <2>1. m <= m + n
      OBVIOUS
    <2> QED
      BY <1>2, <1>3, <1>4, <2>1, Zenon DEF Extends
  <1>6. PICK f \in Nat, g \in Nat : f = m + 1 /\ g = m + n
    OBVIOUS
  <1>7. f \in DOMAIN t /\ g \in DOMAIN t /\ g = f + (n - 1)
    <2>1. DOMAIN t = 1..(m + n)
      BY <1>4
    <2>2. f \in 1..(m + n) /\ g \in 1..(m + n) /\ g = f + (n - 1)
      BY <1>6
    <2> QED
      BY <2>1, <2>2, Zenon
  <1>8. IsCharacter(t, f, g)
    <2>1. \A i \in 1..n : At(t, m + i) = c[i]
      <3>1. DOMAIN t = 1..(m + n)
        BY <1>4
      <3>2. \A i \in 1..n : m + i \in 1..(m + n)
        OBVIOUS
      <3> QED
        BY <1>4, <3>1, <3>2, Zenon DEF At
    <2>2. f = m + 1 /\ f + 1 = m + 2 /\ f + 2 = m + 3 /\ f + 3 = m + 4
      BY <1>6
    <2>3. 1 \in 1..n /\ (n >= 2 => 2 \in 1..n) /\ (n >= 3 => 3 \in 1..n) /\ (n >= 4 => 4 \in 1..n)
      OBVIOUS
    <2>4. /\ At(t, f) = x
          /\ n >= 2 => At(t, f + 1) = y
          /\ n >= 3 => At(t, f + 2) = z
          /\ n >= 4 => At(t, f + 3) = w
      BY <1>1, <2>1, <2>2, <2>3, Zenon
    <2>5. Spelt(t, f, n)
      BY <2>4 DEF Spelt, Tabled
    <2> QED
      BY <1>4, <1>7, <2>5, SpeltCharacter, Zenon
  <1>9. WellFormed(t)
    <2> SUFFICES ASSUME NEW i \in DOMAIN t
                 PROVE  \E a, b \in DOMAIN t : a <= i /\ i <= b /\ IsCharacter(t, a, b)
      BY Zenon DEF WellFormed
    <2>1. CASE i \in 1..m
      <3>1. i \in DOMAIN s
        BY <1>2, <1>3, <2>1
      <3>2. PICK a \in DOMAIN s, b \in DOMAIN s : a <= i /\ i <= b /\ IsCharacter(s, a, b)
        BY <1>2, <3>1, Zenon DEF WellFormed
      <3>3. a \in DOMAIN t /\ b \in DOMAIN t /\ IsCharacter(t, a, b)
        BY <1>5, <3>2, CharacterStays, Zenon
      <3> QED
        BY <3>2, <3>3, Zenon
    <2>2. CASE i \notin 1..m
      <3>1. i \in 1..(m + n)
        BY <1>4
      <3>2. f <= i /\ i <= g
        BY <1>6, <2>2, <3>1
      <3> QED
        BY <1>7, <1>8, <3>2, Zenon
    <2> QED
      BY <2>1, <2>2
  <1> QED
    BY <1>4, <1>9, Zenon DEF IsText

LEMMA EmptyText == IsText(<< >>)
  BY DEF IsText, WellFormed

\* What Encode writes of a code point is a character.
LEMMA CodePointEncoded ==
    ASSUME NEW c \in Int, 0 <= c, c <= LastCodePoint, ~IsHigh(c), ~IsLow(c)
    PROVE  \E n \in 1..4, x, y, z, w \in Byte :
              Tabled(n, x, y, z, w) /\ Encode(c) = Chars(n, x, y, z, w)
  <1>1. CASE c < 128
    <2>1. c \in Byte /\ Tabled(1, c, c, c, c)
      BY <1>1, SMT DEF Tabled, Within, Byte
    <2>2. Encode(c) = Chars(1, c, c, c, c)
      BY <1>1, SMT DEF Encode, Chars
    <2> QED
      BY <2>1, <2>2
  <1>2. CASE 128 <= c /\ c <= 2047
    <2> PICK x, y : x = 192 + c \div 64 /\ y = 128 + (c % 64)
      OBVIOUS
    <2>1. x \in Byte /\ y \in Byte /\ Tabled(2, x, y, y, y)
      BY <1>2, SMT DEF Tabled, Within, Continuing, Byte
    <2>2. Encode(c) = Chars(2, x, y, y, y)
      BY <1>2, SMT DEF Encode, Chars
    <2> QED
      BY <2>1, <2>2
  <1>3. CASE 2048 <= c /\ c <= 65535
    <2> PICK a, b, d : a = c \div 4096 /\ b = (c \div 64) % 64 /\ d = c % 64
      OBVIOUS
    <2> PICK x, y, z : x = 224 + a /\ y = 128 + b /\ z = 128 + d
      OBVIOUS
    <2>1. a \in 0..15 /\ b \in 0..63 /\ d \in 0..63 /\ c = a * 4096 + b * 64 + d
      BY <1>3, SMT
    <2>2. x \in Byte /\ y \in Byte /\ z \in Byte /\ Tabled(3, x, y, z, z)
      BY <1>3, <2>1, SMT DEF Tabled, Within, Second3, Continuing, Byte, IsHigh, IsLow
    <2>3. Encode(c) = Chars(3, x, y, z, z)
      BY <1>3, SMT DEF Encode, Chars
    <2> QED
      BY <2>2, <2>3
  <1>4. CASE 65536 <= c
    <2> PICK e, a, b, d : e = c \div 262144 /\ a = (c \div 4096) % 64 /\ b = (c \div 64) % 64 /\ d = c % 64
      OBVIOUS
    <2> PICK x, y, z, w : x = 240 + e /\ y = 128 + a /\ z = 128 + b /\ w = 128 + d
      OBVIOUS
    <2>1. e \in 0..4 /\ a \in 0..63 /\ b \in 0..63 /\ d \in 0..63
          /\ c = e * 262144 + a * 4096 + b * 64 + d
      BY <1>4, SMT DEF LastCodePoint
    <2>2. x \in Byte /\ y \in Byte /\ z \in Byte /\ w \in Byte /\ Tabled(4, x, y, z, w)
      BY <1>4, <2>1, SMT DEF Tabled, Within, Second4, Continuing, Byte, LastCodePoint
    <2>3. Encode(c) = Chars(4, x, y, z, w)
      BY <1>4, SMT DEF Encode, Chars
    <2> QED
      BY <2>2, <2>3
  <1> QED
    BY <1>1, <1>2, <1>3, <1>4, SMT

LEMMA EncodedAppended ==
    ASSUME NEW s, IsText(s), NEW c \in Int, 0 <= c, c <= LastCodePoint, ~IsHigh(c), ~IsLow(c)
    PROVE  IsText(s \o Encode(c))
  <1>1. PICK n \in 1..4, x \in Byte, y \in Byte, z \in Byte, w \in Byte :
           Tabled(n, x, y, z, w) /\ Encode(c) = Chars(n, x, y, z, w)
    BY CodePointEncoded, Zenon
  <1>2. AreBytes(x, y, z, w)
    BY DEF AreBytes
  <1> QED
    BY <1>1, <1>2, CharacterAppended, Zenon

\* The range of a continuation byte.
AnyContinuation == <<128, 191>>

\* The ranges after the first byte of a character of three or four bytes.
After3(x, d) == \E lo, hi \in Byte :
    d = << <<lo, hi>>, AnyContinuation>> /\ \A b \in lo..hi : Second3(x, b)
After4(x, d) == \E lo, hi \in Byte :
    d = << <<lo, hi>>, AnyContinuation, AnyContinuation>> /\ \A b \in lo..hi : Second4(x, b)

\* After u bytes of a character, x, y and z, next_byte_in_range has the ranges d.
Awaits(u, x, y, z, d) ==
    \/ u = 1 /\ Within(x, 194, 223) /\ d = <<AnyContinuation>>
    \/ u = 1 /\ Within(x, 224, 239) /\ After3(x, d)
    \/ u = 1 /\ Within(x, 240, 244) /\ After4(x, d)
    \/ u = 2 /\ Within(x, 224, 239) /\ Second3(x, y) /\ d = <<AnyContinuation>>
    \/ u = 2 /\ Within(x, 240, 244) /\ Second4(x, y) /\ d = <<AnyContinuation, AnyContinuation>>
    \/ u = 3 /\ Within(x, 240, 244) /\ Second4(x, y) /\ Continuing(z) /\ d = <<AnyContinuation>>

\* token_buffer is within a character.
WithinCharacter ==
    \E s \in Seq(Byte), u \in 1..3, x, y, z \in Byte :
        IsText(s) /\ Awaits(u, x, y, z, detail) /\ token_buffer = s \o Chars(u, x, y, z, z)

\* get_codepoint has the digits left to come and the code point c so far.
HexSoFar(left, c) ==
    \/ left = 4 /\ c = 0
    \/ left = 3 /\ Within(c, 0, 15)
    \/ left = 2 /\ Within(c, 0, 255)
    \/ left = 1 /\ Within(c, 0, 4095)

StringLabels == {"string", "escape", "hex", "pair", "pair_u"}
LiteralTokens == {"literal_true", "literal_false", "literal_null"}

\* What token_buffer and the locals are while a string is scanned.
StringInv ==
    /\ label \in StringLabels => IsText(token_buffer)
    /\ label = "hex" => \E left, c, high \in Int :
          detail = <<left, c, high>> /\ HexSoFar(left, c) /\ (high = 0 \/ IsHigh(high))
    /\ label \in {"pair", "pair_u"} => \E c \in Int : detail = <<c>> /\ IsHigh(c)
    /\ label = "utf8" => WithinCharacter
    /\ label = "literal" => detail[1] \in LiteralTokens
    /\ label = "token" /\ token = "value_string" => IsText(token_buffer)

LEMMA PlainByteAppended ==
    ASSUME NEW s, IsText(s), NEW b, b \in 0..127
    PROVE  IsText(Append(s, b))
  <1>1. b \in Byte /\ Within(b, 0, 127)
    BY DEF Byte, Within
  <1>2. 1 \in 1..4 /\ AreBytes(b, b, b, b) /\ Tabled(1, b, b, b, b)
    BY <1>1 DEF AreBytes, Tabled
  <1>3. Append(s, b) = s \o Chars(1, b, b, b, b)
    BY <1>1 DEF IsText, Chars
  <1> QED
    BY <1>2, <1>3, CharacterAppended, Zenon

\* Which guard of Continuations holds of b.
LeadGuards(b, n) ==
    /\ b \in 194..223 <=> n = 1
    /\ b = 224 <=> n = 2
    /\ b \in 225..236 \cup 238..239 <=> n = 3
    /\ b = 237 <=> n = 4
    /\ b = 240 <=> n = 5
    /\ b \in 241..243 <=> n = 6
    /\ b = 244 <=> n = 7

LEMMA LeadRanges ==
    ASSUME NEW b, NEW n \in 0..7, LeadGuards(b, n)
    PROVE  /\ n = 0 => Continuations(b) = << >>
           /\ n = 1 => Continuations(b) = <<AnyContinuation>>
           /\ n = 2 => Continuations(b) = << <<160, 191>>, AnyContinuation>>
           /\ n = 3 => Continuations(b) = <<AnyContinuation, AnyContinuation>>
           /\ n = 4 => Continuations(b) = << <<128, 159>>, AnyContinuation>>
           /\ n = 5 => Continuations(b) = << <<144, 191>>, AnyContinuation, AnyContinuation>>
           /\ n = 6 => Continuations(b) = <<AnyContinuation, AnyContinuation, AnyContinuation>>
           /\ n = 7 => Continuations(b) = << <<128, 143>>, AnyContinuation, AnyContinuation>>
  <1> USE DEF LeadGuards, Continuations, AnyContinuation
  <1>0. CASE n = 0
    BY <1>0
  <1>1. CASE n = 1
    BY <1>1
  <1>2. CASE n = 2
    BY <1>2
  <1>3. CASE n = 3
    BY <1>3
  <1>4. CASE n = 4
    BY <1>4
  <1>5. CASE n = 5
    BY <1>5
  <1>6. CASE n = 6
    BY <1>6
  <1>7. CASE n = 7
    BY <1>7
  <1> HIDE DEF LeadGuards, Continuations, AnyContinuation
  <1> QED
    BY <1>0, <1>1, <1>2, <1>3, <1>4, <1>5, <1>6, <1>7

LEMMA SecondOf3 ==
    ASSUME NEW x, NEW lo, lo = (IF x = 224 THEN 160 ELSE 128),
           NEW hi, hi = (IF x = 237 THEN 159 ELSE 191), NEW b \in lo..hi
    PROVE  Second3(x, b)
  BY SMT DEF Second3, Continuing, Within

LEMMA SecondOf4 ==
    ASSUME NEW x, NEW lo, lo = (IF x = 240 THEN 144 ELSE 128),
           NEW hi, hi = (IF x = 244 THEN 143 ELSE 191), NEW b \in lo..hi
    PROVE  Second4(x, b)
  BY SMT DEF Second4, Continuing, Within

LEMMA LeadGuard ==
    ASSUME NEW b
    PROVE  \E n \in 0..7 : LeadGuards(b, n)
  <1>1. PICK n \in 0..7 : n = IF b \in 194..223 THEN 1 ELSE IF b = 224 THEN 2
           ELSE IF b \in 225..236 \cup 238..239 THEN 3 ELSE IF b = 237 THEN 4
           ELSE IF b = 240 THEN 5 ELSE IF b \in 241..243 THEN 6 ELSE IF b = 244 THEN 7 ELSE 0
    BY SMT
  <1> QED
    BY <1>1, SMT DEF LeadGuards

LEMMA LeadLength ==
    ASSUME NEW b, NEW n \in 0..7, LeadGuards(b, n)
    PROVE  /\ n # 0 => b \in Byte
           /\ n = 1 => Within(b, 194, 223)
           /\ n \in {2, 3, 4} => Within(b, 224, 239)
           /\ n \in {5, 6, 7} => Within(b, 240, 244)
           /\ n = 2 <=> b = 224
           /\ n = 4 <=> b = 237
           /\ n = 5 <=> b = 240
           /\ n = 7 <=> b = 244
  BY SMT DEF LeadGuards, Byte, Within

LEMMA LeadByte ==
    ASSUME NEW b, NEW d, d = Continuations(b), d # << >>, NEW y, NEW z
    PROVE  b \in Byte /\ Awaits(1, b, y, z, d)
  <1>1. PICK n \in 0..7 : LeadGuards(b, n)
    BY LeadGuard
  <1>2. \A lo, hi : (lo = 128 /\ hi = 191) => AnyContinuation = <<lo, hi>>
    BY DEF AnyContinuation
  <1>3. 128 \in Byte /\ 143 \in Byte /\ 144 \in Byte /\ 159 \in Byte /\ 160 \in Byte /\ 191 \in Byte
    BY SMT DEF Byte
  <1>4. n # 0
    BY <1>1, LeadRanges
  <1>5. CASE n = 1
    <2>1. b \in Byte /\ Within(b, 194, 223)
      BY <1>1, <1>5, LeadLength, SMT
    <2>2. d = <<AnyContinuation>>
      BY <1>1, <1>5, LeadRanges
    <2> QED
      BY <2>1, <2>2, SMT DEF Awaits
  <1>6. CASE n \in {2, 3, 4}
    <2>1. b \in Byte /\ Within(b, 224, 239)
      BY <1>1, <1>6, LeadLength, SMT
    <2>2. PICK lo \in Byte, hi \in Byte :
             lo = (IF n = 2 THEN 160 ELSE 128) /\ hi = (IF n = 4 THEN 159 ELSE 191)
      BY <1>3, <1>6
    <2>3. d = << <<lo, hi>>, AnyContinuation>>
      <3>1. CASE n = 2
        BY <1>1, <2>2, <3>1, LeadRanges
      <3>2. CASE n = 3
        BY <1>1, <1>2, <2>2, <3>2, LeadRanges
      <3>3. CASE n = 4
        BY <1>1, <2>2, <3>3, LeadRanges
      <3> QED
        BY <1>6, <3>1, <3>2, <3>3
    <2>4. \A a \in lo..hi : Second3(b, a)
      <3>1. (n = 2 <=> b = 224) /\ (n = 4 <=> b = 237)
        BY <1>1, LeadLength
      <3>2. lo = (IF b = 224 THEN 160 ELSE 128) /\ hi = (IF b = 237 THEN 159 ELSE 191)
        BY <2>2, <3>1
      <3> QED
        BY <3>2, SecondOf3, SMT
    <2> QED
      BY <2>1, <2>3, <2>4, Zenon DEF Awaits, After3
  <1>7. CASE n \in {5, 6, 7}
    <2>1. b \in Byte /\ Within(b, 240, 244)
      BY <1>1, <1>7, LeadLength, SMT
    <2>2. PICK lo \in Byte, hi \in Byte :
             lo = (IF n = 5 THEN 144 ELSE 128) /\ hi = (IF n = 7 THEN 143 ELSE 191)
      BY <1>3, <1>7
    <2>3. d = << <<lo, hi>>, AnyContinuation, AnyContinuation>>
      <3>1. CASE n = 5
        BY <1>1, <2>2, <3>1, LeadRanges
      <3>2. CASE n = 6
        BY <1>1, <1>2, <2>2, <3>2, LeadRanges
      <3>3. CASE n = 7
        BY <1>1, <2>2, <3>3, LeadRanges
      <3> QED
        BY <1>7, <3>1, <3>2, <3>3
    <2>4. \A a \in lo..hi : Second4(b, a)
      <3>1. (n = 5 <=> b = 240) /\ (n = 7 <=> b = 244)
        BY <1>1, LeadLength
      <3>2. lo = (IF b = 240 THEN 144 ELSE 128) /\ hi = (IF b = 244 THEN 143 ELSE 191)
        BY <2>2, <3>1
      <3> QED
        BY <3>2, SecondOf4, SMT
    <2> QED
      BY <2>1, <2>3, <2>4, Zenon DEF Awaits, After4
  <1> QED
    BY <1>1, <1>4, <1>5, <1>6, <1>7

\* One byte more.
Grow(x, y, z, b) ==
    /\ Append(<<x>>, b) = <<x, b>>
    /\ Append(<<x, y>>, b) = <<x, y, b>>
    /\ Append(<<x, y, z>>, b) = <<x, y, z, b>>

LEMMA TuplesGrow ==
    ASSUME NEW S, NEW x \in S, NEW y \in S, NEW z \in S, NEW b \in S
    PROVE  Grow(x, y, z, b)
  <1>1. Append(<<x>>, b) = <<x, b>>
    <2>1. Append(<<x>>, b) \in Seq(S) /\ Len(Append(<<x>>, b)) = 2
      OBVIOUS
    <2>2. <<x, b>> \in Seq(S) /\ Len(<<x, b>>) = 2
      OBVIOUS
    <2>3. \A i \in 1..2 : Append(<<x>>, b)[i] = <<x, b>>[i]
      OBVIOUS
    <2> QED
      BY <2>1, <2>2, <2>3, SeqEqual
  <1>2. Append(<<x, y>>, b) = <<x, y, b>>
    <2>1. Append(<<x, y>>, b) \in Seq(S) /\ Len(Append(<<x, y>>, b)) = 3
      OBVIOUS
    <2>2. <<x, y, b>> \in Seq(S) /\ Len(<<x, y, b>>) = 3
      OBVIOUS
    <2>3. \A i \in 1..3 : Append(<<x, y>>, b)[i] = <<x, y, b>>[i]
      OBVIOUS
    <2> QED
      BY <2>1, <2>2, <2>3, SeqEqual
  <1>3. Append(<<x, y, z>>, b) = <<x, y, z, b>>
    <2>1. Append(<<x, y, z>>, b) \in Seq(S) /\ Len(Append(<<x, y, z>>, b)) = 4
      OBVIOUS
    <2>2. <<x, y, z, b>> \in Seq(S) /\ Len(<<x, y, z, b>>) = 4
      OBVIOUS
    <2>3. \A i \in 1..4 : Append(<<x, y, z>>, b)[i] = <<x, y, z, b>>[i]
      OBVIOUS
    <2> QED
      BY <2>1, <2>2, <2>3, SeqEqual
  <1> QED
    BY <1>1, <1>2, <1>3, Zenon DEF Grow

\* A byte behind n bytes behind s.
Longer(s, x, y, z, w, b) ==
    /\ Append(s \o Chars(1, x, y, z, w), b) = s \o Chars(2, x, b, b, b)
    /\ Append(s \o Chars(2, x, y, z, w), b) = s \o Chars(3, x, y, b, b)
    /\ Append(s \o Chars(3, x, y, z, w), b) = s \o Chars(4, x, y, z, b)

LEMMA OneCharLonger ==
    ASSUME NEW s \in Seq(Byte), NEW x \in Byte, NEW y \in Byte, NEW z \in Byte, NEW w, NEW b \in Byte
    PROVE  Longer(s, x, y, z, w, b)
  <1>1. \A c \in Seq(Byte) : Append(s \o c, b) = s \o Append(c, b)
    OBVIOUS
  <1>2. Chars(1, x, y, z, w) = <<x>> /\ Chars(2, x, y, z, w) = <<x, y>> /\ Chars(3, x, y, z, w) = <<x, y, z>>
    BY DEF Chars
  <1>3. <<x>> \in Seq(Byte) /\ <<x, y>> \in Seq(Byte) /\ <<x, y, z>> \in Seq(Byte)
    OBVIOUS
  <1>4. /\ Append(<<x>>, b) = Chars(2, x, b, b, b)
        /\ Append(<<x, y>>, b) = Chars(3, x, y, b, b)
        /\ Append(<<x, y, z>>, b) = Chars(4, x, y, z, b)
    <2>1. Chars(2, x, b, b, b) = <<x, b>> /\ Chars(3, x, y, b, b) = <<x, y, b>>
          /\ Chars(4, x, y, z, b) = <<x, y, z, b>>
      BY DEF Chars
    <2>2. Grow(x, y, z, b)
      BY TuplesGrow, Zenon
    <2> QED
      BY <2>1, <2>2, Zenon DEF Grow
  <1> QED
    BY <1>1, <1>2, <1>3, <1>4, Zenon DEF Longer

LEMMA ByteBetween ==
    ASSUME NEW lo \in Byte, NEW hi \in Byte, NEW b \in lo..hi
    PROVE  b \in Byte
  BY SMT DEF Byte

\* t ends the character that d awaited behind s, or goes on with it.
GoesOn(s, x, d, t) ==
    /\ Len(d) = 1 => IsText(t)
    /\ Len(d) # 1 => \E v \in 1..3, q, r \in Byte :
          Awaits(v, x, q, r, Tail(d)) /\ t = s \o Chars(v, x, q, r, r)

\* A byte within the range that is awaited.
LEMMA AwaitedByte ==
    ASSUME NEW s, IsText(s), NEW u \in 1..3, NEW x \in Byte, NEW y \in Byte, NEW z \in Byte,
           NEW d, Awaits(u, x, y, z, d), NEW b, b \in d[1][1]..d[1][2],
           NEW t, t = s \o Chars(u, x, y, z, z)
    PROVE  GoesOn(s, x, d, Append(t, b))
  <1> SUFFICES
           /\ Len(d) = 1 => IsText(Append(t, b))
           /\ Len(d) # 1 => \E v \in 1..3, q, r \in Byte :
                 Awaits(v, x, q, r, Tail(d)) /\ Append(t, b) = s \o Chars(v, x, q, r, r)
    BY Zenon DEF GoesOn
  <1>1. s \in Seq(Byte)
    BY DEF IsText
  <1>2. AnyContinuation[1] = 128 /\ AnyContinuation[2] = 191
    BY DEF AnyContinuation
  <1>3. \A a : a \in 128..191 => a \in Byte /\ Continuing(a)
    BY SMT DEF Byte, Continuing, Within
  <1>4. 1 \in 1..3 /\ 2 \in 1..3 /\ 3 \in 1..3 /\ 2 \in 1..4 /\ 3 \in 1..4 /\ 4 \in 1..4
    OBVIOUS
  <1>5. ASSUME d = <<AnyContinuation>>
        PROVE  Len(d) = 1 /\ b \in Byte /\ Continuing(b)
    <2>1. Len(d) = 1 /\ d[1] = AnyContinuation
      BY <1>5
    <2> QED
      BY <1>2, <1>3, <2>1
  <1>6. CASE u = 1 /\ Within(x, 194, 223) /\ d = <<AnyContinuation>>
    <2>1. AreBytes(x, b, b, b) /\ Tabled(2, x, b, b, b)
      BY <1>5, <1>6 DEF AreBytes, Tabled
    <2>2. Append(t, b) = s \o Chars(2, x, b, b, b)
      <3>1. t = s \o Chars(1, x, y, z, z)
        BY <1>6, Zenon
      <3>2. Longer(s, x, y, z, z, b)
        BY <1>1, <1>5, <1>6, OneCharLonger, Zenon
      <3> QED
        BY <3>1, <3>2, Zenon DEF Longer
    <2>3. IsText(Append(t, b))
      BY <1>4, <2>1, <2>2, CharacterAppended, Zenon
    <2> QED
      BY <1>5, <1>6, <2>3
  <1>7. CASE u = 1 /\ Within(x, 224, 239) /\ After3(x, d)
    <2>1. PICK lo \in Byte, hi \in Byte :
             d = << <<lo, hi>>, AnyContinuation>> /\ \A a \in lo..hi : Second3(x, a)
      BY <1>7 DEF After3
    <2>2. Len(d) # 1 /\ d[1] = <<lo, hi>> /\ Tail(d) = <<AnyContinuation>>
      BY <2>1
    <2>3. b \in lo..hi /\ b \in Byte
      <3>1. b \in lo..hi
        BY <2>2
      <3> QED
        BY <3>1, ByteBetween, Zenon
    <2>4. Awaits(2, x, b, b, Tail(d))
      BY <1>7, <2>1, <2>2, <2>3 DEF Awaits
    <2>5. Append(t, b) = s \o Chars(2, x, b, b, b)
      <3>1. t = s \o Chars(1, x, y, z, z)
        BY <1>7, Zenon
      <3>2. Longer(s, x, y, z, z, b)
        BY <1>1, <1>7, <2>3, OneCharLonger, Zenon
      <3> QED
        BY <3>1, <3>2, Zenon DEF Longer
    <2> QED
      BY <1>4, <2>2, <2>3, <2>4, <2>5, Zenon
  <1>8. CASE u = 1 /\ Within(x, 240, 244) /\ After4(x, d)
    <2>1. PICK lo \in Byte, hi \in Byte :
             d = << <<lo, hi>>, AnyContinuation, AnyContinuation>> /\ \A a \in lo..hi : Second4(x, a)
      BY <1>8 DEF After4
    <2>2. Len(d) # 1 /\ d[1] = <<lo, hi>> /\ Tail(d) = <<AnyContinuation, AnyContinuation>>
      BY <2>1
    <2>3. b \in lo..hi /\ b \in Byte
      <3>1. b \in lo..hi
        BY <2>2
      <3> QED
        BY <3>1, ByteBetween, Zenon
    <2>4. Awaits(2, x, b, b, Tail(d))
      BY <1>8, <2>1, <2>2, <2>3 DEF Awaits
    <2>5. Append(t, b) = s \o Chars(2, x, b, b, b)
      <3>1. t = s \o Chars(1, x, y, z, z)
        BY <1>8, Zenon
      <3>2. Longer(s, x, y, z, z, b)
        BY <1>1, <1>8, <2>3, OneCharLonger, Zenon
      <3> QED
        BY <3>1, <3>2, Zenon DEF Longer
    <2> QED
      BY <1>4, <2>2, <2>3, <2>4, <2>5, Zenon
  <1>9. CASE u = 2 /\ Within(x, 224, 239) /\ Second3(x, y) /\ d = <<AnyContinuation>>
    <2>1. AreBytes(x, y, b, b) /\ Tabled(3, x, y, b, b)
      BY <1>5, <1>9 DEF AreBytes, Tabled
    <2>2. Append(t, b) = s \o Chars(3, x, y, b, b)
      <3>1. t = s \o Chars(2, x, y, z, z)
        BY <1>9, Zenon
      <3>2. Longer(s, x, y, z, z, b)
        BY <1>1, <1>5, <1>9, OneCharLonger, Zenon
      <3> QED
        BY <3>1, <3>2, Zenon DEF Longer
    <2>3. IsText(Append(t, b))
      BY <1>4, <2>1, <2>2, CharacterAppended, Zenon
    <2> QED
      BY <1>5, <1>9, <2>3
  <1>10. CASE u = 2 /\ Within(x, 240, 244) /\ Second4(x, y) /\ d = <<AnyContinuation, AnyContinuation>>
    <2>1. Len(d) # 1 /\ d[1] = AnyContinuation /\ Tail(d) = <<AnyContinuation>>
      BY <1>10
    <2>2. b \in Byte /\ Continuing(b)
      BY <1>2, <1>3, <2>1
    <2>3. Awaits(3, x, y, b, Tail(d))
      BY <1>10, <2>1, <2>2 DEF Awaits
    <2>4. Append(t, b) = s \o Chars(3, x, y, b, b)
      <3>1. t = s \o Chars(2, x, y, z, z)
        BY <1>10, Zenon
      <3>2. Longer(s, x, y, z, z, b)
        BY <1>1, <1>10, <2>2, OneCharLonger, Zenon
      <3> QED
        BY <3>1, <3>2, Zenon DEF Longer
    <2> QED
      BY <1>4, <2>1, <2>2, <2>3, <2>4, Zenon
  <1>11. CASE u = 3 /\ Within(x, 240, 244) /\ Second4(x, y) /\ Continuing(z) /\ d = <<AnyContinuation>>
    <2>1. AreBytes(x, y, z, b) /\ Tabled(4, x, y, z, b)
      BY <1>5, <1>11 DEF AreBytes, Tabled
    <2>2. Append(t, b) = s \o Chars(4, x, y, z, b)
      <3>1. t = s \o Chars(3, x, y, z, z)
        BY <1>11, Zenon
      <3>2. Longer(s, x, y, z, z, b)
        BY <1>1, <1>5, <1>11, OneCharLonger, Zenon
      <3> QED
        BY <3>1, <3>2, Zenon DEF Longer
    <2>3. IsText(Append(t, b))
      BY <1>4, <2>1, <2>2, CharacterAppended, Zenon
    <2> QED
      BY <1>5, <1>11, <2>3
  <1> QED
    BY <1>6, <1>7, <1>8, <1>9, <1>10, <1>11, Zenon DEF Awaits

\* A step to a label outside a string.
Elsewhere ==
    /\ label' \notin StringLabels \cup {"utf8"}
    /\ label' = "literal" => detail'[1] \in LiteralTokens
    /\ label' = "token" => token' # "value_string"

LEMMA ElsewhereKeeps ==
    ASSUME Elsewhere
    PROVE  StringInv'
  BY DEF Elsewhere, StringInv, StringLabels

\* A step to a label of a string, or to the end of one.
StringGoesOn(l) ==
    /\ label' = l /\ IsText(token_buffer)'
    /\ \/ l = "string" \/ l = "escape"
       \/ l = "token" /\ token' = "value_string"

LEMMA GoesOnKeeps ==
    ASSUME NEW l, StringGoesOn(l)
    PROVE  StringInv'
  BY DEF StringGoesOn, StringInv

LEMMA OtherScanners ==
    ASSUME StringInv, NEW b, skip_bom(b) \/ scan_comment(b) \/ scan_literal(b) \/ scan_number(b)
    PROVE  Elsewhere
  <1> USE DEF Elsewhere, StringLabels, Skip, Add, Goto, Unget, Return
  <1>1. CASE skip_bom(b)
    BY <1>1 DEF skip_bom
  <1>2. CASE scan_comment(b)
    BY <1>2 DEF scan_comment, AfterStar
  <1>3. CASE scan_literal(b)
    <2>1. label = "literal" /\ detail[1] \in LiteralTokens
      BY <1>3 DEF scan_literal, StringInv
    <2>2. PICK w, q : w = detail[1] /\ q = Tail(detail[2])
      OBVIOUS
    <2>3. w # "parse_error" /\ w # "value_string"
      BY <2>1, <2>2 DEF LiteralTokens
    <2>4. \/ Return(b, "parse_error") \/ Return(b, w)
          \/ Goto(b, label, <<w, q>>, token_buffer)
      BY <1>3, <2>2 DEF scan_literal
    <2> QED
      BY <2>1, <2>2, <2>3, <2>4
  <1>4. CASE scan_number(b)
    <2>1. ASSUME NEW n, NEW s
          PROVE  Convert(n, s) # "value_string"
      BY DEF Convert
    <2>2. \/ label' \in {"minus", "zero", "any1", "decimal1", "decimal2", "exponent", "sign", "any2"}
          \/ label' = "token" /\ token' = "parse_error"
          \/ label' = "token" /\ token' = Convert(detail, token_buffer)
      BY <1>4 DEF scan_number, integer_part, fraction_part, exponent_part, Finished, AfterDigit
    <2> QED
      BY <2>1, <2>2
  <1> QED
    BY <1>1, <1>2, <1>3, <1>4

LEMMA ScanKeepsStrings ==
    ASSUME NEW b, scan(b)
    PROVE  StringInv'
  <1>1. CASE b = Quote
    <2>1. Goto(b, "string", << >>, << >>)
      <3>1. /\ b \notin Whitespace /\ b # Slash /\ b # 45 /\ b # 48 /\ b \notin Digits \ {48}
            /\ b \notin {0, EOF}
        BY <1>1 DEF Quote, Whitespace, Slash, LF, CR, Digits, EOF
      <3>2. b \notin DOMAIN Structural /\ b \notin DOMAIN Literals
        BY <1>1 DEF Quote, Structural, Literals
      <3> QED
        BY <1>1, <3>1, <3>2 DEF scan
    <2>2. StringGoesOn("string")
      BY <2>1, EmptyText DEF Goto, StringGoesOn
    <2> QED
      BY <2>2, GoesOnKeeps
  <1>2. CASE b # Quote
    <2>1. ASSUME NEW a \in DOMAIN Structural
          PROVE  Structural[a] # "value_string"
      BY DEF Structural
    <2>2. ASSUME NEW a \in DOMAIN Literals
          PROVE  Literals[a][1] \in LiteralTokens
      BY DEF Literals, LiteralTokens
    <2>3. \/ label = "start" /\ Skip(b, label)
          \/ Skip(b, "comment")
          \/ b \in DOMAIN Structural /\ Return(b, Structural[b])
          \/ b \in DOMAIN Literals /\ Goto(b, "literal", Literals[b], token_buffer)
          \/ Goto(b, "minus", "value_integer", <<b>>)
          \/ Goto(b, "zero", "value_unsigned", <<b>>)
          \/ Goto(b, "any1", "value_unsigned", <<b>>)
          \/ Return(b, "end_of_input") \/ Return(b, "parse_error")
      BY <1>2, Zenon DEF scan
    <2>4. Elsewhere
      BY <2>1, <2>2, <2>3 DEF Elsewhere, StringLabels, Skip, Goto, Return
    <2> QED
      BY <2>4, ElsewhereKeeps
  <1> QED
    BY <1>1, <1>2

LEMMA EscapesPlain ==
    ASSUME NEW b \in DOMAIN Escapes
    PROVE  Escapes[b] \in 0..127
  BY DEF Escapes, Quote, Backslash, Slash, LF, CR

\* A character begins: its first byte is behind s.
LEMMA CharacterBegins ==
    ASSUME NEW s, IsText(s), s = token_buffer, NEW b, Add(b, "utf8", Continuations(b)),
           Continuations(b) # << >>
    PROVE  StringInv'
  <1>1. PICK d : d = Continuations(b)
    OBVIOUS
  <1>2. b \in Byte /\ Awaits(1, b, b, b, d)
    BY <1>1, LeadByte
  <1>3. detail' = d /\ token_buffer' = Append(s, b) /\ label' = "utf8"
    BY <1>1 DEF Add, Goto
  <1>4. Append(s, b) = s \o Chars(1, b, b, b, b)
    BY <1>2 DEF IsText, Chars
  <1>5. 1 \in 1..3
    OBVIOUS
  <1>6. WithinCharacter'
    <2>1. b \in Byte /\ Awaits(1, b, b, b, detail') /\ token_buffer' = s \o Chars(1, b, b, b, b)
      BY <1>2, <1>3, <1>4, Zenon
    <2>2. s \in Seq(Byte)
      BY DEF IsText
    <2> QED
      BY <1>5, <2>1, <2>2, Zenon DEF WithinCharacter
  <1> QED
    BY <1>3, <1>6 DEF StringInv, StringLabels

LEMMA ScanStringKeeps ==
    ASSUME StringInv, NEW b, scan_string(b)
    PROVE  StringInv'
  <1>1. CASE label = "string"
    <2>1. IsText(token_buffer)
      BY <1>1 DEF StringInv, StringLabels
    <2>2. \/ Return(b, "value_string")
          \/ Skip(b, "escape")
          \/ Return(b, "parse_error")
          \/ b \in Plain /\ Add(b, "string", << >>)
          \/ Continuations(b) # << >> /\ Add(b, "utf8", Continuations(b))
      BY <1>1 DEF scan_string
    <2>3. CASE Return(b, "value_string")
      BY <2>1, <2>3, GoesOnKeeps DEF Return, StringGoesOn
    <2>4. CASE Skip(b, "escape")
      BY <2>1, <2>4, GoesOnKeeps DEF Skip, Goto, StringGoesOn
    <2>5. CASE Return(b, "parse_error")
      BY <2>5, ElsewhereKeeps DEF Return, Elsewhere, StringLabels
    <2>6. CASE b \in Plain /\ Add(b, "string", << >>)
      <3>1. b \in 0..127
        BY <2>6 DEF Plain
      <3>2. IsText(Append(token_buffer, b))
        BY <2>1, <3>1, PlainByteAppended
      <3> QED
        BY <2>6, <3>2, GoesOnKeeps DEF Add, Goto, StringGoesOn
    <2>7. CASE Continuations(b) # << >> /\ Add(b, "utf8", Continuations(b))
      BY <2>1, <2>7, CharacterBegins
    <2> QED
      BY <2>2, <2>3, <2>4, <2>5, <2>6, <2>7
  <1>2. CASE label = "escape"
    <2>1. IsText(token_buffer)
      BY <1>2 DEF StringInv, StringLabels
    <2>2. \/ b \in DOMAIN Escapes /\ Goto(b, "string", << >>, Append(token_buffer, Escapes[b]))
          \/ Goto(b, "hex", <<4, 0, 0>>, token_buffer)
          \/ Return(b, "parse_error")
      BY <1>2 DEF scan_string
    <2>3. CASE b \in DOMAIN Escapes /\ Goto(b, "string", << >>, Append(token_buffer, Escapes[b]))
      <3>1. IsText(Append(token_buffer, Escapes[b]))
        BY <2>1, <2>3, EscapesPlain, PlainByteAppended
      <3> QED
        BY <2>3, <3>1, GoesOnKeeps DEF Goto, StringGoesOn
    <2>4. CASE Goto(b, "hex", <<4, 0, 0>>, token_buffer)
      BY <2>1, <2>4 DEF Goto, StringInv, StringLabels, HexSoFar
    <2>5. CASE Return(b, "parse_error")
      BY <2>5, ElsewhereKeeps DEF Return, Elsewhere, StringLabels
    <2> QED
      BY <2>2, <2>3, <2>4, <2>5
  <1>3. CASE label = "pair"
    <2>1. IsText(token_buffer) /\ \E c \in Int : detail = <<c>> /\ IsHigh(c)
      BY <1>3 DEF StringInv, StringLabels
    <2>2. Goto(b, "pair_u", detail, token_buffer) \/ Return(b, "parse_error")
      BY <1>3 DEF scan_string
    <2>3. CASE Goto(b, "pair_u", detail, token_buffer)
      BY <2>1, <2>3 DEF Goto, StringInv, StringLabels
    <2>4. CASE Return(b, "parse_error")
      BY <2>4, ElsewhereKeeps DEF Return, Elsewhere, StringLabels
    <2> QED
      BY <2>2, <2>3, <2>4
  <1>4. CASE label = "pair_u"
    <2>1. IsText(token_buffer)
      BY <1>4 DEF StringInv, StringLabels
    <2>2. PICK c \in Int : detail = <<c>> /\ IsHigh(c)
      BY <1>4 DEF StringInv
    <2>3. Goto(b, "hex", <<4, 0, c>>, token_buffer) \/ Return(b, "parse_error")
      BY <1>4, <2>2 DEF scan_string
    <2>4. CASE Goto(b, "hex", <<4, 0, c>>, token_buffer)
      BY <2>1, <2>2, <2>4 DEF Goto, StringInv, StringLabels, HexSoFar
    <2>5. CASE Return(b, "parse_error")
      BY <2>5, ElsewhereKeeps DEF Return, Elsewhere, StringLabels
    <2> QED
      BY <2>3, <2>4, <2>5
  <1> QED
    BY <1>1, <1>2, <1>3, <1>4 DEF scan_string

LEMMA NextByteKeeps ==
    ASSUME StringInv, NEW b, next_byte_in_range(b)
    PROVE  StringInv'
  <1>1. label = "utf8" /\ WithinCharacter
    BY DEF StringInv, next_byte_in_range
  <1>2. PICK s \in Seq(Byte), u \in 1..3, x \in Byte, y \in Byte, z \in Byte :
           IsText(s) /\ Awaits(u, x, y, z, detail) /\ token_buffer = s \o Chars(u, x, y, z, z)
    BY <1>1, Zenon DEF WithinCharacter
  <1>3. CASE b \notin detail[1][1]..detail[1][2]
    <2>1. Return(b, "parse_error")
      BY <1>3 DEF next_byte_in_range
    <2> QED
      BY <2>1, ElsewhereKeeps DEF Return, Elsewhere, StringLabels
  <1>4. CASE b \in detail[1][1]..detail[1][2]
    <2>1. /\ Len(detail) = 1 => IsText(Append(token_buffer, b))
          /\ Len(detail) # 1 => \E v \in 1..3, q, r \in Byte :
                Awaits(v, x, q, r, Tail(detail)) /\ Append(token_buffer, b) = s \o Chars(v, x, q, r, r)
      <3>1. GoesOn(s, x, detail, Append(token_buffer, b))
        BY <1>2, <1>4, AwaitedByte, Zenon
      <3> QED
        BY <3>1, Zenon DEF GoesOn
    <2>2. CASE Len(detail) = 1
      <3>1. Add(b, "string", << >>)
        BY <1>4, <2>2 DEF next_byte_in_range
      <3> QED
        BY <2>1, <2>2, <3>1, GoesOnKeeps DEF Add, Goto, StringGoesOn
    <2>3. CASE Len(detail) # 1
      <3>1. label' = "utf8" /\ detail' = Tail(detail) /\ token_buffer' = Append(token_buffer, b)
        BY <1>1, <1>4, <2>3 DEF next_byte_in_range, Add, Goto
      <3>2. PICK v \in 1..3, q \in Byte, r \in Byte :
               Awaits(v, x, q, r, detail') /\ token_buffer' = s \o Chars(v, x, q, r, r)
        BY <2>1, <2>3, <3>1, Zenon
      <3>3. WithinCharacter'
        BY <1>2, <3>2, Zenon DEF WithinCharacter
      <3> QED
        BY <3>1, <3>3 DEF StringInv, StringLabels
    <2> QED
      BY <2>2, <2>3
  <1> QED
    BY <1>3, <1>4

\* One hex digit more.
LEMMA HexDigitRead ==
    ASSUME NEW b, IsHex(b), NEW left, NEW c \in Int, HexSoFar(left, c),
           NEW d, d = 16 * c + HexValue(b)
    PROVE  /\ d \in Int /\ left \in Int
           /\ left > 1 => HexSoFar(left - 1, d)
           /\ ~(left > 1) => 0 <= d /\ d <= 65535
  <1>1. b \in Int /\ HexValue(b) \in 0..15
    BY SMT DEF IsHex, HexValue
  <1> HIDE DEF HexValue
  <1> QED
    BY <1>1, SMT DEF HexSoFar, Within

LEMMA PairJoined ==
    ASSUME NEW high \in Int, IsHigh(high), NEW c \in Int, IsLow(c),
           NEW p, p = high * 1024 + c - 56613888
    PROVE  p \in Int /\ 0 <= p /\ p <= LastCodePoint /\ ~IsHigh(p) /\ ~IsLow(p)
  BY SMT DEF IsHigh, IsLow, LastCodePoint

LEMMA UnitIsPoint ==
    ASSUME NEW c \in Int, 0 <= c, c <= 65535
    PROVE  c <= LastCodePoint
  BY SMT DEF LastCodePoint

LEMMA CodepointKeeps ==
    ASSUME StringInv, NEW b, get_codepoint(b)
    PROVE  StringInv'
  <1>1. label = "hex" /\ IsText(token_buffer)
    BY DEF StringInv, StringLabels, get_codepoint
  <1>2. PICK left \in Int, k \in Int, high \in Int :
           detail = <<left, k, high>> /\ HexSoFar(left, k) /\ (high = 0 \/ IsHigh(high))
    BY <1>1 DEF StringInv
  <1>3. PICK c : c = 16 * k + HexValue(b)
    OBVIOUS
  <1>4. detail[1] = left /\ detail[2] = k /\ detail[3] = high
    BY <1>2
  <1>5. PICK p : p = high * 1024 + c - 56613888
    OBVIOUS
  <1>6. IF ~IsHex(b) THEN Return(b, "parse_error")
        ELSE IF left > 1 THEN Goto(b, "hex", <<left - 1, c, high>>, token_buffer)
        ELSE IF high # 0 /\ IsLow(c) THEN Goto(b, "string", << >>, token_buffer \o Encode(p))
        ELSE IF high = 0 /\ IsHigh(c) THEN Goto(b, "pair", <<c>>, token_buffer)
        ELSE IF high # 0 \/ IsLow(c) THEN Return(b, "parse_error")
        ELSE Goto(b, "string", << >>, token_buffer \o Encode(c))
    BY <1>1, <1>3, <1>4, <1>5, SMT DEF get_codepoint
  <1>7. CASE Return(b, "parse_error")
    BY <1>7, ElsewhereKeeps DEF Return, Elsewhere, StringLabels
  <1>8. CASE IsHex(b)
    <2>1. /\ c \in Int
          /\ left > 1 => HexSoFar(left - 1, c)
          /\ ~(left > 1) => 0 <= c /\ c <= 65535
      BY <1>2, <1>3, <1>8, HexDigitRead
    <2>2. CASE left > 1
      <3>1. PICK n \in Int : n = left - 1
        BY <1>2
      <3>2. label' = "hex" /\ detail' = <<n, c, high>> /\ token_buffer' = token_buffer
        BY <1>6, <1>8, <2>2, <3>1 DEF Goto
      <3>3. HexSoFar(n, c)
        BY <2>1, <2>2, <3>1
      <3> QED
        BY <1>1, <1>2, <2>1, <3>2, <3>3 DEF StringInv, StringLabels
    <2>3. CASE ~(left > 1) /\ high # 0 /\ IsLow(c)
      <3>1. IsText(token_buffer \o Encode(p))
        <4>1. p \in Int /\ 0 <= p /\ p <= LastCodePoint /\ ~IsHigh(p) /\ ~IsLow(p)
          BY <1>2, <1>5, <2>1, <2>3, PairJoined
        <4> QED
          BY <1>1, <4>1, EncodedAppended
      <3>2. Goto(b, "string", << >>, token_buffer \o Encode(p))
        BY <1>6, <1>8, <2>3, Zenon
      <3> QED
        BY <3>1, <3>2, GoesOnKeeps DEF Goto, StringGoesOn
    <2>4. CASE ~(left > 1) /\ high = 0 /\ IsHigh(c)
      <3>1. Goto(b, "pair", <<c>>, token_buffer)
        BY <1>6, <1>8, <2>4, Zenon
      <3> QED
        BY <1>1, <2>1, <2>4, <3>1 DEF Goto, StringInv, StringLabels
    <2>5. CASE ~(left > 1) /\ high = 0 /\ ~IsHigh(c) /\ ~IsLow(c)
      <3>1. IsText(token_buffer \o Encode(c))
        BY <1>1, <2>1, <2>5, UnitIsPoint, EncodedAppended
      <3>2. Goto(b, "string", << >>, token_buffer \o Encode(c))
        BY <1>6, <1>8, <2>5, Zenon
      <3> QED
        BY <3>1, <3>2, GoesOnKeeps DEF Goto, StringGoesOn
    <2> QED
      BY <1>6, <1>7, <1>8, <2>2, <2>3, <2>4, <2>5, Zenon
  <1> QED
    BY <1>6, <1>7, <1>8, Zenon

LEMMA StringKept ==
    ASSUME StringInv, [Next]_vars
    PROVE  StringInv'
  <1>1. ASSUME NEW b, Consume(b)
        PROVE  StringInv'
    BY <1>1, OtherScanners, ElsewhereKeeps, ScanKeepsStrings, ScanStringKeeps, CodepointKeeps,
       NextByteKeeps, Zenon DEF Consume
  <1>2. CASE UNCHANGED <<label, detail, token, token_buffer>>
    BY <1>2 DEF StringInv, WithinCharacter
  <1>3. CASE NextScan
    BY <1>3, ElsewhereKeeps DEF NextScan, Elsewhere, StringLabels
  <1>4. (\E b : Consume(b)) \/ NextScan \/ UNCHANGED <<label, detail, token, token_buffer>>
    BY DEF Next, DumpByte, DumpEnds, Scan, get_token, vars, lexer
  <1> QED
    BY <1>1, <1>2, <1>3, <1>4

LEMMA StringBegins == Init => StringInv
  BY DEF Init, LexerInit, StringInv, StringLabels

-----------------------------------------------------------------------------
(* The lexer: numbers.                                                     *)

\* The same bytes, up to n.
Same(s, u, n) == \A i \in 1..n : s[i] = u[i]

\* int and frac, up to j; frac begins at i.
Mantissa(s, m, i, j) == i \in m..j /\ IsInt(s, m, i - 1) /\ IsFrac(s, i, j - 1)

IntegerLabels == {"minus", "zero", "any1"}
NumberLabels == IntegerLabels \cup {"decimal1", "decimal2", "exponent", "sign", "any2"}

\* What the label says of the bytes of a number that were read; m is the first one behind
\* the minus.
SoFar(l, s, m, n) ==
    /\ l = "minus" => n = m - 1
    /\ l = "zero" => n = m /\ s[m] = 48
    /\ l = "any1" => AllDigits(s, m, n) /\ s[m] # 48
    /\ l = "decimal1" => IsInt(s, m, n - 1) /\ s[n] = Dot
    /\ l = "decimal2" =>
          \E i \in m..n : IsInt(s, m, i - 1) /\ s[i] = Dot /\ AllDigits(s, i + 1, n)
    /\ l = "exponent" => s[n] \in Exponent /\ \E i : Mantissa(s, m, i, n)
    /\ l = "sign" =>
          /\ m < n /\ s[n - 1] \in Exponent /\ s[n] \in Sign
          /\ \E i : Mantissa(s, m, i, n - 1)
    /\ l = "any2" => \E j \in m..n : IsExp(s, j, n) /\ \E i : Mantissa(s, m, i, j)

LEMMA NumberBytes ==
    /\ 48 \in Digits /\ 45 \notin Digits /\ Dot \notin Digits /\ Dot \notin Exponent
    /\ \A b \in Exponent \cup Sign : b \notin Digits
    /\ \A b \in Exponent : b # Dot /\ b \notin Sign
    /\ Quote \notin Digits /\ Slash \notin Digits /\ Quote # 45 /\ Slash # 45
  BY DEF Digits, Dot, Exponent, Sign, Quote, Slash

LEMMA SameDigits ==
    ASSUME NEW n \in Nat, NEW s, NEW u, Same(s, u, n), NEW x \in Nat \ {0}, NEW y \in Int, y <= n
    PROVE  AllDigits(s, x, y) <=> AllDigits(u, x, y)
  BY DEF Same, AllDigits

LEMMA SameInt ==
    ASSUME NEW n \in Nat, NEW s, NEW u, Same(s, u, n), NEW x \in Nat \ {0}, NEW y \in Int, y <= n
    PROVE  IsInt(s, x, y) <=> IsInt(u, x, y)
  <1>1. CASE x <= y
    BY <1>1, SameDigits DEF Same, IsInt
  <1>2. CASE ~(x <= y)
    BY <1>2 DEF IsInt, AllDigits
  <1> QED
    BY <1>1, <1>2

LEMMA SameFrac ==
    ASSUME NEW n \in Nat, NEW s, NEW u, Same(s, u, n), NEW x \in Nat \ {0}, NEW y \in Int, y <= n
    PROVE  IsFrac(s, x, y) <=> IsFrac(u, x, y)
  <1>1. AllDigits(s, x + 1, y) <=> AllDigits(u, x + 1, y)
    BY SameDigits
  <1>2. x <= y => s[x] = u[x]
    BY DEF Same
  <1> QED
    BY <1>1, <1>2 DEF IsFrac

LEMMA SameExp ==
    ASSUME NEW n \in Nat, NEW s, NEW u, Same(s, u, n), NEW x \in Nat \ {0}, NEW y \in Int, y <= n
    PROVE  IsExp(s, x, y) <=> IsExp(u, x, y)
  <1>1. AllDigits(s, x + 1, y) <=> AllDigits(u, x + 1, y)
    BY SameDigits
  <1>2. AllDigits(s, x + 2, y) <=> AllDigits(u, x + 2, y)
    BY SameDigits
  <1>3. (x <= y => s[x] = u[x]) /\ (x < y => s[x + 1] = u[x + 1])
    BY DEF Same
  <1> QED
    BY <1>1, <1>2, <1>3 DEF IsExp

LEMMA SameMantissa ==
    ASSUME NEW n \in Nat, NEW s, NEW u, Same(s, u, n), NEW m \in Nat \ {0}, NEW i, NEW j \in Int,
           j <= n + 1, Mantissa(s, m, i, j)
    PROVE  Mantissa(u, m, i, j)
  <1>1. i \in Nat \ {0} /\ i - 1 \in Int /\ i - 1 <= n /\ j - 1 \in Int /\ j - 1 <= n
    BY DEF Mantissa
  <1>2. IsInt(u, m, i - 1)
    BY <1>1, SameInt DEF Mantissa
  <1>3. IsFrac(u, i, j - 1)
    BY <1>1, SameFrac DEF Mantissa
  <1> QED
    BY <1>2, <1>3 DEF Mantissa

LEMMA SameSoFar ==
    ASSUME NEW n \in Nat, NEW s, NEW u, Same(s, u, n), NEW m \in Nat \ {0}, m <= n + 1,
           NEW l \in NumberLabels, SoFar(l, s, m, n)
    PROVE  SoFar(l, u, m, n)
  <1>1. ASSUME NEW x \in 1..n PROVE s[x] = u[x]
    BY DEF Same
  <1>2. CASE l = "minus"
    BY <1>2 DEF SoFar
  <1>3. CASE l = "zero"
    BY <1>1, <1>3 DEF SoFar
  <1>4. CASE l = "any1"
    <2>1. AllDigits(s, m, n) /\ s[m] # 48
      BY <1>4 DEF SoFar
    <2>2. AllDigits(u, m, n)
      BY <2>1, SameDigits
    <2>3. m <= n
      BY <2>1 DEF AllDigits
    <2>4. u[m] # 48
      BY <1>1, <2>1, <2>3
    <2> QED
      BY <1>4, <2>2, <2>4 DEF SoFar
  <1>5. CASE l = "decimal1"
    <2>1. IsInt(s, m, n - 1) /\ s[n] = Dot
      BY <1>5 DEF SoFar
    <2>2. m <= n
      BY <2>1 DEF IsInt, AllDigits
    <2>3. IsInt(u, m, n - 1)
      BY <2>1, <2>2, SameInt
    <2> QED
      BY <1>1, <1>5, <2>1, <2>2, <2>3 DEF SoFar
  <1>6. CASE l = "decimal2"
    <2>1. PICK i \in m..n : IsInt(s, m, i - 1) /\ s[i] = Dot /\ AllDigits(s, i + 1, n)
      BY <1>6 DEF SoFar
    <2>2. IsInt(u, m, i - 1) /\ AllDigits(u, i + 1, n)
      BY <2>1, SameInt, SameDigits
    <2>3. u[i] = Dot
      BY <1>1, <2>1
    <2> QED
      BY <1>6, <2>2, <2>3 DEF SoFar
  <1>7. CASE l = "exponent"
    <2>1. PICK i : Mantissa(s, m, i, n)
      BY <1>7 DEF SoFar
    <2>2. Mantissa(u, m, i, n)
      BY <2>1, SameMantissa
    <2>3. m <= n
      BY <2>1 DEF Mantissa
    <2> QED
      BY <1>1, <1>7, <2>2, <2>3 DEF SoFar
  <1>8. CASE l = "sign"
    <2>1. PICK i : Mantissa(s, m, i, n - 1)
      BY <1>8 DEF SoFar
    <2>2. Mantissa(u, m, i, n - 1)
      BY <2>1, SameMantissa
    <2> QED
      BY <1>1, <1>8, <2>2 DEF SoFar
  <1>9. CASE l = "any2"
    <2>1. PICK j \in m..n : IsExp(s, j, n) /\ \E i : Mantissa(s, m, i, j)
      BY <1>9 DEF SoFar
    <2>2. PICK i : Mantissa(s, m, i, j)
      BY <2>1
    <2>3. Mantissa(u, m, i, j)
      BY <2>2, SameMantissa
    <2>4. IsExp(u, j, n)
      BY <2>1, SameExp
    <2> QED
      BY <1>9, <2>3, <2>4 DEF SoFar
  <1> QED
    BY <1>2, <1>3, <1>4, <1>5, <1>6, <1>7, <1>8, <1>9 DEF NumberLabels, IntegerLabels

\* However a number is read that reaches L: its int ends before the first byte that is no
\* digit, and so does its frac.
LEMMA IntEnds ==
    ASSUME NEW s, NEW m \in Nat, NEW k \in Nat, NEW L \in Nat, k <= L, m <= k,
           \A x \in m..(k - 1) : s[x] \in Digits, s[k] \notin Digits,
           NEW i \in m..(L + 1), NEW j \in m..(L + 1), i <= j,
           IsInt(s, m, i - 1), IsFrac(s, i, j - 1), IsExp(s, j, L)
    PROVE  i = k /\ m < k
  <1>1. m <= i - 1 /\ \A x \in m..(i - 1) : s[x] \in Digits
    BY DEF IsInt, AllDigits
  <1>2. i <= k
    BY <1>1
  <1>3. ASSUME i < k
        PROVE  FALSE
    <2>1. s[i] \in Digits /\ s[i] # Dot /\ s[i] \notin Exponent
      BY <1>1, <1>3, NumberBytes
    <2>2. i > j - 1
      BY <2>1 DEF IsFrac
    <2>3. i = j /\ ~(j > L)
      BY <1>3, <2>2
    <2> QED
      BY <2>1, <2>3 DEF IsExp
  <1> QED
    BY <1>1, <1>2, <1>3

LEMMA FracEnds ==
    ASSUME NEW s, NEW m \in Nat, NEW k \in Nat, NEW L \in Nat, k <= L,
           NEW i \in m..(k - 1), s[i] = Dot, \A x \in (i + 1)..(k - 1) : s[x] \in Digits,
           s[k] \notin Digits,
           NEW j \in m..(L + 1), i <= j, IsFrac(s, i, j - 1), IsExp(s, j, L)
    PROVE  j = k /\ i + 1 < k
  <1>1. i # j
    BY NumberBytes DEF IsExp
  <1>2. i + 1 <= j - 1 /\ \A x \in (i + 1)..(j - 1) : s[x] \in Digits
    BY <1>1 DEF IsFrac, AllDigits
  <1>3. j <= k
    BY <1>2
  <1>4. ASSUME j < k
        PROVE  FALSE
    <2>1. s[j] \in Digits /\ s[j] \notin Exponent /\ ~(j > L)
      BY <1>2, <1>4, NumberBytes
    <2> QED
      BY <2>1 DEF IsExp
  <1> QED
    BY <1>2, <1>3, <1>4

\* Its exponent begins where the mantissa ends.
LEMMA MantissaEnds ==
    ASSUME NEW s, NEW m \in Nat, NEW k \in Nat, NEW L \in Nat, k <= L,
           NEW f, Mantissa(s, m, f, k), s[k] \in Exponent,
           NEW i \in m..(L + 1), NEW j \in m..(L + 1), i <= j,
           IsInt(s, m, i - 1), IsFrac(s, i, j - 1), IsExp(s, j, L)
    PROVE  j = k
  <1>1. f \in m..k /\ m <= f - 1 /\ \A x \in m..(f - 1) : s[x] \in Digits
    BY DEF Mantissa, IsInt, AllDigits
  <1>2. s[k] \notin Digits /\ s[k] # Dot
    BY NumberBytes
  <1>3. CASE f = k
    <2>1. i = k
      BY <1>1, <1>2, <1>3, IntEnds
    <2>2. i > j - 1
      BY <1>2, <2>1 DEF IsFrac
    <2> QED
      BY <2>1, <2>2
  <1>4. CASE f # k
    <2>1. s[f] = Dot /\ f + 1 <= k - 1 /\ \A x \in (f + 1)..(k - 1) : s[x] \in Digits
      BY <1>1, <1>4 DEF Mantissa, IsFrac, AllDigits
    <2>2. f \in Nat /\ f <= L /\ s[f] \notin Digits
      BY <1>1, <2>1, NumberBytes
    <2>3. i = f
      BY <1>1, <2>2, IntEnds
    <2>4. f \in m..(k - 1) /\ f <= j /\ IsFrac(s, f, j - 1)
      BY <1>1, <1>4, <2>3
    <2> QED
      BY <1>2, <2>1, <2>4, FracEnds
  <1> QED
    BY <1>3, <1>4

\* The bytes that the scanner takes at a label.
Continues(l, b) ==
    \/ b \in Digits /\ l # "zero"
    \/ b = Dot /\ l \in {"zero", "any1"}
    \/ b \in Exponent /\ l \in {"zero", "any1", "decimal2"}
    \/ b \in Sign /\ l = "exponent"

\* Behind any other byte there is no number, however it goes on.
LEMMA NoNumberAfter ==
    ASSUME NEW s, NEW a, NEW n \in Nat, NEW m \in Nat \ {0}, m = Unsigned(s, a), m <= n + 1,
           NEW l \in NumberLabels, SoFar(l, s, m, n), ~Continues(l, s[n + 1]),
           NEW L \in Nat, n < L
    PROVE  ~IsNumber(s, a, L)
  <1> SUFFICES ASSUME NEW i \in m..(L + 1), NEW j \in m..(L + 1), i <= j,
                        IsInt(s, m, i - 1), IsFrac(s, i, j - 1), IsExp(s, j, L)
                 PROVE  FALSE
    BY DEF IsNumber
  <1>3. n + 1 \in Nat /\ n + 1 <= L
    OBVIOUS
  <1>4. ASSUME s[n + 1] \notin Digits, \A x \in m..n : s[x] \in Digits
        PROVE  i = n + 1 /\ m < n + 1
    BY <1>3, <1>4, IntEnds
  <1>5. ASSUME i = n + 1, s[n + 1] # Dot, s[n + 1] \notin Exponent
        PROVE  FALSE
    <2>1. i > j - 1
      BY <1>5 DEF IsFrac
    <2>2. j = n + 1 /\ ~(j > L)
      BY <1>3, <1>5, <2>1
    <2> QED
      BY <1>5, <2>2 DEF IsExp
  <1>6. CASE l = "minus"
    <2>1. s[n + 1] \notin Digits /\ m = n + 1
      BY <1>6 DEF Continues, SoFar
    <2> QED
      BY <1>4, <2>1
  <1>7. CASE l = "zero"
    <2>1. n = m /\ s[m] = 48 /\ s[n + 1] # Dot /\ s[n + 1] \notin Exponent
      BY <1>7 DEF Continues, SoFar
    <2>2. i = n + 1
      BY <2>1 DEF IsInt, AllDigits
    <2> QED
      BY <1>5, <2>1, <2>2
  <1>8. CASE l = "any1"
    <2>1. /\ s[n + 1] \notin Digits /\ s[n + 1] # Dot /\ s[n + 1] \notin Exponent
          /\ \A x \in m..n : s[x] \in Digits
      BY <1>8 DEF Continues, SoFar, AllDigits
    <2> QED
      BY <1>4, <1>5, <2>1
  <1>9. CASE l = "decimal1"
    <2>1. s[n + 1] \notin Digits /\ s[n] = Dot /\ IsInt(s, m, n - 1)
      BY <1>9 DEF Continues, SoFar
    <2>2. m <= n - 1 /\ \A x \in m..(n - 1) : s[x] \in Digits
      BY <2>1 DEF IsInt, AllDigits
    <2>3. n \in Nat /\ n <= L /\ m <= n /\ s[n] \notin Digits
      BY <1>3, <2>1, <2>2, NumberBytes
    <2>4. i = n
      BY <2>2, <2>3, IntEnds
    <2>5. n + 1 < n + 1
      <3>1. n \in m..((n + 1) - 1) /\ n <= j /\ IsFrac(s, n, j - 1)
        BY <2>2, <2>4
      <3>2. \A x \in (n + 1)..((n + 1) - 1) : s[x] \in Digits
        OBVIOUS
      <3> QED
        BY <1>3, <2>1, <3>1, <3>2, FracEnds
    <2> QED
      BY <2>5
  <1>10. CASE l = "decimal2"
    <2>1. s[n + 1] \notin Digits /\ s[n + 1] \notin Exponent
      BY <1>10 DEF Continues
    <2>2. PICK f \in m..n : IsInt(s, m, f - 1) /\ s[f] = Dot /\ AllDigits(s, f + 1, n)
      BY <1>10 DEF SoFar
    <2>3. m <= f - 1 /\ \A x \in m..(f - 1) : s[x] \in Digits
      BY <2>2 DEF IsInt, AllDigits
    <2>4. f \in Nat /\ f <= L /\ m <= f /\ s[f] \notin Digits
      BY <1>3, <2>2, NumberBytes
    <2>5. i = f
      BY <2>3, <2>4, IntEnds
    <2>6. j = n + 1
      <3>1. f \in m..((n + 1) - 1) /\ f <= j /\ IsFrac(s, f, j - 1)
        BY <2>5
      <3>2. \A x \in (f + 1)..((n + 1) - 1) : s[x] \in Digits
        BY <2>2 DEF AllDigits
      <3> QED
        BY <1>3, <2>1, <2>2, <3>1, <3>2, FracEnds
    <2> QED
      BY <1>3, <2>1, <2>6 DEF IsExp
  <1>11. CASE l = "exponent"
    <2>1. s[n] \in Exponent /\ s[n + 1] \notin Digits /\ s[n + 1] \notin Sign
      BY <1>11 DEF Continues, SoFar
    <2>2. PICK f : Mantissa(s, m, f, n)
      BY <1>11 DEF SoFar
    <2>3. j = n
      BY <1>3, <2>1, <2>2, MantissaEnds
    <2> QED
      BY <1>3, <2>1, <2>3 DEF IsExp, AllDigits
  <1>12. CASE l = "sign"
    <2>1. s[n - 1] \in Exponent /\ s[n] \in Sign /\ s[n + 1] \notin Digits /\ m < n
      BY <1>12 DEF Continues, SoFar
    <2>2. PICK f : Mantissa(s, m, f, n - 1)
      BY <1>12 DEF SoFar
    <2>3. j = n - 1
      BY <1>3, <2>1, <2>2, MantissaEnds
    <2>4. s[n] \notin Digits
      BY <2>1, NumberBytes
    <2> QED
      BY <1>3, <2>1, <2>3, <2>4 DEF IsExp, AllDigits
  <1>13. CASE l = "any2"
    <2>1. PICK e \in m..n : IsExp(s, e, n) /\ \E f : Mantissa(s, m, f, e)
      BY <1>13 DEF SoFar
    <2>2. PICK f : Mantissa(s, m, f, e)
      BY <2>1
    <2>3. s[n + 1] \notin Digits /\ s[e] \in Exponent
      BY <1>13, <2>1 DEF Continues, IsExp
    <2>4. j = e
      BY <1>3, <2>1, <2>2, <2>3, MantissaEnds
    <2>5. ~AllDigits(s, e + 1, L)
      BY <1>3, <2>1, <2>3 DEF AllDigits
    <2>6. e + 1 <= n
      BY <2>1 DEF IsExp, AllDigits
    <2>7. ~AllDigits(s, e + 2, L)
      BY <1>3, <2>3, <2>6 DEF AllDigits
    <2> QED
      BY <1>3, <2>4, <2>5, <2>7 DEF IsExp
  <1> QED
    BY <1>6, <1>7, <1>8, <1>9, <1>10, <1>11, <1>12, <1>13 DEF NumberLabels, IntegerLabels

\* An int that was read.
LEMMA IntRead ==
    ASSUME NEW s, NEW n \in Nat, NEW m \in Nat \ {0}, NEW l \in {"zero", "any1"}, SoFar(l, s, m, n)
    PROVE  m <= n /\ IsInt(s, m, n) /\ AllDigits(s, m, n)
  BY NumberBytes DEF SoFar, IsInt, AllDigits

\* The automaton: the labels it goes to with a byte.
Goes(l, b, k) ==
    \/ l = "minus" /\ b = 48 /\ k = "zero"
    \/ l = "minus" /\ b \in Digits /\ b # 48 /\ k = "any1"
    \/ l = "any1" /\ b \in Digits /\ k = "any1"
    \/ l \in {"zero", "any1"} /\ b = Dot /\ k = "decimal1"
    \/ l \in {"decimal1", "decimal2"} /\ b \in Digits /\ k = "decimal2"
    \/ l \in {"zero", "any1", "decimal2"} /\ b \in Exponent /\ k = "exponent"
    \/ l = "exponent" /\ b \in Sign /\ k = "sign"
    \/ l \in {"exponent", "sign", "any2"} /\ b \in Digits /\ k = "any2"

LEMMA SoFarGrows ==
    ASSUME NEW s, NEW n \in Nat, NEW m \in Nat \ {0}, m <= n + 1, NEW l, SoFar(l, s, m, n),
           NEW k, Goes(l, s[n + 1], k)
    PROVE  SoFar(k, s, m, n + 1) /\ k \in NumberLabels
  <1> DEFINE b == s[n + 1]
  <1>1. CASE l = "minus" /\ b = 48 /\ k = "zero"
    BY <1>1 DEF SoFar, NumberLabels, IntegerLabels
  <1>2. CASE l = "minus" /\ b \in Digits /\ b # 48 /\ k = "any1"
    BY <1>2 DEF SoFar, NumberLabels, IntegerLabels, AllDigits
  <1>3. CASE l = "any1" /\ b \in Digits /\ k = "any1"
    <2>1. AllDigits(s, m, n) /\ s[m] # 48
      BY <1>3 DEF SoFar
    <2>2. AllDigits(s, m, n + 1)
      BY <1>3, <2>1 DEF AllDigits
    <2> QED
      BY <1>3, <2>1, <2>2 DEF SoFar, NumberLabels, IntegerLabels
  <1>4. CASE l \in {"zero", "any1"} /\ b = Dot /\ k = "decimal1"
    BY <1>4, IntRead DEF SoFar, NumberLabels, IntegerLabels
  <1>5. CASE l \in {"decimal1", "decimal2"} /\ b \in Digits /\ k = "decimal2"
    <2>1. PICK i \in m..n : IsInt(s, m, i - 1) /\ s[i] = Dot /\ (i = n \/ AllDigits(s, i + 1, n))
      <3>1. CASE l = "decimal1"
        <4>1. IsInt(s, m, n - 1) /\ s[n] = Dot
          BY <3>1 DEF SoFar
        <4>2. m <= n
          BY <4>1 DEF IsInt, AllDigits
        <4> QED
          BY <4>1, <4>2
      <3>2. CASE l = "decimal2"
        BY <3>2 DEF SoFar
      <3> QED
        BY <1>5, <3>1, <3>2
    <2>2. AllDigits(s, i + 1, n + 1)
      BY <1>5, <2>1 DEF AllDigits
    <2> QED
      BY <1>5, <2>1, <2>2 DEF SoFar, NumberLabels, IntegerLabels
  <1>6. CASE l \in {"zero", "any1", "decimal2"} /\ b \in Exponent /\ k = "exponent"
    <2>1. CASE l \in {"zero", "any1"}
      <3>1. Mantissa(s, m, n + 1, n + 1)
        BY <2>1, IntRead DEF Mantissa, IsFrac
      <3> QED
        BY <1>6, <3>1 DEF SoFar, NumberLabels, IntegerLabels
    <2>2. CASE l = "decimal2"
      <3>1. PICK i \in m..n : IsInt(s, m, i - 1) /\ s[i] = Dot /\ AllDigits(s, i + 1, n)
        BY <2>2 DEF SoFar
      <3>2. Mantissa(s, m, i, n + 1)
        BY <3>1 DEF Mantissa, IsFrac
      <3> QED
        BY <1>6, <3>2 DEF SoFar, NumberLabels, IntegerLabels
    <2> QED
      BY <1>6, <2>1, <2>2
  <1>7. CASE l = "exponent" /\ b \in Sign /\ k = "sign"
    <2>1. s[n] \in Exponent /\ \E i : Mantissa(s, m, i, n)
      BY <1>7 DEF SoFar
    <2>2. m < n + 1
      BY <2>1 DEF Mantissa
    <2> QED
      BY <1>7, <2>1, <2>2 DEF SoFar, NumberLabels, IntegerLabels
  <1>8. CASE l \in {"exponent", "sign", "any2"} /\ b \in Digits /\ k = "any2"
    <2>1. PICK j \in m..n : IsExp(s, j, n + 1) /\ \E i : Mantissa(s, m, i, j)
      <3>1. CASE l = "exponent"
        <4>1. s[n] \in Exponent /\ \E i : Mantissa(s, m, i, n)
          BY <3>1 DEF SoFar
        <4>2. n \in m..n
          BY <4>1 DEF Mantissa
        <4>3. IsExp(s, n, n + 1)
          BY <1>8, <4>1 DEF IsExp, AllDigits
        <4> QED
          BY <4>1, <4>2, <4>3
      <3>2. CASE l = "sign"
        <4>1. m < n /\ s[n - 1] \in Exponent /\ s[n] \in Sign /\ \E i : Mantissa(s, m, i, n - 1)
          BY <3>2 DEF SoFar
        <4>2. n - 1 \in m..n
          BY <4>1
        <4>3. AllDigits(s, (n - 1) + 2, n + 1) /\ s[(n - 1) + 1] \in Sign
          BY <1>8, <4>1 DEF AllDigits
        <4>4. IsExp(s, n - 1, n + 1)
          BY <4>1, <4>3 DEF IsExp
        <4> QED
          BY <4>1, <4>2, <4>4
      <3>3. CASE l = "any2"
        <4>1. PICK j \in m..n : IsExp(s, j, n) /\ \E i : Mantissa(s, m, i, j)
          BY <3>3 DEF SoFar
        <4>2. AllDigits(s, j + 1, n) => AllDigits(s, j + 1, n + 1)
          BY <1>8 DEF AllDigits
        <4>3. AllDigits(s, j + 2, n) => AllDigits(s, j + 2, n + 1)
          BY <1>8 DEF AllDigits
        <4>4. IsExp(s, j, n + 1)
          BY <4>1, <4>2, <4>3 DEF IsExp
        <4> QED
          BY <4>1, <4>4
      <3> QED
        BY <1>8, <3>1, <3>2, <3>3
    <2>2. j \in m..(n + 1)
      BY <2>1
    <2> QED
      BY <1>8, <2>1, <2>2 DEF SoFar, NumberLabels, IntegerLabels
  <1> QED
    BY <1>1, <1>2, <1>3, <1>4, <1>5, <1>6, <1>7, <1>8, Zenon DEF Goes

\* The labels at which what was read is a number, and those at which it is not one yet.
Accepting == {"zero", "any1", "decimal2", "any2"}
Lacking == {"minus", "decimal1", "exponent", "sign"}

LEMMA NumberRead ==
    ASSUME NEW s, NEW n \in Nat, NEW a, NEW m \in Nat \ {0}, m = Unsigned(s, a), m <= n + 1,
           NEW l \in Accepting, SoFar(l, s, m, n)
    PROVE  IsNumber(s, a, n)
  <1> SUFFICES \E i, j \in m..(n + 1) :
                  i <= j /\ IsInt(s, m, i - 1) /\ IsFrac(s, i, j - 1) /\ IsExp(s, j, n)
    BY DEF IsNumber
  <1>1. CASE l \in {"zero", "any1"}
    <2>1. IsInt(s, m, (n + 1) - 1) /\ IsFrac(s, n + 1, (n + 1) - 1) /\ IsExp(s, n + 1, n)
      BY <1>1, IntRead DEF IsFrac, IsExp
    <2> QED
      BY <2>1
  <1>2. CASE l = "decimal2"
    <2>1. PICK i \in m..n : IsInt(s, m, i - 1) /\ s[i] = Dot /\ AllDigits(s, i + 1, n)
      BY <1>2 DEF SoFar
    <2>2. IsFrac(s, i, (n + 1) - 1) /\ IsExp(s, n + 1, n)
      BY <2>1 DEF IsFrac, IsExp
    <2>3. i \in m..(n + 1) /\ n + 1 \in m..(n + 1) /\ i <= n + 1
      BY <2>1
    <2> QED
      BY <2>1, <2>2, <2>3
  <1>3. CASE l = "any2"
    <2>1. PICK j \in m..n : IsExp(s, j, n) /\ \E i : Mantissa(s, m, i, j)
      BY <1>3 DEF SoFar
    <2>2. PICK i : i \in m..j /\ IsInt(s, m, i - 1) /\ IsFrac(s, i, j - 1)
      BY <2>1 DEF Mantissa
    <2>3. i \in m..(n + 1) /\ j \in m..(n + 1) /\ i <= j
      BY <2>1, <2>2
    <2> QED
      BY <2>1, <2>2, <2>3
  <1> QED
    BY <1>1, <1>2, <1>3 DEF Accepting

\* The first n bytes of s and a digit.
LEMMA DigitAppended ==
    ASSUME NEW s, s \in Seq(Range(s)), NEW n \in Nat, n <= Len(s), NEW u,
           u = Append(SubSeq(s, 1, n), 48)
    PROVE  Same(s, u, n) /\ u[n + 1] = 48
  <1>1. PICK t : t = SubSeq(s, 1, n)
    OBVIOUS
  <1>2. t \in Seq(Range(s)) /\ Len(t) = n /\ \A i \in 1..n : t[i] = s[i]
    <2>1. 1 \in 1..(Len(s) + 1) /\ n \in (1 - 1)..Len(s)
      OBVIOUS
    <2>2. /\ t \in Seq(Range(s))
          /\ Len(t) = (n - 1) + 1
          /\ \A i \in 1..((n - 1) + 1) : t[i] = s[(1 + i) - 1]
      BY <1>1, <2>1, SubSeqProperties
    <2> QED
      BY <2>2
  <1>3. OneLonger(t, 48, u)
    <2>1. PICK S : t \in Seq(S) /\ S = Range(s)
      BY <1>2
    <2>2. \A i \in 1..Len(t) : t[i] \in Range(t)
      <3>1. DOMAIN t = 1..Len(t)
        BY <2>1
      <3> QED
        BY <3>1 DEF Range
    <2>3. t \in Seq(Range(t))
      BY <2>1, <2>2
    <2> QED
      BY <1>1, <2>3, OneAppended
  <1> QED
    BY <1>2, <1>3 DEF OneLonger, Same

LEMMA StillBegins ==
    ASSUME NEW s, s \in Seq(Range(s)), NEW n \in Nat, n <= Len(s), NEW a \in 1..n,
           NEW l \in Lacking, SoFar(l, s, Unsigned(s, a), n)
    PROVE  BeginsNumber(s, a, n)
  <1>1. PICK u : u = Append(SubSeq(s, 1, n), 48)
    OBVIOUS
  <1>2. Same(s, u, n) /\ u[n + 1] = 48
    BY <1>1, DigitAppended
  <1>3. PICK m \in Nat \ {0} : m = Unsigned(s, a) /\ m <= n + 1
    BY DEF Unsigned
  <1>4. m = Unsigned(u, a)
    BY <1>2, <1>3 DEF Same, Unsigned
  <1>5. SoFar(l, u, m, n)
    BY <1>2, <1>3, SameSoFar DEF Lacking, NumberLabels, IntegerLabels
  <1>6. PICK k \in Accepting : Goes(l, u[n + 1], k)
    BY <1>2, NumberBytes DEF Goes, Accepting, Lacking
  <1>7. SoFar(k, u, m, n + 1)
    BY <1>3, <1>5, <1>6, SoFarGrows
  <1>8. IsNumber(u, a, n + 1)
    BY <1>3, <1>4, <1>6, <1>7, NumberRead
  <1> QED
    BY <1>1, <1>8 DEF BeginsNumber

LEMMA BeginsNoMore ==
    ASSUME NEW s, s \in Seq(Range(s)), NEW n \in Nat, n + 1 <= Len(s), NEW a \in 1..n,
           NEW l \in NumberLabels, SoFar(l, s, Unsigned(s, a), n), ~Continues(l, s[n + 1])
    PROVE  ~BeginsNumber(s, a, n + 1)
  <1>1. PICK u : u = Append(SubSeq(s, 1, n + 1), 48)
    OBVIOUS
  <1>2. Same(s, u, n + 1)
    <2>1. n + 1 \in Nat
      OBVIOUS
    <2> QED
      BY <1>1, <2>1, DigitAppended, Zenon
  <1>3. PICK m \in Nat \ {0} : m = Unsigned(s, a) /\ m <= n + 1
    BY DEF Unsigned
  <1>4. m = Unsigned(u, a) /\ u[n + 1] = s[n + 1] /\ Same(s, u, n)
    BY <1>2, <1>3 DEF Same, Unsigned
  <1>5. SoFar(l, u, m, n)
    BY <1>3, <1>4, SameSoFar
  <1>6. ~IsNumber(s, a, n + 1)
    BY <1>3, NoNumberAfter
  <1>7. ~IsNumber(u, a, (n + 1) + 1)
    BY <1>3, <1>4, <1>5, NoNumberAfter
  <1> QED
    BY <1>1, <1>6, <1>7 DEF BeginsNumber

\* The type that the automaton gives a number.
LEMMA IntegersHaveDigits ==
    ASSUME NEW s, NEW n \in Nat, NEW a \in 1..n, NEW m, m = Unsigned(s, a),
           NEW l \in {"zero", "any1"}, SoFar(l, s, m, n)
    PROVE  IF s[a] = 45 THEN ~AllDigits(s, a, n) /\ AllDigits(s, a + 1, n)
                        ELSE AllDigits(s, a, n)
  <1>1. m \in Nat \ {0}
    BY DEF Unsigned
  <1>2. AllDigits(s, m, n)
    BY <1>1, IntRead
  <1> QED
    BY <1>2, NumberBytes DEF Unsigned, AllDigits

LEMMA FloatsHaveMore ==
    ASSUME NEW s, NEW n \in Nat, NEW a \in 1..n, NEW m, m = Unsigned(s, a),
           NEW l \in {"decimal2", "any2"}, SoFar(l, s, m, n)
    PROVE  ~AllDigits(s, a, n) /\ ~(s[a] = 45 /\ AllDigits(s, a + 1, n))
  <1>1. m \in Nat \ {0}
    BY DEF Unsigned
  <1>2. PICK x \in m..n : s[x] \notin Digits
    <2>1. CASE l = "decimal2"
      BY <2>1, NumberBytes DEF SoFar
    <2>2. CASE l = "any2"
      <3>1. PICK j \in m..n : IsExp(s, j, n)
        BY <2>2 DEF SoFar
      <3>2. s[j] \in Exponent
        BY <1>1, <3>1 DEF IsExp
      <3> QED
        BY <3>2, NumberBytes
    <2> QED
      BY <2>1, <2>2
  <1> QED
    BY <1>1, <1>2, NumberBytes DEF Unsigned, AllDigits

-----------------------------------------------------------------------------
(* The lexer: what is skipped.                                             *)

LEMMA SameSpace ==
    ASSUME NEW n \in Nat, NEW s, NEW u, Same(s, u, n), NEW c, NEW x \in Nat \ {0}, NEW y \in Int,
           x <= y, y <= n, IsSpace(s, c, x, y)
    PROVE  IsSpace(u, c, x, y)
  <1>1. \A i \in x..y : s[i] = u[i]
    BY DEF Same
  <1>2. CASE x = y /\ s[y] \in Whitespace
    BY <1>1, <1>2 DEF IsSpace
  <1>3. CASE c /\ IsComment(s, x, y)
    <2>1. x + 2 <= y /\ s[x] = u[x] /\ s[x + 1] = u[x + 1] /\ s[y - 1] = u[y - 1] /\ s[y] = u[y]
      BY <1>1, <1>3 DEF IsComment
    <2>2. IsComment(u, x, y)
      BY <1>1, <1>3, <2>1 DEF IsComment
    <2> QED
      BY <1>3, <2>2 DEF IsSpace
  <1> QED
    BY <1>2, <1>3 DEF IsSpace

LEMMA SameBlank ==
    ASSUME NEW n \in Nat, NEW s, NEW u, Same(s, u, n), NEW c, NEW a \in Nat \ {0}, NEW y \in Int,
           y <= n, IsBlank(s, c, a, y)
    PROVE  IsBlank(u, c, a, y)
  <1>1. PICK ends \in SUBSET (a..y) :
           /\ a <= y => y \in ends
           /\ \A e \in ends : \E d \in ends \cup {a - 1} : d < e /\ IsSpace(s, c, d + 1, e)
    BY DEF IsBlank
  <1>2. ASSUME NEW e \in ends
        PROVE  \E d \in ends \cup {a - 1} : d < e /\ IsSpace(u, c, d + 1, e)
    <2>1. PICK d \in ends \cup {a - 1} : d < e /\ IsSpace(s, c, d + 1, e)
      BY <1>1, <1>2
    <2>2. d + 1 \in Nat \ {0} /\ e \in Int /\ d + 1 <= e /\ e <= n
      BY <2>1
    <2>3. IsSpace(u, c, d + 1, e)
      BY <2>1, <2>2, SameSpace, Zenon
    <2> QED
      BY <2>1, <2>3
  <1> QED
    BY <1>1, <1>2 DEF IsBlank

LEMMA EmptyBlank ==
    ASSUME NEW s, NEW c, NEW a \in Int, NEW y \in Int, y < a
    PROVE  IsBlank(s, c, a, y)
  <1>1. {} \in SUBSET (a..y) /\ ~(a <= y)
    OBVIOUS
  <1> QED
    BY <1>1 DEF IsBlank

LEMMA BlankGrows ==
    ASSUME NEW s, NEW c, NEW a \in Int, NEW x \in Int, NEW y \in Int, a <= x + 1, x < y,
           IsBlank(s, c, a, x), IsSpace(s, c, x + 1, y)
    PROVE  IsBlank(s, c, a, y)
  <1>1. PICK ends \in SUBSET (a..x) :
           /\ a <= x => x \in ends
           /\ \A e \in ends : \E d \in ends \cup {a - 1} : d < e /\ IsSpace(s, c, d + 1, e)
    BY DEF IsBlank
  <1> DEFINE longer == ends \cup {y}
  <1>2. longer \in SUBSET (a..y) /\ y \in longer
    OBVIOUS
  <1>3. ASSUME NEW e \in longer
        PROVE  \E d \in longer \cup {a - 1} : d < e /\ IsSpace(s, c, d + 1, e)
    <2>1. CASE e \in ends
      BY <1>1, <2>1
    <2>2. CASE e = y
      <3>1. x \in longer \cup {a - 1}
        BY <1>1
      <3> QED
        BY <2>2, <3>1
    <2> QED
      BY <1>3, <2>1, <2>2
  <1> HIDE DEF longer
  <1> QED
    BY <1>2, <1>3, Zenon DEF IsBlank

Below == {ss \in Nat \X Nat : ss[1] < ss[2]}

LEMMA BelowWellFounded == IsWellFoundedOn(Below, Nat)
  <1>1. OpToRel(<, Nat) = Below
    BY DEF OpToRel, Below
  <1> QED
    BY <1>1, NatLessThanWellFounded, Zenon

\* Something skipped is first.
LEMMA NoBlankFrom ==
    ASSUME NEW s, NEW c, NEW a \in Nat \ {0}, NEW y \in Nat, a <= y,
           \A e \in a..y : ~IsSpace(s, c, a, e)
    PROVE  ~IsBlank(s, c, a, y)
  <1> SUFFICES ASSUME NEW ends \in SUBSET (a..y), y \in ends,
                      \A e \in ends : \E d \in ends \cup {a - 1} : d < e /\ IsSpace(s, c, d + 1, e)
               PROVE  FALSE
    BY DEF IsBlank
  <1>1. ends \subseteq Nat /\ ends # {}
    OBVIOUS
  <1>2. PICK x \in ends : \A z \in ends : <<z, x>> \notin Below
    BY <1>1, BelowWellFounded, WFMin
  <1>3. \A z \in ends : ~(z < x)
    BY <1>1, <1>2 DEF Below
  <1>4. PICK d \in ends \cup {a - 1} : d < x /\ IsSpace(s, c, d + 1, x)
    BY <1>2
  <1>5. d + 1 = a
    BY <1>3, <1>4
  <1> QED
    BY <1>2, <1>4, <1>5

\* A comment that has begun with a slash at a.
InComment(l, s, a, n) ==
    /\ s[a] = Slash
    /\ l = "comment" => n = a
    /\ l = "line_comment" =>
          a < n /\ s[a + 1] = Slash /\ \A i \in (a + 2)..n : s[i] \notin LineEnds
    /\ l \in {"block_comment", "block_star"} =>
          /\ a < n /\ s[a + 1] = Star
          /\ \A i \in (a + 3)..n : ~(s[i - 1] = Star /\ s[i] = Slash)
    /\ l = "block_comment" /\ a + 2 <= n /\ s[n] = Star =>
          n + 1 \in DOMAIN s /\ s[n + 1] # Slash
    /\ l = "block_star" => a + 2 <= n /\ s[n] = Star

LEMMA CommentBytes ==
    /\ Slash # Star /\ EOF # Slash /\ 0 # Slash /\ EOF # Star /\ 0 # Star
    /\ Slash \notin Whitespace /\ Slash \notin LineEnds
    /\ LineEnds = {LF, CR, EOF, 0}
  BY DEF Slash, Star, EOF, Whitespace, LineEnds, LF, CR

\* The end of the line or of the input, and the slash behind an asterisk.
LEMMA LineCommentEnds ==
    ASSUME NEW s, NEW a \in Nat, NEW n \in Nat, InComment("line_comment", s, a, n),
           s[n + 1] \in LineEnds
    PROVE  IsComment(s, a, n + 1)
  BY DEF InComment, IsComment

LEMMA BlockCommentEnds ==
    ASSUME NEW s, NEW a \in Nat, NEW n \in Nat, InComment("block_star", s, a, n),
           s[n + 1] = Slash
    PROVE  IsComment(s, a, n + 1)
  BY DEF InComment, IsComment

\* What is no comment, however it goes on.
LEMMA NoCommentBegun ==
    ASSUME NEW s, NEW a \in Nat \ {0}, NEW n \in Nat, NEW c,
           \/ InComment("comment", s, a, n) /\ s[n + 1] \notin {Slash, Star}
           \/ InComment("block_comment", s, a, n) /\ s[n + 1] \in {EOF, 0}
    PROVE  \A x \in a..(n + 1) : ~IsBlank(s, c, a, x)
  <1>1. s[a] = Slash /\ s[a] \notin Whitespace
    BY CommentBytes DEF InComment
  <1>2. ASSUME NEW x \in a..(n + 1), NEW e \in a..x
        PROVE  ~IsComment(s, a, e)
    <2>1. CASE InComment("comment", s, a, n)
      BY <2>1 DEF InComment, IsComment
    <2>2. CASE InComment("block_comment", s, a, n) /\ s[n + 1] \in {EOF, 0}
      <3>1. s[a + 1] # Slash /\ s[n + 1] # Slash
        BY <2>2, CommentBytes DEF InComment
      <3>2. \A i \in (a + 3)..n : ~(s[i - 1] = Star /\ s[i] = Slash)
        BY <2>2 DEF InComment
      <3>3. ~(a + 3 <= e /\ s[e - 1] = Star /\ s[e] = Slash)
        BY <3>1, <3>2
      <3> QED
        BY <3>1, <3>3 DEF IsComment
    <2> QED
      BY <2>1, <2>2
  <1>3. ASSUME NEW x \in a..(n + 1)
        PROVE  ~IsBlank(s, c, a, x)
    <2>1. \A e \in a..x : ~IsSpace(s, c, a, e)
      BY <1>1, <1>2 DEF IsSpace
    <2>2. x \in Nat /\ a <= x
      OBVIOUS
    <2> QED
      BY <2>1, <2>2, NoBlankFrom, Zenon
  <1> QED
    BY <1>3

\* The bytes that a comment goes on with.
CommentGoes(l, b, k) ==
    \/ l = "comment" /\ b = Slash /\ k = "line_comment"
    \/ l = "comment" /\ b = Star /\ k = "block_comment"
    \/ l = "line_comment" /\ b \notin LineEnds /\ k = "line_comment"
    \/ l = "block_comment" /\ b = Star /\ k = "block_star"
    \/ l = "block_comment" /\ b # Star /\ k = "block_comment"

LEMMA CommentGrows ==
    ASSUME NEW s, NEW a \in Nat \ {0}, NEW n \in Nat, NEW l, InComment(l, s, a, n), a <= n,
           NEW k, CommentGoes(l, s[n + 1], k), n + 1 \in DOMAIN s
    PROVE  InComment(k, s, a, n + 1)
  BY CommentBytes DEF InComment, CommentGoes

-----------------------------------------------------------------------------
(* The lexer: what a token is.                                             *)

\* The bytes of s from a to n.
Buffered(buffer, s, a, n) ==
    /\ buffer \in Seq(Range(buffer)) /\ Len(buffer) = n - a + 1
    /\ \A i \in 1..Len(buffer) : buffer[i] = s[a + i - 1]

InNumber(l, d, buffer, s, a, n) ==
    /\ s[a] \in Digits \cup {45}
    /\ Buffered(buffer, s, a, n)
    /\ SoFar(l, s, Unsigned(s, a), n)
    /\ d = IF l \notin IntegerLabels THEN "value_float"
           ELSE IF s[a] = 45 THEN "value_integer" ELSE "value_unsigned"

MarkLabels == {"bom", "bom2", "bom3"}
CommentLabels == {"comment", "line_comment", "block_comment", "block_star"}

\* Where the first token can begin, and every other one.
Place(s, c) == IF c = 0 /\ s[1] = 239 THEN 4 ELSE c + 1

\* n bytes were taken, and all behind the token before was skipped.
Before(s, c, n, ignored) == Place(s, c) <= n + 1 /\ IsBlank(s, ignored, Place(s, c), n)

\* The token began at a.
InToken(l, d, buffer, s, c, a, n, ignored) ==
    /\ a \in 1..n
    /\ Before(s, c, a - 1, ignored)
    /\ l = "literal" => s[a] \in DOMAIN Literals
    /\ l \in StringLabels \cup {"utf8"} => s[a] = Quote
    /\ l \in CommentLabels => ignored /\ InComment(l, s, a, n)
    /\ l \in NumberLabels => InNumber(l, d, buffer, s, a, n)

TokenInv ==
    /\ called \in Nat
    /\ label \in MarkLabels => called = 0 /\ start = 0
    /\ label = "bom" => Taken = 0
    /\ label = "bom2" => Taken = 1 /\ text[1] = 239
    /\ label = "bom3" => Taken = 2 /\ text[1] = 239
    /\ label # "bom" => 1 \in DOMAIN text
    /\ label = "start" => Before(text, called, Taken, ignore_comments)
    /\ label \notin MarkLabels \cup {"start", "token"} =>
          InToken(label, detail, token_buffer, text, called, start, Taken, ignore_comments)
    /\ label = "token" => Taken >= 1 /\ NumbersScanned /\ OnlyBlankSkipped

\* What get() leaves: the bytes that were taken, and b.
Takes(s, n, b, u) ==
    /\ n \in Nat /\ u \in Seq(Range(u)) /\ Len(u) = n + 1 /\ u[n + 1] = b
    /\ Same(s, u, n)
    /\ \A i \in DOMAIN s : i \in DOMAIN u /\ u[i] = s[i]

LEMMA ByteRead ==
    ASSUME PositionInv, NEW b, get(b), NEW n, n = Taken
    PROVE  /\ Takes(text, n, b, text')
           /\ start' = IF label = "start" THEN n + 1 ELSE start
           /\ called' = called /\ ignore_comments' = ignore_comments
           /\ next_unget' = FALSE => Taken' = n + 1
           /\ next_unget' = TRUE => Taken' = n
  <1>1. PICK k \in Nat :
           /\ n \in 0..Len(text) /\ text \in Seq(Range(text)) /\ next_unget \in BOOLEAN
           /\ ~next_unget => n = Len(text)
           /\ next_unget => Len(text) = n + 1 /\ text[n + 1] = current
    <2>1. PICK x \in 0..Len(text), k \in Nat :
             /\ Counts(position, text, x, k)
             /\ ~next_unget => x = Len(text) /\ Column(text, x, k)
             /\ next_unget => /\ Len(text) = x + 1 /\ text[x + 1] = current
                              /\ IF current = LF THEN k = 0 ELSE Column(text, x, k)
      BY DEF PositionInv
    <2>2. text \in Seq(Range(text)) /\ next_unget \in BOOLEAN
      BY DEF PositionInv
    <2>3. x = n
      BY <2>1, <2>2 DEF Taken
    <2> QED
      BY <2>1, <2>2, <2>3
  <1>2. Takes(text, n, b, text')
    <2>1. CASE next_unget
      <3>1. text' = text /\ b = text[n + 1] /\ n \in Nat
        BY <1>1, <2>1 DEF get
      <3>2. Same(text, text', n)
        BY <3>1 DEF Same
      <3> QED
        BY <1>1, <2>1, <3>1, <3>2, Zenon DEF Takes
    <2>2. CASE ~next_unget
      <3>1. PICK u : u = Append(text, b) /\ text' = u
        BY <2>2 DEF get
      <3>2. OneLonger(text, b, u)
        BY <1>1, <3>1, OneAppended, Zenon
      <3>3. n = Len(text) /\ n \in Nat
        BY <1>1, <2>2
      <3>4. Same(text, u, n)
        BY <3>2, <3>3, Zenon DEF Same, OneLonger
      <3>5. ASSUME NEW i \in DOMAIN text
            PROVE  i \in DOMAIN u /\ u[i] = text[i]
        <4>1. i \in 1..n
          BY <1>1, <3>3
        <4>2. i \in 1..(n + 1)
          BY <3>3, <4>1
        <4>3. DOMAIN u = 1..(n + 1)
          BY <3>2, <3>3 DEF OneLonger
        <4> QED
          BY <3>2, <3>3, <4>1, <4>2, <4>3, Zenon DEF OneLonger
      <3> QED
        BY <3>1, <3>2, <3>3, <3>4, <3>5, Zenon DEF Takes, OneLonger
    <2> QED
      BY <1>1, <2>1, <2>2
  <1>3. Len(text') = n + 1 /\ n \in Nat
    BY <1>2 DEF Takes
  <1>4. start' = IF label = "start" THEN n + 1 ELSE start
    BY <1>3, Zenon DEF get
  <1>5. called' = called /\ ignore_comments' = ignore_comments
    BY DEF get
  <1>6. (next_unget' = FALSE => Taken' = n + 1) /\ (next_unget' = TRUE => Taken' = n)
    BY <1>3 DEF Taken
  <1> QED
    BY <1>2, <1>4, <1>5, <1>6

LEMMA SameBuffer ==
    ASSUME NEW n \in Nat, NEW s, NEW u, Same(s, u, n), NEW a \in 1..n, NEW t, Buffered(t, s, a, n)
    PROVE  Buffered(t, u, a, n)
  <1>1. ASSUME NEW i \in 1..Len(t)
        PROVE  t[i] = u[a + i - 1]
    <2>1. a + i - 1 \in 1..n /\ t[i] = s[a + i - 1]
      BY DEF Buffered
    <2> QED
      BY <2>1 DEF Same
  <1> QED
    BY <1>1 DEF Buffered

LEMMA SameBefore ==
    ASSUME NEW n \in Nat, NEW s, NEW u, Same(s, u, n), NEW c \in Nat, NEW y \in Int, y <= n,
           NEW ignored, s[1] = u[1], Before(s, c, y, ignored)
    PROVE  Before(u, c, y, ignored)
  <1>1. Place(s, c) = Place(u, c) /\ Place(s, c) \in Nat \ {0}
    BY DEF Place
  <1> QED
    BY <1>1, SameBlank DEF Before

LEMMA SameComment ==
    ASSUME NEW n \in Nat, NEW s, NEW u, Same(s, u, n), NEW a \in 1..n, NEW l, InComment(l, s, a, n),
           \A i \in DOMAIN s : i \in DOMAIN u /\ u[i] = s[i]
    PROVE  InComment(l, u, a, n)
  <1>1. s[a] = u[a] /\ (a < n => s[a + 1] = u[a + 1]) /\ s[n] = u[n]
    BY DEF Same
  <1>2. (\A i \in (a + 2)..n : s[i] \notin LineEnds) => (\A i \in (a + 2)..n : u[i] \notin LineEnds)
    BY DEF Same
  <1>3. \A i \in (a + 3)..n : s[i - 1] = u[i - 1] /\ s[i] = u[i]
    BY DEF Same
  <1>4. n + 1 \in DOMAIN s /\ s[n + 1] # Slash => n + 1 \in DOMAIN u /\ u[n + 1] # Slash
    OBVIOUS
  <1> QED
    BY <1>1, <1>2, <1>3, <1>4 DEF InComment

LEMMA SameNumber ==
    ASSUME NEW n \in Nat, NEW s, NEW u, Same(s, u, n), NEW a \in 1..n, NEW l \in NumberLabels,
           NEW d, NEW t, InNumber(l, d, t, s, a, n)
    PROVE  InNumber(l, d, t, u, a, n)
  <1>1. s[a] = u[a]
    BY DEF Same
  <1>2. PICK m \in Nat \ {0} : m = Unsigned(s, a) /\ m = Unsigned(u, a) /\ m <= n + 1
    BY <1>1 DEF Unsigned
  <1>3. SoFar(l, u, m, n)
    BY <1>2, SameSoFar DEF InNumber
  <1>4. Buffered(t, u, a, n)
    BY SameBuffer DEF InNumber
  <1> QED
    BY <1>1, <1>2, <1>3, <1>4, Zenon DEF InNumber

LEMMA SameToken ==
    ASSUME NEW n, NEW s, NEW b, NEW u, Takes(s, n, b, u), NEW l, NEW d, NEW t, NEW c \in Nat,
           NEW a, NEW ignored, 1 \in DOMAIN s, InToken(l, d, t, s, c, a, n, ignored)
    PROVE  InToken(l, d, t, u, c, a, n, ignored)
  <1>1. n \in Nat /\ a \in 1..n /\ Same(s, u, n) /\ s[1] = u[1]
    BY DEF Takes, InToken
  <1>2. Before(u, c, a - 1, ignored)
    BY <1>1, SameBefore DEF InToken
  <1>3. s[a] = u[a]
    BY <1>1 DEF Same
  <1>4. l \in CommentLabels => InComment(l, u, a, n)
    BY <1>1, SameComment DEF InToken, Takes
  <1>5. l \in NumberLabels => InNumber(l, d, t, u, a, n)
    BY <1>1, SameNumber, Zenon DEF InToken
  <1> QED
    BY <1>1, <1>2, <1>3, <1>4, <1>5, Zenon DEF InToken

LEMMA BufferGrows ==
    ASSUME NEW u, NEW n \in Nat, NEW a \in 1..n, NEW t, Buffered(t, u, a, n), NEW b, b = u[n + 1]
    PROVE  Buffered(Append(t, b), u, a, n + 1)
  <1>1. PICK x : x = Append(t, b)
    OBVIOUS
  <1>2. OneLonger(t, b, x)
    BY <1>1, OneAppended DEF Buffered
  <1>3. Len(x) = (n + 1) - a + 1 /\ Len(t) = n - a + 1 /\ x \in Seq(Range(x))
    BY <1>2 DEF OneLonger, Buffered
  <1>4. ASSUME NEW i \in 1..Len(x)
        PROVE  x[i] = u[a + i - 1]
    <2>1. CASE i \in 1..Len(t)
      BY <1>2, <2>1 DEF OneLonger, Buffered
    <2>2. CASE i = Len(t) + 1
      <3>1. a + i - 1 = n + 1 /\ x[i] = b
        BY <1>2, <1>3, <2>2 DEF OneLonger
      <3> QED
        BY <3>1
    <2> QED
      BY <1>3, <2>1, <2>2
  <1> QED
    BY <1>1, <1>3, <1>4, Zenon DEF Buffered

LEMMA BufferIs ==
    ASSUME NEW u, u \in Seq(Range(u)), NEW n \in Nat, n <= Len(u), NEW a \in 1..n, NEW t,
           Buffered(t, u, a, n)
    PROVE  t = SubSeq(u, a, n)
  <1>1. PICK x : x = SubSeq(u, a, n)
    OBVIOUS
  <1>2. a \in 1..(Len(u) + 1) /\ n \in (a - 1)..Len(u)
    OBVIOUS
  <1>3. x \in Seq(Range(u)) /\ Len(x) = n - a + 1 /\ \A i \in 1..(n - a + 1) : x[i] = u[a + i - 1]
    BY <1>1, <1>2, SubSeqProperties
  <1>4. PICK S, T : x \in Seq(S) /\ t \in Seq(T)
    BY <1>3 DEF Buffered
  <1>5. Len(t) = n - a + 1 /\ \A i \in 1..(n - a + 1) : t[i] = u[a + i - 1]
    BY DEF Buffered
  <1>6. t = x
    <2>1. PICK k : k = n - a + 1
      OBVIOUS
    <2>2. t = [i \in 1..k |-> t[i]]
      BY <1>4, <1>5, <2>1
    <2>3. x = [i \in 1..k |-> x[i]]
      BY <1>3, <1>4, <2>1
    <2>4. \A i \in 1..k : t[i] = x[i]
      BY <1>3, <1>5, <2>1
    <2>5. [i \in 1..k |-> t[i]] = [i \in 1..k |-> x[i]]
      BY <2>4, Zenon
    <2> QED
      BY <2>2, <2>3, <2>5, Zenon
  <1> QED
    BY <1>1, <1>6

\* After the next byte of a token.
Took(n, b, u) ==
    /\ Takes(text, n, b, u) /\ text' = u
    /\ 1 \in DOMAIN u /\ n + 1 \in DOMAIN u
    /\ called \in Nat
    /\ start' = start /\ called' = called /\ ignore_comments' = ignore_comments
    /\ next_unget' = FALSE => Taken' = n + 1
    /\ next_unget' = TRUE => Taken' = n
    /\ InToken(label, detail, token_buffer, u, called, start, n, ignore_comments)

LEMMA TokenByte ==
    ASSUME PositionInv, TokenInv, NEW b, get(b), label \notin MarkLabels \cup {"start", "token"}
    PROVE  \E n, u : n \in Nat /\ Took(n, b, u)
  <1>1. PICK n, u : n = Taken /\ u = text'
    OBVIOUS
  <1>2. /\ Takes(text, n, b, u)
        /\ start' = start /\ called' = called /\ ignore_comments' = ignore_comments
        /\ next_unget' = FALSE => Taken' = n + 1
        /\ next_unget' = TRUE => Taken' = n
    BY <1>1, ByteRead
  <1>3. /\ 1 \in DOMAIN text /\ called \in Nat
        /\ InToken(label, detail, token_buffer, text, called, start, n, ignore_comments)
    BY <1>1 DEF TokenInv, MarkLabels
  <1>4. InToken(label, detail, token_buffer, u, called, start, n, ignore_comments)
    BY <1>2, <1>3, SameToken, Zenon
  <1>5. n \in Nat /\ 1 \in DOMAIN u /\ n + 1 \in DOMAIN u
    <2>1. n \in Nat /\ DOMAIN u = 1..(n + 1)
      BY <1>2 DEF Takes
    <2> QED
      BY <2>1
  <1> QED
    BY <1>1, <1>2, <1>3, <1>4, <1>5, Zenon DEF Took

\* The token goes on.
LEMMA TokenGoesOn ==
    ASSUME NEW n \in Nat, NEW b, NEW u, Took(n, b, u), NEW x \in {n, n + 1}, Taken' = x,
           NEW l, label' = l, l \notin MarkLabels \cup {"start", "token"},
           NEW d, detail' = d, NEW t, token_buffer' = t,
           l = "literal" => u[start] \in DOMAIN Literals,
           l \in StringLabels \cup {"utf8"} => u[start] = Quote,
           l \in CommentLabels => ignore_comments /\ InComment(l, u, start, x),
           l \in NumberLabels => InNumber(l, d, t, u, start, x)
    PROVE  TokenInv'
  <1>1. start \in 1..n /\ Before(u, called, start - 1, ignore_comments)
    BY DEF Took, InToken
  <1>2. start \in 1..x
    BY <1>1
  <1>3. InToken(l, d, t, u, called, start, x, ignore_comments)
    BY <1>1, <1>2, Zenon DEF InToken
  <1>4. /\ text' = u /\ start' = start /\ called' = called /\ ignore_comments' = ignore_comments
        /\ called \in Nat /\ 1 \in DOMAIN u
    BY Zenon DEF Took
  <1>5. InToken(label, detail, token_buffer, text, called, start, Taken, ignore_comments)'
    BY <1>3, <1>4
  <1> QED
    BY <1>4, <1>5 DEF TokenInv, MarkLabels

\* scan() returns.
LEMMA TokenEnds ==
    ASSUME NEW n \in Nat, NEW b, NEW u, Took(n, b, u), NEW x \in {n, n + 1}, Taken' = x,
           label' = "token", NumbersScanned',
           u[start] = Slash /\ ignore_comments =>
              \A z \in start..x : ~IsBlank(u, ignore_comments, start, z)
    PROVE  TokenInv'
  <1>1. start \in 1..n /\ IsBlank(u, ignore_comments, Place(u, called), start - 1)
    BY DEF Took, InToken, Before
  <1>2. /\ text' = u /\ start' = start /\ called' = called /\ ignore_comments' = ignore_comments
        /\ called \in Nat /\ 1 \in DOMAIN u
    BY Zenon DEF Took
  <1>3. Origin' = Place(u, called)
    BY <1>2, Zenon DEF Origin, Place
  <1>4. OnlyBlankSkipped'
    BY <1>1, <1>2, <1>3 DEF OnlyBlankSkipped
  <1>5. x >= 1
    BY <1>1
  <1> QED
    BY <1>2, <1>4, <1>5 DEF TokenInv, MarkLabels

LEMMA NoNumber ==
    ASSUME NEW n \in Nat, NEW b, NEW u, Took(n, b, u), u[start] \notin Digits \cup {45}
    PROVE  NumbersScanned'
  BY DEF NumbersScanned, Took

-----------------------------------------------------------------------------
(* The lexer: the steps within a token.                                    *)

LEMMA OtherBytes ==
    /\ \A b \in DOMAIN Literals : b \notin Digits \cup {45} /\ b # Slash
    /\ \A b \in DOMAIN Structural : b \notin Digits \cup {45} /\ b # Slash
    /\ Quote \notin Digits \cup {45} /\ Quote # Slash
    /\ Slash \notin Digits \cup {45}
  BY DEF Literals, Structural, Digits, Slash, Quote

LEMMA LiteralKeepsToken ==
    ASSUME PositionInv, TokenInv, NEW b, scan_literal(b)
    PROVE  TokenInv'
  <1>1. label = "literal"
    BY Zenon DEF scan_literal
  <1>2. PICK w, q : w = detail[1] /\ q = <<w, Tail(detail[2])>>
    OBVIOUS
  <1>3. \/ Return(b, "parse_error") \/ Return(b, w)
        \/ Goto(b, label, q, token_buffer)
    BY <1>2 DEF scan_literal
  <1>4. get(b) /\ next_unget' = FALSE /\ label' \in {"literal", "token"}
    BY <1>1, <1>3, Zenon DEF Return, Goto
  <1>5. PICK n, u : n \in Nat /\ Took(n, b, u)
    BY <1>1, <1>4, TokenByte DEF MarkLabels
  <1>6. u[start] \in DOMAIN Literals /\ Taken' = n + 1
    BY <1>1, <1>4, <1>5 DEF Took, InToken
  <1>7. CASE label' = "literal"
    BY <1>5, <1>6, <1>7, TokenGoesOn
       DEF MarkLabels, StringLabels, CommentLabels, NumberLabels, IntegerLabels
  <1>8. CASE label' = "token"
    BY <1>5, <1>6, <1>8, OtherBytes, NoNumber, TokenEnds
  <1> QED
    BY <1>4, <1>7, <1>8

LEMMA StringSteps ==
    ASSUME NEW b, scan_string(b) \/ get_codepoint(b) \/ next_byte_in_range(b)
    PROVE  /\ get(b) /\ next_unget' = FALSE
           /\ label \in StringLabels \cup {"utf8"}
           /\ label' \in StringLabels \cup {"utf8", "token"}
  <1> USE DEF Skip, Add, Goto, Return, StringLabels
  <1>1. CASE scan_string(b)
    BY <1>1 DEF scan_string
  <1>2. CASE get_codepoint(b)
    BY <1>2, SMT DEF get_codepoint
  <1>3. CASE next_byte_in_range(b)
    BY <1>3 DEF next_byte_in_range
  <1> QED
    BY <1>1, <1>2, <1>3

LEMMA StringKeepsToken ==
    ASSUME PositionInv, TokenInv, NEW b, scan_string(b) \/ get_codepoint(b) \/ next_byte_in_range(b)
    PROVE  TokenInv'
  <1>1. /\ get(b) /\ next_unget' = FALSE
        /\ label \in StringLabels \cup {"utf8"}
        /\ label' \in StringLabels \cup {"utf8", "token"}
    BY StringSteps
  <1>2. PICK n, u : n \in Nat /\ Took(n, b, u)
    BY <1>1, TokenByte DEF MarkLabels, StringLabels
  <1>3. u[start] = Quote /\ Taken' = n + 1
    BY <1>1, <1>2 DEF Took, InToken
  <1>4. CASE label' \in StringLabels \cup {"utf8"}
    BY <1>2, <1>3, <1>4, TokenGoesOn
       DEF MarkLabels, StringLabels, CommentLabels, NumberLabels, IntegerLabels
  <1>5. CASE label' = "token"
    BY <1>2, <1>3, <1>5, OtherBytes, NoNumber, TokenEnds
  <1> QED
    BY <1>1, <1>4, <1>5

\* A comment that has ended was skipped.
LEMMA CommentSkipped ==
    ASSUME NEW n \in Nat, NEW b, NEW u, Took(n, b, u), ignore_comments, IsComment(u, start, n + 1),
           Taken' = n + 1, label' = "start"
    PROVE  TokenInv'
  <1>1. /\ start \in 1..n /\ called \in Nat
        /\ Place(u, called) <= (start - 1) + 1
        /\ IsBlank(u, ignore_comments, Place(u, called), start - 1)
    BY DEF Took, InToken, Before
  <1>2. Place(u, called) \in Nat
    BY <1>1 DEF Place
  <1>3. IsSpace(u, ignore_comments, (start - 1) + 1, n + 1)
    <2>1. (start - 1) + 1 = start
      BY <1>1
    <2> QED
      BY <2>1, Zenon DEF IsSpace
  <1>4. Place(u, called) \in Int /\ start - 1 \in Int /\ n + 1 \in Int /\ start - 1 < n + 1
    BY <1>1, <1>2
  <1>5. IsBlank(u, ignore_comments, Place(u, called), n + 1)
    BY <1>1, <1>3, <1>4, BlankGrows, Zenon
  <1>6. Before(u, called, n + 1, ignore_comments)
    <2>1. Place(u, called) <= (n + 1) + 1
      BY <1>1, <1>2
    <2> QED
      BY <1>5, <2>1, Zenon DEF Before
  <1>7. /\ text' = u /\ start' = start /\ called' = called /\ ignore_comments' = ignore_comments
        /\ called \in Nat /\ 1 \in DOMAIN u
    BY Zenon DEF Took
  <1> QED
    BY <1>6, <1>7 DEF TokenInv, MarkLabels

\* What scan_comment does with b.
CommentDoes(b) ==
    \/ next_unget' = FALSE /\ CommentGoes(label, b, label')
    \/ /\ next_unget' = FALSE /\ label' = "start"
       /\ \/ label = "line_comment" /\ b \in LineEnds
          \/ label = "block_star" /\ b = Slash
    \/ /\ next_unget' = FALSE /\ label' = "token"
       /\ \/ label = "comment" /\ b \notin {Slash, Star}
          \/ label = "block_comment" /\ b \in {EOF, 0}
    \/ next_unget' = TRUE /\ label = "block_star" /\ b # Slash /\ label' = "block_comment"

LEMMA CommentByte ==
    ASSUME NEW b, scan_comment(b)
    PROVE  get(b) /\ label \in CommentLabels /\ CommentDoes(b)
  <1>1. \/ label = "comment" /\ b = Slash /\ Skip(b, "line_comment")
        \/ label = "comment" /\ b = Star /\ Skip(b, "block_comment")
        \/ label = "comment" /\ b \notin {Slash, Star} /\ Return(b, "parse_error")
        \/ label = "line_comment" /\ b \in LineEnds /\ Skip(b, "start")
        \/ label = "line_comment" /\ b \notin LineEnds /\ Skip(b, "line_comment")
        \/ label = "block_comment" /\ b \in {EOF, 0} /\ Return(b, "parse_error")
        \/ label = "block_comment" /\ b = Star /\ Skip(b, "block_star")
        \/ label = "block_comment" /\ b # Star /\ Skip(b, "block_comment")
        \/ label = "block_star" /\ b = Slash /\ Skip(b, "start")
        \/ label = "block_star" /\ b # Slash /\ Unget(b, "block_comment")
    BY CommentBytes DEF scan_comment, AfterStar
  <1> QED
    BY <1>1, SMT DEF CommentDoes, CommentGoes, CommentLabels, Skip, Goto, Return, Unget, get

LEMMA CommentKeepsToken ==
    ASSUME PositionInv, TokenInv, NEW b, scan_comment(b)
    PROVE  TokenInv'
  <1>1. get(b) /\ label \in CommentLabels /\ CommentDoes(b)
    BY CommentByte
  <1>2. PICK n, u : n \in Nat /\ Took(n, b, u)
    BY <1>1, TokenByte DEF MarkLabels, CommentLabels
  <1>3. /\ ignore_comments /\ InComment(label, u, start, n) /\ start \in 1..n
        /\ u[n + 1] = b /\ n + 1 \in DOMAIN u
    BY <1>1, <1>2 DEF Took, Takes, InToken
  <1>4. CASE next_unget' = FALSE /\ CommentGoes(label, b, label')
    <2>1. PICK k : k = label' /\ CommentGoes(label, b, k)
      BY <1>4
    <2>2. k \in CommentLabels
      BY <2>1 DEF CommentGoes, CommentLabels
    <2>3. InComment(k, u, start, n + 1)
      BY <1>2, <1>3, <2>1, CommentGrows
    <2>4. Taken' = n + 1
      BY <1>2, <1>4 DEF Took
    <2> QED
      BY <1>2, <1>3, <2>1, <2>2, <2>3, <2>4, TokenGoesOn
         DEF MarkLabels, StringLabels, CommentLabels, NumberLabels, IntegerLabels
  <1>5. CASE /\ next_unget' = FALSE /\ label' = "start"
             /\ \/ label = "line_comment" /\ b \in LineEnds
                \/ label = "block_star" /\ b = Slash
    <2>1. IsComment(u, start, n + 1)
      BY <1>2, <1>3, <1>5, LineCommentEnds, BlockCommentEnds
    <2>2. Taken' = n + 1
      BY <1>2, <1>5 DEF Took
    <2> QED
      BY <1>2, <1>3, <1>5, <2>1, <2>2, CommentSkipped
  <1>6. CASE /\ next_unget' = FALSE /\ label' = "token"
             /\ \/ label = "comment" /\ b \notin {Slash, Star}
                \/ label = "block_comment" /\ b \in {EOF, 0}
    <2>1. \A z \in start..(n + 1) : ~IsBlank(u, ignore_comments, start, z)
      <3>1. \/ InComment("comment", u, start, n) /\ u[n + 1] \notin {Slash, Star}
            \/ InComment("block_comment", u, start, n) /\ u[n + 1] \in {EOF, 0}
        BY <1>3, <1>6
      <3>2. start \in Nat \ {0} /\ n \in Nat
        BY <1>2, <1>3
      <3> QED
        BY <3>1, <3>2, NoCommentBegun, Zenon
    <2>2. Taken' = n + 1
      BY <1>2, <1>6 DEF Took
    <2>3. u[start] \notin Digits \cup {45}
      BY <1>3, OtherBytes DEF InComment
    <2> QED
      BY <1>2, <1>6, <2>1, <2>2, <2>3, NoNumber, TokenEnds
  <1>7. CASE next_unget' = TRUE /\ label = "block_star" /\ b # Slash /\ label' = "block_comment"
    <2>1. InComment("block_comment", u, start, n)
      BY <1>3, <1>7 DEF InComment
    <2>2. Taken' = n
      BY <1>2, <1>7 DEF Took
    <2> QED
      BY <1>2, <1>3, <1>7, <2>1, <2>2, TokenGoesOn
         DEF MarkLabels, StringLabels, CommentLabels, NumberLabels, IntegerLabels
  <1> QED
    BY <1>1, <1>4, <1>5, <1>6, <1>7 DEF CommentDoes

\* What scan_number does with b.
LEMMA NumberByte ==
    ASSUME NEW b, scan_number(b)
    PROVE  /\ label \in NumberLabels
           /\ \/ \E k, d : /\ Goes(label, b, k) /\ Add(b, k, d)
                           /\ \/ d = detail /\ (label \in IntegerLabels <=> k \in IntegerLabels)
                              \/ d = "value_float" /\ k \notin IntegerLabels
              \/ label \in Lacking /\ ~Continues(label, b) /\ Return(b, "parse_error")
              \/ label \in Accepting /\ ~Continues(label, b) /\ Finished(b)
  <1> USE NumberBytes DEF NumberLabels, IntegerLabels, Lacking, Accepting, Goes, Continues
  <1>1. CASE integer_part(b)
    <2>1. \/ label = "minus" /\ b = 48 /\ Add(b, "zero", detail)
          \/ label = "minus" /\ b \in Digits /\ b # 48 /\ Add(b, "any1", detail)
          \/ label = "any1" /\ b \in Digits /\ Add(b, "any1", detail)
          \/ label = "minus" /\ b \notin Digits /\ Return(b, "parse_error")
          \/ label \in {"zero", "any1"} /\ b = Dot /\ Add(b, "decimal1", "value_float")
          \/ label \in {"zero", "any1"} /\ b \in Exponent /\ Add(b, "exponent", "value_float")
          \/ label \in {"zero", "any1"} /\ ~Continues(label, b) /\ Finished(b)
      BY <1>1 DEF integer_part, AfterDigit
    <2> QED
      BY <2>1
  <1>2. CASE fraction_part(b)
    <2>1. \/ label \in {"decimal1", "decimal2"} /\ b \in Digits /\ Add(b, "decimal2", detail)
          \/ label = "decimal1" /\ b \notin Digits /\ Return(b, "parse_error")
          \/ label = "decimal2" /\ b \in Exponent /\ Add(b, "exponent", "value_float")
          \/ label = "decimal2" /\ ~Continues(label, b) /\ Finished(b)
      BY <1>2 DEF fraction_part, AfterDigit
    <2> QED
      BY <2>1
  <1>3. CASE exponent_part(b)
    <2>1. \/ label \in {"exponent", "sign", "any2"} /\ b \in Digits /\ Add(b, "any2", detail)
          \/ label = "exponent" /\ b \in Sign /\ Add(b, "sign", detail)
          \/ label \in {"exponent", "sign"} /\ ~Continues(label, b) /\ Return(b, "parse_error")
          \/ label = "any2" /\ ~Continues(label, b) /\ Finished(b)
      BY <1>3 DEF exponent_part, AfterDigit
    <2> QED
      BY <2>1
  <1> QED
    BY <1>1, <1>2, <1>3 DEF scan_number

\* The type that the grammar and the range give a number.
LEMMA TypeConverted ==
    ASSUME NEW u, NEW n \in Nat, NEW a \in 1..n, NEW l \in Accepting,
           SoFar(l, u, Unsigned(u, a), n),
           NEW d, d = IF l \notin IntegerLabels THEN "value_float"
                      ELSE IF u[a] = 45 THEN "value_integer" ELSE "value_unsigned",
           NEW t
    PROVE  /\ Convert(d, t) # "parse_error"
           /\ Convert(d, t) = CASE AllDigits(u, a, n)
                                   /\ DigitsValue(t) <= MaxUnsigned -> "value_unsigned"
                                [] u[a] = 45 /\ AllDigits(u, a + 1, n)
                                   /\ DigitsValue(Tail(t)) <= MaxInteger + 1 -> "value_integer"
                                [] OTHER -> "value_float"
  <1>1. CASE l \in {"zero", "any1"}
    <2>1. IF u[a] = 45 THEN ~AllDigits(u, a, n) /\ AllDigits(u, a + 1, n) ELSE AllDigits(u, a, n)
      BY <1>1, IntegersHaveDigits
    <2>2. d = IF u[a] = 45 THEN "value_integer" ELSE "value_unsigned"
      BY <1>1 DEF IntegerLabels
    <2> QED
      BY <2>1, <2>2 DEF Convert
  <1>2. CASE l \in {"decimal2", "any2"}
    <2>1. ~AllDigits(u, a, n) /\ ~(u[a] = 45 /\ AllDigits(u, a + 1, n))
      BY <1>2, FloatsHaveMore
    <2>2. d = "value_float"
      BY <1>2 DEF IntegerLabels
    <2> QED
      BY <2>1, <2>2 DEF Convert
  <1> QED
    BY <1>1, <1>2 DEF Accepting

LEMMA NumberKeepsToken ==
    ASSUME PositionInv, TokenInv, NEW b, scan_number(b)
    PROVE  TokenInv'
  <1>1. label \in NumberLabels /\ get(b)
    BY NumberByte DEF Add, Goto, Return, Finished, Unget
  <1>2. PICK n, u : n \in Nat /\ Took(n, b, u)
    BY <1>1, TokenByte DEF MarkLabels, NumberLabels, IntegerLabels
  <1>3. InNumber(label, detail, token_buffer, u, start, n) /\ start \in 1..n
    BY <1>1, <1>2, Zenon DEF Took, InToken
  <1>4. PICK m \in Nat \ {0} : m = Unsigned(u, start) /\ m <= n + 1
    BY <1>2, <1>3 DEF Unsigned
  <1>5. /\ u \in Seq(Range(u)) /\ n + 1 <= Len(u) /\ n <= Len(u) /\ u[n + 1] = b
        /\ SoFar(label, u, m, n) /\ u[start] \in Digits \cup {45} /\ u[start] # Slash
        /\ start' = start /\ text' = u
    BY <1>2, <1>3, <1>4, NumberBytes DEF Took, Takes, InNumber
  <1>6. ASSUME NEW k, NEW d, Goes(label, b, k), Add(b, k, d),
               \/ d = detail /\ (label \in IntegerLabels <=> k \in IntegerLabels)
               \/ d = "value_float" /\ k \notin IntegerLabels
        PROVE  TokenInv'
    <2>1. PICK t : t = Append(token_buffer, b)
      OBVIOUS
    <2>2. label' = k /\ detail' = d /\ token_buffer' = t /\ next_unget' = FALSE
      BY <1>6, <2>1 DEF Add, Goto
    <2>3. SoFar(k, u, m, n + 1) /\ k \in NumberLabels
      BY <1>2, <1>4, <1>5, <1>6, SoFarGrows
    <2>4. Buffered(t, u, start, n + 1)
      BY <1>2, <1>3, <1>5, <2>1, BufferGrows DEF InNumber
    <2>5. d = IF k \notin IntegerLabels THEN "value_float"
              ELSE IF u[start] = 45 THEN "value_integer" ELSE "value_unsigned"
      BY <1>3, <1>6 DEF InNumber
    <2>6. InNumber(k, d, t, u, start, n + 1)
      BY <1>4, <1>5, <2>3, <2>4, <2>5, Zenon DEF InNumber
    <2>7. Taken' = n + 1
      BY <1>2, <2>2 DEF Took
    <2> QED
      BY <1>2, <2>2, <2>3, <2>6, <2>7, TokenGoesOn
         DEF MarkLabels, StringLabels, CommentLabels, NumberLabels, IntegerLabels
  <1>7. CASE label \in Lacking /\ ~Continues(label, b) /\ Return(b, "parse_error")
    <2>1. label' = "token" /\ token' = "parse_error" /\ next_unget' = FALSE
      BY <1>7 DEF Return
    <2>2. Taken' = n + 1
      BY <1>2, <2>1 DEF Took
    <2>3. ~BeginsNumber(u, start, n + 1)
      BY <1>1, <1>2, <1>3, <1>4, <1>5, <1>7, BeginsNoMore
    <2>4. BeginsNumber(u, start, n)
      BY <1>2, <1>3, <1>4, <1>5, <1>7, StillBegins
    <2>5. Taken' - 1 = n
      BY <1>2, <2>2
    <2>6. NumbersScanned'
      BY <1>5, <2>1, <2>2, <2>3, <2>4, <2>5, Zenon DEF NumbersScanned
    <2> QED
      BY <1>2, <1>5, <2>1, <2>2, <2>6, TokenEnds
  <1>8. CASE label \in Accepting /\ ~Continues(label, b) /\ Finished(b)
    <2>1. /\ label' = "token" /\ token' = Convert(detail, token_buffer) /\ next_unget' = TRUE
          /\ token_buffer' = token_buffer
      BY <1>8 DEF Finished, Unget
    <2>2. Taken' = n
      BY <1>2, <2>1 DEF Took
    <2>3. ~BeginsNumber(u, start, n + 1)
      BY <1>1, <1>2, <1>3, <1>4, <1>5, <1>8, BeginsNoMore
    <2>4. IsNumber(u, start, n)
      BY <1>2, <1>4, <1>5, <1>8, NumberRead
    <2>5. token_buffer = SubSeq(u, start, n)
      BY <1>2, <1>3, <1>5, BufferIs DEF InNumber
    <2>6. /\ Convert(detail, token_buffer) # "parse_error"
          /\ Convert(detail, token_buffer) =
                CASE AllDigits(u, start, n)
                     /\ DigitsValue(token_buffer) <= MaxUnsigned -> "value_unsigned"
                  [] u[start] = 45 /\ AllDigits(u, start + 1, n)
                     /\ DigitsValue(Tail(token_buffer)) <= MaxInteger + 1 -> "value_integer"
                  [] OTHER -> "value_float"
      BY <1>2, <1>3, <1>4, <1>5, <1>8, TypeConverted DEF InNumber
    <2>7. NumbersScanned'
      BY <1>5, <2>1, <2>2, <2>3, <2>4, <2>5, <2>6 DEF NumbersScanned
    <2> QED
      BY <1>2, <1>5, <2>1, <2>2, <2>7, TokenEnds
  <1> QED
    BY <1>6, <1>7, <1>8, NumberByte

-----------------------------------------------------------------------------
(* The lexer: where a token begins.                                        *)

\* The bytes at which no token begins that goes on.
NoToken(b) == b \notin Digits \cup {45} /\ (ignore_comments => b # Slash)

\* The first byte of a number.
NumberFirst(b, l, d) ==
    \/ b = 45 /\ l = "minus" /\ d = "value_integer"
    \/ b = 48 /\ l = "zero" /\ d = "value_unsigned"
    \/ b \in Digits /\ b # 48 /\ l = "any1" /\ d = "value_unsigned"

\* What scan() does with b.
LEMMA FirstByteDoes ==
    ASSUME NEW b, scan(b)
    PROVE  /\ get(b) /\ next_unget' = FALSE
           /\ \/ b \in Whitespace /\ label' = "start"
              \/ b = Slash /\ ignore_comments /\ label' = "comment"
              \/ b \in DOMAIN Literals /\ label' = "literal"
              \/ b = Quote /\ label' = "string"
              \/ NumberFirst(b, label', detail') /\ token_buffer' = <<b>>
              \/ NoToken(b) /\ label' = "token"
  <1>1. \/ b \in Whitespace /\ label = "start" /\ Skip(b, label)
        \/ b = Slash /\ ignore_comments /\ Skip(b, "comment")
        \/ b \in DOMAIN Structural /\ Return(b, Structural[b])
        \/ b \in DOMAIN Literals /\ Goto(b, "literal", Literals[b], token_buffer)
        \/ b = Quote /\ Goto(b, "string", << >>, << >>)
        \/ b = 45 /\ Goto(b, "minus", "value_integer", <<b>>)
        \/ b = 48 /\ Goto(b, "zero", "value_unsigned", <<b>>)
        \/ b \in Digits \ {48} /\ Goto(b, "any1", "value_unsigned", <<b>>)
        \/ b \in {0, EOF} /\ Return(b, "end_of_input")
        \/ /\ b \notin Digits \ {48} /\ b # 48 /\ b # 45 /\ ~(b = Slash /\ ignore_comments)
           /\ Return(b, "parse_error")
    BY DEF scan
  <1>2. b \in DOMAIN Structural => NoToken(b)
    BY OtherBytes DEF NoToken
  <1>3. b \in {0, EOF} => NoToken(b)
    BY DEF NoToken, Digits, EOF, Slash
  <1>4. b \notin Digits \ {48} /\ b # 48 /\ b # 45 /\ ~(b = Slash /\ ignore_comments) => NoToken(b)
    BY DEF NoToken
  <1> QED
    BY <1>1, <1>2, <1>3, <1>4 DEF Skip, Goto, Return, NumberFirst

\* One byte.
LEMMA OneBuffered ==
    ASSUME NEW u, NEW a \in Nat \ {0}, NEW b, b = u[a]
    PROVE  Buffered(<<b>>, u, a, a)
  <1>1. \A i \in 1..1 : <<b>>[i] = u[a + i - 1]
    OBVIOUS
  <1>2. <<b>> \in Seq(Range(<<b>>)) /\ Len(<<b>>) = a - a + 1
    <2>1. b \in Range(<<b>>)
      BY DEF Range
    <2> QED
      BY <2>1
  <1> QED
    BY <1>1, <1>2 DEF Buffered

LEMMA NumberBegins ==
    ASSUME NEW u, NEW a \in Nat \ {0}, NEW b, b = u[a], NEW l, NEW d,
           NumberFirst(b, l, d)
    PROVE  InNumber(l, d, <<b>>, u, a, a)
  <1>1. Buffered(<<b>>, u, a, a)
    BY OneBuffered
  <1>2. /\ u[a] \in Digits \cup {45}
        /\ d = IF l \notin IntegerLabels THEN "value_float"
               ELSE IF u[a] = 45 THEN "value_integer" ELSE "value_unsigned"
    BY NumberBytes DEF NumberFirst, IntegerLabels
  <1>3. SoFar(l, u, Unsigned(u, a), a)
    BY NumberBytes DEF NumberFirst, SoFar, Unsigned, AllDigits
  <1> QED
    BY <1>1, <1>2, <1>3, Zenon DEF InNumber

LEMMA ScanKeepsToken ==
    ASSUME PositionInv, TokenInv, NEW b, scan(b)
    PROVE  TokenInv'
  <1>1. label = "start" /\ get(b) /\ next_unget' = FALSE
    BY FirstByteDoes, Zenon DEF scan
  <1>2. PICK n, u : n = Taken /\ u = text'
    OBVIOUS
  <1>3. /\ Takes(text, n, b, u) /\ n \in Nat
        /\ start' = n + 1 /\ called' = called /\ ignore_comments' = ignore_comments
        /\ Taken' = n + 1
    BY <1>1, <1>2, ByteRead DEF Takes
  <1>4. called \in Nat /\ 1 \in DOMAIN text /\ Before(text, called, n, ignore_comments)
    BY <1>1, <1>2 DEF TokenInv, MarkLabels
  <1>5. Before(u, called, n, ignore_comments) /\ 1 \in DOMAIN u
    <2>1. Same(text, u, n) /\ text[1] = u[1] /\ 1 \in DOMAIN u
      BY <1>3, <1>4 DEF Takes
    <2> QED
      BY <1>3, <1>4, <2>1, SameBefore
  <1>6. n + 1 \in Nat \ {0} /\ u[n + 1] = b /\ (n + 1) - 1 = n
    BY <1>3 DEF Takes
  <1>7. CASE b \in Whitespace /\ label' = "start"
    <2>1. IsSpace(u, ignore_comments, n + 1, n + 1)
      BY <1>6, <1>7 DEF IsSpace
    <2>2. /\ Place(u, called) \in Int /\ Place(u, called) <= n + 1
          /\ IsBlank(u, ignore_comments, Place(u, called), n)
      BY <1>4, <1>5 DEF Before, Place
    <2>3. IsBlank(u, ignore_comments, Place(u, called), n + 1)
      BY <1>3, <2>1, <2>2, BlankGrows
    <2>4. Before(u, called, n + 1, ignore_comments)
      BY <1>3, <2>2, <2>3 DEF Before
    <2> QED
      BY <1>2, <1>3, <1>4, <1>5, <1>7, <2>4 DEF TokenInv, MarkLabels
  <1>8. ASSUME NEW l, label' = l, l \notin MarkLabels \cup {"start", "token"},
               NEW d, detail' = d, NEW t, token_buffer' = t,
               l = "literal" => b \in DOMAIN Literals,
               l \in StringLabels \cup {"utf8"} => b = Quote,
               l \in CommentLabels => ignore_comments /\ InComment(l, u, n + 1, n + 1),
               l \in NumberLabels => InNumber(l, d, t, u, n + 1, n + 1)
        PROVE  TokenInv'
    <2>1. n + 1 \in 1..(n + 1)
      BY <1>3
    <2>2. InToken(l, d, t, u, called, n + 1, n + 1, ignore_comments)
      BY <1>5, <1>6, <1>8, <2>1, Zenon DEF InToken
    <2>3. InToken(label, detail, token_buffer, text, called, start, Taken, ignore_comments)'
      BY <1>2, <1>3, <1>8, <2>2
    <2> QED
      BY <1>2, <1>3, <1>4, <1>5, <1>8, <2>3 DEF TokenInv, MarkLabels
  <1>9. CASE b = Slash /\ ignore_comments /\ label' = "comment"
    <2>1. InComment("comment", u, n + 1, n + 1)
      BY <1>6, <1>9 DEF InComment
    <2> QED
      BY <1>8, <1>9, <2>1 DEF MarkLabels, StringLabels, CommentLabels, NumberLabels, IntegerLabels
  <1>10. CASE b \in DOMAIN Literals /\ label' = "literal"
    BY <1>8, <1>10 DEF MarkLabels, StringLabels, CommentLabels, NumberLabels, IntegerLabels
  <1>11. CASE b = Quote /\ label' = "string"
    BY <1>8, <1>11 DEF MarkLabels, StringLabels, CommentLabels, NumberLabels, IntegerLabels
  <1>12. CASE NumberFirst(b, label', detail') /\ token_buffer' = <<b>>
    <2> PICK l, d : label' = l /\ detail' = d /\ NumberFirst(b, l, d)
      BY <1>12
    <2>1. InNumber(l, d, <<b>>, u, n + 1, n + 1)
      BY <1>6, NumberBegins
    <2>2. l \in IntegerLabels
      BY DEF NumberFirst, IntegerLabels
    <2>3. /\ l \notin MarkLabels \cup {"start", "token"} /\ l # "literal"
          /\ l \notin StringLabels \cup {"utf8"} /\ l \notin CommentLabels
      BY <2>2 DEF MarkLabels, StringLabels, CommentLabels, IntegerLabels
    <2> QED
      BY <1>8, <1>12, <2>1, <2>3, Zenon
  <1>13. CASE NoToken(b) /\ label' = "token"
    <2>1. u[n + 1] \notin Digits \cup {45} /\ (ignore_comments => u[n + 1] # Slash)
      BY <1>6, <1>13 DEF NoToken
    <2>2. NumbersScanned'
      BY <1>2, <1>3, <2>1 DEF NumbersScanned
    <2>3. Origin' = Place(u, called)
      BY <1>2, <1>3, Zenon DEF Origin, Place
    <2>4. OnlyBlankSkipped'
      BY <1>2, <1>3, <1>5, <1>6, <2>1, <2>3 DEF OnlyBlankSkipped, Before
    <2> QED
      BY <1>2, <1>3, <1>4, <1>5, <1>13, <2>2, <2>4 DEF TokenInv, MarkLabels
  <1>14. \/ b \in Whitespace /\ label' = "start"
         \/ b = Slash /\ ignore_comments /\ label' = "comment"
         \/ b \in DOMAIN Literals /\ label' = "literal"
         \/ b = Quote /\ label' = "string"
         \/ NumberFirst(b, label', detail') /\ token_buffer' = <<b>>
         \/ NoToken(b) /\ label' = "token"
    BY FirstByteDoes, Zenon
  <1> QED
    BY <1>7, <1>9, <1>10, <1>11, <1>12, <1>13, <1>14, Zenon

LEMMA MarkKeepsToken ==
    ASSUME PositionInv, TokenInv, NEW b, skip_bom(b)
    PROVE  TokenInv'
  <1>1. /\ get(b)
        /\ \/ label = "bom" /\ b = 239 /\ label' = "bom2" /\ next_unget' = FALSE
           \/ label = "bom" /\ b # 239 /\ label' = "start" /\ next_unget' = TRUE
           \/ label = "bom2" /\ label' = "bom3" /\ next_unget' = FALSE
           \/ label = "bom3" /\ label' = "start" /\ next_unget' = FALSE
           \/ label = "bom2" /\ label' = "token" /\ next_unget' = FALSE
           \/ label = "bom3" /\ label' = "token" /\ next_unget' = FALSE
    BY SMT DEF skip_bom, Skip, Goto, Unget, Return
  <1>2. PICK n, u : n = Taken /\ u = text'
    OBVIOUS
  <1>3. /\ Takes(text, n, b, u) /\ n \in Nat
        /\ start' = start /\ called' = called /\ ignore_comments' = ignore_comments
        /\ next_unget' = FALSE => Taken' = n + 1
        /\ next_unget' = TRUE => Taken' = n
    BY <1>1, <1>2, ByteRead DEF Takes
  <1>4. called = 0 /\ start = 0 /\ called' = 0 /\ start' = 0
    BY <1>1, <1>3 DEF TokenInv, MarkLabels
  <1>5. u[n + 1] = b /\ n + 1 \in DOMAIN u /\ 1 \in DOMAIN u
    BY <1>3 DEF Takes
  <1>6. label # "bom" => text[1] = 239 /\ u[1] = 239
    <2>1. label # "bom" => text[1] = 239 /\ 1 \in DOMAIN text
      BY <1>1 DEF TokenInv
    <2> QED
      BY <1>3, <2>1 DEF Takes
  <1>7. CASE label = "bom" /\ b = 239 /\ label' = "bom2" /\ next_unget' = FALSE
    <2>1. n = 0
      BY <1>2, <1>7 DEF TokenInv
    <2> QED
      BY <1>2, <1>3, <1>4, <1>5, <1>7, <2>1 DEF TokenInv, MarkLabels
  <1>8. CASE label = "bom" /\ b # 239 /\ label' = "start" /\ next_unget' = TRUE
    <2>1. n = 0
      BY <1>2, <1>8 DEF TokenInv
    <2>2. Place(u, 0) = 1
      BY <1>5, <1>8, <2>1 DEF Place
    <2>3. IsBlank(u, ignore_comments, 1, 0)
      BY EmptyBlank
    <2>4. Before(u, 0, 0, ignore_comments)
      BY <2>2, <2>3 DEF Before
    <2> QED
      BY <1>2, <1>3, <1>4, <1>5, <1>8, <2>1, <2>4 DEF TokenInv, MarkLabels
  <1>9. CASE label = "bom2" /\ label' = "bom3" /\ next_unget' = FALSE
    <2>1. n = 1
      BY <1>2, <1>9 DEF TokenInv
    <2> QED
      BY <1>2, <1>3, <1>4, <1>5, <1>6, <1>9, <2>1 DEF TokenInv, MarkLabels
  <1>10. CASE label = "bom3" /\ label' = "start" /\ next_unget' = FALSE
    <2>1. n = 2
      BY <1>2, <1>10 DEF TokenInv
    <2>2. Place(u, 0) = 4
      BY <1>6, <1>10 DEF Place
    <2>3. IsBlank(u, ignore_comments, 4, 3)
      BY EmptyBlank
    <2>4. Before(u, 0, 3, ignore_comments)
      BY <2>2, <2>3 DEF Before
    <2> QED
      BY <1>2, <1>3, <1>4, <1>5, <1>10, <2>1, <2>4 DEF TokenInv, MarkLabels
  <1>11. CASE label \in {"bom2", "bom3"} /\ label' = "token" /\ next_unget' = FALSE
    <2>1. Taken' >= 1
      BY <1>3, <1>11
    <2>2. NumbersScanned' /\ OnlyBlankSkipped'
      BY <1>4 DEF NumbersScanned, OnlyBlankSkipped
    <2> QED
      BY <1>2, <1>4, <1>5, <1>11, <2>1, <2>2 DEF TokenInv, MarkLabels
  <1> QED
    BY <1>1, <1>7, <1>8, <1>9, <1>10, <1>11

LEMMA NextScanKeepsToken ==
    ASSUME PositionInv, TokenInv, NextScan
    PROVE  TokenInv'
  <1>1. /\ label = "token" /\ label' = "start" /\ called' = Taken /\ text' = text
        /\ next_unget' = next_unget /\ ignore_comments' = ignore_comments
    BY DEF NextScan
  <1>2. Taken' = Taken
    BY <1>1 DEF Taken
  <1>3. Taken >= 1 /\ 1 \in DOMAIN text
    BY <1>1 DEF TokenInv
  <1>4. Taken \in Nat
    <2>1. text \in Seq(Range(text)) /\ next_unget \in BOOLEAN
      BY DEF PositionInv
    <2> QED
      BY <1>3, <2>1 DEF Taken
  <1>5. Place(text, Taken) = Taken + 1
    BY <1>3, <1>4 DEF Place
  <1>6. IsBlank(text, ignore_comments, Taken + 1, Taken)
    BY <1>4, EmptyBlank
  <1>7. Before(text, Taken, Taken, ignore_comments)
    BY <1>4, <1>5, <1>6 DEF Before
  <1> QED
    BY <1>1, <1>2, <1>3, <1>4, <1>7 DEF TokenInv, MarkLabels

LEMMA TokenKept ==
    ASSUME PositionInv, TokenInv, [Next]_vars
    PROVE  TokenInv'
  <1>1. ASSUME NEW b, Consume(b)
        PROVE  TokenInv'
    BY <1>1, MarkKeepsToken, CommentKeepsToken, ScanKeepsToken, LiteralKeepsToken,
       NumberKeepsToken, StringKeepsToken, Zenon DEF Consume
  <1>2. CASE NextScan
    BY <1>2, NextScanKeepsToken
  <1>3. CASE UNCHANGED lexer
    <2>1. Taken' = Taken /\ Origin' = Origin
      BY <1>3 DEF lexer, Taken, Origin
    <2>2. (NumbersScanned' <=> NumbersScanned) /\ (OnlyBlankSkipped' <=> OnlyBlankSkipped)
      BY <1>3, <2>1, Zenon DEF lexer, NumbersScanned, OnlyBlankSkipped
    <2> QED
      BY <1>3, <2>1, <2>2 DEF lexer, TokenInv
  <1>4. CASE /\ DumpEnds
             /\ UNCHANGED <<ignore_comments, text, current, next_unget, position, token_buffer,
                            label, detail, token, called, start, scans>>
    <2>1. Taken' = Taken /\ Origin' = Origin
      BY <1>4 DEF Taken, Origin
    <2>2. (NumbersScanned' <=> NumbersScanned) /\ (OnlyBlankSkipped' <=> OnlyBlankSkipped)
      BY <1>4, <2>1, Zenon DEF NumbersScanned, OnlyBlankSkipped
    <2> QED
      BY <1>4, <2>1, <2>2 DEF TokenInv
  <1>5. (\E b : Consume(b)) \/ NextScan \/ UNCHANGED lexer \/ DumpEnds
    BY DEF Next, DumpByte, DumpEnds, Scan, get_token, vars
  <1>6. DumpEnds => UNCHANGED <<ignore_comments, text, current, next_unget, position, token_buffer,
                                label, detail, token, called, start, scans>>
    BY Zenon DEF DumpEnds
  <1> QED
    BY <1>1, <1>2, <1>3, <1>4, <1>5, <1>6, Zenon

LEMMA TokenBegins == Init => TokenInv
  <1> SUFFICES ASSUME Init PROVE TokenInv
    OBVIOUS
  <1>1. /\ label = "bom" /\ called = 0 /\ start = 0 /\ text = << >> /\ next_unget = FALSE
    BY DEF Init, LexerInit
  <1>2. Taken = 0
    BY <1>1 DEF Taken
  <1> QED
    BY <1>1, <1>2 DEF TokenInv, MarkLabels

-----------------------------------------------------------------------------
(* The code points of a string.                                            *)

\* The code point of n bytes of the table.
Point(n, x, y, z, w) ==
    IF n = 1 THEN x
    ELSE IF n = 2 THEN (x - 192) * 64 + (y - 128)
    ELSE IF n = 3 THEN (x - 224) * 4096 + (y - 128) * 64 + (z - 128)
    ELSE (x - 240) * 262144 + (y - 128) * 4096 + (z - 128) * 64 + (w - 128)

Scalar(c) == c \in Int /\ 0 <= c /\ c <= LastCodePoint /\ ~IsHigh(c) /\ ~IsLow(c)

LEMMA LastSixBits ==
    ASSUME NEW b \in Int, Continuing(b)
    PROVE  b % 64 = b - 128
  BY SMT DEF Continuing, Within

\* The code point that the decoder has when a character is complete.
LEMMA PointDecoded ==
    ASSUME NEW x \in Byte, NEW y, NEW z, NEW w, NEW u, NEW st, NEW c, NEW b,
           Follows(x, y, z, w, u, st, c, b), NextState(st, ByteType(b)) = ACCEPT,
           NEW d, d = IF st = ACCEPT THEN FirstBits(b) ELSE c * 64 + (b % 64)
    PROVE  d = Point(u + 1, x, y, z, w)
  <1> PICK next : next = NextState(st, ByteType(b))
    OBVIOUS
  <1>1. Decodes(x, y, z, w, u, st, b, next, d)
    BY AnyByte
  <1>2. u \in 0..3 /\ (st = ACCEPT <=> u = 0) /\ (u = 0 => d = b) /\ Tabled(u + 1, x, y, z, w)
    BY <1>1, Zenon DEF Decodes
  <1>3. CASE u = 0
    BY <1>2, <1>3 DEF Point, Follows, Begins
  <1>4. CASE u # 0
    <2>1. Begins(x, y, z, u, st, c) /\ b \in Int /\ d = c * 64 + (b % 64)
      BY <1>2, <1>4 DEF Follows, Byte
    <2>2. b = (IF u = 1 THEN y ELSE IF u = 2 THEN z ELSE w)
      BY <1>2, <1>4 DEF Follows
    <2>3. Continuing(b)
      BY <1>2, <1>4, <2>2, SMT DEF Tabled, Second3, Second4
    <2>4. b % 64 = b - 128
      BY <2>1, <2>3, LastSixBits
    <2>5. st = 2
      <3>1. st \in 2..8
        BY <2>1, SMT DEF Begins
      <3>2. b \in Byte
        BY DEF Follows
      <3> QED
        BY <3>1, <3>2, LaterTransition, SMT DEF ACCEPT
    <2>6. x \in Int /\ y \in Int /\ z \in Int /\ w \in Int
      BY DEF Follows
    <2>7. /\ u = 1 => c = x - 192
          /\ u = 2 => c = (x - 224) * 64 + (y - 128)
          /\ u = 3 => c = (x - 240) * 4096 + (y - 128) * 64 + (z - 128)
      BY <2>1, <2>5, SMT DEF Begins
    <2>8. d = c * 64 + (b - 128)
      BY <2>1, <2>4
    <2> QED
      BY <1>2, <1>4, <2>1, <2>2, <2>6, <2>7, <2>8, SMT DEF Point
  <1> QED
    BY <1>3, <1>4

\* Encode is the inverse.
Encoded(c, n, chars) == Scalar(c) /\ Encode(c) = chars /\ (n = 1 <=> c < 128)

LEMMA PointEncoded ==
    ASSUME NEW n \in 1..4, NEW x \in Byte, NEW y \in Byte, NEW z \in Byte, NEW w \in Byte,
           Tabled(n, x, y, z, w), NEW c, c = Point(n, x, y, z, w)
    PROVE  Encoded(c, n, Chars(n, x, y, z, w))
  <1> SUFFICES Scalar(c) /\ Encode(c) = Chars(n, x, y, z, w) /\ (n = 1 <=> c < 128)
    BY Zenon DEF Encoded
  <1>0. /\ x \in Int /\ y \in Int /\ z \in Int /\ w \in Int
    BY DEF Byte
  <1>1. CASE n = 1
    <2>1. c = x /\ 0 <= c /\ c <= 127
      BY <1>1, SMT DEF Point, Tabled, Within
    <2>2. Scalar(c)
      BY <1>0, <2>1, SMT DEF Scalar, LastCodePoint, IsHigh, IsLow
    <2>3. Encode(c) = <<x>>
      BY <1>0, <2>1, SMT DEF Encode
    <2>4. Chars(n, x, y, z, w) = <<x>> /\ c < 128
      <3>1. c < 128
        BY <1>0, <2>1, SMT
      <3>2. Chars(n, x, y, z, w) = <<x>>
        BY <1>1, Zenon DEF Chars
      <3> QED
        BY <3>1, <3>2
    <2> QED
      BY <1>1, <2>2, <2>3, <2>4, Zenon
  <1>2. CASE n = 2
    <2> PICK a, e : a = x - 192 /\ e = y - 128
      OBVIOUS
    <2>1. a \in 2..31 /\ e \in 0..63 /\ c = a * 64 + e /\ x = 192 + a /\ y = 128 + e
      BY <1>0, <1>2, SMT DEF Point, Tabled, Within, Continuing
    <2>2. Scalar(c) /\ 128 <= c /\ c <= 2047
      BY <2>1, SMT DEF Scalar, LastCodePoint, IsHigh, IsLow
    <2>3. c \div 64 = a /\ c % 64 = e
      BY <2>1, SMT
    <2>4. Encode(c) = <<x, y>>
      BY <2>1, <2>2, <2>3, SMT DEF Encode, Scalar
    <2> QED
      BY <1>2, <2>2, <2>4, SMT DEF Chars, Scalar
  <1>3. CASE n = 3
    <2> PICK a, e, f : a = x - 224 /\ e = y - 128 /\ f = z - 128
      OBVIOUS
    <2>1. /\ a \in 0..15 /\ e \in 0..63 /\ f \in 0..63 /\ c = a * 4096 + e * 64 + f
          /\ x = 224 + a /\ y = 128 + e /\ z = 128 + f
          /\ a = 0 => e >= 32
          /\ a = 13 => e <= 31
      BY <1>0, <1>3, SMT DEF Point, Tabled, Within, Continuing, Second3
    <2>2. Scalar(c) /\ 2048 <= c /\ c <= 65535
      BY <2>1, SMT DEF Scalar, LastCodePoint, IsHigh, IsLow
    <2>3. c \div 4096 = a /\ (c \div 64) % 64 = e /\ c % 64 = f
      <3>1. c \div 64 = a * 64 + e
        BY <2>1, SMT
      <3>2. c \div 4096 = a /\ c % 64 = f
        BY <2>1, SMT
      <3>3. (a * 64 + e) % 64 = e
        BY <2>1, SMT
      <3> QED
        BY <3>1, <3>2, <3>3
    <2>4. Encode(c) = <<x, y, z>>
      BY <2>1, <2>2, <2>3, SMT DEF Encode, Scalar
    <2> QED
      BY <1>3, <2>2, <2>4, SMT DEF Chars, Scalar
  <1>4. CASE n = 4
    <2> PICK a, e, f, g : a = x - 240 /\ e = y - 128 /\ f = z - 128 /\ g = w - 128
      OBVIOUS
    <2>1. /\ a \in 0..4 /\ e \in 0..63 /\ f \in 0..63 /\ g \in 0..63
          /\ c = a * 262144 + e * 4096 + f * 64 + g
          /\ x = 240 + a /\ y = 128 + e /\ z = 128 + f /\ w = 128 + g
          /\ a = 0 => e >= 16
          /\ a = 4 => e <= 15
      BY <1>0, <1>4, SMT DEF Point, Tabled, Within, Continuing, Second4
    <2>2. Scalar(c) /\ 65536 <= c
      BY <2>1, SMT DEF Scalar, LastCodePoint, IsHigh, IsLow
    <2>3. c \div 262144 = a /\ (c \div 4096) % 64 = e /\ (c \div 64) % 64 = f /\ c % 64 = g
      <3>1. c \div 64 = a * 4096 + e * 64 + f
        BY <2>1, SMT
      <3>2. c \div 4096 = a * 64 + e
        BY <2>1, SMT
      <3>3. c \div 262144 = a /\ c % 64 = g
        BY <2>1, SMT
      <3>4. (a * 4096 + e * 64 + f) % 64 = f
        BY <2>1, SMT
      <3>5. (a * 64 + e) % 64 = e
        BY <2>1, SMT
      <3> QED
        BY <3>1, <3>2, <3>3, <3>4, <3>5
    <2>4. Encode(c) = <<x, y, z, w>>
      <3>1. c \in Int /\ c >= 65536
        BY <2>2, SMT DEF Scalar
      <3>2. Encode(c) = <<240 + a, 128 + e, 128 + f, 128 + g>>
        BY <2>3, <3>1, SMT DEF Encode
      <3>3. x = 240 + a /\ y = 128 + e /\ z = 128 + f /\ w = 128 + g
        BY <2>1, SMT
      <3> QED
        BY <3>2, <3>3
    <2> QED
      BY <1>4, <2>2, <2>4, SMT DEF Chars, Scalar
  <1> QED
    BY <1>1, <1>2, <1>3, <1>4

\* One hexadecimal digit of a \u escape: written and read.
Nibble(k, left) ==
    IF left = 4 THEN k \div 4096 ELSE IF left = 3 THEN (k \div 256) % 16
    ELSE IF left = 2 THEN (k \div 16) % 16 ELSE k % 16

\* What get_codepoint has of k with that many digits to come.
Upper(k, left) ==
    IF left = 4 THEN 0 ELSE IF left = 3 THEN k \div 4096
    ELSE IF left = 2 THEN k \div 256 ELSE IF left = 1 THEN k \div 16 ELSE k

LEMMA DigitReadBack ==
    ASSUME NEW r \in 0..15, NEW b, b = HexDigit(r)
    PROVE  b \in Byte /\ IsHex(b) /\ HexValue(b) = r
  <1>1. b = IF r < 10 THEN 48 + r ELSE 87 + r
    BY DEF HexDigit
  <1>2. CASE r < 10
    <2>1. b \in 48..57 /\ b - 48 = r
      BY <1>1, <1>2
    <2> QED
      BY <2>1, SMT DEF Byte, IsHex, HexValue
  <1>3. CASE r >= 10
    <2>1. b \in 97..102 /\ b - 87 = r
      BY <1>1, <1>3
    <2> QED
      BY <2>1, SMT DEF Byte, IsHex, HexValue
  <1> QED
    BY <1>2, <1>3

LEMMA NibbleRead ==
    ASSUME NEW k, Unit(k), NEW left \in 1..4
    PROVE  /\ Nibble(k, left) \in 0..15 /\ Upper(k, 4) = 0 /\ Upper(k, 0) = k
           /\ 16 * Upper(k, left) + Nibble(k, left) = Upper(k, left - 1)
  <1>0. k \in Int /\ 0 <= k /\ k <= 65535
    BY DEF Unit
  <1>1. CASE left = 4
    BY <1>0, <1>1, SMT DEF Nibble, Upper
  <1>2. CASE left = 3
    BY <1>0, <1>2, SMT DEF Nibble, Upper
  <1>3. CASE left = 2
    BY <1>0, <1>3, SMT DEF Nibble, Upper
  <1>4. CASE left = 1
    BY <1>0, <1>4, SMT DEF Nibble, Upper
  <1> QED
    BY <1>1, <1>2, <1>3, <1>4

\* What get_codepoint makes of a pair of surrogates.
Joined(high, low) == high * 1024 + low - 56613888

\* The halves of a code point that needs two escapes.
LEMMA PairHalves ==
    ASSUME NEW k, Scalar(k), ~Unit(k)
    PROVE  /\ Unit(High(k)) /\ Unit(Low(k)) /\ IsHigh(High(k)) /\ IsLow(Low(k)) /\ High(k) # 0
           /\ Joined(High(k), Low(k)) = k
  <1>1. k \in Int /\ 65536 <= k /\ k <= 1114111
    BY SMT DEF Scalar, Unit, LastCodePoint
  <1> PICK q, r : q = k \div 1024 /\ r = k % 1024
    OBVIOUS
  <1>2. q \in 64..1087 /\ r \in 0..1023 /\ k = 1024 * q + r
    BY <1>1, SMT
  <1>3. High(k) = 55232 + q /\ Low(k) = 56320 + r
    BY DEF High, Low
  <1>4. PICK h, l : h = High(k) /\ l = Low(k)
    OBVIOUS
  <1>5. Unit(h) /\ Unit(l) /\ IsHigh(h) /\ IsLow(l) /\ h # 0
    BY <1>2, <1>3, <1>4, SMT DEF Unit, IsHigh, IsLow
  <1>6. Joined(h, l) = k
    BY <1>2, <1>3, <1>4, SMT DEF Joined
  <1> QED
    BY <1>4, <1>5, <1>6

LEMMA ShortEscapeReadBack ==
    ASSUME NEW c \in DOMAIN ShortEscapes, NEW e, e = ShortEscapes[c]
    PROVE  e \in DOMAIN Escapes /\ Escapes[e] = c /\ c \in 0..127
  BY SMT DEF ShortEscapes, Escapes, LF, CR, Quote, Backslash, Slash

-----------------------------------------------------------------------------
(* What is written for a character: the bytes of v from c to d by those of *)
(* s from p to q.                                                          *)

\* t is the first c bytes of v.
Prefix(t, v, c) == t \in Seq(Byte) /\ Len(t) = c /\ \A i \in 1..c : t[i] = v[i]

HexAt(s, p, k) ==
    /\ s[p + 1] = Backslash /\ s[p + 2] = 117
    /\ \A left \in 1..4 : s[(p + 7) - left] = HexDigit(Nibble(k, left))

Stands(v, c, d, k) ==
    /\ d = c + Len(Encode(k))
    /\ \A i \in 1..Len(Encode(k)) : v[c + i] = Encode(k)[i]

ByItself(v, s, c, p, d, q) == d = c + 1 /\ q = p + 1 /\ v[d] \in Plain /\ s[q] = v[d]

ByEscape(v, s, c, p, d, q) ==
    /\ d = c + 1 /\ q = p + 2
    /\ s[p + 1] = Backslash /\ s[q] \in DOMAIN Escapes /\ v[d] = Escapes[s[q]]

ByUnit(v, s, c, p, d, q, k) ==
    /\ Scalar(k) /\ Unit(k) /\ q = p + 6
    /\ HexAt(s, p, k) /\ Stands(v, c, d, k)

ByPair(v, s, c, p, d, q, k) ==
    /\ Scalar(k) /\ ~Unit(k) /\ q = p + 12
    /\ HexAt(s, p, High(k)) /\ HexAt(s, p + 6, Low(k)) /\ Stands(v, c, d, k)

ByBytes(v, s, c, p, d, q, n) ==
    /\ n \in 2..4 /\ d = c + n /\ q = p + n
    /\ Spelt(v, c + 1, n) /\ \A i \in 1..n : s[p + i] = v[c + i]

Shows(v, s, c, p, d, q) ==
    \/ ByItself(v, s, c, p, d, q)
    \/ ByEscape(v, s, c, p, d, q)
    \/ \E k : ByUnit(v, s, c, p, d, q, k)
    \/ \E k : ByPair(v, s, c, p, d, q, k)
    \/ \E n : ByBytes(v, s, c, p, d, q, n)

\* The characters of v up to n are written up to m of s: R has the places where
\* characters begin in both.
Written(R, v, s, n, m) ==
    /\ n \in 0..Len(v) /\ m \in 0..Len(s)
    /\ R \subseteq Nat \X Nat /\ <<0, 0>> \in R
    /\ \A c, p \in Nat : <<c, p>> \in R =>
          \/ c = n /\ p = m
          \/ \E d \in 0..Len(v), q \in 0..Len(s) :
                <<d, q>> \in R /\ p < q /\ Shows(v, s, c, p, d, q)

\* What is written stays.
LEMMA ShowsStays ==
    ASSUME NEW v, NEW s, NEW t, Extends(t, s), NEW c \in Nat, NEW p \in Nat, NEW d \in Nat,
           NEW q \in 0..Len(s), Shows(v, s, c, p, d, q)
    PROVE  Shows(v, t, c, p, d, q)
  <1>1. \A i \in 1..Len(s) : t[i] = s[i]
    BY DEF Extends
  <1>2. Len(s) \in Nat
    BY DEF Extends
  <1>3. CASE ByItself(v, s, c, p, d, q)
    <2>1. q \in 1..Len(s)
      BY <1>2, <1>3 DEF ByItself
    <2> QED
      BY <1>1, <1>3, <2>1, Zenon DEF ByItself, Shows
  <1>4. CASE ByEscape(v, s, c, p, d, q)
    <2>1. q \in 1..Len(s) /\ p + 1 \in 1..Len(s)
      BY <1>2, <1>4 DEF ByEscape
    <2> QED
      BY <1>1, <1>4, <2>1, Zenon DEF ByEscape, Shows
  <1>5. ASSUME NEW r \in Nat, r + 6 <= q, NEW k, HexAt(s, r, k)
        PROVE  HexAt(t, r, k)
    <2>1. r + 1 \in 1..Len(s) /\ r + 2 \in 1..Len(s) /\ \A left \in 1..4 : (r + 7) - left \in 1..Len(s)
      BY <1>2, <1>5
    <2> QED
      BY <1>1, <1>5, <2>1, Zenon DEF HexAt
  <1>6. ASSUME NEW k, ByUnit(v, s, c, p, d, q, k)
        PROVE  ByUnit(v, t, c, p, d, q, k)
    <2>1. p + 6 <= q
      BY <1>2, <1>6 DEF ByUnit
    <2> QED
      BY <1>5, <1>6, <2>1, Zenon DEF ByUnit
  <1>7. ASSUME NEW k, ByPair(v, s, c, p, d, q, k)
        PROVE  ByPair(v, t, c, p, d, q, k)
    <2>1. p + 6 <= q /\ p + 6 \in Nat /\ (p + 6) + 6 <= q
      BY <1>2, <1>7 DEF ByPair
    <2> QED
      BY <1>5, <1>7, <2>1, Zenon DEF ByPair
  <1>8. ASSUME NEW n, ByBytes(v, s, c, p, d, q, n)
        PROVE  ByBytes(v, t, c, p, d, q, n)
    <2>1. \A i \in 1..n : p + i \in 1..Len(s)
      BY <1>2, <1>8 DEF ByBytes
    <2> QED
      BY <1>1, <1>8, <2>1, Zenon DEF ByBytes
  <1> QED
    BY <1>3, <1>4, <1>6, <1>7, <1>8, Zenon DEF Shows

\* One character more.
LEMMA WrittenFurther ==
    ASSUME NEW R, NEW v \in Seq(Byte), NEW s, NEW n, NEW m, Written(R, v, s, n, m),
           NEW t, Extends(t, s), NEW d \in 0..Len(v), NEW q \in 0..Len(t), m < q, Shows(v, t, n, m, d, q)
    PROVE  Written(R \cup {<<d, q>>}, v, t, d, q)
  <1> DEFINE S == R \cup {<<d, q>>}
  <1>1. Len(s) \in Nat /\ Len(t) \in Nat /\ Len(v) \in Nat /\ 0..Len(s) \subseteq 0..Len(t)
    BY DEF Extends
  <1>2. /\ R \subseteq Nat \X Nat /\ <<0, 0>> \in R
        /\ \A c, p \in Nat : <<c, p>> \in R =>
              \/ c = n /\ p = m
              \/ \E e \in 0..Len(v), r \in 0..Len(s) :
                    <<e, r>> \in R /\ p < r /\ Shows(v, s, c, p, e, r)
    BY Zenon DEF Written
  <1>3. S \subseteq Nat \X Nat /\ <<0, 0>> \in S /\ <<d, q>> \in S /\ R \subseteq S
    BY <1>1, <1>2
  <1>4. \A c, p : <<c, p>> \in S => <<c, p>> \in R \/ (c = d /\ p = q)
    OBVIOUS
  <1> HIDE DEF S
  <1>5. ASSUME NEW c \in Nat, NEW p \in Nat, <<c, p>> \in S, ~(c = d /\ p = q)
        PROVE  \E e \in 0..Len(v), r \in 0..Len(t) : <<e, r>> \in S /\ p < r /\ Shows(v, t, c, p, e, r)
    <2>1. <<c, p>> \in R
      BY <1>4, <1>5, Zenon
    <2>2. CASE c = n /\ p = m
      BY <1>3, <2>2, Zenon
    <2>3. CASE ~(c = n /\ p = m)
      <3>1. PICK e \in 0..Len(v), r \in 0..Len(s) : <<e, r>> \in R /\ p < r /\ Shows(v, s, c, p, e, r)
        BY <1>2, <2>1, <2>3, Zenon
      <3>2. e \in Nat
        BY <1>1, <3>1
      <3>3. Shows(v, t, c, p, e, r)
        BY <3>1, <3>2, ShowsStays, Zenon
      <3> QED
        BY <1>1, <1>3, <3>1, <3>3, Zenon
    <2> QED
      BY <2>2, <2>3, Zenon
  <1>6. Written(S, v, t, d, q)
    BY <1>3, <1>5, Zenon DEF Written
  <1> QED
    BY <1>6, Zenon DEF S

\* More of the text, behind what is written.
LEMMA WrittenStays ==
    ASSUME NEW R, NEW v \in Seq(Byte), NEW s, NEW n, NEW m, Written(R, v, s, n, m), NEW t, Extends(t, s)
    PROVE  Written(R, v, t, n, m)
  <1>1. Len(s) \in Nat /\ Len(t) \in Nat /\ Len(v) \in Nat /\ 0..Len(s) \subseteq 0..Len(t)
    BY DEF Extends
  <1>2. /\ n \in 0..Len(v) /\ m \in 0..Len(s)
        /\ R \subseteq Nat \X Nat /\ <<0, 0>> \in R
        /\ \A c, p \in Nat : <<c, p>> \in R =>
              \/ c = n /\ p = m
              \/ \E e \in 0..Len(v), r \in 0..Len(s) :
                    <<e, r>> \in R /\ p < r /\ Shows(v, s, c, p, e, r)
    BY Zenon DEF Written
  <1>5. ASSUME NEW c \in Nat, NEW p \in Nat, <<c, p>> \in R, ~(c = n /\ p = m)
        PROVE  \E e \in 0..Len(v), r \in 0..Len(t) : <<e, r>> \in R /\ p < r /\ Shows(v, t, c, p, e, r)
    <2>1. PICK e \in 0..Len(v), r \in 0..Len(s) : <<e, r>> \in R /\ p < r /\ Shows(v, s, c, p, e, r)
      BY <1>2, <1>5, Zenon
    <2>2. e \in Nat
      BY <1>1, <2>1
    <2>3. Shows(v, t, c, p, e, r)
      BY <2>1, <2>2, ShowsStays, Zenon
    <2> QED
      BY <1>1, <2>1, <2>3, Zenon
  <1> QED
    BY <1>1, <1>2, <1>5, Zenon DEF Written

-----------------------------------------------------------------------------
(* What dump_escaped writes for a character shows it.                      *)

LEMMA HexEscapeShows ==
    ASSUME NEW t, NEW p, NEW k, \A i \in 1..6 : t[p + i] = HexEscape(k)[i], p \in Nat
    PROVE  HexAt(t, p, k)
  <1>1. /\ HexEscape(k)[1] = Backslash /\ HexEscape(k)[2] = 117
        /\ HexEscape(k)[3] = HexDigit(Nibble(k, 4))
        /\ HexEscape(k)[4] = HexDigit(Nibble(k, 3))
        /\ HexEscape(k)[5] = HexDigit(Nibble(k, 2))
        /\ HexEscape(k)[6] = HexDigit(Nibble(k, 1))
    BY SMT DEF HexEscape, Nibble
  <1>2. t[p + 1] = HexEscape(k)[1] /\ t[p + 2] = HexEscape(k)[2] /\ t[p + 3] = HexEscape(k)[3]
        /\ t[p + 4] = HexEscape(k)[4] /\ t[p + 5] = HexEscape(k)[5] /\ t[p + 6] = HexEscape(k)[6]
    <2>1. 1 \in 1..6 /\ 2 \in 1..6 /\ 3 \in 1..6 /\ 4 \in 1..6 /\ 5 \in 1..6 /\ 6 \in 1..6
      OBVIOUS
    <2> QED
      BY <2>1, Zenon
  <1>3. (p + 7) - 4 = p + 3 /\ (p + 7) - 3 = p + 4 /\ (p + 7) - 2 = p + 5 /\ (p + 7) - 1 = p + 6
    OBVIOUS
  <1>4. \A left \in 1..4 : left = 1 \/ left = 2 \/ left = 3 \/ left = 4
    OBVIOUS
  <1>5. \A left \in 1..4 : t[(p + 7) - left] = HexDigit(Nibble(k, left))
    BY <1>1, <1>2, <1>3, <1>4, Zenon
  <1> QED
    BY <1>1, <1>2, <1>5, Zenon DEF HexAt

\* The bytes of a character stand for its code point.
StandsFor(v, c, n, d) ==
    /\ Scalar(d) /\ Stands(v, c, c + n, d) /\ (n = 1 <=> d < 128)
    /\ n = 1 => d = v[c + 1]

LEMMA PointStands ==
    ASSUME NEW v \in Seq(Byte), NEW c \in Nat, NEW n \in 1..4, c + n <= Len(v), Spelt(v, c + 1, n),
           NEW d, d = Point(n, At(v, c + 1), At(v, (c + 1) + 1), At(v, (c + 1) + 2), At(v, (c + 1) + 3))
    PROVE  StandsFor(v, c, n, d)
  <1> SUFFICES /\ Scalar(d) /\ Stands(v, c, c + n, d) /\ (n = 1 <=> d < 128)
               /\ n = 1 => d = v[c + 1]
    BY Zenon DEF StandsFor
  <1> PICK x \in Byte, y \in Byte, z \in Byte, w \in Byte :
         x = At(v, c + 1) /\ y = At(v, (c + 1) + 1) /\ z = At(v, (c + 1) + 2) /\ w = At(v, (c + 1) + 3)
    BY AtByte, Zenon
  <1>1. Tabled(n, x, y, z, w) /\ d = Point(n, x, y, z, w)
    BY Zenon DEF Spelt
  <1>2. Scalar(d) /\ Encode(d) = Chars(n, x, y, z, w) /\ (n = 1 <=> d < 128)
    <2>1. Encoded(d, n, Chars(n, x, y, z, w))
      <3>1. \A k : k = Point(n, x, y, z, w) /\ Tabled(n, x, y, z, w)
                   => Encoded(k, n, Chars(n, x, y, z, w))
        BY PointEncoded, Zenon
      <3> QED
        BY <1>1, <3>1, Zenon
    <2> QED
      BY <2>1, Zenon DEF Encoded
  <1>3. /\ x = v[c + 1]
        /\ n >= 2 => y = v[c + 2]
        /\ n >= 3 => z = v[c + 3]
        /\ n >= 4 => w = v[c + 4]
    <2>1. /\ c + 1 \in DOMAIN v
          /\ n >= 2 => c + 2 \in DOMAIN v
          /\ n >= 3 => c + 3 \in DOMAIN v
          /\ n >= 4 => c + 4 \in DOMAIN v
      OBVIOUS
    <2>2. (c + 1) + 1 = c + 2 /\ (c + 1) + 2 = c + 3 /\ (c + 1) + 3 = c + 4
      OBVIOUS
    <2> QED
      BY <2>1, <2>2, AtByte, Zenon
  <1>4. Len(Encode(d)) = n /\ \A i \in 1..n : v[c + i] = Encode(d)[i]
    <2>1. CASE n = 1
      BY <1>2, <1>3, <2>1 DEF Chars
    <2>2. CASE n = 2
      BY <1>2, <1>3, <2>2 DEF Chars
    <2>3. CASE n = 3
      BY <1>2, <1>3, <2>3 DEF Chars
    <2>4. CASE n = 4
      BY <1>2, <1>3, <2>4 DEF Chars
    <2> QED
      BY <2>1, <2>2, <2>3, <2>4
  <1>5. n = 1 => d = x
    BY <1>1, SMT DEF Point
  <1> QED
    BY <1>2, <1>3, <1>4, <1>5, Zenon DEF Stands

\* e behind s.
Behind(t, s, e) ==
    /\ t \in Seq(Byte) /\ s \in Seq(Byte) /\ e \in Seq(Byte)
    /\ Len(t) = Len(s) + Len(e)
    /\ \A i \in 1..Len(s) : t[i] = s[i]
    /\ \A i \in 1..Len(e) : t[Len(s) + i] = e[i]

LEMMA Concatenated ==
    ASSUME NEW s \in Seq(Byte), NEW e \in Seq(Byte)
    PROVE  Behind(s \o e, s, e) /\ Extends(s \o e, s)
  <1> PICK t : t = s \o e
    OBVIOUS
  <1> PICK m \in Nat, n \in Nat : m = Len(s) /\ n = Len(e)
    OBVIOUS
  <1>1. /\ t \in Seq(Byte) /\ Len(t) = m + n
        /\ \A i \in 1..(m + n) : t[i] = IF i <= m THEN s[i] ELSE e[i - m]
    BY ConcatProperties
  <1>2. \A i \in 1..m : i \in 1..(m + n) /\ i <= m
    OBVIOUS
  <1>3. \A i \in 1..n : m + i \in 1..(m + n) /\ ~(m + i <= m) /\ (m + i) - m = i
    OBVIOUS
  <1>4. \A i \in 1..m : t[i] = s[i]
    BY <1>1, <1>2, Zenon
  <1>5. \A i \in 1..n : t[m + i] = e[i]
    BY <1>1, <1>3, Zenon
  <1>6. m <= m + n
    OBVIOUS
  <1> QED
    BY <1>1, <1>4, <1>5, <1>6, Zenon DEF Behind, Extends

\* The character of u + 1 bytes of v behind c is complete; spare of them were copied to
\* s as they are, behind m.
Complete(v, s, c, m, u, spare, d, b) ==
    /\ v \in Seq(Byte) /\ s \in Seq(Byte) /\ c \in Nat /\ m \in Nat /\ u \in 0..3
    /\ c + (u + 1) <= Len(v) /\ Spelt(v, c + 1, u + 1)
    /\ spare = (IF ensure_ascii THEN 0 ELSE u)
    /\ Len(s) = m + spare /\ \A i \in 1..spare : s[m + i] = v[c + i]
    /\ d = Point(u + 1, At(v, c + 1), At(v, (c + 1) + 1), At(v, (c + 1) + 2), At(v, (c + 1) + 3))
    /\ b = v[c + (u + 1)]

LEMMA CharacterShown ==
    ASSUME NEW v, NEW s, NEW c, NEW m, NEW u, NEW spare, NEW d, NEW b,
           Complete(v, s, c, m, u, spare, d, b), ensure_ascii \in BOOLEAN,
           NEW e, e = Escaped(d, b).bytes, NEW t, Behind(t, s, e)
    PROVE  m < Len(t) /\ Shows(v, t, c, m, c + (u + 1), Len(t))
  <1>1. /\ v \in Seq(Byte) /\ s \in Seq(Byte) /\ c \in Nat /\ m \in Nat /\ u \in 0..3
        /\ c + (u + 1) <= Len(v) /\ Spelt(v, c + 1, u + 1)
        /\ spare = (IF ensure_ascii THEN 0 ELSE u)
        /\ Len(s) = m + spare /\ \A i \in 1..spare : s[m + i] = v[c + i]
        /\ d = Point(u + 1, At(v, c + 1), At(v, (c + 1) + 1), At(v, (c + 1) + 2), At(v, (c + 1) + 3))
        /\ b = v[c + (u + 1)]
    BY Zenon DEF Complete
  <1> PICK n \in 1..4 : n = u + 1
    BY <1>1
  <1>2. /\ Scalar(d) /\ Stands(v, c, c + n, d) /\ (n = 1 <=> d < 128)
        /\ n = 1 => d = v[c + 1]
    <2>1. /\ c + n <= Len(v) /\ Spelt(v, c + 1, n)
          /\ d = Point(n, At(v, c + 1), At(v, (c + 1) + 1), At(v, (c + 1) + 2), At(v, (c + 1) + 3))
      BY <1>1, Zenon
    <2>2. StandsFor(v, c, n, d)
      BY <1>1, <2>1, PointStands, Zenon
    <2> QED
      BY <2>2, Zenon DEF StandsFor
  <1>3. d \in Int /\ 0 <= d /\ d <= LastCodePoint
    BY <1>2 DEF Scalar
  <1>4. n = 1 => spare = 0 /\ d = b
    BY <1>1, <1>2
  <1>5. /\ t \in Seq(Byte) /\ e \in Seq(Byte) /\ Len(t) = (m + spare) + Len(e)
        /\ \A i \in 1..(m + spare) : t[i] = s[i]
        /\ \A i \in 1..Len(e) : t[(m + spare) + i] = e[i]
    BY <1>1, Zenon DEF Behind
  <1>0. m \in Nat
    BY <1>1
  <1>6. m + 0 = m /\ spare \in Nat
    BY <1>1
  <1>7. CASE d \in DOMAIN ShortEscapes
    <2> PICK f : f = ShortEscapes[d]
      OBVIOUS
    <2>1. f \in DOMAIN Escapes /\ Escapes[f] = d /\ d < 128
      BY <1>7, ShortEscapeReadBack, SMT
    <2>2. e = <<Backslash, f>>
      <3>1. Escaped(d, b) = [bytes |-> <<Backslash, f>>, nul |-> 0]
        BY <1>7, SMT DEF Escaped
      <3> QED
        BY <3>1
    <2>3. Len(e) = 2 /\ e[1] = Backslash /\ e[2] = f
      BY <2>2
    <2>4. n = 1 /\ spare = 0 /\ d = v[c + 1]
      BY <1>2, <1>4, <2>1
    <2>5. Len(t) = m + 2 /\ t[m + 1] = e[1] /\ t[m + 2] = e[2]
      <3>1. 1 \in 1..2 /\ 2 \in 1..2
        OBVIOUS
      <3> QED
        BY <1>5, <1>6, <2>3, <2>4, <3>1, Zenon
    <2>6. ByEscape(v, t, c, m, c + n, Len(t))
      BY <2>1, <2>3, <2>4, <2>5, Zenon DEF ByEscape
    <2>7. m < m + 2
      BY <1>0
    <2> QED
      BY <2>5, <2>6, <2>7, Zenon DEF Shows
  <1>8. CASE d \notin DOMAIN ShortEscapes /\ (d <= 31 \/ (ensure_ascii /\ 127 <= d))
    <2>1. spare = 0
      BY <1>1, <1>2, <1>3, <1>4, <1>8
    <2>2. e = IF Unit(d) THEN HexEscape(d) ELSE HexEscape(High(d)) \o HexEscape(Low(d))
      <3>1. d \in Int /\ 0 <= d
        BY <1>3
      <3>2. Escaped(d, b) = [bytes |-> IF Unit(d) THEN HexEscape(d)
                                       ELSE HexEscape(High(d)) \o HexEscape(Low(d)),
                             nul |-> 1]
        BY <1>8, <3>1, SMT DEF Escaped, Unit, High, Low
      <3> QED
        BY <3>2
    <2>3. CASE Unit(d)
      <3>2. e = HexEscape(d) /\ Len(e) = 6
        BY <2>2, <2>3, UnitShown, Zenon
      <3>3. Len(t) = m + 6 /\ \A i \in 1..6 : t[m + i] = HexEscape(d)[i]
        BY <1>5, <1>6, <2>1, <3>2, Zenon
      <3>4. HexAt(t, m, d)
        BY <1>1, <3>3, HexEscapeShows, Zenon
      <3>5. ByUnit(v, t, c, m, c + n, Len(t), d)
        BY <1>2, <2>3, <3>3, <3>4, Zenon DEF ByUnit
      <3>6. m < m + 6
        BY <1>0
      <3> QED
        BY <3>3, <3>5, <3>6, Zenon DEF Shows
    <2>4. CASE ~Unit(d)
      <3> PICK g, h, l : h = HexEscape(High(d)) /\ l = HexEscape(Low(d)) /\ g = h \o l
        OBVIOUS
      <3>2. Unit(High(d)) /\ Unit(Low(d))
        BY <1>2, <2>4, PairHalves, Zenon
      <3>3. h \in Seq(32..126) /\ l \in Seq(32..126) /\ Len(h) = 6 /\ Len(l) = 6
        BY <3>2, UnitShown, Zenon
      <3>4. Len(g) = 12 /\ \A i \in 1..6 : g[i] = h[i] /\ g[6 + i] = l[i]
        <4>1. /\ Len(g) = 12
              /\ \A i \in 1..12 : g[i] = IF i <= 6 THEN h[i] ELSE l[i - 6]
          <5>1. 6 + 6 = 12
            OBVIOUS
          <5>2. /\ Len(g) = Len(h) + Len(l)
                /\ \A i \in 1..(Len(h) + Len(l)) : g[i] = IF i <= Len(h) THEN h[i] ELSE l[i - Len(h)]
            BY <3>3, ConcatProperties, Zenon
          <5> QED
            BY <3>3, <5>1, <5>2, Zenon
        <4>2. \A i \in 1..6 : /\ i \in 1..12 /\ i <= 6
                              /\ 6 + i \in 1..12 /\ ~(6 + i <= 6) /\ (6 + i) - 6 = i
          OBVIOUS
        <4> QED
          BY <4>1, <4>2, Zenon
      <3>5. e = g
        BY <2>2, <2>4, Zenon
      <3>6. Len(t) = m + 12 /\ \A i \in 1..12 : t[m + i] = g[i]
        BY <1>5, <1>6, <2>1, <3>4, <3>5, Zenon
      <3>7. \A i \in 1..6 : i \in 1..12 /\ 6 + i \in 1..12 /\ m + (6 + i) = (m + 6) + i
        BY <1>0
      <3>8. \A i \in 1..6 : t[m + i] = h[i] /\ t[(m + 6) + i] = l[i]
        <4> TAKE i \in 1..6
        <4>1. t[m + i] = g[i] /\ t[m + (6 + i)] = g[6 + i]
          BY <3>6, <3>7, Zenon
        <4>2. g[i] = h[i] /\ g[6 + i] = l[i]
          BY <3>4, Zenon
        <4> QED
          BY <3>7, <4>1, <4>2, Zenon
      <3>9. m + 6 \in Nat /\ m < m + 12
        BY <1>0
      <3>10. HexAt(t, m, High(d)) /\ HexAt(t, m + 6, Low(d))
        BY <1>1, <3>8, <3>9, HexEscapeShows, Zenon
      <3>11. ByPair(v, t, c, m, c + n, Len(t), d)
        BY <1>2, <2>4, <3>6, <3>10, Zenon DEF ByPair
      <3> QED
        BY <3>6, <3>9, <3>11, Zenon DEF Shows
    <2> QED
      BY <2>3, <2>4, Zenon
  <1>9. CASE d \notin DOMAIN ShortEscapes /\ ~(d <= 31 \/ (ensure_ascii /\ 127 <= d))
    <2>1. e = <<b>>
      <3>1. Escaped(d, b) = [bytes |-> <<b>>, nul |-> 0]
        BY <1>9, SMT DEF Escaped
      <3> QED
        BY <3>1
    <2>2. Len(e) = 1 /\ e[1] = b /\ 1 \in 1..1
      BY <2>1
    <2>3. Len(t) = (m + spare) + 1 /\ t[(m + spare) + 1] = b
      BY <1>5, <2>2, Zenon
    <2>4. CASE n = 1
      <3>1. spare = 0 /\ d = b /\ d = v[c + 1]
        BY <1>2, <1>4, <2>4, Zenon
      <3>2. Len(t) = m + 1 /\ t[m + 1] = b
        BY <1>6, <2>3, <3>1, Zenon
      <3>3. d \in Plain
        <4>1. d # Quote /\ d # Backslash
          BY <1>9 DEF ShortEscapes
        <4>2. d < 128
          BY <1>2, <2>4
        <4> QED
          BY <1>3, <1>9, <4>1, <4>2, SMT DEF Plain
      <3>4. ByItself(v, t, c, m, c + n, Len(t))
        BY <2>4, <3>1, <3>2, <3>3, Zenon DEF ByItself
      <3>5. m < m + 1
        BY <1>0
      <3> QED
        BY <3>2, <3>4, <3>5, Zenon DEF Shows
    <2>5. CASE n # 1
      <3>1. ~ensure_ascii /\ spare = u /\ n \in 2..4
        <4>1. ~(d < 128)
          BY <1>2, <2>5
        <4>2. 127 <= d
          BY <1>3, <4>1
        <4>3. n \in 2..4
          BY <2>5
        <4> QED
          BY <1>1, <1>9, <4>2, <4>3, Zenon
      <3>2. Len(t) = m + n
        BY <1>1, <2>3, <3>1
      <3>3. \A i \in 1..n : t[m + i] = v[c + i]
        <4> TAKE i \in 1..n
        <4>1. CASE i = n
          <5>1. (m + spare) + 1 = m + n
            BY <1>1, <3>1
          <5> QED
            BY <1>1, <2>3, <4>1, <5>1, Zenon
        <4>2. CASE i # n
          <5>1. i \in 1..spare /\ m + i \in 1..(m + spare)
            BY <1>1, <3>1, <4>2
          <5> QED
            BY <1>1, <1>5, <5>1, Zenon
        <4> QED
          BY <4>1, <4>2, Zenon
      <3>4. ByBytes(v, t, c, m, c + n, Len(t), n)
        BY <1>1, <3>1, <3>2, <3>3, Zenon DEF ByBytes
      <3>5. m < m + n
        BY <1>1
      <3> QED
        BY <3>2, <3>4, <3>5, Zenon DEF Shows
    <2> QED
      BY <2>4, <2>5, Zenon
  <1> QED
    BY <1>7, <1>8, <1>9, Zenon

-----------------------------------------------------------------------------
(* The dumper writes a well-formed string.                                 *)

\* All that is dumped so far, and how much of it is of a character that goes on.
Output == o \o string_buffer
Spare == IF ensure_ascii THEN 0 ELSE undumped_chars

\* The first c bytes are dumped as the first m of the output.
DumpedTo(c, m) ==
    /\ c + 1 = Begun /\ WellFormedBefore(val, c + 1)
    /\ Len(Output) = m + Spare /\ \A i \in 1..Spare : Output[m + i] = val[c + i]
    /\ \E R : Written(R, val, Output, c, m)

\* The lexer waits.
Waiting == text = << >> /\ next_unget = FALSE /\ label = "bom" /\ scans = 1

DumpsWell == Waiting /\ \E c, m \in Nat : DumpedTo(c, m)

\* The code point of a character that is complete.
LEMMA CompletePoint ==
    ASSUME NEW s, NEW f, NEW u, NEW st, NEW c, NEW b, NEW next, NEW d,
           Reads(s, f, u, st, c, b, next, d), next = ACCEPT
    PROVE  /\ Spelt(s, f, u + 1)
           /\ d = Point(u + 1, At(s, f), At(s, f + 1), At(s, f + 2), At(s, f + 3))
  <1> PICK x, y, z, w :
         x = At(s, f) /\ y = At(s, f + 1) /\ z = At(s, f + 2) /\ w = At(s, f + 3)
    OBVIOUS
  <1>1. x \in Byte /\ y \in Byte /\ z \in Byte /\ w \in Byte
    BY AtByte, Zenon DEF Reads
  <1>2. x \in Int /\ y \in Int /\ z \in Int /\ w \in Int
    BY <1>1, ByteRange, Zenon
  <1>3. b \in Byte /\ b = At(s, f + u)
    BY AtByte, Zenon DEF Reads
  <1>4. f \in Nat /\ f + 0 = f
    BY DEF Reads
  <1>5. /\ u = 0 => x = b
        /\ u = 1 => y = b
        /\ u = 2 => z = b
        /\ u = 3 => w = b
    BY <1>3, <1>4, Zenon
  <1>6. Follows(x, y, z, w, u, st, c, b)
    BY <1>2, <1>3, <1>5, Zenon DEF Follows, Partial, Reads
  <1>7. next = NextState(st, ByteType(b)) /\ d = IF st = ACCEPT THEN FirstBits(b) ELSE c * 64 + (b % 64)
    BY Zenon DEF Reads
  <1>8. Decodes(x, y, z, w, u, st, b, next, d)
    BY <1>6, <1>7, AnyByte, Zenon
  <1>9. NextState(st, ByteType(b)) = ACCEPT
    BY <1>7
  <1>10. d = Point(u + 1, x, y, z, w)
    <2>1. d = IF st = ACCEPT THEN FirstBits(b) ELSE c * 64 + (b % 64)
      BY <1>7
    <2> HIDE <1>7
    <2> QED
      BY <1>1, <1>6, <1>9, <2>1, PointDecoded
  <1>11. Tabled(u + 1, x, y, z, w)
    BY <1>8, Zenon DEF Decodes
  <1> QED
    BY <1>10, <1>11, Zenon DEF Spelt

\* What a turn of the loop knows.
Turn(b, next, d, u, f) ==
    /\ b = val[index] /\ next = NextState(state, ByteType(b)) /\ d = DecodePoint(b)
    /\ u = undumped_chars /\ f = Begun

LEMMA TurnReads ==
    ASSUME IInv, DumpByte, NEW b, NEW next, NEW d, NEW u, NEW f, Turn(b, next, d, u, f)
    PROVE  /\ Reads(val, f, u, state, codepoint, b, next, d)
           /\ f + u = index /\ index \in DOMAIN val /\ f \in DOMAIN val /\ u \in Nat
           /\ o \in Seq(Shown) /\ string_buffer \in Seq(Shown) /\ ensure_ascii \in BOOLEAN
           /\ error_handler \in {"strict", "ignore", "replace"}
  <1>1. Dumping /\ index <= Len(val) /\ kind = "string"
    BY DEF IInv, DumpByte, Dumping
  <1>2. DumperTypes /\ Partial(val, Begun, undumped_chars, state, codepoint)
    BY <1>1, Zenon DEF Dumping
  <1>3. /\ val \in Seq(Byte) /\ u \in Nat /\ f \in DOMAIN val /\ f + u = index /\ index \in DOMAIN val
    BY <1>1, <1>2 DEF DumperTypes, Begun, Turn
  <1>4. b = val[f + u]
    BY <1>3, Zenon DEF Turn
  <1>5. f + u \in DOMAIN val
    BY <1>3, Zenon
  <1>6. d = IF state = ACCEPT THEN FirstBits(b) ELSE codepoint * 64 + (b % 64)
    BY Zenon DEF Turn, DecodePoint
  <1>7. Reads(val, f, u, state, codepoint, b, next, d)
    BY <1>2, <1>3, <1>4, <1>5, <1>6, Zenon DEF Reads, Turn
  <1>8. o \in Seq(Shown)
    BY <1>1 DEF IInv
  <1> QED
    BY <1>2, <1>3, <1>7, <1>8, Zenon DEF DumperTypes

LEMMA ShownBytes ==
    ASSUME ensure_ascii \in BOOLEAN, NEW s \in Seq(Shown)
    PROVE  s \in Seq(Byte)
  <1>1. Shown \subseteq Byte
    BY SMT DEF Shown, Byte
  <1> QED
    BY <1>1, SeqMonotone, Zenon

\* Flushed or not, the output is longer by what was written to the buffer.
LEMMA AcceptedOutput ==
    ASSUME o \in Seq(Byte), string_buffer \in Seq(Byte), NEW e \in Seq(Byte), NEW nul,
           Accepted(string_buffer \o e, nul)
    PROVE  Output' = Output \o e /\ undumped_chars' = 0
  <1>0. /\ o \o (string_buffer \o e) = Output \o e
        /\ Output' = o' \o string_buffer' /\ undumped_chars' = 0
    <2>1. o \o (string_buffer \o e) = (o \o string_buffer) \o e
      BY ConcatAssociative
    <2>2. undumped_chars' = 0
      BY DEF Accepted
    <2> QED
      BY <2>1, <2>2 DEF Output
  <1>1. CASE Flush(string_buffer \o e)
    <2>1. o' = o \o (string_buffer \o e) /\ string_buffer' = << >>
      BY <1>1, Zenon DEF Accepted
    <2>2. o \o (string_buffer \o e) \in Seq(Byte)
      BY ConcatProperties, Zenon
    <2>3. o' \o << >> = o'
      BY <2>1, <2>2, ConcatEmptySeq
    <2> QED
      BY <1>0, <2>1, <2>3, Zenon
  <1>2. CASE ~Flush(string_buffer \o e)
    <2>1. o' = o /\ string_buffer' = string_buffer \o e
      BY <1>2, Zenon DEF Accepted
    <2> QED
      BY <1>0, <2>1, Zenon
  <1> QED
    BY <1>1, <1>2, Zenon

\* A character is complete.
LEMMA DumpsCharacter ==
    ASSUME IInv, DumpByte, DumpsWell, NEW b, NEW next, NEW d, NEW u, NEW f, Turn(b, next, d, u, f),
           next = ACCEPT
    PROVE  DumpsWell' /\ phase' = "dump"
  <1>1. /\ Reads(val, f, u, state, codepoint, b, next, d)
        /\ f + u = index /\ index \in DOMAIN val /\ f \in DOMAIN val /\ u \in Nat
        /\ o \in Seq(Shown) /\ string_buffer \in Seq(Shown) /\ ensure_ascii \in BOOLEAN
    BY TurnReads, Zenon
  <1>2. o \in Seq(Byte) /\ string_buffer \in Seq(Byte)
    BY <1>1, ShownBytes, Zenon
  <1>3. Output \in Seq(Byte)
    BY <1>2, ConcatProperties, Zenon DEF Output
  <1>4. Understands(val, f, u, state, b, next, d)
    BY <1>1, OneMoreByte, Zenon
  <1>5. /\ u \in 0..3 /\ b \in Byte /\ IsCharacter(val, f, f + u)
        /\ d \in Int /\ 0 <= d /\ d <= LastCodePoint
        /\ d = b \/ (d >= 128 /\ b >= 128)
    <2>1. u = 0 \/ u > 0
      BY <1>1
    <2> QED
      BY <1>4, <2>1, Zenon DEF Understands
  <1>6. PICK c \in Nat, m \in Nat : DumpedTo(c, m)
    BY Zenon DEF DumpsWell
  <1>7. PICK R : Written(R, val, Output, c, m)
    BY <1>6, Zenon DEF DumpedTo
  <1>8. f = c + 1 /\ val \in Seq(Byte) /\ WellFormedBefore(val, f)
    BY <1>1, <1>6, Zenon DEF DumpedTo, Turn, Reads
  <1>9. c + (u + 1) = index /\ index <= Len(val) /\ index \in 0..Len(val)
    BY <1>1, <1>8
  <1>10. Complete(val, Output, c, m, u, Spare, d, b)
    <2>1. Spelt(val, c + 1, u + 1)
          /\ d = Point(u + 1, At(val, c + 1), At(val, (c + 1) + 1), At(val, (c + 1) + 2), At(val, (c + 1) + 3))
      BY <1>1, <1>8, CompletePoint, Zenon
    <2>2. Spare = IF ensure_ascii THEN 0 ELSE u
      BY Zenon DEF Spare, Turn
    <2>3. Len(Output) = m + Spare /\ \A i \in 1..Spare : Output[m + i] = val[c + i]
      BY <1>6, Zenon DEF DumpedTo
    <2>4. b = val[c + (u + 1)] /\ c + (u + 1) <= Len(val)
      BY <1>9, Zenon DEF Turn
    <2> QED
      BY <1>3, <1>5, <1>8, <2>1, <2>2, <2>3, <2>4, Zenon DEF Complete
  <1>11. PICK e, nul : e = Escaped(d, b).bytes /\ nul = Escaped(d, b).nul
    OBVIOUS
  <1>12. e \in Seq(Byte)
    <2>1. e \in Seq(Shown)
      BY <1>1, <1>5, <1>11, EscapedShown, Zenon
    <2> QED
      BY <1>1, <2>1, ShownBytes, Zenon
  <1>13. /\ Accepted(string_buffer \o e, nul) /\ index' = index + 1 /\ phase' = "dump"
         /\ UNCHANGED <<lexer, kind, val, error_handler, ensure_ascii>>
    BY <1>11 DEF DumpByte, Turn, ACCEPT, REJECT
  <1>14. PICK t : t = Output'
    OBVIOUS
  <1>15. t = Output \o e /\ undumped_chars' = 0
    BY <1>2, <1>12, <1>13, <1>14, AcceptedOutput, Zenon
  <1>16. Behind(t, Output, e) /\ Extends(t, Output)
    BY <1>3, <1>12, <1>15, Concatenated, Zenon
  <1>17. m < Len(t) /\ Shows(val, t, c, m, index, Len(t))
    BY <1>1, <1>9, <1>10, <1>11, <1>16, CharacterShown, Zenon
  <1>18. PICK k \in Nat, l \in Nat : k = index /\ l = Len(t)
    <2>1. index \in Nat
      BY <1>1, <1>8
    <2>2. Len(t) \in Nat
      BY <1>16 DEF Behind
    <2> QED
      BY <2>1, <2>2, Zenon
  <1>19. \E S : Written(S, val, t, k, l)
    <2>1. l \in 0..Len(t)
      BY <1>18
    <2>2. Written(R \cup {<<k, l>>}, val, t, k, l)
      BY <1>7, <1>8, <1>9, <1>16, <1>17, <1>18, <2>1, WrittenFurther, Zenon
    <2> QED
      BY <2>2, Zenon
  <1>20. WellFormedBefore(val, k + 1)
    <2>1. f <= index
      <3>1. \A i, j \in Nat : i <= i + j
        OBVIOUS
      <3>2. f \in Nat
        BY <1>1
      <3> QED
        BY <1>1, <3>1, <3>2, Zenon
    <2> QED
      BY <1>1, <1>5, <1>8, <1>18, <2>1, OneCharacterMore, Zenon
  <1>21. Spare' = 0 /\ Begun' = k + 1
    <2>1. (k + 1) - 0 = k + 1
      OBVIOUS
    <2> QED
      BY <1>13, <1>15, <1>18, <2>1, Zenon DEF Spare, Begun
  <1>22. DumpedTo(k, l)'
    <2>1. val' = val
      BY <1>13
    <2>2. Len(t) = l + 0
      BY <1>18
    <2>3. \A i : i \notin 1..0
      OBVIOUS
    <2>4. (\E S : Written(S, val, Output, k, l))'
      BY <1>14, <1>19, <2>1
    <2>5. WellFormedBefore(val, k + 1)'
      BY <1>20, <2>1
    <2> QED
      BY <1>14, <1>21, <2>2, <2>3, <2>4, <2>5 DEF DumpedTo
  <1>23. Waiting'
    BY <1>13 DEF DumpsWell, Waiting, lexer
  <1> QED
    BY <1>13, <1>22, <1>23, Zenon DEF DumpsWell

\* No byte is rejected.
LEMMA NothingRejected ==
    ASSUME IInv, DumpByte, DumpsWell, WellFormed(val), NEW b, NEW next, NEW d, NEW u, NEW f,
           Turn(b, next, d, u, f)
    PROVE  next = ACCEPT \/ next \in 2..8
  <1>1. Reads(val, f, u, state, codepoint, b, next, d) /\ f \in DOMAIN val
    BY TurnReads, Zenon
  <1>2. Understands(val, f, u, state, b, next, d)
    BY <1>1, OneMoreByte, Zenon
  <1>3. PICK c \in Nat, m \in Nat : DumpedTo(c, m)
    BY Zenon DEF DumpsWell
  <1>4. f = c + 1 /\ val \in Seq(Byte) /\ WellFormedBefore(val, f)
    BY <1>1, <1>3, Zenon DEF DumpedTo, Turn, Reads
  <1>5. next # REJECT
    BY <1>1, <1>2, <1>4, NextOneBegins, Zenon DEF Understands
  <1>6. next \in 0..8
    BY <1>2, Zenon DEF Understands
  <1> QED
    BY <1>5, <1>6 DEF ACCEPT, REJECT

\* A character goes on.
LEMMA DumpsOn ==
    ASSUME IInv, DumpByte, DumpsWell, NEW b, NEW next, NEW d, NEW u, NEW f, Turn(b, next, d, u, f),
           next \in 2..8
    PROVE  DumpsWell' /\ phase' = "dump"
  <1>1. /\ Reads(val, f, u, state, codepoint, b, next, d)
        /\ f + u = index /\ index \in DOMAIN val /\ f \in DOMAIN val /\ u \in Nat
        /\ o \in Seq(Shown) /\ string_buffer \in Seq(Shown) /\ ensure_ascii \in BOOLEAN
        /\ error_handler \in {"strict", "ignore", "replace"}
    BY TurnReads, Zenon
  <1>2. o \in Seq(Byte) /\ string_buffer \in Seq(Byte)
    BY <1>1, ShownBytes, Zenon
  <1>3. Output \in Seq(Byte)
    BY <1>2, ConcatProperties, Zenon DEF Output
  <1>4. b \in Byte
    <2>1. Understands(val, f, u, state, b, next, d)
      BY <1>1, OneMoreByte, Zenon
    <2> QED
      BY <2>1, Zenon DEF Understands
  <1>5. PICK c \in Nat, m \in Nat : DumpedTo(c, m)
    BY Zenon DEF DumpsWell
  <1>6. PICK R : Written(R, val, Output, c, m)
    BY <1>5, Zenon DEF DumpedTo
  <1>7. f = c + 1 /\ val \in Seq(Byte) /\ WellFormedBefore(val, f)
    BY <1>1, <1>5, Zenon DEF DumpedTo, Turn, Reads
  <1>8. /\ string_buffer' = IF ensure_ascii THEN string_buffer ELSE Append(string_buffer, b)
        /\ undumped_chars' = u + 1 /\ index' = index + 1 /\ phase' = "dump"
        /\ UNCHANGED <<lexer, kind, val, error_handler, ensure_ascii, o>>
    BY DEF DumpByte, Turn, ACCEPT, REJECT
  <1>9. Begun' = c + 1
    <2>1. index \in Nat /\ f \in Nat
      BY <1>1, <1>7
    <2>2. \A i, j, k \in Nat : i + j = k => (k + 1) - (j + 1) = i
      OBVIOUS
    <2> QED
      BY <1>1, <1>7, <1>8, <2>1, <2>2 DEF Begun
  <1>10. WellFormedBefore(val, c + 1)'
    BY <1>7, <1>8
  <1>11. Len(Output) = m + Spare /\ \A i \in 1..Spare : Output[m + i] = val[c + i]
    BY <1>5, Zenon DEF DumpedTo
  <1>12. CASE ensure_ascii
    <2>1. Output' = Output
      BY <1>8, <1>12 DEF Output
    <2>2. Spare' = 0 /\ Spare = 0
      BY <1>8, <1>12 DEF Spare
    <2>3. \A i : i \notin 1..0
      OBVIOUS
    <2>4. DumpedTo(c, m)'
      BY <1>6, <1>8, <1>9, <1>10, <1>11, <2>1, <2>2, <2>3 DEF DumpedTo
    <2>5. Waiting'
      BY <1>8 DEF DumpsWell, Waiting, lexer
    <2> QED
      BY <1>8, <2>4, <2>5, Zenon DEF DumpsWell
  <1>13. CASE ~ensure_ascii
    <2> PICK t, e : t = Output' /\ e = <<b>>
      OBVIOUS
    <2>1. e \in Seq(Byte) /\ Len(e) = 1 /\ e[1] = b
      BY <1>4
    <2>2. t = Output \o e
      <3>1. t = o \o (string_buffer \o e)
        <4>1. string_buffer' = string_buffer \o e
          BY <1>2, <1>4, <1>8, <1>13, AppendIsConcat, Zenon
        <4> QED
          BY <1>8, <4>1 DEF Output
      <3>2. o \o (string_buffer \o e) = (o \o string_buffer) \o e
        BY <1>2, <2>1, ConcatAssociative
      <3> QED
        BY <3>1, <3>2 DEF Output
    <2>3. Behind(t, Output, e) /\ Extends(t, Output)
      BY <1>3, <2>1, <2>2, Concatenated, Zenon
    <2>4. Written(R, val, t, c, m)
      BY <1>6, <1>7, <2>3, WrittenStays, Zenon
    <2>5. Spare = u /\ Spare' = u + 1
      BY <1>8, <1>13, Zenon DEF Spare, Turn
    <2>6. Len(t) = m + (u + 1)
      <3>1. Len(t) = (m + u) + 1
        BY <1>11, <2>1, <2>3, <2>5, Zenon DEF Behind
      <3>2. (m + u) + 1 = m + (u + 1)
        BY <1>1
      <3> QED
        BY <3>1, <3>2, Zenon
    <2>7. ASSUME NEW i \in 1..(u + 1)
          PROVE  t[m + i] = val[c + i]
      <3>1. CASE i = u + 1
        <4>1. t[(m + u) + 1] = b
          <5>1. 1 \in 1..1
            OBVIOUS
          <5> QED
            BY <1>11, <2>1, <2>3, <2>5, <5>1, Zenon DEF Behind
        <4>2. (m + u) + 1 = m + i /\ c + i = index
          BY <1>1, <1>7, <3>1
        <4> QED
          BY <4>1, <4>2, Zenon DEF Turn
      <3>2. CASE i # u + 1
        <4>1. i \in 1..u /\ m + i \in 1..(m + u)
          BY <1>1, <3>2
        <4>2. t[m + i] = Output[m + i]
          BY <1>11, <2>3, <2>5, <4>1, Zenon DEF Behind
        <4> QED
          BY <1>11, <2>5, <4>1, <4>2, Zenon
      <3> QED
        BY <3>1, <3>2, Zenon
    <2>8. DumpedTo(c, m)'
      BY <1>8, <1>9, <1>10, <2>4, <2>5, <2>6, <2>7 DEF DumpedTo
    <2>9. Waiting'
      BY <1>8 DEF DumpsWell, Waiting, lexer
    <2> QED
      BY <1>8, <2>8, <2>9, Zenon DEF DumpsWell
  <1> QED
    BY <1>12, <1>13, Zenon

LEMMA DumpStep ==
    ASSUME IInv, DumpByte, DumpsWell, WellFormed(val)
    PROVE  DumpsWell' /\ phase' = "dump"
  <1>1. PICK b, next, d, u, f : Turn(b, next, d, u, f)
    BY Zenon DEF Turn
  <1> QED
    BY <1>1, NothingRejected, DumpsCharacter, DumpsOn, Zenon

\* The dump of a string that is well-formed is complete when its bytes are read.
LEMMA DumpComplete ==
    ASSUME IInv, DumpEnds, DumpsWell, WellFormed(val)
    PROVE  /\ phase' = "scan" /\ o' \in Seq(Byte) /\ val \in Seq(Byte) /\ Waiting'
           /\ ia' = [bytes |-> <<Quote>> \o o' \o <<Quote>>, open |-> FALSE]
           /\ \E R : Written(R, val, o', Len(val), Len(o'))
  <1>1. Dumping /\ index > Len(val) /\ kind = "string"
    BY DEF IInv, DumpEnds, Dumping
  <1>2. DumperTypes /\ Partial(val, Begun, undumped_chars, state, codepoint)
    BY <1>1, Zenon DEF Dumping
  <1>3. /\ val \in Seq(Byte) /\ Len(val) \in Nat /\ index = Len(val) + 1
        /\ undumped_chars \in 0..Len(val) /\ Begun + undumped_chars = Len(val) + 1
        /\ ensure_ascii \in BOOLEAN
    BY <1>1, <1>2 DEF DumperTypes, Begun
  <1>4. o \in Seq(Byte) /\ string_buffer \in Seq(Byte)
    <2>1. o \in Seq(Shown) /\ string_buffer \in Seq(Shown)
      BY <1>1, <1>2 DEF IInv, DumperTypes
    <2> QED
      BY <1>3, <2>1, ShownBytes, Zenon
  <1>5. PICK c \in Nat, m \in Nat : DumpedTo(c, m)
    BY Zenon DEF DumpsWell
  <1>6. PICK R : Written(R, val, Output, c, m)
    BY <1>5, Zenon DEF DumpedTo
  <1>7. state = ACCEPT
    <2> SUFFICES ASSUME state # ACCEPT PROVE FALSE
      OBVIOUS
    <2>1. Begun \in DOMAIN val
      <3>1. undumped_chars # 0
        BY <1>2 DEF Partial, Begins, ACCEPT
      <3> QED
        BY <1>3, <3>1 DEF Begun
    <2>2. \A g \in DOMAIN val : ~IsCharacter(val, Begun, g)
      BY <1>2, <1>3, <2>1, CutOff, Zenon
    <2>3. WellFormedBefore(val, Begun)
      BY <1>5, Zenon DEF DumpedTo
    <2> QED
      BY <1>3, <2>1, <2>2, <2>3, NextOneBegins, Zenon
  <1>8. undumped_chars = 0
    BY <1>2, <1>7 DEF Partial, Begins, ACCEPT
  <1>9. /\ phase' = "scan" /\ o' = Output
        /\ ia' = [bytes |-> <<Quote>> \o o' \o <<Quote>>, open |-> FALSE]
        /\ UNCHANGED <<text, next_unget, label, scans>>
    BY <1>7 DEF DumpEnds, Output
  <1>10. Output \in Seq(Byte)
    BY <1>4, ConcatProperties, Zenon DEF Output
  <1>11. c = Len(val)
    BY <1>3, <1>5, <1>8 DEF DumpedTo
  <1>12. m = Len(Output)
    <2>1. Len(Output) = m + 0
      BY <1>5, <1>8, Zenon DEF DumpedTo, Spare
    <2> QED
      BY <2>1
  <1>13. Waiting'
    BY <1>9 DEF DumpsWell, Waiting
  <1> QED
    BY <1>3, <1>6, <1>9, <1>10, <1>11, <1>12, <1>13

-----------------------------------------------------------------------------
(* The lexer reads what was dumped.                                        *)

\* s is the text between the quotes, of the string v.
Quoted(v, s) ==
    /\ v \in Seq(Byte) /\ s \in Seq(Byte)
    /\ ia = [bytes |-> <<Quote>> \o s \o <<Quote>>, open |-> FALSE]

\* n bytes are read, and none is put back.
HasRead(n) == text \in Seq(Byte) /\ Len(text) = n /\ next_unget = FALSE

\* The ranges in d are those of bytes of v from e on.
Fits(d, v, e) ==
    /\ d \in Seq(Byte \X Byte)
    /\ \A i \in 1..Len(d) : v[e + i] \in d[i][1]..d[i][2]

\* Between two characters: v up to c and s up to p are read.
Between(v, c, p) == label = "string" /\ HasRead(p + 1) /\ Prefix(token_buffer, v, c)

\* Within the digits of k that are behind r in s.
DigitsLeft(v, s, c, r, k, left, high) ==
    /\ label = "hex" /\ left \in 1..4 /\ HasRead((r + 7) - left)
    /\ r \in Nat /\ r + 6 <= Len(s) /\ Unit(k) /\ HexAt(s, r, k)
    /\ detail = <<left, Upper(k, left), high>> /\ Prefix(token_buffer, v, c)

InDigits(v, s, c, r, k, high) == \E left : DigitsLeft(v, s, c, r, k, left, high)

AfterBackslash(v, s, c, p, d, q) ==
    /\ label = "escape" /\ HasRead(p + 2) /\ Prefix(token_buffer, v, c)
    /\ \/ ByEscape(v, s, c, p, d, q)
       \/ \E k : ByUnit(v, s, c, p, d, q, k)
       \/ \E k : ByPair(v, s, c, p, d, q, k)

InUnit(v, s, c, p, d, q) ==
    \E k : ByUnit(v, s, c, p, d, q, k) /\ InDigits(v, s, c, p, k, 0)

InHigh(v, s, c, p, d, q) ==
    \E k : ByPair(v, s, c, p, d, q, k) /\ InDigits(v, s, c, p, High(k), 0)

BetweenUnits(v, s, c, p, d, q) ==
    \E k : /\ ByPair(v, s, c, p, d, q, k) /\ detail = <<High(k)>> /\ Prefix(token_buffer, v, c)
           /\ \/ label = "pair" /\ HasRead(p + 7)
              \/ label = "pair_u" /\ HasRead(p + 8)

InLow(v, s, c, p, d, q) ==
    \E k : ByPair(v, s, c, p, d, q, k) /\ InDigits(v, s, c, p + 6, Low(k), High(k))

InBytes(v, s, c, p, d, q) ==
    \E n \in Nat, j \in Nat :
        /\ ByBytes(v, s, c, p, d, q, n) /\ 0 < j /\ j < n
        /\ label = "utf8" /\ HasRead((p + j) + 1) /\ Prefix(token_buffer, v, c + j)
        /\ Len(detail) = n - j /\ Fits(detail, v, c + j)

\* Within the character from c to d, which stands from p to q.
WithinOne(v, s, c, p, d, q) ==
    \/ AfterBackslash(v, s, c, p, d, q)
    \/ InUnit(v, s, c, p, d, q)
    \/ InHigh(v, s, c, p, d, q)
    \/ BetweenUnits(v, s, c, p, d, q)
    \/ InLow(v, s, c, p, d, q)
    \/ InBytes(v, s, c, p, d, q)

\* The next character, and what is behind it, is in R.
Links(R, v, s, c, p, d, q) ==
    /\ c \in Nat /\ p \in Nat /\ d \in 0..Len(v) /\ q \in 0..Len(s)
    /\ p < q /\ <<d, q>> \in R

Reading(R, v, s) ==
    \/ label = "bom" /\ HasRead(0)
    \/ label = "start" /\ text \in Seq(Byte) /\ Len(text) = 1 /\ next_unget /\ current = Quote
    \/ \E c, p \in Nat : <<c, p>> \in R /\ Between(v, c, p)
    \/ \E c, p, d, q : Links(R, v, s, c, p, d, q) /\ WithinOne(v, s, c, p, d, q)
    \/ label = "token" /\ token = "value_string" /\ token_buffer = v

\* The byte that comes.
LEMMA QuotedByte ==
    ASSUME NEW v, NEW s, Quoted(v, s), NEW n \in Nat, n <= Len(s) + 1, HasRead(n), NEW b \in Arriving
    PROVE  /\ b \in Byte
           /\ n = 0 => b = Quote
           /\ n \in 1..Len(s) => b = s[n]
           /\ n = Len(s) + 1 => b = Quote
  <1>1. text \in Seq(Byte) /\ Len(text) = n /\ ~next_unget
    BY DEF HasRead
  <1>2. EOF \notin Range(text)
    <2>1. \A i \in DOMAIN text : text[i] \in Byte
      BY <1>1
    <2>2. EOF \notin Byte
      BY DEF EOF, Byte
    <2> QED
      BY <2>1, <2>2, Zenon DEF Range
  <1>3. PICK t : t = <<Quote>> \o s \o <<Quote>>
    OBVIOUS
  <1>4. s \in Seq(Byte) /\ ia.bytes = t
    BY <1>3 DEF Quoted
  <1>5. Quote \in Byte
    BY DEF Quote, Byte
  <1>6. PICK m \in Nat : m = Len(s)
    BY <1>4
  <1>7. /\ t \in Seq(Byte) /\ Len(t) = m + 2 /\ t[1] = Quote /\ t[m + 2] = Quote
        /\ \A i \in 1..m : t[i + 1] = s[i]
    <2>1. PICK a, e : a = <<Quote>> /\ e = a \o s
      OBVIOUS
    <2>2. a \in Seq(Byte) /\ Len(a) = 1 /\ a[1] = Quote
      BY <1>5, <2>1
    <2>3. Behind(e, a, s)
      BY <1>4, <2>1, <2>2, Concatenated, Zenon
    <2>4. Behind(t, e, a)
      <3>1. t = e \o a
        BY <1>3, <2>1
      <3>2. e \in Seq(Byte)
        BY <2>3, Zenon DEF Behind
      <3> QED
        BY <2>2, <3>1, <3>2, Concatenated, Zenon
    <2> HIDE <1>3
    <2>5. Len(e) = 1 + m /\ Len(t) = (1 + m) + 1
      BY <1>6, <2>2, <2>3, <2>4, Zenon DEF Behind
    <2>6. t \in Seq(Byte) /\ e[1] = a[1] /\ t[1] = e[1] /\ t[(1 + m) + 1] = a[1]
      <3>1. 1 \in 1..1 /\ 1 \in 1..(1 + m)
        OBVIOUS
      <3> QED
        BY <2>2, <2>3, <2>4, <2>5, <3>1, Zenon DEF Behind
    <2>7. (1 + m) + 1 = m + 2
      OBVIOUS
    <2>8. ASSUME NEW i \in 1..m
          PROVE  t[i + 1] = s[i]
      <3>1. i + 1 = 1 + i /\ 1 + i \in 1..(1 + m)
        OBVIOUS
      <3> QED
        BY <1>6, <2>2, <2>3, <2>4, <2>5, <3>1, Zenon DEF Behind
    <2> QED
      BY <2>2, <2>5, <2>6, <2>7, <2>8, Zenon
  <1>8. n < m + 2 /\ n + 1 \in 1..(m + 2)
    BY <1>6
  <1>9. b = t[n + 1]
    <2>1. Len(text) < Len(ia.bytes)
      BY <1>1, <1>4, <1>7, <1>8, Zenon
    <2>2. Arriving = {ia.bytes[Len(text) + 1]}
      BY <1>1, <1>2, <2>1, Zenon DEF Arriving
    <2> QED
      BY <1>1, <1>4, <2>2, Zenon
  <1>10. b \in Byte
    <2> HIDE <1>3
    <2>1. DOMAIN t = 1..(m + 2)
      BY <1>7
    <2> QED
      BY <1>7, <1>8, <1>9, <2>1
  <1>11. n = 0 => b = Quote
    BY <1>7, <1>9
  <1>12. n = m + 1 => b = Quote
    <2>1. (m + 1) + 1 = m + 2
      OBVIOUS
    <2> QED
      BY <1>7, <1>9, <2>1, Zenon
  <1> QED
    BY <1>6, <1>7, <1>9, <1>10, <1>11, <1>12, Zenon

\* After a step that takes it.
LEMMA ByteTaken ==
    ASSUME NEW n \in Nat, HasRead(n), NEW b \in Byte, NEW l, NEW d, NEW t, Goto(b, l, d, t)
    PROVE  HasRead(n + 1)' /\ label' = l /\ detail' = d /\ token_buffer' = t
  <1>1. text \in Seq(Byte) /\ Len(text) = n /\ ~next_unget
    BY DEF HasRead
  <1>2. text' = Append(text, b) /\ next_unget' = FALSE
    BY <1>1 DEF Goto, get
  <1>3. Append(text, b) \in Seq(Byte) /\ Len(Append(text, b)) = n + 1
    BY <1>1, AppendProperties
  <1> QED
    BY <1>2, <1>3 DEF HasRead, Goto

\* The scanner of each label.
LEMMA ByLabel ==
    ASSUME NEW b, Consume(b)
    PROVE  /\ label = "bom" => skip_bom(b)
           /\ label = "start" => scan(b)
           /\ label \in {"string", "escape", "pair", "pair_u"} => scan_string(b)
           /\ label = "hex" => get_codepoint(b)
           /\ label = "utf8" => next_byte_in_range(b)
  <1>1. skip_bom(b) => label \in {"bom", "bom2", "bom3"}
    BY Zenon DEF skip_bom
  <1>2. scan_comment(b) => label \in {"comment", "line_comment", "block_comment", "block_star"}
    BY Zenon DEF scan_comment
  <1>3. (scan(b) => label = "start") /\ (scan_literal(b) => label = "literal")
    BY Zenon DEF scan, scan_literal
  <1>4. scan_number(b) =>
           label \in {"minus", "zero", "any1", "decimal1", "decimal2", "exponent", "sign", "any2"}
    BY DEF scan_number, integer_part, fraction_part, exponent_part
  <1>5. scan_string(b) => label \in {"string", "escape", "pair", "pair_u"}
    BY Zenon DEF scan_string
  <1>6. (get_codepoint(b) => label = "hex") /\ (next_byte_in_range(b) => label = "utf8")
    BY SMT DEF get_codepoint, next_byte_in_range
  <1> QED
    BY <1>1, <1>2, <1>3, <1>4, <1>5, <1>6 DEF Consume

LEMMA OpeningQuote ==
    ASSUME NEW b, b = Quote, scan(b)
    PROVE  Goto(b, "string", << >>, << >>)
  <1>1. /\ b \notin Whitespace /\ b # Slash /\ b # 45 /\ b # 48 /\ b \notin Digits \ {48}
        /\ b \notin {0, EOF}
    BY DEF Quote, Whitespace, Slash, LF, CR, Digits, EOF
  <1>2. b \notin DOMAIN Structural /\ b \notin DOMAIN Literals
    BY DEF Quote, Structural, Literals
  <1> QED
    BY <1>1, <1>2 DEF scan

\* What scan_string does where a character begins.
LEMMA AtFirstByte ==
    ASSUME label = "string", NEW b \in Byte, Consume(b)
    PROVE  /\ b = Quote => Return(b, "value_string")
           /\ b = Backslash => Skip(b, "escape")
           /\ b \in Plain => Add(b, "string", << >>)
           /\ b >= 194 /\ Continuations(b) # << >> => Add(b, "utf8", Continuations(b))
  <1>1. (CASE b = Quote -> Return(b, "value_string")
          [] b = Backslash -> Skip(b, "escape")
          [] b \in Controls -> Return(b, "parse_error")
          [] b \in Plain -> Add(b, "string", << >>)
          [] Continuations(b) # << >> -> Add(b, "utf8", Continuations(b))
          [] OTHER -> Return(b, "parse_error"))
    <2>1. scan_string(b)
      BY ByLabel
    <2> QED
      BY <2>1, Zenon DEF scan_string
  <1>2. b \in Int /\ 0 <= b
    BY DEF Byte
  <1>3. b < 194 => Continuations(b) = << >>
    BY <1>2 DEF Continuations
  <1>4. b \in Plain => b \notin Controls /\ b # Quote /\ b # Backslash /\ b < 194
    BY DEF Controls, Plain
  <1>5. /\ b = Quote => b # Backslash /\ b \notin Controls /\ b \notin Plain /\ b < 194
        /\ b = Backslash => b # Quote /\ b \notin Controls /\ b \notin Plain /\ b < 194
    BY DEF Quote, Backslash, Controls, Plain
  <1>6. b >= 194 => b \notin Controls /\ b \notin Plain /\ b # Quote /\ b # Backslash
    BY <1>2 DEF Controls, Plain, Quote, Backslash
  <1>7. b = Quote => Return(b, "value_string")
    BY <1>1, <1>3, <1>5, Zenon
  <1>8. b = Backslash => Skip(b, "escape")
    BY <1>1, <1>3, <1>5, Zenon
  <1>9. b \in Plain => Add(b, "string", << >>)
    BY <1>1, <1>3, <1>4, Zenon
  <1>10. b >= 194 /\ Continuations(b) # << >> => Add(b, "utf8", Continuations(b))
    BY <1>1, <1>6, Zenon
  <1> QED
    BY <1>7, <1>8, <1>9, <1>10, Zenon

LEMMA PrefixByte ==
    ASSUME NEW v \in Seq(Byte), NEW c \in Nat, c + 1 <= Len(v), NEW t, Prefix(t, v, c),
           NEW b, b = v[c + 1]
    PROVE  Prefix(Append(t, b), v, c + 1)
  <1>1. t \in Seq(Byte) /\ Len(t) = c /\ \A i \in 1..c : t[i] = v[i]
    BY DEF Prefix
  <1>2. b \in Byte
    OBVIOUS
  <1>3. /\ Append(t, b) \in Seq(Byte) /\ Len(Append(t, b)) = c + 1
        /\ \A i \in 1..c : Append(t, b)[i] = t[i]
        /\ Append(t, b)[c + 1] = b
    BY <1>1, <1>2, AppendProperties
  <1>4. \A i \in 1..(c + 1) : i \in 1..c \/ i = c + 1
    OBVIOUS
  <1> QED
    BY <1>1, <1>3, <1>4, Zenon DEF Prefix

LEMMA PrefixPoint ==
    ASSUME NEW v \in Seq(Byte), NEW c \in Nat, NEW t, Prefix(t, v, c), NEW k, Scalar(k),
           NEW d, Stands(v, c, d, k)
    PROVE  Prefix(t \o Encode(k), v, d)
  <1>1. PICK n \in 1..4, x \in Byte, y \in Byte, z \in Byte, w \in Byte :
           Tabled(n, x, y, z, w) /\ Encode(k) = Chars(n, x, y, z, w)
    BY CodePointEncoded, Zenon DEF Scalar
  <1>2. Encode(k) \in Seq(Byte)
    BY <1>1, SMT DEF Chars
  <1>3. PICK e, u : e = Encode(k) /\ u = t \o Encode(k)
    OBVIOUS
  <1>4. t \in Seq(Byte) /\ Len(t) = c /\ \A i \in 1..c : t[i] = v[i]
    BY DEF Prefix
  <1>5. Behind(u, t, e)
    BY <1>2, <1>3, <1>4, Concatenated, Zenon
  <1>6. d = c + Len(e) /\ \A i \in 1..Len(e) : v[c + i] = e[i]
    BY <1>3, Zenon DEF Stands
  <1>7. PICK m \in Nat : m = Len(e)
    BY <1>2, <1>3
  <1>8. u \in Seq(Byte) /\ Len(u) = d
    BY <1>4, <1>5, <1>6, Zenon DEF Behind
  <1>9. \A i \in 1..d : u[i] = v[i]
    <2> SUFFICES ASSUME NEW i \in 1..d PROVE u[i] = v[i]
      OBVIOUS
    <2>1. i \in 1..c \/ (i - c \in 1..m /\ c + (i - c) = i)
      BY <1>6, <1>7
    <2> QED
      BY <1>4, <1>5, <1>6, <1>7, <2>1, Zenon DEF Behind
  <1> QED
    BY <1>3, <1>8, <1>9, Zenon DEF Prefix

LEMMA PrefixWhole ==
    ASSUME NEW v \in Seq(Byte), NEW t, Prefix(t, v, Len(v))
    PROVE  t = v
  BY SeqEqual DEF Prefix

\* What the scanners do with the bytes of an escape.
LEMMA EscapeByte ==
    ASSUME label = "escape", NEW b, Consume(b)
    PROVE  /\ b \in DOMAIN Escapes => Goto(b, "string", << >>, Append(token_buffer, Escapes[b]))
           /\ b = 117 => Goto(b, "hex", <<4, 0, 0>>, token_buffer)
  <1>1. (CASE b \in DOMAIN Escapes -> Goto(b, "string", << >>, Append(token_buffer, Escapes[b]))
            [] b = 117 -> Goto(b, "hex", <<4, 0, 0>>, token_buffer)
            [] OTHER -> Return(b, "parse_error"))
    <2>1. scan_string(b)
      BY ByLabel
    <2> QED
      BY <2>1, Zenon DEF scan_string
  <1>2. b = 117 => b \notin DOMAIN Escapes
    BY DEF Escapes, Quote, Backslash, Slash
  <1> QED
    BY <1>1, <1>2, Zenon

LEMMA PairByte ==
    ASSUME NEW b, Consume(b)
    PROVE  /\ label = "pair" /\ b = Backslash => Goto(b, "pair_u", detail, token_buffer)
           /\ label = "pair_u" /\ b = 117 => Goto(b, "hex", <<4, 0, detail[1]>>, token_buffer)
  <1>1. label \in {"pair", "pair_u"} => scan_string(b)
    BY ByLabel
  <1> QED
    BY <1>1 DEF scan_string

\* What it does with b when it then has c; j is the pair joined.
DigitDoes(b, left, c, high, j) ==
    /\ left > 1 => Goto(b, "hex", <<left - 1, c, high>>, token_buffer)
    /\ ~(left > 1) /\ high # 0 /\ IsLow(c) =>
          Goto(b, "string", << >>, token_buffer \o Encode(j))
    /\ ~(left > 1) /\ high = 0 /\ IsHigh(c) => Goto(b, "pair", <<c>>, token_buffer)
    /\ ~(left > 1) /\ high = 0 /\ ~IsHigh(c) /\ ~IsLow(c) =>
          Goto(b, "string", << >>, token_buffer \o Encode(c))

LEMMA DigitByte ==
    ASSUME label = "hex", NEW b, Consume(b), IsHex(b), NEW left, NEW u, NEW high,
           detail = <<left, u, high>>, NEW c, c = 16 * u + HexValue(b),
           NEW j, j = Joined(high, c)
    PROVE  DigitDoes(b, left, c, high, j)
  <1>1. get_codepoint(b)
    BY ByLabel
  <1>2. detail[1] = left /\ detail[2] = u /\ detail[3] = high
    OBVIOUS
  <1> QED
    BY <1>1, <1>2, SMT DEF get_codepoint, Joined, DigitDoes

LEMMA RangeByte ==
    ASSUME label = "utf8", NEW b, Consume(b), b \in detail[1][1]..detail[1][2]
    PROVE  /\ Len(detail) = 1 => Add(b, "string", << >>)
           /\ Len(detail) # 1 => Add(b, "utf8", Tail(detail))
  <1>1. next_byte_in_range(b)
    BY ByLabel
  <1> QED
    BY <1>1 DEF next_byte_in_range

\* One digit of four.
DigitTaken(v, s, b, c, r, k, left, high, j) ==
    /\ b \in Byte
    /\ left > 1 => InDigits(v, s, c, r, k, high)'
    /\ left = 1 =>
          /\ HasRead(r + 6)
          /\ high # 0 /\ IsLow(k) => Goto(b, "string", << >>, token_buffer \o Encode(j))
          /\ high = 0 /\ IsHigh(k) => Goto(b, "pair", <<k>>, token_buffer)
          /\ high = 0 /\ ~IsHigh(k) /\ ~IsLow(k) =>
                Goto(b, "string", << >>, token_buffer \o Encode(k))

LEMMA OneDigit ==
    ASSUME NEW v, NEW s, Quoted(v, s), NEW b \in Arriving, Consume(b),
           NEW c, NEW r, NEW k, NEW left, NEW high, DigitsLeft(v, s, c, r, k, left, high),
           NEW j, j = Joined(high, k)
    PROVE  DigitTaken(v, s, b, c, r, k, left, high, j)
  <1>1. /\ label = "hex" /\ left \in 1..4 /\ HasRead((r + 7) - left)
        /\ r \in Nat /\ r + 6 <= Len(s) /\ Unit(k) /\ HexAt(s, r, k)
        /\ detail = <<left, Upper(k, left), high>> /\ Prefix(token_buffer, v, c)
    BY DEF DigitsLeft
  <1>2. s \in Seq(Byte)
    BY DEF Quoted
  <1>3. PICK n \in Nat : n = (r + 7) - left
    BY <1>1
  <1>4. n <= Len(s) + 1 /\ n \in 1..Len(s)
    BY <1>1, <1>2, <1>3
  <1>5. b \in Byte /\ b = s[n]
    BY <1>1, <1>3, <1>4, QuotedByte, Zenon
  <1>6. PICK f, u, g : f = Nibble(k, left) /\ u = Upper(k, left) /\ g = Upper(k, left - 1)
    OBVIOUS
  <1>7. b = HexDigit(f)
    BY <1>1, <1>3, <1>5, <1>6, Zenon DEF HexAt
  <1>8. f \in 0..15 /\ 16 * u + f = g /\ Upper(k, 0) = k
    BY <1>1, <1>6, NibbleRead, Zenon
  <1>9. IsHex(b) /\ HexValue(b) = f
    BY <1>7, <1>8, DigitReadBack, Zenon
  <1>10. g = 16 * u + HexValue(b)
    BY <1>8, <1>9, Zenon
  <1>11. detail = <<left, u, high>>
    BY <1>1, <1>6, Zenon
  <1>12. CASE left > 1
    <2>1. PICK l : l = left - 1
      OBVIOUS
    <2>2. l \in 1..4 /\ n + 1 = (r + 7) - l /\ left # 1
      BY <1>1, <1>3, <1>12, <2>1
    <2>3. Goto(b, "hex", <<l, g, high>>, token_buffer)
      <3>1. DigitDoes(b, left, g, high, Joined(high, g))
        BY <1>1, <1>9, <1>10, <1>11, DigitByte, Zenon
      <3> QED
        BY <1>12, <2>1, <3>1, Zenon DEF DigitDoes
    <2>4. /\ HasRead(n + 1)' /\ label' = "hex" /\ detail' = <<l, g, high>>
          /\ token_buffer' = token_buffer
      BY <1>1, <1>3, <1>5, <2>3, ByteTaken, Zenon
    <2>5. g = Upper(k, l)
      BY <1>6, <2>1, Zenon
    <2>6. HasRead((r + 7) - l)'
      BY <2>2, <2>4
    <2>7. DigitsLeft(v, s, c, r, k, l, high)'
      BY <1>1, <2>2, <2>4, <2>5, <2>6, Zenon DEF DigitsLeft
    <2>8. InDigits(v, s, c, r, k, high)'
      BY <2>7, Zenon DEF InDigits
    <2> QED
      BY <1>5, <2>2, <2>8, Zenon DEF DigitTaken
  <1>13. CASE left = 1
    <2>1. ~(left > 1) /\ (r + 7) - 1 = r + 6
      BY <1>1, <1>13
    <2>2. g = k
      <3>1. left - 1 = 0
        BY <1>13
      <3> QED
        BY <1>6, <1>8, <3>1, Zenon
    <2>3. HasRead(r + 6)
      BY <1>1, <1>13, <2>1, Zenon
    <2>4. k = 16 * u + HexValue(b)
      BY <1>10, <2>2, Zenon
    <2>5. /\ high # 0 /\ IsLow(k) => Goto(b, "string", << >>, token_buffer \o Encode(j))
          /\ high = 0 /\ IsHigh(k) => Goto(b, "pair", <<k>>, token_buffer)
          /\ high = 0 /\ ~IsHigh(k) /\ ~IsLow(k) =>
                Goto(b, "string", << >>, token_buffer \o Encode(k))
      <3>1. DigitDoes(b, left, k, high, j)
        BY <1>1, <1>9, <1>11, <2>4, DigitByte, Zenon
      <3> QED
        BY <2>1, <3>1, Zenon DEF DigitDoes
    <2> QED
      BY <1>5, <1>13, <2>1, <2>3, <2>5, Zenon DEF DigitTaken
  <1>14. left > 1 \/ left = 1
    BY <1>1
  <1> QED
    BY <1>12, <1>13, <1>14, Zenon

\* A character is read to its end.
LEMMA ReadsOn ==
    ASSUME NEW R, NEW v, NEW s, NEW c, NEW p, NEW d, NEW q, Links(R, v, s, c, p, d, q),
           v \in Seq(Byte), s \in Seq(Byte), Between(v, d, q)'
    PROVE  Reading(R, v, s)'
  <1>1. d \in Nat /\ q \in Nat
    BY DEF Links
  <1> QED
    BY <1>1, Zenon DEF Links, Reading

LEMMA ReadsWithin ==
    ASSUME NEW R, NEW v, NEW s, NEW c, NEW p, NEW d, NEW q, Links(R, v, s, c, p, d, q),
           WithinOne(v, s, c, p, d, q)'
    PROVE  Reading(R, v, s)'
  BY Zenon DEF Reading

\* The four digits of k, of which none is read.
LEMMA DigitsBegin ==
    ASSUME NEW v, NEW s, NEW c, NEW r \in Nat, r + 6 <= Len(s), NEW k, Unit(k), HexAt(s, r, k),
           HasRead(r + 2), NEW b \in Byte, NEW high, Goto(b, "hex", <<4, 0, high>>, token_buffer),
           Prefix(token_buffer, v, c)
    PROVE  InDigits(v, s, c, r, k, high)'
  <1>1. r + 2 \in Nat /\ (r + 2) + 1 = (r + 7) - 4 /\ 4 \in 1..4
    OBVIOUS
  <1>2. /\ HasRead((r + 2) + 1)' /\ label' = "hex" /\ detail' = <<4, 0, high>>
        /\ token_buffer' = token_buffer
    BY <1>1, ByteTaken, Zenon
  <1>3. Upper(k, 4) = 0
    BY Zenon DEF Upper
  <1>4. HasRead((r + 7) - 4)'
    BY <1>1, <1>2
  <1>5. DigitsLeft(v, s, c, r, k, 4, high)'
    BY <1>1, <1>2, <1>3, <1>4, Zenon DEF DigitsLeft
  <1> QED
    BY <1>5, Zenon DEF InDigits

\* The byte after a backslash.
LEMMA BackslashRead ==
    ASSUME NEW R, NEW v, NEW s, Quoted(v, s), NEW b \in Arriving, Consume(b),
           NEW c, NEW p, NEW d, NEW q, Links(R, v, s, c, p, d, q), AfterBackslash(v, s, c, p, d, q)
    PROVE  Reading(R, v, s)'
  <1>1. label = "escape" /\ HasRead(p + 2) /\ Prefix(token_buffer, v, c)
    BY Zenon DEF AfterBackslash
  <1>2. /\ c \in Nat /\ p \in Nat /\ d \in Nat /\ q \in Nat /\ q <= Len(s) /\ d <= Len(v)
        /\ v \in Seq(Byte) /\ s \in Seq(Byte) /\ Len(s) \in Nat
    BY DEF Links, Quoted
  <1>3. ASSUME p + 2 <= q
        PROVE  b \in Byte /\ b = s[p + 2] /\ p + 2 \in Nat
    <2>1. p + 2 \in Nat /\ p + 2 <= Len(s) + 1 /\ p + 2 \in 1..Len(s)
      BY <1>2, <1>3
    <2> QED
      BY <1>1, <2>1, QuotedByte, Zenon
  <1>4. CASE ByEscape(v, s, c, p, d, q)
    <2>1. d = c + 1 /\ q = p + 2 /\ s[q] \in DOMAIN Escapes /\ v[d] = Escapes[s[q]]
      BY <1>4 DEF ByEscape
    <2>2. p + 2 <= q
      BY <1>2, <2>1
    <2>3. b \in Byte /\ b = s[p + 2]
      BY <1>3, <2>2, Zenon
    <2>4. Goto(b, "string", << >>, Append(token_buffer, v[d]))
      BY <1>1, <2>1, <2>3, EscapeByte, Zenon
    <2>5. /\ HasRead(q + 1)' /\ label' = "string"
          /\ token_buffer' = Append(token_buffer, v[d])
      BY <1>1, <1>2, <2>1, <2>3, <2>4, ByteTaken, Zenon
    <2>6. Prefix(Append(token_buffer, v[d]), v, d)
      BY <1>1, <1>2, <2>1, PrefixByte, Zenon
    <2>7. Between(v, d, q)'
      BY <2>5, <2>6, Zenon DEF Between
    <2> QED
      BY <1>2, <2>7, ReadsOn, Zenon
  <1>5. ASSUME NEW k, ByUnit(v, s, c, p, d, q, k)
        PROVE  Reading(R, v, s)'
    <2>1. Unit(k) /\ HexAt(s, p, k) /\ q = p + 6
      BY <1>5, Zenon DEF ByUnit
    <2>2. p + 2 <= q /\ p + 6 <= Len(s)
      BY <1>2, <2>1
    <2>3. b \in Byte /\ b = 117
      BY <1>3, <2>1, <2>2, Zenon DEF HexAt
    <2>4. Goto(b, "hex", <<4, 0, 0>>, token_buffer)
      BY <1>1, <2>3, EscapeByte, Zenon
    <2>5. InDigits(v, s, c, p, k, 0)'
      BY <1>1, <1>2, <2>1, <2>2, <2>3, <2>4, DigitsBegin, Zenon
    <2>6. WithinOne(v, s, c, p, d, q)'
      BY <1>5, <2>5, Zenon DEF WithinOne, InUnit
    <2> QED
      BY <2>6, ReadsWithin, Zenon
  <1>6. ASSUME NEW k, ByPair(v, s, c, p, d, q, k)
        PROVE  Reading(R, v, s)'
    <2>1. Scalar(k) /\ ~Unit(k) /\ HexAt(s, p, High(k)) /\ q = p + 12
      BY <1>6, Zenon DEF ByPair
    <2>2. p + 2 <= q /\ p + 6 <= Len(s)
      BY <1>2, <2>1
    <2>3. b \in Byte /\ b = 117
      BY <1>3, <2>1, <2>2, Zenon DEF HexAt
    <2>4. Goto(b, "hex", <<4, 0, 0>>, token_buffer)
      BY <1>1, <2>3, EscapeByte, Zenon
    <2>5. Unit(High(k))
      BY <2>1, PairHalves, Zenon
    <2>6. InDigits(v, s, c, p, High(k), 0)'
      BY <1>1, <1>2, <2>1, <2>2, <2>3, <2>4, <2>5, DigitsBegin, Zenon
    <2>7. WithinOne(v, s, c, p, d, q)'
      BY <1>6, <2>6, Zenon DEF WithinOne, InHigh
    <2> QED
      BY <2>7, ReadsWithin, Zenon
  <1> QED
    BY <1>4, <1>5, <1>6, Zenon DEF AfterBackslash

\* A code point is complete.
LEMMA PointRead ==
    ASSUME NEW R, NEW v, NEW s, Quoted(v, s), NEW b \in Byte,
           NEW c, NEW p, NEW d, NEW q, Links(R, v, s, c, p, d, q), HasRead(q),
           NEW k, Scalar(k), Stands(v, c, d, k), Prefix(token_buffer, v, c),
           Goto(b, "string", << >>, token_buffer \o Encode(k))
    PROVE  Reading(R, v, s)'
  <1>1. c \in Nat /\ q \in Nat /\ v \in Seq(Byte) /\ s \in Seq(Byte)
    BY DEF Links, Quoted
  <1>2. HasRead(q + 1)' /\ label' = "string" /\ token_buffer' = token_buffer \o Encode(k)
    BY <1>1, ByteTaken, Zenon
  <1>3. Prefix(token_buffer \o Encode(k), v, d)
    BY <1>1, PrefixPoint, Zenon
  <1>4. Between(v, d, q)'
    BY <1>2, <1>3, Zenon DEF Between
  <1> QED
    BY <1>1, <1>4, ReadsOn, Zenon

LEMMA UnitRead ==
    ASSUME NEW R, NEW v, NEW s, Quoted(v, s), NEW b \in Arriving, Consume(b),
           NEW c, NEW p, NEW d, NEW q, Links(R, v, s, c, p, d, q), InUnit(v, s, c, p, d, q)
    PROVE  Reading(R, v, s)'
  <1>1. PICK k : ByUnit(v, s, c, p, d, q, k) /\ InDigits(v, s, c, p, k, 0)
    BY Zenon DEF InUnit
  <1>2. PICK left : DigitsLeft(v, s, c, p, k, left, 0)
    BY <1>1, Zenon DEF InDigits
  <1>3. left \in 1..4 /\ Prefix(token_buffer, v, c)
    BY <1>2, Zenon DEF DigitsLeft
  <1>4. Scalar(k) /\ Stands(v, c, d, k) /\ q = p + 6
    BY <1>1, Zenon DEF ByUnit
  <1>5. PICK j : j = Joined(0, k)
    OBVIOUS
  <1>6. /\ b \in Byte
        /\ left > 1 => InDigits(v, s, c, p, k, 0)'
        /\ left = 1 => /\ HasRead(p + 6)
                       /\ 0 = 0 /\ ~IsHigh(k) /\ ~IsLow(k) =>
                             Goto(b, "string", << >>, token_buffer \o Encode(k))
    BY <1>2, <1>5, OneDigit, Zenon DEF DigitTaken
  <1>7. CASE left > 1
    <2>1. WithinOne(v, s, c, p, d, q)'
      BY <1>1, <1>6, <1>7, Zenon DEF WithinOne, InUnit
    <2> QED
      BY <2>1, ReadsWithin, Zenon
  <1>8. CASE left = 1
    <2>1. HasRead(q) /\ Goto(b, "string", << >>, token_buffer \o Encode(k))
      BY <1>4, <1>6, <1>8, Zenon DEF Scalar
    <2> QED
      BY <1>3, <1>4, <1>6, <2>1, PointRead, Zenon
  <1>9. left > 1 \/ left = 1
    BY <1>3
  <1> QED
    BY <1>7, <1>8, <1>9, Zenon

LEMMA HighRead ==
    ASSUME NEW R, NEW v, NEW s, Quoted(v, s), NEW b \in Arriving, Consume(b),
           NEW c, NEW p, NEW d, NEW q, Links(R, v, s, c, p, d, q), InHigh(v, s, c, p, d, q)
    PROVE  Reading(R, v, s)'
  <1>1. PICK k : ByPair(v, s, c, p, d, q, k) /\ InDigits(v, s, c, p, High(k), 0)
    BY Zenon DEF InHigh
  <1>2. PICK left : DigitsLeft(v, s, c, p, High(k), left, 0)
    BY <1>1, Zenon DEF InDigits
  <1>3. left \in 1..4 /\ Prefix(token_buffer, v, c) /\ p \in Nat
    BY <1>2, Zenon DEF DigitsLeft
  <1>4. IsHigh(High(k))
    BY <1>1, PairHalves, Zenon DEF ByPair
  <1>5. PICK j : j = Joined(0, High(k))
    OBVIOUS
  <1>6. /\ b \in Byte
        /\ left > 1 => InDigits(v, s, c, p, High(k), 0)'
        /\ left = 1 => /\ HasRead(p + 6)
                       /\ 0 = 0 /\ IsHigh(High(k)) => Goto(b, "pair", <<High(k)>>, token_buffer)
    BY <1>2, <1>5, OneDigit, Zenon DEF DigitTaken
  <1>7. CASE left > 1
    <2>1. WithinOne(v, s, c, p, d, q)'
      BY <1>1, <1>6, <1>7, Zenon DEF WithinOne, InHigh
    <2> QED
      BY <2>1, ReadsWithin, Zenon
  <1>8. CASE left = 1
    <2>1. HasRead(p + 6) /\ Goto(b, "pair", <<High(k)>>, token_buffer)
      BY <1>4, <1>6, <1>8, Zenon
    <2>2. p + 6 \in Nat /\ (p + 6) + 1 = p + 7
      BY <1>3
    <2>3. /\ HasRead((p + 6) + 1)' /\ label' = "pair" /\ detail' = <<High(k)>>
          /\ token_buffer' = token_buffer
      BY <1>6, <2>1, <2>2, ByteTaken, Zenon
    <2>4. HasRead(p + 7)'
      BY <2>2, <2>3
    <2>5. BetweenUnits(v, s, c, p, d, q)'
      BY <1>1, <1>3, <2>3, <2>4, Zenon DEF BetweenUnits
    <2>6. WithinOne(v, s, c, p, d, q)'
      BY <2>5, Zenon DEF WithinOne
    <2> QED
      BY <2>6, ReadsWithin, Zenon
  <1>9. left > 1 \/ left = 1
    BY <1>3
  <1> QED
    BY <1>7, <1>8, <1>9, Zenon

LEMMA LowBegins ==
    ASSUME NEW R, NEW v, NEW s, Quoted(v, s), NEW b \in Arriving, Consume(b),
           NEW c, NEW p, NEW d, NEW q, Links(R, v, s, c, p, d, q), BetweenUnits(v, s, c, p, d, q)
    PROVE  Reading(R, v, s)'
  <1>1. PICK k : /\ ByPair(v, s, c, p, d, q, k) /\ detail = <<High(k)>> /\ Prefix(token_buffer, v, c)
                 /\ \/ label = "pair" /\ HasRead(p + 7)
                    \/ label = "pair_u" /\ HasRead(p + 8)
    BY Zenon DEF BetweenUnits
  <1>2. Scalar(k) /\ ~Unit(k) /\ HexAt(s, p + 6, Low(k)) /\ q = p + 12
    BY <1>1, Zenon DEF ByPair
  <1>3. /\ p \in Nat /\ p + 12 <= Len(s) /\ v \in Seq(Byte) /\ s \in Seq(Byte) /\ Len(s) \in Nat
    BY <1>2 DEF Links, Quoted
  <1>4. s[p + 7] = Backslash /\ s[p + 8] = 117
    <2>1. (p + 6) + 1 = p + 7 /\ (p + 6) + 2 = p + 8
      BY <1>3
    <2>2. s[(p + 6) + 1] = Backslash /\ s[(p + 6) + 2] = 117
      BY <1>2, Zenon DEF HexAt
    <2> QED
      BY <2>1, <2>2
  <1>5. CASE label = "pair" /\ HasRead(p + 7)
    <2>1. p + 7 \in Nat /\ p + 7 <= Len(s) + 1 /\ p + 7 \in 1..Len(s) /\ (p + 7) + 1 = p + 8
      BY <1>3
    <2>2. b \in Byte /\ b = Backslash
      <3>1. PICK n \in Nat : n = p + 7
        BY <2>1
      <3>2. HasRead(n) /\ n <= Len(s) + 1 /\ n \in 1..Len(s)
        BY <1>5, <2>1, <3>1, Zenon
      <3>3. b \in Byte /\ b = s[n]
        BY <3>2, QuotedByte, Zenon
      <3> QED
        BY <1>4, <3>1, <3>3, Zenon
    <2>3. Goto(b, "pair_u", detail, token_buffer)
      BY <1>5, <2>2, PairByte, Zenon
    <2>4. /\ HasRead((p + 7) + 1)' /\ label' = "pair_u" /\ detail' = detail
          /\ token_buffer' = token_buffer
      BY <1>5, <2>1, <2>2, <2>3, ByteTaken, Zenon
    <2>5. HasRead(p + 8)'
      BY <2>1, <2>4
    <2>6. BetweenUnits(v, s, c, p, d, q)'
      BY <1>1, <2>4, <2>5, Zenon DEF BetweenUnits
    <2>7. WithinOne(v, s, c, p, d, q)'
      BY <2>6, Zenon DEF WithinOne
    <2> QED
      BY <2>7, ReadsWithin, Zenon
  <1>6. CASE label = "pair_u" /\ HasRead(p + 8)
    <2>1. /\ p + 8 \in Nat /\ p + 8 <= Len(s) + 1 /\ p + 8 \in 1..Len(s)
          /\ (p + 6) + 2 = p + 8 /\ p + 6 \in Nat /\ (p + 6) + 6 <= Len(s)
      BY <1>3
    <2>2. b \in Byte /\ b = 117
      <3>1. PICK n \in Nat : n = p + 8
        BY <2>1
      <3>2. HasRead(n) /\ n <= Len(s) + 1 /\ n \in 1..Len(s)
        BY <1>6, <2>1, <3>1, Zenon
      <3>3. b \in Byte /\ b = s[n]
        BY <3>2, QuotedByte, Zenon
      <3> QED
        BY <1>4, <3>1, <3>3, Zenon
    <2>3. Goto(b, "hex", <<4, 0, High(k)>>, token_buffer)
      <3>1. detail[1] = High(k)
        BY <1>1
      <3> QED
        BY <1>6, <2>2, <3>1, PairByte, Zenon
    <2>4. Unit(Low(k))
      BY <1>2, PairHalves, Zenon
    <2>5. HasRead((p + 6) + 2)
      BY <1>6, <2>1
    <2>6. InDigits(v, s, c, p + 6, Low(k), High(k))'
      BY <1>1, <1>2, <2>1, <2>2, <2>3, <2>4, <2>5, DigitsBegin, Zenon
    <2>7. WithinOne(v, s, c, p, d, q)'
      BY <1>1, <2>6, Zenon DEF WithinOne, InLow
    <2> QED
      BY <2>7, ReadsWithin, Zenon
  <1> QED
    BY <1>1, <1>5, <1>6, Zenon

LEMMA LowRead ==
    ASSUME NEW R, NEW v, NEW s, Quoted(v, s), NEW b \in Arriving, Consume(b),
           NEW c, NEW p, NEW d, NEW q, Links(R, v, s, c, p, d, q), InLow(v, s, c, p, d, q)
    PROVE  Reading(R, v, s)'
  <1>1. PICK k : ByPair(v, s, c, p, d, q, k) /\ InDigits(v, s, c, p + 6, Low(k), High(k))
    BY Zenon DEF InLow
  <1>2. PICK left : DigitsLeft(v, s, c, p + 6, Low(k), left, High(k))
    BY <1>1, Zenon DEF InDigits
  <1>3. left \in 1..4 /\ Prefix(token_buffer, v, c)
    BY <1>2, Zenon DEF DigitsLeft
  <1>4. Scalar(k) /\ ~Unit(k) /\ Stands(v, c, d, k) /\ q = p + 12
    BY <1>1, Zenon DEF ByPair
  <1>5. k = Joined(High(k), Low(k)) /\ High(k) # 0 /\ IsLow(Low(k))
    BY <1>4, PairHalves, Zenon
  <1>6. /\ b \in Byte
        /\ left > 1 => InDigits(v, s, c, p + 6, Low(k), High(k))'
        /\ left = 1 => /\ HasRead((p + 6) + 6)
                       /\ High(k) # 0 /\ IsLow(Low(k)) =>
                             Goto(b, "string", << >>, token_buffer \o Encode(k))
    <2>1. PICK r, h, l : r = p + 6 /\ h = High(k) /\ l = Low(k)
      OBVIOUS
    <2>2. PICK j : j = Joined(h, l)
      OBVIOUS
    <2>3. DigitsLeft(v, s, c, r, l, left, h)
      BY <1>2, <2>1, Zenon
    <2>4. k = j
      BY <1>5, <2>1, <2>2, Zenon
    <2>5. DigitTaken(v, s, b, c, r, l, left, h, j)
      BY <2>2, <2>3, OneDigit, Zenon
    <2>6. /\ b \in Byte
          /\ left > 1 => InDigits(v, s, c, r, l, h)'
          /\ left = 1 => /\ HasRead(r + 6)
                         /\ h # 0 /\ IsLow(l) => Goto(b, "string", << >>, token_buffer \o Encode(j))
      BY <2>5, Zenon DEF DigitTaken
    <2> QED
      BY <2>1, <2>4, <2>6, Zenon
  <1>7. CASE left > 1
    <2>1. WithinOne(v, s, c, p, d, q)'
      BY <1>1, <1>6, <1>7, Zenon DEF WithinOne, InLow
    <2> QED
      BY <2>1, ReadsWithin, Zenon
  <1>8. CASE left = 1
    <2>1. (p + 6) + 6 = q
      BY <1>4 DEF Links
    <2>2. HasRead(q) /\ Goto(b, "string", << >>, token_buffer \o Encode(k))
      BY <1>5, <1>6, <1>8, <2>1, Zenon
    <2> QED
      BY <1>3, <1>4, <1>6, <2>2, PointRead, Zenon
  <1>9. left > 1 \/ left = 1
    BY <1>3
  <1> QED
    BY <1>7, <1>8, <1>9, Zenon

\* One, two and three ranges.
LEMMA OneFits ==
    ASSUME NEW v, NEW e \in Nat, NEW r \in Byte \X Byte, v[e + 1] \in r[1]..r[2], NEW d, d = <<r>>
    PROVE  Fits(d, v, e) /\ Len(d) = 1
  BY DEF Fits

LEMMA TwoFit ==
    ASSUME NEW v, NEW e \in Nat, NEW r \in Byte \X Byte, NEW t \in Byte \X Byte,
           v[e + 1] \in r[1]..r[2], v[e + 2] \in t[1]..t[2], NEW d, d = <<r, t>>
    PROVE  Fits(d, v, e) /\ Len(d) = 2
  BY DEF Fits

LEMMA ThreeFit ==
    ASSUME NEW v, NEW e \in Nat, NEW r \in Byte \X Byte, NEW t \in Byte \X Byte,
           v[e + 1] \in r[1]..r[2], v[e + 2] \in t[1]..t[2], v[e + 3] \in t[1]..t[2],
           NEW d, d = <<r, t, t>>
    PROVE  Fits(d, v, e) /\ Len(d) = 3
  BY DEF Fits

\* The guard that holds of the first of three bytes, and of four.
Row3(x, g) == x >= 194 /\ g \in {2, 3, 4} /\ (g = 2 <=> x = 224) /\ (g = 4 <=> x = 237)
Row4(x, g) == x >= 194 /\ g \in {5, 6, 7} /\ (g = 5 <=> x = 240) /\ (g = 7 <=> x = 244)

LEMMA LeadRow ==
    ASSUME NEW x \in Byte, NEW g \in 0..7, LeadGuards(x, g)
    PROVE  /\ Within(x, 194, 223) => x >= 194 /\ g = 1
           /\ Within(x, 224, 239) => Row3(x, g)
           /\ Within(x, 240, 244) => Row4(x, g)
  BY SMT DEF Row3, Row4, LeadGuards, Within, Byte

\* The range of the second byte, and a byte in it.
SecondRange(g, r, y) ==
    /\ r = << IF g = 2 THEN 160 ELSE IF g = 5 THEN 144 ELSE 128,
              IF g = 4 THEN 159 ELSE IF g = 7 THEN 143 ELSE 191 >>
    /\ y \in r[1]..r[2]

LEMMA SecondIn3 ==
    ASSUME NEW x \in Byte, NEW y \in Int, Second3(x, y), NEW g, Row3(x, g)
    PROVE  \E r \in Byte \X Byte : SecondRange(g, r, y)
  <1>1. PICK lo, hi : lo = (IF g = 2 THEN 160 ELSE 128) /\ hi = (IF g = 4 THEN 159 ELSE 191)
    OBVIOUS
  <1>2. lo \in Byte /\ hi \in Byte /\ y \in lo..hi
    BY <1>1, SMT DEF Row3, Second3, Continuing, Within, Byte
  <1>3. SecondRange(g, <<lo, hi>>, y)
    BY <1>1, <1>2 DEF Row3, SecondRange
  <1> QED
    BY <1>2, <1>3

LEMMA SecondIn4 ==
    ASSUME NEW x \in Byte, NEW y \in Int, Second4(x, y), NEW g, Row4(x, g)
    PROVE  \E r \in Byte \X Byte : SecondRange(g, r, y)
  <1>1. PICK lo, hi : lo = (IF g = 5 THEN 144 ELSE 128) /\ hi = (IF g = 7 THEN 143 ELSE 191)
    OBVIOUS
  <1>2. lo \in Byte /\ hi \in Byte /\ y \in lo..hi
    BY <1>1, SMT DEF Row4, Second4, Continuing, Within, Byte
  <1>3. SecondRange(g, <<lo, hi>>, y)
    BY <1>1, <1>2 DEF Row4, SecondRange
  <1> QED
    BY <1>2, <1>3

\* The ranges of n - 1 bytes are awaited.
AwaitsRest(x, d, v, e, n) ==
    x \in Byte /\ x >= 194 /\ d # << >> /\ Fits(d, v, e) /\ Len(d) = n - 1

\* The first byte of a character has next_byte_in_range await the others.
LEMMA LeadFits ==
    ASSUME NEW v \in Seq(Byte), NEW c \in Nat, NEW n \in 2..4, c + n <= Len(v), Spelt(v, c + 1, n),
           NEW x, x = v[c + 1], NEW d, d = Continuations(x)
    PROVE  AwaitsRest(x, d, v, c + 1, n)
  <1> PICK y, z, w : y = At(v, (c + 1) + 1) /\ z = At(v, (c + 1) + 2) /\ w = At(v, (c + 1) + 3)
    OBVIOUS
  <1> PICK e \in Nat : e = c + 1
    OBVIOUS
  <1>1. x = At(v, c + 1) /\ x \in Byte
    <2>1. c + 1 \in DOMAIN v
      OBVIOUS
    <2> QED
      BY <2>1, AtByte, Zenon
  <1>2. Tabled(n, x, y, z, w)
    BY <1>1, Zenon DEF Spelt
  <1>3. /\ y = v[e + 1]
        /\ n >= 3 => z = v[e + 2]
        /\ n >= 4 => w = v[e + 3]
    <2>1. /\ e + 1 \in DOMAIN v
          /\ n >= 3 => e + 2 \in DOMAIN v
          /\ n >= 4 => e + 3 \in DOMAIN v
      OBVIOUS
    <2> QED
      BY <2>1, AtByte, Zenon
  <1>4. PICK g \in 0..7 : LeadGuards(x, g)
    BY LeadGuard
  <1>5. /\ y \in Int /\ z \in Int /\ w \in Int
    <2>1. y \in Byte /\ z \in Byte /\ w \in Byte
      BY AtByte, Zenon
    <2> QED
      BY <2>1, ByteRange, Zenon
  <1>6. PICK a \in Byte \X Byte :
           a = AnyContinuation /\ \A i \in Int : Continuing(i) => i \in a[1]..a[2]
    <2>1. \A i \in Int : Continuing(i) => i \in 128..191
      BY SMT DEF Continuing, Within
    <2>2. AnyContinuation \in Byte \X Byte /\ AnyContinuation[1]..AnyContinuation[2] = 128..191
      BY SMT DEF AnyContinuation, Byte
    <2> QED
      BY <2>1, <2>2, Zenon
  <1>7. a = <<128, 191>>
    BY <1>6 DEF AnyContinuation
  <1>8. CASE n = 2
    <2>1. Within(x, 194, 223) /\ Continuing(y)
      BY <1>2, <1>8 DEF Tabled
    <2>2. g = 1 /\ x >= 194
      BY <1>1, <1>4, <2>1, LeadRow
    <2>3. d = <<a>>
      BY <1>4, <1>6, <2>2, LeadRanges, Zenon
    <2>4. v[e + 1] \in a[1]..a[2]
      BY <1>3, <1>5, <1>6, <2>1, Zenon
    <2>5. Fits(d, v, e) /\ Len(d) = 1
      BY <2>3, <2>4, OneFits, Zenon
    <2>6. Len(d) = n - 1 /\ d # << >>
      BY <1>8, <2>3, <2>5
    <2> QED
      BY <1>1, <2>2, <2>5, <2>6, Zenon DEF AwaitsRest
  <1>9. CASE n = 3
    <2>1. Within(x, 224, 239) /\ Second3(x, y) /\ Continuing(z)
      BY <1>2, <1>9 DEF Tabled
    <2>2. Row3(x, g)
      BY <1>1, <1>4, <2>1, LeadRow
    <2>3. PICK r \in Byte \X Byte : SecondRange(g, r, y)
      BY <1>1, <1>5, <2>1, <2>2, SecondIn3, Zenon
    <2>5. y \in r[1]..r[2]
      BY <2>3, Zenon DEF SecondRange
    <2>6. d = <<r, a>>
      <3>1. CASE g = 2
        BY <1>4, <1>6, <2>3, <3>1, LeadRanges DEF SecondRange
      <3>2. CASE g = 3
        <4>1. a = r
          BY <1>7, <2>3, <3>2 DEF SecondRange
        <4> QED
          BY <1>4, <1>6, <3>2, <4>1, LeadRanges
      <3>3. CASE g = 4
        BY <1>4, <1>6, <2>3, <3>3, LeadRanges DEF SecondRange
      <3> QED
        BY <2>2, <3>1, <3>2, <3>3 DEF Row3
    <2>7. v[e + 1] \in r[1]..r[2] /\ v[e + 2] \in a[1]..a[2]
      <3>1. n >= 3
        BY <1>9
      <3> QED
        BY <1>3, <1>5, <1>6, <2>1, <2>5, <3>1
    <2>8. Fits(d, v, e) /\ Len(d) = 2
      BY <2>5, <2>6, <2>7, TwoFit, Zenon
    <2>9. Len(d) = n - 1 /\ d # << >>
      BY <1>9, <2>6, <2>8
    <2> QED
      BY <1>1, <2>2, <2>8, <2>9, Zenon DEF AwaitsRest, Row3
  <1>10. CASE n = 4
    <2>1. Within(x, 240, 244) /\ Second4(x, y) /\ Continuing(z) /\ Continuing(w)
      BY <1>2, <1>10 DEF Tabled
    <2>2. Row4(x, g)
      BY <1>1, <1>4, <2>1, LeadRow
    <2>3. PICK r \in Byte \X Byte : SecondRange(g, r, y)
      BY <1>1, <1>5, <2>1, <2>2, SecondIn4, Zenon
    <2>5. y \in r[1]..r[2]
      BY <2>3, Zenon DEF SecondRange
    <2>6. d = <<r, a, a>>
      <3>1. CASE g = 5
        BY <1>4, <1>6, <2>3, <3>1, LeadRanges DEF SecondRange
      <3>2. CASE g = 6
        <4>1. a = r
          BY <1>7, <2>3, <3>2 DEF SecondRange
        <4> QED
          BY <1>4, <1>6, <3>2, <4>1, LeadRanges
      <3>3. CASE g = 7
        BY <1>4, <1>6, <2>3, <3>3, LeadRanges DEF SecondRange
      <3> QED
        BY <2>2, <3>1, <3>2, <3>3 DEF Row4
    <2>7. v[e + 1] \in r[1]..r[2] /\ v[e + 2] \in a[1]..a[2] /\ v[e + 3] \in a[1]..a[2]
      <3>1. n >= 3 /\ n >= 4
        BY <1>10
      <3> QED
        BY <1>3, <1>5, <1>6, <2>1, <2>5, <3>1
    <2>8. Fits(d, v, e) /\ Len(d) = 3
      BY <2>5, <2>6, <2>7, ThreeFit, Zenon
    <2>9. Len(d) = n - 1 /\ d # << >>
      BY <1>10, <2>6, <2>8
    <2> QED
      BY <1>1, <2>2, <2>8, <2>9, Zenon DEF AwaitsRest, Row4
  <1> QED
    BY <1>8, <1>9, <1>10

LEMMA RestFits ==
    ASSUME NEW d, NEW v, NEW e \in Nat, Fits(d, v, e), Len(d) > 1
    PROVE  Fits(Tail(d), v, e + 1) /\ Len(Tail(d)) = Len(d) - 1
  <1>1. d \in Seq(Byte \X Byte) /\ \A i \in 1..Len(d) : v[e + i] \in d[i][1]..d[i][2]
    BY DEF Fits
  <1>2. PICK t : t = Tail(d)
    OBVIOUS
  <1>0. PICK m \in Nat : m = Len(d)
    BY <1>1
  <1>3. t \in Seq(Byte \X Byte) /\ Len(t) = m - 1 /\ \A i \in 1..(m - 1) : t[i] = d[i + 1]
    BY <1>0, <1>1, <1>2
  <1>4. \A i \in 1..(m - 1) : i + 1 \in 1..m /\ e + (i + 1) = (e + 1) + i
    OBVIOUS
  <1>5. \A i \in 1..(m - 1) : v[(e + 1) + i] \in t[i][1]..t[i][2]
    BY <1>0, <1>1, <1>3, <1>4, Zenon
  <1> QED
    BY <1>0, <1>2, <1>3, <1>5 DEF Fits

\* A later byte of a character.
LEMMA BytesRead ==
    ASSUME NEW R, NEW v, NEW s, Quoted(v, s), NEW b \in Arriving, Consume(b),
           NEW c, NEW p, NEW d, NEW q, Links(R, v, s, c, p, d, q), InBytes(v, s, c, p, d, q)
    PROVE  Reading(R, v, s)'
  <1>1. PICK n \in Nat, j \in Nat :
           /\ ByBytes(v, s, c, p, d, q, n) /\ 0 < j /\ j < n
           /\ label = "utf8" /\ HasRead((p + j) + 1) /\ Prefix(token_buffer, v, c + j)
           /\ Len(detail) = n - j /\ Fits(detail, v, c + j)
    BY Zenon DEF InBytes
  <1>2. /\ n \in 2..4 /\ d = c + n /\ q = p + n
        /\ \A i \in 1..n : s[p + i] = v[c + i]
    BY <1>1, Zenon DEF ByBytes
  <1>3. /\ c \in Nat /\ p \in Nat /\ d <= Len(v) /\ q <= Len(s)
        /\ v \in Seq(Byte) /\ s \in Seq(Byte) /\ Len(s) \in Nat /\ Len(v) \in Nat
    BY DEF Links, Quoted
  <1>4. PICK m \in Nat, e \in Nat, i \in Nat : m = (p + j) + 1 /\ e = c + j /\ i = j + 1
    BY <1>3
  <1>5. /\ m <= Len(s) + 1 /\ m \in 1..Len(s) /\ m = p + i /\ e + 1 = c + i /\ i \in 1..n
        /\ e + 1 <= Len(v) /\ m + 1 = (p + i) + 1
    BY <1>1, <1>2, <1>3, <1>4
  <1>6. b \in Byte /\ b = s[m]
    BY <1>1, <1>4, <1>5, QuotedByte, Zenon
  <1>7. b = v[e + 1]
    BY <1>2, <1>5, <1>6, Zenon
  <1>8. Prefix(token_buffer, v, e) /\ Fits(detail, v, e) /\ Len(detail) = n - j
    BY <1>1, <1>4, Zenon
  <1>9. Prefix(Append(token_buffer, b), v, c + i)
    BY <1>3, <1>5, <1>7, <1>8, PrefixByte
  <1>10. b \in detail[1][1]..detail[1][2]
    <2>1. 1 \in 1..Len(detail)
      BY <1>1
    <2> QED
      BY <1>7, <1>8, <2>1, Zenon DEF Fits
  <1>11. CASE Len(detail) = 1
    <2>1. i = n
      <3>1. \A k, l \in Nat : k - l = 1 => l + 1 = k
        OBVIOUS
      <3> QED
        BY <1>4, <1>8, <1>11, <3>1, Zenon
    <2>2. Add(b, "string", << >>)
      BY <1>1, <1>10, <1>11, RangeByte, Zenon
    <2>3. HasRead(m + 1)' /\ label' = "string" /\ token_buffer' = Append(token_buffer, b)
      BY <1>1, <1>4, <1>6, <2>2, ByteTaken, Zenon DEF Add
    <2>4. HasRead(q + 1)'
      BY <1>2, <1>5, <2>1, <2>3
    <2>5. Between(v, d, q)'
      BY <1>2, <1>9, <2>1, <2>3, <2>4, Zenon DEF Between
    <2> QED
      BY <1>3, <2>5, ReadsOn, Zenon
  <1>12. CASE Len(detail) # 1
    <2>1. Len(detail) > 1 /\ 0 < i /\ i < n /\ Len(detail) - 1 = n - i
      BY <1>1, <1>4, <1>12
    <2>2. Add(b, "utf8", Tail(detail))
      BY <1>1, <1>10, <1>12, RangeByte, Zenon
    <2>3. /\ HasRead(m + 1)' /\ label' = "utf8" /\ token_buffer' = Append(token_buffer, b)
          /\ detail' = Tail(detail)
      BY <1>1, <1>4, <1>6, <2>2, ByteTaken, Zenon DEF Add
    <2>4. Fits(Tail(detail), v, e + 1) /\ Len(Tail(detail)) = Len(detail) - 1
      BY <1>8, <2>1, RestFits, Zenon
    <2>5. HasRead((p + i) + 1)'
      BY <1>5, <2>3
    <2>6. InBytes(v, s, c, p, d, q)'
      BY <1>1, <1>5, <1>9, <2>1, <2>3, <2>4, <2>5, Zenon DEF InBytes
    <2>7. WithinOne(v, s, c, p, d, q)'
      BY <2>6, Zenon DEF WithinOne
    <2> QED
      BY <2>7, ReadsWithin, Zenon
  <1> QED
    BY <1>11, <1>12, Zenon

\* The first byte of a character, or the quote behind the last one.
LEMMA CharacterRead ==
    ASSUME NEW R, NEW v, NEW s, Quoted(v, s), Written(R, v, s, Len(v), Len(s)),
           NEW b \in Arriving, Consume(b), NEW c \in Nat, NEW p \in Nat, <<c, p>> \in R, Between(v, c, p)
    PROVE  Reading(R, v, s)'
  <1>1. label = "string" /\ HasRead(p + 1) /\ Prefix(token_buffer, v, c)
    BY Zenon DEF Between
  <1>2. v \in Seq(Byte) /\ s \in Seq(Byte)
    BY DEF Quoted
  <1>3. PICK n \in Nat : n = p + 1
    OBVIOUS
  <1>4. HasRead(n)
    BY <1>1, <1>3, Zenon
  <1>5. \/ c = Len(v) /\ p = Len(s)
        \/ \E d \in 0..Len(v), q \in 0..Len(s) :
              <<d, q>> \in R /\ p < q /\ Shows(v, s, c, p, d, q)
    BY Zenon DEF Written
  <1>6. CASE c = Len(v) /\ p = Len(s)
    <2>1. n <= Len(s) + 1 /\ n = Len(s) + 1
      BY <1>3, <1>6
    <2>2. b \in Byte /\ b = Quote
      BY <1>4, <2>1, QuotedByte, Zenon
    <2>3. Return(b, "value_string")
      BY <1>1, <2>2, AtFirstByte, Zenon
    <2>4. token_buffer = v
      BY <1>1, <1>2, <1>6, PrefixWhole, Zenon
    <2> QED
      BY <2>3, <2>4 DEF Return, Reading
  <1>7. CASE \E d \in 0..Len(v), q \in 0..Len(s) :
                <<d, q>> \in R /\ p < q /\ Shows(v, s, c, p, d, q)
    <2>1. PICK d \in 0..Len(v), q \in 0..Len(s) :
             <<d, q>> \in R /\ p < q /\ Shows(v, s, c, p, d, q)
      BY <1>7
    <2>2. Links(R, v, s, c, p, d, q)
      BY <2>1, Zenon DEF Links
    <2>3. /\ d \in Nat /\ q \in Nat /\ d <= Len(v) /\ n <= Len(s) + 1 /\ n \in 1..Len(s) /\ n + 1 = p + 2
      BY <1>2, <1>3, <2>1
    <2>4. b \in Byte /\ b = s[p + 1]
      BY <1>3, <1>4, <2>3, QuotedByte, Zenon
    <2>5. CASE ByItself(v, s, c, p, d, q)
      <3>1. d = c + 1 /\ q = n /\ v[d] \in Plain /\ b = v[d]
        BY <1>3, <2>4, <2>5, Zenon DEF ByItself
      <3>2. Add(b, "string", << >>)
        BY <1>1, <2>4, <3>1, AtFirstByte, Zenon
      <3>3. HasRead(q + 1)' /\ label' = "string" /\ token_buffer' = Append(token_buffer, b)
        BY <1>4, <2>4, <3>1, <3>2, ByteTaken, Zenon DEF Add
      <3>4. Prefix(Append(token_buffer, b), v, d)
        BY <1>1, <1>2, <2>3, <3>1, PrefixByte, Zenon
      <3>5. Between(v, d, q)'
        BY <3>3, <3>4, Zenon DEF Between
      <3> QED
        BY <1>2, <2>2, <3>5, ReadsOn, Zenon
    <2>6. CASE \/ ByEscape(v, s, c, p, d, q)
               \/ \E k : ByUnit(v, s, c, p, d, q, k)
               \/ \E k : ByPair(v, s, c, p, d, q, k)
      <3>1. b = Backslash
        BY <2>4, <2>6, Zenon DEF ByEscape, ByUnit, ByPair, HexAt
      <3>2. Skip(b, "escape")
        BY <1>1, <2>4, <3>1, AtFirstByte, Zenon
      <3>3. HasRead(n + 1)' /\ label' = "escape" /\ token_buffer' = token_buffer
        BY <1>4, <2>4, <3>2, ByteTaken, Zenon DEF Skip
      <3>4. HasRead(p + 2)'
        BY <2>3, <3>3
      <3>5. AfterBackslash(v, s, c, p, d, q)'
        BY <1>1, <2>6, <3>3, <3>4, Zenon DEF AfterBackslash
      <3>6. WithinOne(v, s, c, p, d, q)'
        BY <3>5, Zenon DEF WithinOne
      <3> QED
        BY <2>2, <3>6, ReadsWithin, Zenon
    <2>7. ASSUME NEW k, ByBytes(v, s, c, p, d, q, k)
          PROVE  Reading(R, v, s)'
      <3>1. k \in 2..4 /\ d = c + k /\ Spelt(v, c + 1, k) /\ \A i \in 1..k : s[p + i] = v[c + i]
        BY <2>7, Zenon DEF ByBytes
      <3>2. /\ c + k <= Len(v) /\ 1 \in 1..k /\ c + 1 <= Len(v) /\ k \in Nat /\ 1 \in Nat
            /\ 0 < 1 /\ 1 < k
        BY <2>3, <3>1
      <3>3. b = v[c + 1]
        BY <2>4, <3>1, <3>2, Zenon
      <3>4. PICK e : e = Continuations(b)
        OBVIOUS
      <3>5. AwaitsRest(b, e, v, c + 1, k)
        BY <1>2, <3>1, <3>2, <3>3, <3>4, LeadFits, Zenon
      <3>6. Add(b, "utf8", e)
        <4>1. b >= 194 /\ Continuations(b) # << >>
          BY <3>4, <3>5, Zenon DEF AwaitsRest
        <4> QED
          BY <1>1, <2>4, <3>4, <4>1, AtFirstByte, Zenon
      <3>7. /\ HasRead(n + 1)' /\ label' = "utf8" /\ detail' = e
            /\ token_buffer' = Append(token_buffer, b)
        BY <1>4, <2>4, <3>6, ByteTaken, Zenon DEF Add
      <3>8. Prefix(Append(token_buffer, b), v, c + 1)
        BY <1>1, <1>2, <3>2, <3>3, PrefixByte, Zenon
      <3>9. HasRead((p + 1) + 1)'
        BY <1>3, <3>7
      <3>10. InBytes(v, s, c, p, d, q)'
        BY <2>7, <3>2, <3>5, <3>7, <3>8, <3>9, Zenon DEF InBytes, AwaitsRest
      <3>11. WithinOne(v, s, c, p, d, q)'
        BY <3>10, Zenon DEF WithinOne
      <3> QED
        BY <2>2, <3>11, ReadsWithin, Zenon
    <2> QED
      BY <2>1, <2>5, <2>6, <2>7, Zenon DEF Shows
  <1> QED
    BY <1>5, <1>6, <1>7, Zenon

\* The opening quote is put back, as what is no byte order mark.
LEMMA FirstRead ==
    ASSUME NEW R, NEW v, NEW s, Quoted(v, s), NEW b \in Arriving, Consume(b),
           label = "bom", HasRead(0)
    PROVE  Reading(R, v, s)'
  <1>1. 0 <= Len(s) + 1 /\ 0 \in Nat
    BY DEF Quoted
  <1>2. b \in Byte /\ b = Quote
    BY <1>1, QuotedByte, Zenon
  <1>3. Unget(b, "start")
    <2>1. skip_bom(b)
      BY ByLabel
    <2>2. b # 239
      BY <1>2 DEF Quote
    <2> QED
      BY <2>1, <2>2 DEF skip_bom
  <1>4. text \in Seq(Byte) /\ Len(text) = 0 /\ ~next_unget
    BY DEF HasRead
  <1>5. /\ text' = Append(text, b) /\ current' = b /\ label' = "start" /\ next_unget' = TRUE
    BY <1>3, <1>4 DEF Unget, get
  <1>6. Append(text, b) \in Seq(Byte) /\ Len(Append(text, b)) = 1
    BY <1>2, <1>4, AppendProperties
  <1> QED
    BY <1>2, <1>5, <1>6 DEF Reading

LEMMA OpeningRead ==
    ASSUME NEW R, NEW v, NEW s, <<0, 0>> \in R, NEW b \in Arriving, Consume(b),
           label = "start", text \in Seq(Byte), Len(text) = 1, next_unget, current = Quote
    PROVE  Reading(R, v, s)'
  <1>1. b = Quote
    <2>1. Arriving = {current}
      BY Zenon DEF Arriving
    <2> QED
      BY <2>1
  <1>2. Goto(b, "string", << >>, << >>)
    <2>1. scan(b)
      BY ByLabel
    <2> QED
      BY <1>1, <2>1, OpeningQuote
  <1>3. text' = text /\ label' = "string" /\ next_unget' = FALSE /\ token_buffer' = << >>
    BY <1>2 DEF Goto, get
  <1>4. HasRead(0 + 1)'
    BY <1>3 DEF HasRead
  <1>5. Prefix(<< >>, v, 0)
    BY DEF Prefix
  <1>6. Between(v, 0, 0)'
    BY <1>3, <1>4, <1>5, Zenon DEF Between
  <1>7. 0 \in Nat
    OBVIOUS
  <1> QED
    BY <1>6, <1>7, Zenon DEF Reading

LEMMA ReadStep ==
    ASSUME NEW R, NEW v, NEW s, Quoted(v, s), Written(R, v, s, Len(v), Len(s)), Reading(R, v, s),
           label # "token", NEW b \in Arriving, Consume(b)
    PROVE  Reading(R, v, s)'
  <1>1. CASE label = "bom" /\ HasRead(0)
    BY <1>1, FirstRead, Zenon
  <1>2. CASE label = "start" /\ text \in Seq(Byte) /\ Len(text) = 1 /\ next_unget /\ current = Quote
    <2>1. <<0, 0>> \in R
      BY Zenon DEF Written
    <2> QED
      BY <1>2, <2>1, OpeningRead, Zenon
  <1>3. CASE \E c, p \in Nat : <<c, p>> \in R /\ Between(v, c, p)
    BY <1>3, CharacterRead, Zenon
  <1>4. ASSUME NEW c, NEW p, NEW d, NEW q, Links(R, v, s, c, p, d, q), WithinOne(v, s, c, p, d, q)
        PROVE  Reading(R, v, s)'
    <2>1. CASE AfterBackslash(v, s, c, p, d, q)
      BY <1>4, <2>1, BackslashRead, Zenon
    <2>2. CASE InUnit(v, s, c, p, d, q)
      BY <1>4, <2>2, UnitRead, Zenon
    <2>3. CASE InHigh(v, s, c, p, d, q)
      BY <1>4, <2>3, HighRead, Zenon
    <2>4. CASE BetweenUnits(v, s, c, p, d, q)
      BY <1>4, <2>4, LowBegins, Zenon
    <2>5. CASE InLow(v, s, c, p, d, q)
      BY <1>4, <2>5, LowRead, Zenon
    <2>6. CASE InBytes(v, s, c, p, d, q)
      BY <1>4, <2>6, BytesRead, Zenon
    <2> QED
      BY <1>4, <2>1, <2>2, <2>3, <2>4, <2>5, <2>6, Zenon DEF WithinOne
  <1> QED
    BY <1>1, <1>2, <1>3, <1>4, Zenon DEF Reading

-----------------------------------------------------------------------------
(* The round trip.                                                         *)

\* A string that is dumped, and what the lexer reads of it.
ReadBack ==
    /\ Quoted(val, o)
    /\ \E R : Written(R, val, o, Len(val), Len(o)) /\ Reading(R, val, o)

RoundInv ==
    /\ scans \in Nat \ {0}
    /\ kind = "string" /\ WellFormed(val) =>
          /\ phase # "thrown"
          /\ phase = "dump" => DumpsWell
          /\ phase = "scan" /\ scans = 1 => ReadBack

LEMMA RoundBegins == Init => RoundInv
  <1> SUFFICES ASSUME Init PROVE RoundInv
    OBVIOUS
  <1>1. scans = 1 /\ text = << >> /\ next_unget = FALSE /\ label = "bom"
    BY DEF Init, LexerInit
  <1>2. SUFFICES ASSUME kind = "string" PROVE phase # "thrown" /\ phase # "scan" /\ DumpsWell
    BY <1>1 DEF RoundInv
  <1>3. phase = "dump"
    BY <1>2 DEF Init
  <1>4. val \in Strings /\ DumperInit(<< >>)
    BY <1>2 DEF Init
  <1>5. /\ val \in Seq(Byte) /\ index = 1 /\ undumped_chars = 0 /\ Output = << >>
    BY <1>4, StringsAssumption DEF DumperInit, Byte, Output
  <1>6. Written({<<0, 0>>}, val, << >>, 0, 0)
    <2>1. 0 \in 0..Len(val) /\ 0 \in 0..Len(<< >>)
      BY <1>5
    <2>2. {<<0, 0>>} \subseteq Nat \X Nat /\ <<0, 0>> \in {<<0, 0>>}
      OBVIOUS
    <2>3. \A c, p \in Nat : <<c, p>> \in {<<0, 0>>} => c = 0 /\ p = 0
      OBVIOUS
    <2> QED
      BY <2>1, <2>2, <2>3, Zenon DEF Written
  <1>7. Spare = 0 /\ Begun = 0 + 1
    BY <1>5 DEF Spare, Begun
  <1>8. WellFormedBefore(val, 0 + 1)
    BY DEF WellFormedBefore
  <1>9. DumpedTo(0, 0)
    <2>1. Len(<< >>) = 0 + 0 /\ \A i : i \notin 1..0
      OBVIOUS
    <2> QED
      BY <1>5, <1>6, <1>7, <1>8, <2>1 DEF DumpedTo
  <1>10. 0 \in Nat
    OBVIOUS
  <1> QED
    BY <1>1, <1>3, <1>9, <1>10 DEF DumpsWell, Waiting

LEMMA RoundKept ==
    ASSUME IInv, RoundInv, [Next]_vars
    PROVE  RoundInv'
  <1>1. CASE UNCHANGED vars
    <2>1. (scans' = scans) /\ (phase' = phase) /\ (kind' = kind) /\ (val' = val)
      BY <1>1 DEF vars, lexer, dumper
    <2>2. DumpsWell' <=> DumpsWell
      BY <1>1 DEF DumpsWell, Waiting, DumpedTo, Begun, Output, Spare, vars, lexer, dumper
    <2>3. ReadBack' <=> ReadBack
      BY <1>1 DEF ReadBack, vars, lexer, dumper, Quoted, Reading, Between, HasRead, WithinOne,
         AfterBackslash, InUnit, InHigh, BetweenUnits, InLow, InBytes, InDigits, DigitsLeft
    <2> QED
      BY <2>1, <2>2, <2>3 DEF RoundInv
  <1>2. CASE DumpByte
    <2>1. scans' = scans /\ kind' = kind /\ val' = val /\ phase = "dump"
      BY <1>2 DEF DumpByte, lexer
    <2>2. kind = "string" /\ WellFormed(val) => DumpsWell' /\ phase' = "dump"
      BY <1>2, <2>1, DumpStep, Zenon DEF RoundInv
    <2> QED
      BY <2>1, <2>2 DEF RoundInv
  <1>3. CASE DumpEnds
    <2>1. scans' = scans /\ kind' = kind /\ val' = val /\ phase = "dump"
      BY <1>3 DEF DumpEnds
    <2>2. ASSUME kind = "string", WellFormed(val)
          PROVE  phase' = "scan" /\ ReadBack'
      <3>1. /\ phase' = "scan" /\ o' \in Seq(Byte) /\ val \in Seq(Byte) /\ Waiting'
            /\ ia' = [bytes |-> <<Quote>> \o o' \o <<Quote>>, open |-> FALSE]
            /\ \E R : Written(R, val, o', Len(val), Len(o'))
        BY <1>3, <2>1, <2>2, DumpComplete, Zenon DEF RoundInv
      <3>2. PICK R : Written(R, val, o', Len(val), Len(o'))
        BY <3>1
      <3>3. PICK v, s : v = val /\ s = o'
        OBVIOUS
      <3>4. Quoted(v, s)'
        BY <3>1, <3>3 DEF Quoted
      <3>5. Reading(R, v, s)'
        BY <3>1 DEF Waiting, Reading, HasRead
      <3>6. Quoted(val, o)' /\ (\E S : Written(S, val, o, Len(val), Len(o)) /\ Reading(S, val, o))'
        BY <2>1, <3>2, <3>3, <3>4, <3>5
      <3> QED
        BY <3>1, <3>6, Zenon DEF ReadBack
    <2> QED
      BY <2>1, <2>2 DEF RoundInv
  <1>4. CASE Scan
    <2>1. phase = "scan" /\ phase' = phase /\ kind' = kind /\ val' = val /\ o' = o /\ get_token
      BY <1>4 DEF Scan, dumper
    <2>2. CASE NextScan
      BY <2>1, <2>2 DEF NextScan, RoundInv
    <2>3. ASSUME NEW b \in Arriving, Consume(b), label # "token"
          PROVE  RoundInv'
      <3>1. scans' = scans /\ ia' = ia
        BY <2>3, ConsumeMoves DEF Moves, get
      <3>2. ASSUME kind = "string", WellFormed(val), scans = 1
            PROVE  ReadBack'
        <4>1. PICK v, s : v = val /\ s = o
          OBVIOUS
        <4>2. PICK R : Written(R, v, s, Len(v), Len(s)) /\ Reading(R, v, s) /\ Quoted(v, s)
          BY <2>1, <3>2, <4>1, Zenon DEF RoundInv, ReadBack
        <4>3. Reading(R, v, s)'
          BY <2>3, <4>2, ReadStep, Zenon
        <4>4. Quoted(v, s)'
          BY <3>1, <4>2 DEF Quoted
        <4>5. Quoted(val, o)' /\ (\E S : Written(S, val, o, Len(val), Len(o)) /\ Reading(S, val, o))'
          BY <2>1, <4>1, <4>2, <4>3, <4>4
        <4> QED
          BY <4>5, Zenon DEF ReadBack
      <3> QED
        BY <2>1, <3>1, <3>2 DEF RoundInv
    <2> QED
      BY <2>1, <2>2, <2>3 DEF get_token
  <1> QED
    BY <1>1, <1>2, <1>3, <1>4, Zenon DEF Next

\* The labels within a character.
Inside == label \in {"escape", "hex", "pair", "pair_u", "utf8"}

LEMMA InsideOne ==
    ASSUME NEW v, NEW s, NEW c, NEW p, NEW d, NEW q, WithinOne(v, s, c, p, d, q)
    PROVE  Inside
  <1>1. \A r, k, h : InDigits(v, s, c, r, k, h) => label = "hex"
    BY Zenon DEF InDigits, DigitsLeft
  <1>2. AfterBackslash(v, s, c, p, d, q) => label = "escape"
    BY Zenon DEF AfterBackslash
  <1>3. InUnit(v, s, c, p, d, q) \/ InHigh(v, s, c, p, d, q) \/ InLow(v, s, c, p, d, q)
           => label = "hex"
    BY <1>1, Zenon DEF InUnit, InHigh, InLow
  <1>4. BetweenUnits(v, s, c, p, d, q) => label \in {"pair", "pair_u"}
    BY Zenon DEF BetweenUnits
  <1>5. InBytes(v, s, c, p, d, q) => label = "utf8"
    BY Zenon DEF InBytes
  <1> QED
    BY <1>2, <1>3, <1>4, <1>5, Zenon DEF WithinOne, Inside

-----------------------------------------------------------------------------
(* The theorems.                                                           *)

\* Every step of the dumper and of the lexer keeps the invariant: what state and
\* codepoint of decode say of the bytes read so far, and how full string_buffer is.
THEOREM Invariance == Spec => []IInv
  <1>1. IInv /\ [Next]_vars => IInv'
    <2> SUFFICES ASSUME IInv, [Next]_vars PROVE IInv'
      OBVIOUS
    <2>1. CASE DumpByte
      BY <2>1, DumpByteKeeps, Zenon
    <2>2. CASE DumpEnds
      BY <2>2, DumpEndsKeeps, Zenon
    <2>3. CASE Scan
      BY <2>3, ScanKeeps, Zenon DEF Scan
    <2>4. CASE UNCHANGED vars
      BY <2>4, ScanKeeps DEF vars
    <2> QED
      BY <2>1, <2>2, <2>3, <2>4, Zenon DEF Next
  <1> QED
    BY InitIInv, <1>1, PTL DEF Spec

\* dump_escaped never writes past the end of string_buffer, whatever string it dumps:
\* "there must be 13 bytes left" after every complete character is enough.
THEOREM BufferNeverOverflows == Spec => []BufferHolds
  <1>1. IInv => BufferHolds
    BY DEF IInv
  <1> QED
    BY Invariance, <1>1, PTL

\* With the strict handler dump throws for no string that is UTF-8, and ends for none
\* that is not.
THEOREM StrictThrowsForIllFormed == Spec => []StrictIsExact
  <1>1. IInv => StrictIsExact
    BY DEF IInv
  <1> QED
    BY Invariance, <1>1, PTL

\* What is dumped for a string has no control character, and with ensure_ascii only
\* ASCII.
THEOREM OutputIsPrintable == Spec => []PrintableOnly
  <1>1. IInv => PrintableOnly
    <2> SUFFICES ASSUME IInv, kind = "string", NEW i \in DOMAIN o
                 PROVE  o[i] \in 32..(IF ensure_ascii THEN 126 ELSE 255)
      BY DEF PrintableOnly
    <2>1. o \in Seq(Shown)
      BY DEF IInv
    <2> QED
      BY <2>1 DEF Shown
  <1> QED
    BY Invariance, <1>1, PTL

\* Whatever text is read and however often a character is put back: the place that an
\* error message shows is the place in the text.
THEOREM ErrorsArePlaced == Spec => []PositionTracks
  BY PositionBegins, PositionKept, PositionFollows, PTL DEF Spec

\* Whatever bytes a text has and whatever code points it escapes, a string that scan()
\* returns is well-formed UTF-8.
THEOREM StringsAreUTF8 == Spec => []StringsWellFormed
  <1>1. StringInv => StringsWellFormed
    BY DEF StringInv, StringsWellFormed, IsText
  <1> QED
    BY StringBegins, StringKept, <1>1, PTL DEF Spec

\* Whatever text is read, with comments ignored or not: scan() returns the longest number
\* that begins there, with its type, and refuses one at the first byte that makes it
\* impossible; it skips nothing but whitespace and whole comments, and refuses a comment
\* only when it has no end; its strings are UTF-8 and its places are right.
THEOREM ScannedAsWritten == Spec => []TokensScanned
  <1>1. TokenInv => NumbersScanned /\ OnlyBlankSkipped
    BY DEF TokenInv, NumbersScanned, OnlyBlankSkipped
  <1> QED
    BY PositionBegins, PositionKept, TokenBegins, TokenKept, <1>1, ErrorsArePlaced, StringsAreUTF8,
       PTL DEF Spec, TokensScanned

\* Whatever string that is well-formed is dumped, with whatever error handler and with
\* ensure_ascii or without: nothing is thrown, and a lexer that reads the output between
\* its quotes returns the string as it was.
THEOREM DumpsScanBack == Spec => []WellFormedScansBack
  <1>1. RoundInv => WellFormedScansBack
    <2> SUFFICES ASSUME RoundInv, kind = "string", WellFormed(val)
                 PROVE  /\ phase # "thrown"
                        /\ phase = "scan" /\ label = "token" /\ scans = 1 =>
                              token = "value_string" /\ token_buffer = val
      BY Zenon DEF WellFormedScansBack
    <2>1. phase # "thrown"
      BY Zenon DEF RoundInv
    <2>2. ASSUME phase = "scan", label = "token", scans = 1
          PROVE  token = "value_string" /\ token_buffer = val
      <3>1. PICK R : Reading(R, val, o)
        BY <2>2, Zenon DEF RoundInv, ReadBack
      <3>2. ASSUME NEW c, NEW p
            PROVE  ~Between(val, c, p)
        BY <2>2 DEF Between
      <3>3. ASSUME NEW c, NEW p, NEW d, NEW q
            PROVE  ~WithinOne(val, o, c, p, d, q)
        <4>1. WithinOne(val, o, c, p, d, q) => Inside
          BY InsideOne, Zenon
        <4> QED
          BY <2>2, <4>1 DEF Inside
      <3>4. label # "bom" /\ label # "start"
        BY <2>2
      <3> QED
        BY <3>1, <3>2, <3>3, <3>4, Zenon DEF Reading
    <2> QED
      BY <2>1, <2>2, Zenon
  <1> QED
    BY Invariance, RoundBegins, RoundKept, <1>1, PTL DEF Spec
=============================================================================
