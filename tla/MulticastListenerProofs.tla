---------------------- MODULE MulticastListenerProofs -----------------------
(***************************************************************************)
(* What MulticastListener promises of its sockets, its flag and what it    *)
(* reads, wherever its start fails and whatever is received.               *)
(*                                                                         *)
(* No promise is inductive alone: that the one open socket is the thread's *)
(* or that of the start in progress needs the flag to be up exactly from   *)
(* the moment the thread exists, and that nothing is handled twice needs   *)
(* to know where a datagram that was sent can be: on its way, in the       *)
(* buffer, ahead of its callback or past it, and nowhere else at once.     *)
(*                                                                         *)
(* That announcements are read needs to know of every datagram what the    *)
(* callback left of it, and of the decoders that they give back what a     *)
(* text spells: chunk by chunk of base64, digit by digit of a GUID.        *)
(***************************************************************************)
EXTENDS MulticastListener, SequenceTheorems, WellFoundedInduction, TLAPS

-----------------------------------------------------------------------------
(* A text of base64, cut into chunks of four characters, is read as the     *)
(* bytes it spells.                                                        *)

\* pos_of_char knows every character of either alphabet.
LEMMA Positions ==
    ASSUME NEW n \in 0..63, NEW url \in BOOLEAN, NEW c, c = base64_chars(url)[n]
    PROVE  pos_of_char(c) = n /\ c \notin {Equals, Dot} /\ n # Invalid
  <1>1. CASE n < 26
    <2>1. c = 65 + n
      BY <1>1 DEF base64_chars
    <2> QED
      BY <1>1, <2>1 DEF pos_of_char, IsUpper, IsLower, IsDigit, Equals, Dot, Invalid
  <1>2. CASE n \in 26..51
    <2>1. c = 97 + n - 26
      BY <1>2 DEF base64_chars
    <2> QED
      BY <1>2, <2>1 DEF pos_of_char, IsUpper, IsLower, IsDigit, Equals, Dot, Invalid
  <1>3. CASE n \in 52..61
    <2>1. c = 48 + n - 52
      BY <1>3 DEF base64_chars
    <2> QED
      BY <1>3, <2>1 DEF pos_of_char, IsUpper, IsLower, IsDigit, Equals, Dot, Invalid
  <1>4. CASE n \in {62, 63}
    <2>1. c \in (IF n = 62 THEN {43, 45} ELSE {47, 95})
      BY <1>4 DEF base64_chars
    <2> QED
      BY <1>4, <2>1 DEF pos_of_char, IsUpper, IsLower, IsDigit, Equals, Dot, Invalid
  <1> QED
    BY <1>1, <1>2, <1>3, <1>4

\* Three bytes as four times six bits and back.
First(p, q) == (p * 4 + q \div 16) % 256
Second(q, r) == (q % 16) * 16 + r \div 4
Third(r, s) == (r % 4) * 64 + s

Grouped(x, y, z, p, q, r, s) ==
    p = x \div 4 /\ q = (x % 4) * 16 + y \div 16 /\ r = (y % 16) * 4 + z \div 64 /\ s = z % 64
Ungrouped(x, y, z, p, q, r, s) ==
    /\ p \in 0..63 /\ q \in 0..63 /\ r \in 0..63 /\ s \in 0..63
    /\ First(p, q) = x /\ Second(q, r) = y /\ Third(r, s) = z

LEMMA Regrouped ==
    ASSUME NEW x \in 0..255, NEW y \in 0..255, NEW z \in 0..255,
           NEW p, NEW q, NEW r, NEW s, Grouped(x, y, z, p, q, r, s)
    PROVE  Ungrouped(x, y, z, p, q, r, s)
  <1> USE DEF Grouped
  <1>1. p \in 0..63 /\ q \in 0..63 /\ r \in 0..63 /\ s \in 0..63
    BY SMT
  <1>2. q \div 16 = x % 4
    BY SMT
  <1>3. p * 4 + q \div 16 = x
    BY <1>2, SMT
  <1>4. q % 16 = y \div 16 /\ r \div 4 = y % 16
    BY SMT
  <1>5. r % 4 = z \div 64
    BY SMT
  <1> QED
    BY <1>1, <1>3, <1>4, <1>5, SMT DEF Ungrouped, First, Second, Third

\* The k-th character of c has the position n; no k-th character counts.
Reads(c, k, n) == pos_of_char(c[k]) = n /\ c[k] \notin {Equals, Dot}
Stops(c, k) == Len(c) < k \/ c[k] \in {Equals, Dot}

\* A chunk by what its characters are: one, two and three bytes.
LEMMA TwoDecoded ==
    ASSUME NEW c, Len(c) \in 2..4, Stops(c, 3),
           NEW p \in 0..63, NEW q \in 0..63, Reads(c, 1, p), Reads(c, 2, q)
    PROVE  DecodedChunk(c) = <<First(p, q)>>
  <1>1. \A k \in 1..2 : pos_of_char(c[k]) # Invalid
    BY DEF Invalid, Reads
  <1> QED
    BY <1>1 DEF DecodedChunk, Stops, Reads, First

LEMMA ThreeDecoded ==
    ASSUME NEW c, Len(c) \in 3..4, Stops(c, 4),
           NEW p \in 0..63, NEW q \in 0..63, NEW r \in 0..63,
           Reads(c, 1, p), Reads(c, 2, q), Reads(c, 3, r)
    PROVE  DecodedChunk(c) = <<First(p, q), Second(q, r)>>
  <1>1. \A k \in 1..3 : pos_of_char(c[k]) # Invalid
    BY DEF Invalid, Reads
  <1>2. CASE Len(c) < 4
    BY <1>1, <1>2 DEF DecodedChunk, Reads, First, Second
  <1>3. CASE Len(c) = 4 /\ c[4] \in {Equals, Dot}
    BY <1>1, <1>3 DEF DecodedChunk, Reads, First, Second
  <1> QED
    BY <1>2, <1>3 DEF Stops

LEMMA FourDecoded ==
    ASSUME NEW c, Len(c) = 4,
           NEW p \in 0..63, NEW q \in 0..63, NEW r \in 0..63, NEW s \in 0..63,
           Reads(c, 1, p), Reads(c, 2, q), Reads(c, 3, r), Reads(c, 4, s)
    PROVE  DecodedChunk(c) = <<First(p, q), Second(q, r), Third(r, s)>>
  <1>1. \A k \in 1..4 : pos_of_char(c[k]) # Invalid
    BY DEF Invalid, Reads
  <1> QED
    BY <1>1 DEF DecodedChunk, Reads, First, Second, Third

\* The characters of a chunk spell its bytes.
LEMMA Character ==
    ASSUME NEW b, NEW c, SpellsChunk(c, b), Len(b) \in 1..3,
           NEW k \in 1..(Len(b) + 1), NEW n \in 0..63, Sextet(b, k) = n
    PROVE  Reads(c, k, n)
  <1>1. k \in 1..Len(c) /\ k <= Len(b) + 1
    BY DEF SpellsChunk
  <1>2. PICK url \in BOOLEAN : c[k] = base64_chars(url)[n]
    BY <1>1, Zenon DEF SpellsChunk
  <1> QED
    BY <1>1, <1>2, Positions, Zenon DEF Reads

\* What does not spell a byte ends the chunk.
LEMMA TheRest ==
    ASSUME NEW b, NEW c, SpellsChunk(c, b), Len(b) \in 1..3
    PROVE  Len(c) \in Len(b) + 1..4 /\ Stops(c, Len(b) + 2)
  BY DEF SpellsChunk, Stops

\* The six bits of b, and the bytes of c, by the bytes of b.
LEMMA SextetsOf ==
    ASSUME NEW b, Len(b) \in 1..3, NEW x, NEW y, NEW z, NEW p, NEW q, NEW r, NEW s,
           x = b[1], y = IF 2 <= Len(b) THEN b[2] ELSE 0, z = IF 3 <= Len(b) THEN b[3] ELSE 0,
           Grouped(x, y, z, p, q, r, s)
    PROVE  Sextet(b, 1) = p /\ Sextet(b, 2) = q /\ Sextet(b, 3) = r /\ Sextet(b, 4) = s
  BY DEF Sextet, Grouped

\* c spells n bytes whose six bits are p, q, r and s.
Spells(c, n, p, q, r, s) ==
    /\ Len(c) \in (n + 1)..4 /\ Stops(c, n + 2)
    /\ Reads(c, 1, p) /\ Reads(c, 2, q)
    /\ n >= 2 => Reads(c, 3, r)
    /\ n >= 3 => Reads(c, 4, s)

LEMMA CharactersOf ==
    ASSUME NEW b, NEW c, NEW n \in 1..3, Len(b) = n, SpellsChunk(c, b),
           NEW p \in 0..63, NEW q \in 0..63, NEW r \in 0..63, NEW s \in 0..63,
           Sextet(b, 1) = p, Sextet(b, 2) = q, Sextet(b, 3) = r, Sextet(b, 4) = s
    PROVE  Spells(c, n, p, q, r, s)
  <1>1. /\ 1 \in 1..(Len(b) + 1) /\ 2 \in 1..(Len(b) + 1)
        /\ (n >= 2 => 3 \in 1..(Len(b) + 1)) /\ (n >= 3 => 4 \in 1..(Len(b) + 1))
    OBVIOUS
  <1>2. Reads(c, 1, p) /\ Reads(c, 2, q)
    BY <1>1, Character, Zenon
  <1>3. n >= 2 => Reads(c, 3, r)
    BY <1>1, Character, Zenon
  <1>4. n >= 3 => Reads(c, 4, s)
    BY <1>1, Character, Zenon
  <1>5. Len(c) \in (n + 1)..4 /\ Stops(c, n + 2)
    BY TheRest, Zenon
  <1> QED
    BY <1>2, <1>3, <1>4, <1>5, Zenon DEF Spells

\* A chunk of characters is read as the bytes it spells.
LEMMA ChunkDecoded ==
    ASSUME NEW b \in Seq(0..255), NEW n \in 1..3, Len(b) = n, NEW c, SpellsChunk(c, b)
    PROVE  DecodedChunk(c) = b
  <1> PICK x, y, z : /\ x = b[1]
                     /\ y = IF 2 <= Len(b) THEN b[2] ELSE 0
                     /\ z = IF 3 <= Len(b) THEN b[3] ELSE 0
    OBVIOUS
  <1>1. x \in 0..255 /\ y \in 0..255 /\ z \in 0..255
    <2>1. \A k \in 1..n : b[k] \in 0..255
      BY ElementOfSeq
    <2>2. 1 \in 1..n /\ (2 <= n => 2 \in 1..n) /\ (3 <= n => 3 \in 1..n) /\ 0 \in 0..255
      OBVIOUS
    <2> QED
      BY <2>1, <2>2, Zenon
  <1>2. PICK p, q, r, s : Grouped(x, y, z, p, q, r, s)
    BY Zenon DEF Grouped
  <1>3. /\ p \in 0..63 /\ q \in 0..63 /\ r \in 0..63 /\ s \in 0..63
        /\ First(p, q) = x /\ Second(q, r) = y /\ Third(r, s) = z
    <2>1. Ungrouped(x, y, z, p, q, r, s)
      BY <1>1, <1>2, Regrouped, Zenon
    <2> QED
      BY <2>1, Zenon DEF Ungrouped
  <1>4. Sextet(b, 1) = p /\ Sextet(b, 2) = q /\ Sextet(b, 3) = r /\ Sextet(b, 4) = s
    BY <1>2, SextetsOf, Zenon
  <1>5. Spells(c, n, p, q, r, s)
    BY <1>3, <1>4, CharactersOf, Zenon
  <1>6. CASE n = 1
    <2>1. b = <<x>>
      BY <1>6
    <2>2. Len(c) \in 2..4 /\ Stops(c, 3)
      BY <1>5, <1>6 DEF Spells
    <2>3. DecodedChunk(c) = <<First(p, q)>>
      BY <1>3, <1>5, <2>2, TwoDecoded, Zenon DEF Spells
    <2> QED
      BY <1>3, <2>1, <2>3, Zenon
  <1>7. CASE n = 2
    <2>1. b = <<x, y>>
      BY <1>7
    <2>2. Len(c) \in 3..4 /\ n >= 2 /\ Stops(c, 4)
      BY <1>5, <1>7 DEF Spells
    <2>3. DecodedChunk(c) = <<First(p, q), Second(q, r)>>
      BY <1>3, <1>5, <2>2, ThreeDecoded, Zenon DEF Spells
    <2> QED
      BY <1>3, <2>1, <2>3, Zenon
  <1>8. CASE n = 3
    <2>1. b = <<x, y, z>>
      BY <1>8
    <2>2. Len(c) = 4 /\ n >= 2 /\ n >= 3
      BY <1>5, <1>8 DEF Spells
    <2>3. DecodedChunk(c) = <<First(p, q), Second(q, r), Third(r, s)>>
      BY <1>3, <1>5, <2>2, FourDecoded, Zenon DEF Spells
    <2> QED
      BY <1>3, <2>1, <2>3, Zenon
  <1> QED
    BY <1>6, <1>7, <1>8

\* What follows one another from zero on is all of Nat: the library's well-founded
\* order of Nat gives a first exception, and it has none.
Below == {ss \in Nat \X Nat : ss[1] < ss[2]}

LEMMA BelowWellFounded == IsWellFoundedOn(Below, Nat)
  <1>1. OpToRel(<, Nat) = Below
    BY DEF OpToRel, Below
  <1> QED
    BY <1>1, NatLessThanWellFounded, Zenon

LEMMA EveryNatural ==
    ASSUME NEW S \in SUBSET Nat, 0 \in S, \A n \in S : n + 1 \in S
    PROVE  S = Nat
  <1> SUFFICES ASSUME Nat \ S # {}
               PROVE  FALSE
    OBVIOUS
  <1>1. Nat \ S \subseteq Nat
    OBVIOUS
  <1>2. PICK x \in Nat \ S : \A y \in Nat \ S : <<y, x>> \notin Below
    BY <1>1, BelowWellFounded, WFMin
  <1>3. x - 1 \in Nat \ S
    OBVIOUS
  <1>4. <<x - 1, x>> \in Below
    BY <1>3 DEF Below
  <1> QED
    BY <1>2, <1>3, <1>4, Zenon

LEMMA Joined ==
    ASSUME NEW A, NEW s \in Seq(A), NEW k \in 0..Len(s), NEW m \in 0..Len(s), k <= m
    PROVE  SubSeq(s, 1, m) = SubSeq(s, 1, k) \o SubSeq(s, k + 1, m)
  OBVIOUS

\* A sequence of ever longer beginnings, by its recursive definition and place by place.
Grows(f, ps, n) == f = [i \in 1..n |-> IF i = 1 THEN ps[i] ELSE f[i - 1] \o ps[i]]
GrowsEach(f, ps, n) ==
    f[1] = ps[1] /\ \A i \in 1..n : i # 1 => f[i] = f[i - 1] \o ps[i]

LEMMA GrowsEachPlace ==
    ASSUME NEW n \in Nat, n # 0, NEW ps, NEW f, Grows(f, ps, n)
    PROVE  GrowsEach(f, ps, n)
  <1> DEFINE h == [i \in 1..n |-> IF i = 1 THEN ps[i] ELSE f[i - 1] \o ps[i]]
  <1>1. f = h
    BY Zenon DEF Grows
  <1>2. ASSUME NEW i \in 1..n
        PROVE  h[i] = IF i = 1 THEN ps[i] ELSE f[i - 1] \o ps[i]
    BY Zenon
  <1>3. 1 \in 1..n
    OBVIOUS
  <1> HIDE DEF h
  <1> QED
    BY <1>1, <1>2, <1>3, Zenon DEF GrowsEach

\* A sequence cut into pieces that end at the places in cut is what they make
\* when they are put together again.
LEMMA PutTogether ==
    ASSUME NEW A, NEW s \in Seq(A), NEW n \in Nat, NEW cut \in [0..n -> 0..Len(s)],
           cut[0] = 0, cut[n] = Len(s), \A i \in 1..n : cut[i - 1] <= cut[i],
           NEW ps, ps = [i \in 1..n |-> SubSeq(s, cut[i - 1] + 1, cut[i])]
    PROVE  FlattenSeq(ps) = s
  <1>1. Len(ps) = n
    OBVIOUS
  <1>2. CASE n = 0
    <2>1. Len(s) = 0
      BY <1>2
    <2>2. s = << >> /\ ps = << >>
      BY <1>2, <2>1
    <2> QED
      BY <1>1, <1>2, <2>2 DEF FlattenSeq
  <1>3. CASE n # 0
    <2> DEFINE Puts(f) == f = [i \in 1..n |-> IF i = 1 THEN ps[i] ELSE f[i - 1] \o ps[i]]
               whole == [i \in 1..n |-> SubSeq(s, 1, cut[i])]
    <2>1. \A i \in 1..n : i # 1 => SubSeq(s, 1, cut[i]) = SubSeq(s, 1, cut[i - 1]) \o ps[i]
      <3> SUFFICES ASSUME NEW i \in 1..n, i # 1
                   PROVE  SubSeq(s, 1, cut[i]) = SubSeq(s, 1, cut[i - 1]) \o ps[i]
        OBVIOUS
      <3>1. i - 1 \in 0..n /\ i \in 0..n
        OBVIOUS
      <3>2. PICK k \in 0..Len(s), m \in 0..Len(s) : k = cut[i - 1] /\ m = cut[i] /\ k <= m
        BY <3>1
      <3>3. SubSeq(s, 1, m) = SubSeq(s, 1, k) \o SubSeq(s, k + 1, m)
        BY <3>2, Joined, Zenon
      <3> QED
        BY <3>2, <3>3
    <2>2. SubSeq(s, 1, cut[1]) = ps[1]
      BY <1>3
    <2>3. Puts(whole)
      <3> DEFINE step == [i \in 1..n |-> IF i = 1 THEN ps[i] ELSE whole[i - 1] \o ps[i]]
      <3>1. ASSUME NEW i \in 1..n PROVE whole[i] = step[i]
        <4>1. i # 1 => i - 1 \in 1..n
          OBVIOUS
        <4> QED
          BY <2>1, <2>2, <4>1
      <3> QED
        BY <3>1
    <2> DEFINE g == CHOOSE f : Puts(f)
    <2>4. Puts(g)
      <3> HIDE DEF Puts
      <3> QED
        BY <2>3
    <2>5. FlattenSeq(ps) = g[n]
      BY <1>1, <1>3, Zenon DEF FlattenSeq
    <2>6. {i \in Nat : i + 1 \in 1..n => g[i + 1] = whole[i + 1]} = Nat
      <3> DEFINE S == {i \in Nat : i + 1 \in 1..n => g[i + 1] = whole[i + 1]}
      <3> HIDE DEF g, whole
      <3>1. g[1] = ps[1] /\ \A i \in 1..n : i # 1 => g[i] = g[i - 1] \o ps[i]
        <4>1. Grows(g, ps, n)
          BY <2>4, Zenon DEF Grows
        <4>2. GrowsEach(g, ps, n)
          BY <1>3, <4>1, GrowsEachPlace, Zenon
        <4> QED
          BY <4>2, Zenon DEF GrowsEach
      <3>2. whole[1] = ps[1] /\ \A i \in 1..n : i # 1 => whole[i] = whole[i - 1] \o ps[i]
        <4>1. Grows(whole, ps, n)
          BY <2>3, Zenon DEF Grows
        <4>2. GrowsEach(whole, ps, n)
          BY <1>3, <4>1, GrowsEachPlace, Zenon
        <4> QED
          BY <4>2, Zenon DEF GrowsEach
      <3>3. 0 \in S
        BY <3>1, <3>2
      <3>4. ASSUME NEW i \in S PROVE i + 1 \in S
        <4> SUFFICES ASSUME (i + 1) + 1 \in 1..n PROVE g[(i + 1) + 1] = whole[(i + 1) + 1]
          OBVIOUS
        <4> DEFINE j == (i + 1) + 1
        <4>1. j \in 1..n /\ j # 1 /\ j - 1 = i + 1 /\ i + 1 \in 1..n
          OBVIOUS
        <4>2. g[i + 1] = whole[i + 1]
          BY <4>1
        <4> HIDE DEF j, S
        <4>3. g[j] = whole[j]
          <5>1. g[j] = g[j - 1] \o ps[j] /\ whole[j] = whole[j - 1] \o ps[j]
            BY <3>1, <3>2, <4>1, Zenon
          <5>2. g[j - 1] = whole[j - 1]
            BY <4>1, <4>2, Zenon
          <5> QED
            BY <5>1, <5>2, Zenon
        <4> QED
          BY <4>3 DEF j
      <3> HIDE DEF S
      <3>5. S \in SUBSET Nat
        BY DEF S
      <3>6. S = Nat
        BY <3>3, <3>4, <3>5, EveryNatural, Zenon
      <3> QED
        BY <3>6, Zenon DEF S
    <2>7. g[n] = SubSeq(s, 1, cut[n])
      <3>1. n - 1 \in Nat /\ (n - 1) + 1 = n /\ n \in 1..n
        BY <1>3
      <3>2. g[n] = whole[n]
        <4> HIDE DEF g, whole
        <4>1. \A i \in Nat : i + 1 \in 1..n => g[i + 1] = whole[i + 1]
          BY <2>6
        <4> QED
          BY <3>1, <4>1
      <3> QED
        BY <3>1, <3>2
    <2>8. SubSeq(s, 1, Len(s)) = s
      BY SubSeqFull
    <2> HIDE DEF g
    <2> QED
      BY <2>5, <2>7, <2>8, Zenon
  <1> QED
    BY <1>2, <1>3

\* Where a sequence of L places ends its pieces of three.
Cut(L) == [i \in 0..(L + 2) \div 3 |-> IF 3 * i < L THEN 3 * i ELSE L]

LEMMA CutsAt ==
    ASSUME NEW L \in Nat, NEW n, n = (L + 2) \div 3
    PROVE  /\ n \in Nat
           /\ Cut(L) \in [0..n -> 0..L]
           /\ Cut(L)[0] = 0 /\ Cut(L)[n] = L
           /\ \A i \in 1..n : /\ Cut(L)[i - 1] = 3 * (i - 1)
                              /\ Cut(L)[i] = IF 3 * i < L THEN 3 * i ELSE L
                              /\ Cut(L)[i - 1] < Cut(L)[i]
                              /\ Cut(L)[i] <= Cut(L)[i - 1] + 3
  <1>1. n \in Nat /\ 3 * n >= L /\ 3 * (n - 1) < L
    OBVIOUS
  <1>2. \A i \in 0..n : Cut(L)[i] = IF 3 * i < L THEN 3 * i ELSE L
    BY DEF Cut
  <1>3. Cut(L) \in [0..n -> 0..L]
    BY <1>1 DEF Cut
  <1>4. Cut(L)[0] = 0 /\ Cut(L)[n] = L
    BY <1>1, <1>2
  <1>5. ASSUME NEW i \in 1..n
        PROVE  /\ Cut(L)[i - 1] = 3 * (i - 1)
               /\ Cut(L)[i] = IF 3 * i < L THEN 3 * i ELSE L
               /\ Cut(L)[i - 1] < Cut(L)[i]
               /\ Cut(L)[i] <= Cut(L)[i - 1] + 3
    <2>1. i \in Nat /\ i - 1 \in 0..n /\ i \in 0..n /\ 3 * (i - 1) < L
      BY <1>1
    <2>2. Cut(L)[i - 1] = IF 3 * (i - 1) < L THEN 3 * (i - 1) ELSE L
      BY <1>2, <2>1, Zenon
    <2>3. Cut(L)[i] = IF 3 * i < L THEN 3 * i ELSE L
      BY <1>2, <2>1, Zenon
    <2> QED
      BY <2>1, <2>2, <2>3
  <1> QED
    BY <1>1, <1>3, <1>4, <1>5

LEMMA PartOf ==
    ASSUME NEW A, NEW s \in Seq(A), NEW a \in Nat, NEW b \in Nat,
           b <= Len(s), a < b, b <= a + 3
    PROVE  SubSeq(s, a + 1, b) \in Seq(A) /\ Len(SubSeq(s, a + 1, b)) \in 1..3
  <1>1. a + 1 \in 1..Len(s) /\ b \in 1..Len(s) /\ a + 1 <= b /\ b - (a + 1) + 1 \in 1..3
    OBVIOUS
  <1>2. SubSeq(s, a + 1, b) \in Seq(A) /\ Len(SubSeq(s, a + 1, b)) = b - (a + 1) + 1
    BY <1>1, SubSeqProperties
  <1> QED
    BY <1>1, <1>2, Zenon

\* Cut into pieces of three, a sequence is put together again; every piece has
\* one to three members.
LEMMA PiecesTogether ==
    ASSUME NEW A, NEW s \in Seq(A)
    PROVE  /\ FlattenSeq(Pieces(s, 3)) = s
           /\ \A k \in DOMAIN Pieces(s, 3) : /\ Pieces(s, 3)[k] \in Seq(A)
                                             /\ Len(Pieces(s, 3)[k]) \in 1..3
  <1> DEFINE L == Len(s)
             n == (L + 2) \div 3
             cut == Cut(L)
             ps == [i \in 1..n |-> SubSeq(s, cut[i - 1] + 1, cut[i])]
  <1>1. L \in Nat
    OBVIOUS
  <1> HIDE DEF L
  <1>2. n \in Nat
        /\ cut \in [0..n -> 0..L]
        /\ cut[0] = 0 /\ cut[n] = L
        /\ \A i \in 1..n : /\ cut[i - 1] = 3 * (i - 1)
                           /\ cut[i] = IF 3 * i < L THEN 3 * i ELSE L
                           /\ cut[i - 1] < cut[i]
                           /\ cut[i] <= cut[i - 1] + 3
    BY <1>1, CutsAt
  <1>3. L + 3 - 1 = L + 2
    BY <1>1
  <1> HIDE DEF cut
  <1>4. Pieces(s, 3) = ps
    <2>1. Pieces(s, 3) = [k \in 1..n |-> SubSeq(s, 3 * (k - 1) + 1, IF 3 * k < L THEN 3 * k ELSE L)]
      BY <1>3, Zenon DEF Pieces, L
    <2>2. ASSUME NEW k \in 1..n
          PROVE  SubSeq(s, 3 * (k - 1) + 1, IF 3 * k < L THEN 3 * k ELSE L)
                    = SubSeq(s, cut[k - 1] + 1, cut[k])
      BY <1>2, Zenon
    <2> QED
      BY <2>1, <2>2, Zenon
  <1> HIDE DEF n
  <1>5. \A i \in 1..n : cut[i - 1] <= cut[i]
    <2> SUFFICES ASSUME NEW i \in 1..n PROVE cut[i - 1] <= cut[i]
      OBVIOUS
    <2>1. i - 1 \in 0..n /\ i \in 0..n
      BY <1>2
    <2> QED
      BY <1>1, <1>2, <2>1
  <1>6. FlattenSeq(ps) = s
    <2>1. ps = [i \in 1..n |-> SubSeq(s, cut[i - 1] + 1, cut[i])]
      OBVIOUS
    <2> HIDE DEF ps
    <2> QED
      BY <1>2, <1>5, <2>1, PutTogether, Zenon DEF L
  <1>7. ASSUME NEW k \in 1..n
        PROVE  ps[k] \in Seq(A) /\ Len(ps[k]) \in 1..3
    <2>1. k - 1 \in 0..n /\ k \in 0..n
      BY <1>2
    <2>2. PICK a \in 0..L, b \in 0..L : a = cut[k - 1] /\ b = cut[k] /\ a < b /\ b <= a + 3
      BY <1>2, <2>1
    <2>3. ps[k] = SubSeq(s, a + 1, b)
      BY <2>2
    <2>4. a \in Nat /\ b \in Nat /\ b <= Len(s) /\ a < b /\ b <= a + 3
      BY <1>1, <2>2 DEF L
    <2> HIDE DEF ps
    <2>5. SubSeq(s, a + 1, b) \in Seq(A) /\ Len(SubSeq(s, a + 1, b)) \in 1..3
      BY <2>4, PartOf, Zenon
    <2> QED
      BY <2>3, <2>5
  <1>8. DOMAIN ps = 1..n
    OBVIOUS
  <1> QED
    BY <1>4, <1>6, <1>7, <1>8, Zenon

\* base64_decode gives back the bytes a text spells.
LEMMA BytesDecoded ==
    ASSUME NEW bytes \in Seq(0..255), NEW text, SpellsBytes(text, bytes)
    PROVE  base64_decode(text) = {bytes}
  <1> DEFINE ps == Pieces(bytes, 3)
             cs == Pieces(text, 4)
             chunks == [k \in DOMAIN cs |-> DecodedChunk(cs[k])]
  <1>1. /\ FlattenSeq(ps) = bytes
        /\ \A k \in DOMAIN ps : ps[k] \in Seq(0..255) /\ Len(ps[k]) \in 1..3
    BY PiecesTogether, Zenon
  <1>2. DOMAIN cs = DOMAIN ps /\ \A k \in DOMAIN ps : SpellsChunk(cs[k], ps[k])
    BY Zenon DEF SpellsBytes
  <1>3. ASSUME NEW k \in DOMAIN ps
        PROVE  DecodedChunk(cs[k]) = ps[k]
    <2>1. PICK n \in 1..3 : n = Len(ps[k])
      BY <1>1, Zenon
    <2>2. ps[k] \in Seq(0..255) /\ SpellsChunk(cs[k], ps[k])
      BY <1>1, <1>2, Zenon
    <2> HIDE DEF ps, cs
    <2> QED
      BY <2>1, <2>2, ChunkDecoded, Zenon
  <1>4. ps = [k \in DOMAIN ps |-> ps[k]]
    BY Zenon DEF Pieces
  <1>5. chunks = ps
    <2> HIDE DEF ps, cs
    <2> QED
      BY <1>2, <1>3, <1>4, Zenon
  <1>6. << >> \notin Range(chunks)
    <2> HIDE DEF ps, cs, chunks
    <2>1. ASSUME NEW k \in DOMAIN ps PROVE ps[k] # << >>
      <3>0. Len(ps[k]) \in 1..3 /\ 0 \notin 1..3
        BY <1>1, SMT
      <3>1. Len(ps[k]) # 0
        BY <3>0, Zenon
      <3>2. Len(<< >>) = 0
        OBVIOUS
      <3> QED
        BY <3>1, <3>2, Zenon
    <2> QED
      BY <1>5, <2>1, Zenon DEF Range
  <1> HIDE DEF ps
  <1> QED
    BY <1>1, <1>5, <1>6, Zenon DEF base64_decode

\* Place j of the i-th four of places.
LEMMA FourPlaces ==
    ASSUME NEW n \in Nat, NEW i \in 1..n, NEW j \in 1..4, NEW t, t = 4 * (i - 1) + j
    PROVE  t \in 1..(4 * n) /\ (t + 3) \div 4 = i /\ ((t - 1) % 4) + 1 = j
  OBVIOUS

LEMMA PlaceOfFour ==
    ASSUME NEW n \in Nat, NEW i \in 1..(4 * n)
    PROVE  (i + 3) \div 4 \in 1..n /\ ((i - 1) % 4) + 1 \in 1..4
  OBVIOUS

LEMMA FourCuts ==
    ASSUME NEW n \in Nat
    PROVE  /\ 4 * n \in Nat /\ (4 * n + 4 - 1) \div 4 = n
           /\ [i \in 0..n |-> 4 * i] \in [0..n -> 0..(4 * n)]
           /\ \A i \in 1..n : /\ (IF 4 * i < 4 * n THEN 4 * i ELSE 4 * n) = 4 * i
                              /\ 4 * (i - 1) <= 4 * i
                              /\ 4 * (i - 1) \in Nat /\ i \in 0..n /\ i - 1 \in 0..n
                              /\ 4 * (i - 1) + 1 \in Int /\ 4 * i \in Int
                              /\ 4 * (i - 1) + 1 <= 4 * i
                              /\ 4 * i - (4 * (i - 1) + 1) + 1 = 4
  OBVIOUS

LEMMA FourShift ==
    ASSUME NEW i \in Nat, NEW j \in 1..4
    PROVE  4 * (i - 1) + 1 + j - 1 = 4 * (i - 1) + j
  OBVIOUS

LEMMA PlacesAreSequence ==
    ASSUME NEW A, NEW m \in Nat, NEW e \in [1..m -> A]
    PROVE  e \in Seq(A) /\ Len(e) = m
  OBVIOUS

Fours(cs, n, A) ==
    /\ DOMAIN cs = 1..n /\ cs = [i \in 1..n |-> cs[i]]
    /\ \A i \in 1..n : cs[i] \in Seq(A) /\ Len(cs[i]) = 4

\* Sequences of four, put together, fall apart into the same again.
LEMMA FoursApart ==
    ASSUME NEW A, NEW n \in Nat, NEW cs, Fours(cs, n, A)
    PROVE  Pieces(FlattenSeq(cs), 4) = cs
  <1> DEFINE e == [i \in 1..(4 * n) |-> cs[(i + 3) \div 4][((i - 1) % 4) + 1]]
             cut == [i \in 0..n |-> 4 * i]
             ps == [i \in 1..n |-> SubSeq(e, cut[i - 1] + 1, cut[i])]
  <1>0. /\ DOMAIN cs = 1..n /\ cs = [i \in 1..n |-> cs[i]]
        /\ \A i \in 1..n : cs[i] \in Seq(A) /\ Len(cs[i]) = 4
    BY Zenon DEF Fours
  <1>1. \A i \in 1..n : \A j \in 1..4 : cs[i][j] \in A
    <2> SUFFICES ASSUME NEW i \in 1..n, NEW j \in 1..4 PROVE cs[i][j] \in A
      OBVIOUS
    <2>1. PICK s \in Seq(A) : s = cs[i] /\ Len(s) = 4
      BY <1>0
    <2> QED
      BY <2>1, ElementOfSeq
  <1>2. \A i \in 1..(4 * n) : e[i] \in A
    <2> SUFFICES ASSUME NEW i \in 1..(4 * n) PROVE e[i] \in A
      OBVIOUS
    <2>1. e[i] = cs[(i + 3) \div 4][((i - 1) % 4) + 1]
      BY Zenon
    <2> HIDE DEF e
    <2> QED
      BY <1>1, <2>1, PlaceOfFour, Zenon
  <1>3. 4 * n \in Nat
    BY FourCuts
  <1>4. e \in Seq(A) /\ Len(e) = 4 * n
    <2>1. e \in [1..(4 * n) -> A]
      BY <1>2, Zenon
    <2> HIDE DEF e
    <2> QED
      BY <1>3, <2>1, PlacesAreSequence, Zenon
  <1>5. ASSUME NEW i \in 1..n, NEW j \in 1..4
        PROVE  e[4 * (i - 1) + j] = cs[i][j]
    <2>1. \A k \in 1..(4 * n) : e[k] = cs[(k + 3) \div 4][((k - 1) % 4) + 1]
      BY Zenon
    <2> HIDE DEF e
    <2>2. PICK t : t = 4 * (i - 1) + j
      BY Zenon
    <2>3. t \in 1..(4 * n) /\ (t + 3) \div 4 = i /\ ((t - 1) % 4) + 1 = j
      BY <2>2, FourPlaces
    <2>4. e[t] = cs[(t + 3) \div 4][((t - 1) % 4) + 1]
      BY <2>1, <2>3, Zenon
    <2> QED
      BY <2>2, <2>3, <2>4, Zenon
  <1>6. /\ cut \in [0..n -> 0..(4 * n)] /\ cut[0] = 0 /\ cut[n] = 4 * n
        /\ \A i \in 1..n : cut[i - 1] = 4 * (i - 1) /\ cut[i] = 4 * i /\ cut[i - 1] <= cut[i]
    <2>1. \A i \in 0..n : cut[i] = 4 * i
      BY Zenon
    <2>2. cut \in [0..n -> 0..(4 * n)]
      BY FourCuts, Zenon
    <2>3. 0 \in 0..n /\ n \in 0..n /\ 4 * 0 = 0
      OBVIOUS
    <2>4. cut[0] = 0 /\ cut[n] = 4 * n
      BY <2>1, <2>3, Zenon
    <2> HIDE DEF cut
    <2>5. ASSUME NEW i \in 1..n
          PROVE  cut[i - 1] = 4 * (i - 1) /\ cut[i] = 4 * i /\ cut[i - 1] <= cut[i]
      <3>1. i - 1 \in 0..n /\ i \in 0..n /\ 4 * (i - 1) <= 4 * i
        BY FourCuts, Zenon
      <3> QED
        BY <2>1, <3>1, Zenon
    <2> QED
      BY <2>2, <2>4, <2>5, Zenon
  <1> HIDE DEF e, cut
  <1>7. ASSUME NEW i \in 1..n
        PROVE  SubSeq(e, 4 * (i - 1) + 1, 4 * i) = cs[i]
    <2> DEFINE m == 4 * (i - 1) + 1
               k == 4 * i
    <2>1. m \in Int /\ k \in Int /\ m <= k /\ k - m + 1 = 4
      BY FourCuts, Zenon
    <2>2. \A j \in m..k : e[j] \in A
      <3>1. \A j \in m..k : j \in 1..(4 * n)
        OBVIOUS
      <3> QED
        BY <1>2, <3>1, Zenon
    <2>3. \A j \in 1..4 : m + j - 1 = 4 * (i - 1) + j
      BY FourShift
    <2> HIDE DEF m, k
    <2>4. /\ SubSeq(e, m, k) \in Seq(A) /\ Len(SubSeq(e, m, k)) = 4
          /\ \A j \in 1..4 : SubSeq(e, m, k)[j] = e[m + j - 1]
      <3>1. /\ SubSeq(e, m, k) \in Seq(A)
            /\ Len(SubSeq(e, m, k)) = IF m <= k THEN k - m + 1 ELSE 0
            /\ \A j \in 1..k - m + 1 : SubSeq(e, m, k)[j] = e[m + j - 1]
        BY <2>1, <2>2, SubSeqProperties
      <3> QED
        BY <2>1, <3>1, Zenon
    <2>5. \A j \in 1..4 : SubSeq(e, m, k)[j] = cs[i][j]
      BY <1>5, <2>3, <2>4, Zenon
    <2>6. SubSeq(e, m, k) = cs[i]
      <3>1. PICK s \in Seq(A), t \in Seq(A) : s = SubSeq(e, m, k) /\ t = cs[i]
        BY <1>0, <2>4, Zenon
      <3>2. Len(s) = Len(t) /\ \A j \in 1..Len(s) : s[j] = t[j]
        BY <1>0, <2>4, <2>5, <3>1, Zenon
      <3>3. s = t
        BY <3>2, SeqEqual, Zenon
      <3> QED
        BY <3>1, <3>3, Zenon
    <2> QED
      BY <2>6, Zenon DEF m, k
  <1>8. ps = cs
    <2>1. ASSUME NEW i \in 1..n PROVE SubSeq(e, cut[i - 1] + 1, cut[i]) = cs[i]
      BY <1>6, <1>7, Zenon
    <2> QED
      BY <1>0, <2>1, Zenon
  <1>9. FlattenSeq(cs) = e
    <2>1. ps = [i \in 1..n |-> SubSeq(e, cut[i - 1] + 1, cut[i])]
      OBVIOUS
    <2> HIDE DEF ps
    <2>2. /\ cut \in [0..n -> 0..Len(e)] /\ cut[n] = Len(e) /\ cut[0] = 0
          /\ \A i \in 1..n : cut[i - 1] <= cut[i]
      BY <1>4, <1>6, Zenon
    <2>3. FlattenSeq(ps) = e
      BY <1>4, <2>1, <2>2, PutTogether, Zenon
    <2> QED
      BY <1>8, <2>3, Zenon
  <1>10. Pieces(e, 4) = cs
    <2>1. Pieces(e, 4) = [i \in 1..n |-> SubSeq(e, 4 * (i - 1) + 1, IF 4 * i < 4 * n THEN 4 * i ELSE 4 * n)]
      <3>1. (4 * n + 4 - 1) \div 4 = n
        BY FourCuts, Zenon
      <3> QED
        BY <1>4, <3>1, Zenon DEF Pieces
    <2>2. ASSUME NEW i \in 1..n
          PROVE  SubSeq(e, 4 * (i - 1) + 1, IF 4 * i < 4 * n THEN 4 * i ELSE 4 * n) = cs[i]
      <3>1. (IF 4 * i < 4 * n THEN 4 * i ELSE 4 * n) = 4 * i
        BY FourCuts, Zenon
      <3> QED
        BY <1>7, <3>1, Zenon
    <2> QED
      BY <1>0, <2>1, <2>2, Zenon
  <1> QED
    BY <1>9, <1>10, Zenon

\* Six bits are six bits.
LEMMA SextetIn ==
    ASSUME NEW b \in Seq(0..255), NEW n \in 1..3, Len(b) = n, NEW k \in 1..4
    PROVE  Sextet(b, k) \in 0..63
  <1> PICK x, y, z : /\ x = b[1]
                     /\ y = IF 2 <= Len(b) THEN b[2] ELSE 0
                     /\ z = IF 3 <= Len(b) THEN b[3] ELSE 0
    OBVIOUS
  <1>1. x \in 0..255 /\ y \in 0..255 /\ z \in 0..255
    <2>1. \A j \in 1..n : b[j] \in 0..255
      BY ElementOfSeq
    <2>2. 1 \in 1..n /\ (2 <= n => 2 \in 1..n) /\ (3 <= n => 3 \in 1..n) /\ 0 \in 0..255
      OBVIOUS
    <2> QED
      BY <2>1, <2>2, Zenon
  <1>2. PICK p, q, r, s : Grouped(x, y, z, p, q, r, s)
    BY Zenon DEF Grouped
  <1>3. p \in 0..63 /\ q \in 0..63 /\ r \in 0..63 /\ s \in 0..63
    <2>1. Ungrouped(x, y, z, p, q, r, s)
      BY <1>1, <1>2, Regrouped, Zenon
    <2> QED
      BY <2>1, Zenon DEF Ungrouped
  <1>4. Sextet(b, 1) = p /\ Sextet(b, 2) = q /\ Sextet(b, 3) = r /\ Sextet(b, 4) = s
    BY <1>2, SextetsOf, Zenon
  <1>5. k = 1 \/ k = 2 \/ k = 3 \/ k = 4
    OBVIOUS
  <1> QED
    BY <1>3, <1>4, <1>5, Zenon

LEMMA CharacterIn ==
    ASSUME NEW url \in BOOLEAN, NEW n \in 0..63
    PROVE  base64_chars(url)[n] \in 0..127
  <1> PICK c : c = base64_chars(url)[n]
    OBVIOUS
  <1>1. CASE n < 26
    BY <1>1 DEF base64_chars
  <1>2. CASE n \in 26..51
    BY <1>2 DEF base64_chars
  <1>3. CASE n \in 52..61
    BY <1>3 DEF base64_chars
  <1>4. CASE n \in {62, 63}
    BY <1>4 DEF base64_chars
  <1> QED
    BY <1>1, <1>2, <1>3, <1>4

\* The encoder's chunk is four characters that spell its bytes.
LEMMA ChunkEncoded ==
    ASSUME NEW b \in Seq(0..255), NEW n \in 1..3, Len(b) = n, NEW url \in BOOLEAN
    PROVE  /\ EncodedChunk(b, url) \in Seq(0..127) /\ Len(EncodedChunk(b, url)) = 4
           /\ SpellsChunk(EncodedChunk(b, url), b)
  <1> DEFINE c == EncodedChunk(b, url)
  <1>1. \A k \in 1..4 : c[k] = IF k <= n + 1 THEN base64_chars(url)[Sextet(b, k)]
                               ELSE IF url THEN Dot ELSE Equals
    BY Zenon DEF EncodedChunk
  <1>2. \A j \in 0..63 : base64_chars(url)[j] \in 0..127
    BY CharacterIn
  <1>3. Dot \in 0..127 /\ Equals \in 0..127
    BY DEF Dot, Equals
  <1>4. \A k \in 1..4 : c[k] \in 0..127
    BY <1>1, <1>2, <1>3, SextetIn, Zenon
  <1>5. c = [k \in 1..4 |-> c[k]]
    BY Zenon DEF EncodedChunk
  <1> HIDE DEF c
  <1>6. c \in Seq(0..127) /\ Len(c) = 4
    <2>1. PICK m \in Nat : m = 4
      OBVIOUS
    <2>0. PICK A : A = 0..127
      BY Zenon
    <2>2. c \in [1..m -> A]
      BY <1>4, <1>5, <2>0, <2>1, Zenon
    <2> QED
      <3>1. c \in Seq(A) /\ Len(c) = m
        BY <2>2, PlacesAreSequence, Zenon
      <3> QED
        BY <2>0, <2>1, <3>1, Zenon
  <1>7. SpellsChunk(c, b)
    <2>1. Len(c) \in (Len(b) + 1)..4
      BY <1>6
    <2>2. ASSUME NEW k \in 1..Len(c)
          PROVE  IF k <= Len(b) + 1 THEN \E u \in BOOLEAN : c[k] = base64_chars(u)[Sextet(b, k)]
                 ELSE c[k] \in {Equals, Dot}
      <3>1. k \in 1..4
        BY <1>6, Zenon
      <3>2. CASE k <= n + 1
        BY <1>1, <3>1, <3>2, Zenon
      <3>3. CASE ~(k <= n + 1)
        BY <1>1, <3>1, <3>3, Zenon
      <3> QED
        BY <3>2, <3>3, Zenon
    <2> QED
      BY <2>1, <2>2, Zenon DEF SpellsChunk
  <1> QED
    BY <1>6, <1>7, Zenon DEF c

\* base64_encode spells its bytes, in either alphabet.
LEMMA EncodedSpells ==
    ASSUME NEW bytes \in Seq(0..255), NEW url \in BOOLEAN
    PROVE  SpellsBytes(base64_encode(bytes, url), bytes)
  <1> DEFINE ps == Pieces(bytes, 3)
             n == (Len(bytes) + 3 - 1) \div 3
             cs == [k \in DOMAIN ps |-> EncodedChunk(ps[k], url)]
  <1>1. \A k \in DOMAIN ps : ps[k] \in Seq(0..255) /\ Len(ps[k]) \in 1..3
    BY PiecesTogether, Zenon
  <1>2. n \in Nat
    OBVIOUS
  <1>3. DOMAIN ps = 1..n
    BY Zenon DEF Pieces
  <1> HIDE DEF ps, n
  <1>4. ASSUME NEW k \in 1..n
        PROVE  /\ EncodedChunk(ps[k], url) \in Seq(0..127) /\ Len(EncodedChunk(ps[k], url)) = 4
               /\ SpellsChunk(EncodedChunk(ps[k], url), ps[k])
    <2>1. PICK b \in Seq(0..255), m \in 1..3 : b = ps[k] /\ Len(b) = m
      BY <1>1, <1>3, Zenon
    <2> QED
      BY <2>1, ChunkEncoded, Zenon
  <1>5. DOMAIN cs = 1..n /\ \A k \in 1..n : cs[k] = EncodedChunk(ps[k], url)
    BY <1>3, Zenon
  <1>6. cs = [k \in 1..n |-> cs[k]]
    BY <1>3, Zenon
  <1>7. base64_encode(bytes, url) = FlattenSeq(cs)
    BY Zenon DEF base64_encode, ps
  <1> HIDE DEF cs
  <1>8. ASSUME NEW k \in 1..n
        PROVE  cs[k] \in Seq(0..127) /\ Len(cs[k]) = 4
    <2>1. cs[k] = EncodedChunk(ps[k], url)
      BY <1>5, Zenon
    <2>2. EncodedChunk(ps[k], url) \in Seq(0..127) /\ Len(EncodedChunk(ps[k], url)) = 4
      BY <1>4, Zenon
    <2> QED
      BY <2>1, <2>2
  <1>9. Pieces(FlattenSeq(cs), 4) = cs
    <2>1. Fours(cs, n, 0..127)
      BY <1>5, <1>6, <1>8, Zenon DEF Fours
    <2> QED
      BY <1>2, <2>1, FoursApart, Zenon
  <1>10. SpellsBytes(FlattenSeq(cs), bytes)
    BY <1>3, <1>4, <1>5, <1>9, Zenon DEF SpellsBytes, ps
  <1> QED
    BY <1>7, <1>10, Zenon

\* base64_decode gives back the bytes of every text that spells them, whichever
\* alphabet each of its characters is from and whether or not the last chunk is
\* padded; and what base64_encode makes is such a text.
THEOREM Base64GivesBack ==
    ASSUME NEW bytes \in Seq(0..255)
    PROVE  /\ \A text : SpellsBytes(text, bytes) => base64_decode(text) = {bytes}
           /\ \A url \in BOOLEAN : SpellsBytes(base64_encode(bytes, url), bytes)
  BY BytesDecoded, EncodedSpells, Zenon

-----------------------------------------------------------------------------
(* A GUID by its digits, and the packet by its members.                    *)

\* A hexadecimal digit, small or capital, is valid and has its value.
LEMMA DigitRead ==
    ASSUME NEW n \in 0..15, NEW c, SpellsDigit(c, n)
    PROVE  isValidHexChar(c) /\ hexDigitToChar(c) = n
  <1>1. CASE n < 10
    <2>1. c = 48 + n
      BY <1>1 DEF SpellsDigit, HexDigit
    <2>2. IsDigit(c)
      BY <1>1, <2>1 DEF IsDigit
    <2> QED
      BY <1>1, <2>1, <2>2 DEF isValidHexChar, hexDigitToChar, IsDigit
  <1>2. CASE n >= 10 /\ c = 87 + n
    BY <1>2 DEF isValidHexChar, hexDigitToChar, IsDigit
  <1>3. CASE n >= 10 /\ c = 55 + n
    BY <1>3 DEF isValidHexChar, hexDigitToChar, IsDigit
  <1> QED
    BY <1>1, <1>2, <1>3 DEF SpellsDigit, HexDigit

LEMMA HalvesOf ==
    ASSUME NEW b \in 0..255
    PROVE  b \div 16 \in 0..15 /\ b % 16 \in 0..15 /\ (b \div 16) * 16 + (b % 16) = b
  OBVIOUS

LEMMA OddOrEven ==
    ASSUME NEW k \in 1..32
    PROVE  \E h \in 1..16 : k = 2 * h - 1 \/ k = 2 * h
  <1>1. (k + 1) \div 2 \in 1..16
    OBVIOUS
  <1>2. k = 2 * ((k + 1) \div 2) - 1 \/ k = 2 * ((k + 1) \div 2)
    OBVIOUS
  <1> QED
    BY <1>1, <1>2, Zenon

\* xg::Guid gives back the GUID a text spells.
LEMMA GuidRead ==
    ASSUME NEW guid \in GUIDs, NEW text, SpellsGuid(text, guid)
    PROVE  Guid(text) = guid
  <1> DEFINE digits == WithoutHyphens(text)
  <1>1. /\ Len(digits) = 32
        /\ \A k \in 1..16 : /\ SpellsDigit(digits[2 * k - 1], guid[k] \div 16)
                            /\ SpellsDigit(digits[2 * k], guid[k] % 16)
    BY DEF SpellsGuid
  <1>2. \A k \in 1..16 : guid[k] \in 0..255
    BY DEF GUIDs
  <1> HIDE DEF digits
  <1>3. ASSUME NEW k \in 1..16
        PROVE  /\ isValidHexChar(digits[2 * k - 1]) /\ isValidHexChar(digits[2 * k])
               /\ hexPairToChar(digits[2 * k - 1], digits[2 * k]) = guid[k]
    <2>1. PICK b \in 0..255 : b = guid[k]
      BY <1>2
    <2>2. PICK h \in 0..15, l \in 0..15 : h = b \div 16 /\ l = b % 16 /\ h * 16 + l = b
      BY HalvesOf
    <2>3. SpellsDigit(digits[2 * k - 1], h) /\ SpellsDigit(digits[2 * k], l)
      BY <1>1, <2>1, <2>2, Zenon
    <2>4. /\ isValidHexChar(digits[2 * k - 1]) /\ hexDigitToChar(digits[2 * k - 1]) = h
          /\ isValidHexChar(digits[2 * k]) /\ hexDigitToChar(digits[2 * k]) = l
      BY <2>3, DigitRead, Zenon
    <2> QED
      BY <2>1, <2>2, <2>4, Zenon DEF hexPairToChar
  <1>4. \A k \in 1..32 : isValidHexChar(digits[k])
    BY <1>3, OddOrEven, Zenon
  <1>5. guid = [k \in 1..16 |-> guid[k]]
    BY DEF GUIDs
  <1>6. Guid(text) = [k \in 1..16 |-> hexPairToChar(digits[2 * k - 1], digits[2 * k])]
    BY <1>1, <1>4, Zenon DEF Guid, digits
  <1> QED
    BY <1>3, <1>5, <1>6, Zenon

\* FromJson reads a packet from what announces it.
LEMMA AnnouncedIsRead ==
    ASSUME NEW p \in [SenderId : GUIDs, Data : Seq(0..255), Action : 0..255],
           NEW doc, Announces(doc, p)
    PROVE  FromJson(doc) = {p}
  <1> DEFINE s == doc["SenderId"][2]
             b == doc["Data"][2]
  <1>1. /\ p.SenderId \in GUIDs /\ p.Data \in Seq(0..255) /\ p.Action \in 0..255
        /\ p = [SenderId |-> p.SenderId, Data |-> p.Data, Action |-> p.Action]
    OBVIOUS
  <1>2. /\ "SenderId" \in DOMAIN doc /\ "Data" \in DOMAIN doc /\ "Action" \in DOMAIN doc
        /\ doc["SenderId"][1] = "string" /\ SpellsGuid(s, p.SenderId)
        /\ doc["Data"][1] = "string" /\ SpellsBytes(b, p.Data)
        /\ doc["Action"] = <<"number", p.Action>>
    BY Zenon DEF Announces
  <1>3. get_string(at(doc, "SenderId")) = {s}
    BY <1>2, Zenon DEF get_string, at
  <1>4. get_string(at(doc, "Data")) = {b}
    BY <1>2, Zenon DEF get_string, at
  <1>5. get_int(at(doc, "Action")) = {p.Action}
    BY <1>2 DEF get_int, at
  <1>6. Guid(s) = p.SenderId
    BY <1>1, <1>2, GuidRead, Zenon
  <1>7. base64_decode(b) = {p.Data}
    BY <1>1, <1>2, BytesDecoded, Zenon
  <1>8. p.Action % 256 = p.Action
    <2>1. \A a \in 0..255 : a % 256 = a
      OBVIOUS
    <2> QED
      BY <1>1, <2>1, Zenon
  <1>9. UNION {base64_decode(x) : x \in get_string(at(doc, "Data"))} = {p.Data}
    <2> HIDE DEF b
    <2>1. UNION {base64_decode(x) : x \in {b}} = {p.Data}
      BY <1>7, Zenon
    <2> QED
      BY <1>4, <2>1
  <1> HIDE DEF s, b
  <1> DEFINE X == get_string(at(doc, "SenderId"))
             D == UNION {base64_decode(x) : x \in get_string(at(doc, "Data"))}
             N == get_int(at(doc, "Action"))
  <1>10. FromJson(doc) = {[SenderId |-> Guid(x), Data |-> d, Action |-> a % 256] :
                              x \in X, d \in D, a \in N}
    BY SMT DEF FromJson
  <1>11. FromJson(doc) = {[SenderId |-> p.SenderId, Data |-> p.Data, Action |-> p.Action]}
    <2>1. X = {s} /\ D = {p.Data} /\ N = {p.Action}
      BY <1>3, <1>5, <1>9, Zenon
    <2> HIDE DEF X, D, N
    <2> QED
      BY <1>6, <1>8, <1>10, <2>1
  <1> QED
    BY <1>1, <1>11, Zenon

\* It does not read the C++ program's own form.
LEMMA OwnFormIsRefused ==
    ASSUME NEW p
    PROVE  FromJson(ToJson(p)) = {}
  <1>1. at(ToJson(p), "Data") = {<<"array", p.Data>>}
    BY DEF at, ToJson
  <1>2. get_string({<<"array", p.Data>>}) = {}
    BY DEF get_string
  <1>3. UNION {base64_decode(x) : x \in get_string(at(ToJson(p), "Data"))} = {}
    BY <1>1, <1>2
  <1> DEFINE X == get_string(at(ToJson(p), "SenderId"))
             D == UNION {base64_decode(x) : x \in get_string(at(ToJson(p), "Data"))}
             N == get_int(at(ToJson(p), "Action"))
  <1>4. FromJson(ToJson(p)) = {[SenderId |-> Guid(x), Data |-> d, Action |-> a % 256] :
                                   x \in X, d \in D, a \in N}
    BY SMT DEF FromJson
  <1>5. D = {}
    BY <1>3, Zenon
  <1> HIDE DEF X, D, N
  <1> QED
    BY <1>4, <1>5

-----------------------------------------------------------------------------
(* The listener.                                                           *)

\* The flag and the thread say the same, and the main thread's place fits them.
Started ==
    /\ IsServerRunning <=> thread # 0
    /\ mainPc \in {"idle", "starting", "opened"} => ~IsServerRunning
    /\ mainPc = "started" => IsServerRunning
    /\ Buffer # Nothing => IsServerRunning

\* The one start subscribes once and holds the one socket.
Starting ==
    /\ listeners = IF mainPc = "idle" THEN 0 ELSE 1
    /\ mainPc = "opened" => sock = 1

\* A datagram that waits was sent, waits once and has not been handled.
Waiting ==
    /\ \A i, j \in DOMAIN inbox : inbox[i] = inbox[j] => i = j
    /\ \A i \in DOMAIN inbox :
          inbox[i] \in sent /\ handled[inbox[i]] = 0 /\ inbox[i] # Buffer

\* Each datagram is sent once and handled at most once.
Once ==
    /\ Waiting
    /\ mainPc \in {"idle", "starting", "opened", "started"} => Test \notin sent
    /\ next # 0
    /\ Buffer # Nothing => Buffer \in sent /\ (next = 1 => handled[Buffer] = 0)
    /\ \A d \in Datagrams : handled[d] \in {0, 1} /\ (handled[d] = 1 => d \in sent)

\* Of every datagram that was handled, what OnDataReceived made of it last.
ReadsLast ==
    \A d \in Datagrams :
        read[d] = IF handled[d] = 0 THEN {}
                  ELSE {p \in FromJson(Text(d)) : p.SenderId # SenderId}

IInv == TypeOK /\ NoSocketLeak /\ Started /\ Starting /\ Once /\ ReadsLast

LEMMA InitEstablishes == Init => IInv
  <1> SUFFICES ASSUME Init PROVE IInv
    OBVIOUS
  <1>1. TypeOK
    <2>1. inbox \in Seq(Datagrams)
      BY DEF Init
    <2>2. handled \in [Datagrams -> Nat] /\ read \in [Datagrams -> SUBSET Readable]
      BY DEF Init
    <2>3. {listeners, sock, thread} \subseteq 0..1 /\ open \subseteq {1} /\ next \in Nat
      BY DEF Init
    <2>4. /\ mainPc \in {"idle", "starting", "opened", "started", "sleep"}
          /\ IsServerRunning \in BOOLEAN
          /\ sent \subseteq Datagrams
          /\ payload \in [Datagrams \ (Large \cup {Test}) -> Payloads]
          /\ Buffer \in (Datagrams \ Large) \cup {Nothing}
      BY DEF Init
    <2> QED
      BY <2>1, <2>2, <2>3, <2>4 DEF TypeOK
  <1>2. NoSocketLeak /\ Started /\ Starting
    BY DEF Init, NoSocketLeak, Started, Starting
  <1>3. ReadsLast
    BY DEF Init, ReadsLast
  <1>4. Once
    <2>1. DOMAIN inbox = {}
      BY DEF Init
    <2> QED
      BY <2>1 DEF Init, Once, Waiting
  <1> QED
    BY <1>1, <1>2, <1>3, <1>4 DEF IInv

LEMMA ReadableKept ==
    ASSUME payload' = payload
    PROVE  Readable' = Readable
  BY DEF Readable, Text

\* The steps of the main thread keep the types.
LEMMA MainKeepsTypes ==
    ASSUME IInv,
           Subscribe \/ FailBeforeSocket \/ OpenSocket \/ FailWithSocket \/ Listen \/ SendTest
    PROVE  TypeOK'
  <1>0. Readable' = Readable
    BY ReadableKept DEF Subscribe, FailBeforeSocket, OpenSocket, FailWithSocket, Listen, SendTest
  <1> USE <1>0, DatagramAssumption DEF IInv, TypeOK
  <1>1. CASE Subscribe
    BY <1>1 DEF Subscribe, threadVars, Starting
  <1>2. CASE FailBeforeSocket
    BY <1>2 DEF FailBeforeSocket, threadVars
  <1>3. CASE OpenSocket
    BY <1>3 DEF OpenSocket, threadVars, Starting
  <1>4. CASE FailWithSocket
    BY <1>4 DEF FailWithSocket, threadVars
  <1>5. CASE Listen
    BY <1>5 DEF Listen, threadVars
  <1>6. CASE SendTest
    <2>1. Append(inbox, Test) \in Seq(Datagrams)
      BY AppendProperties
    <2> QED
      BY <1>6, <2>1 DEF SendTest, threadVars
  <1> QED
    BY <1>1, <1>2, <1>3, <1>4, <1>5, <1>6

\* So do those of the others and of the detached thread.
LEMMA GroupKeepsTypes ==
    ASSUME TypeOK, (\E d \in Datagrams : Announce(d)) \/ HandleListening
    PROVE  TypeOK'
  <1>0. Readable' = Readable
    BY ReadableKept DEF Announce, HandleListening, ReceiveUDPData, Invoke, InvokeReturns
  <1> USE <1>0, DatagramAssumption DEF TypeOK
  <1>1. ASSUME NEW d \in Datagrams, Announce(d)
        PROVE  TypeOK'
    <2>1. Append(inbox, d) \in Seq(Datagrams)
      BY AppendProperties
    <2>2. inbox' \in Seq(Datagrams)
      BY <1>1, <2>1 DEF Announce
    <2> QED
      BY <1>1, <2>2 DEF Announce, mainVars, threadVars
  <1>2. CASE ReceiveUDPData
    <2>1. inbox' \in Seq(Datagrams) /\ Head(inbox) \in Datagrams
      BY <1>2, HeadTailProperties DEF ReceiveUDPData
    <2> QED
      BY <1>2, <2>1 DEF ReceiveUDPData, mainVars
  <1>3. CASE Invoke
    <2>1. Buffer \in Datagrams \ Large
      BY <1>3 DEF Invoke
    <2>2. read' \in [Datagrams -> SUBSET Readable]
      <3> DEFINE mine == {p \in FromJson(Text(Buffer)) : p.SenderId # SenderId}
      <3>1. mine \in SUBSET Readable
        BY <2>1 DEF Readable
      <3>2. read' = [read EXCEPT ![Buffer] = mine]
        BY <1>3 DEF Invoke, OnDataReceived
      <3> HIDE DEF mine
      <3> QED
        BY <2>1, <3>1, <3>2
    <2>3. handled' \in [Datagrams -> Nat] /\ next' \in Nat
      BY <1>3, <2>1 DEF Invoke, OnDataReceived
    <2> QED
      BY <1>3, <2>2, <2>3 DEF Invoke, mainVars
  <1>4. CASE InvokeReturns
    BY <1>4 DEF InvokeReturns, mainVars
  <1> QED
    BY <1>1, <1>2, <1>3, <1>4 DEF HandleListening

\* Every step of the main thread keeps the sockets and the flag in step.
LEMMA MainKeepsSockets ==
    ASSUME IInv,
           Subscribe \/ FailBeforeSocket \/ OpenSocket \/ FailWithSocket \/ Listen \/ SendTest
    PROVE  (NoSocketLeak /\ Started /\ Starting)'
  <1> USE DEF IInv, TypeOK, NoSocketLeak, Started, Starting
  <1>1. CASE Subscribe
    BY <1>1 DEF Subscribe, threadVars
  <1>2. CASE FailBeforeSocket
    BY <1>2 DEF FailBeforeSocket, threadVars
  <1>3. CASE OpenSocket
    BY <1>3 DEF OpenSocket, threadVars
  <1>4. CASE FailWithSocket
    BY <1>4 DEF FailWithSocket, threadVars
  <1>5. CASE Listen
    BY <1>5 DEF Listen, threadVars
  <1>6. CASE SendTest
    BY <1>6 DEF SendTest, threadVars
  <1> QED
    BY <1>1, <1>2, <1>3, <1>4, <1>5, <1>6

\* What is sent and received touches none of them.
LEMMA GroupKeepsSockets ==
    ASSUME IInv, (\E d \in Datagrams : Announce(d)) \/ HandleListening
    PROVE  (NoSocketLeak /\ Started /\ Starting)'
  BY DEF IInv, NoSocketLeak, Started, Starting, Announce, HandleListening, ReceiveUDPData,
         Invoke, InvokeReturns, mainVars, threadVars

\* What is put in line behind datagrams that wait once waits once.
LEMMA JoinsTheLine ==
    ASSUME NEW A, NEW q \in Seq(A), NEW d \in A,
           \A i, j \in DOMAIN q : q[i] = q[j] => i = j,
           \A i \in DOMAIN q : q[i] # d
    PROVE  /\ \A i, j \in DOMAIN Append(q, d) : Append(q, d)[i] = Append(q, d)[j] => i = j
           /\ \A i \in DOMAIN Append(q, d) :
                 Append(q, d)[i] = d \/ \E k \in DOMAIN q : Append(q, d)[i] = q[k]
  <1>1. /\ DOMAIN q = 1..Len(q) /\ DOMAIN Append(q, d) = 1..(Len(q) + 1) /\ Len(q) \in Nat
        /\ Append(q, d)[Len(q) + 1] = d
        /\ \A i \in 1..Len(q) : Append(q, d)[i] = q[i]
    BY AppendProperties
  <1>2. \A i \in 1..(Len(q) + 1) : i = Len(q) + 1 \/ i \in 1..Len(q)
    BY <1>1
  <1> QED
    BY <1>1, <1>2, Zenon

\* Who leaves the line waits no longer.
LEMMA LeavesTheLine ==
    ASSUME NEW A, NEW q \in Seq(A), q # << >>,
           \A i, j \in DOMAIN q : q[i] = q[j] => i = j
    PROVE  /\ Head(q) \in A /\ \E k \in DOMAIN q : Head(q) = q[k]
           /\ \A i, j \in DOMAIN Tail(q) : Tail(q)[i] = Tail(q)[j] => i = j
           /\ \A i \in DOMAIN Tail(q) :
                 Tail(q)[i] # Head(q) /\ \E k \in DOMAIN q : Tail(q)[i] = q[k]
  <1>1. /\ Len(q) \in Nat \ {0} /\ DOMAIN q = 1..Len(q)
        /\ Head(q) = q[1] /\ Head(q) \in A
        /\ DOMAIN Tail(q) = 1..(Len(q) - 1)
        /\ \A i \in 1..(Len(q) - 1) : Tail(q)[i] = q[i + 1]
    BY HeadTailProperties, EmptySeq
  <1>2. 1 \in 1..Len(q) /\ \A i \in 1..(Len(q) - 1) : i + 1 \in 1..Len(q) /\ i + 1 # 1
    BY <1>1
  <1>3. \A i, j \in 1..(Len(q) - 1) : i + 1 = j + 1 => i = j
    BY <1>1
  <1>4. ASSUME NEW i \in DOMAIN Tail(q), NEW j \in DOMAIN Tail(q), Tail(q)[i] = Tail(q)[j]
        PROVE  i = j
    <2>1. i \in 1..(Len(q) - 1) /\ j \in 1..(Len(q) - 1) /\ q[i + 1] = q[j + 1]
      BY <1>1, <1>4
    <2>2. i + 1 \in DOMAIN q /\ j + 1 \in DOMAIN q
      BY <1>1, <1>2, <2>1
    <2> QED
      BY <1>3, <2>1, <2>2
  <1>5. ASSUME NEW i \in DOMAIN Tail(q)
        PROVE  Tail(q)[i] # Head(q) /\ \E k \in DOMAIN q : Tail(q)[i] = q[k]
    <2>1. i \in 1..(Len(q) - 1) /\ Tail(q)[i] = q[i + 1]
      BY <1>1, <1>5
    <2>2. i + 1 \in DOMAIN q /\ 1 \in DOMAIN q /\ i + 1 # 1
      BY <1>1, <1>2, <2>1
    <2> QED
      BY <1>1, <2>1, <2>2
  <1> QED
    BY <1>1, <1>2, <1>4, <1>5

\* A datagram is sent once, waits once and meets the one callback once.
LEMMA StepKeepsOnce ==
    ASSUME IInv, [Next]_vars
    PROVE  Once'
  <1>0. /\ inbox \in Seq(Datagrams) /\ handled \in [Datagrams -> Nat] /\ next \in Nat
        /\ sent \subseteq Datagrams /\ Buffer \in (Datagrams \ Large) \cup {Nothing}
        /\ Once /\ Waiting
        /\ Test \in Datagrams /\ Nothing \notin Datagrams
    BY DatagramAssumption DEF IInv, TypeOK, Once
  <1>1. CASE \/ Subscribe \/ FailBeforeSocket \/ OpenSocket \/ FailWithSocket \/ Listen
             \/ UNCHANGED vars
    <2>1. UNCHANGED <<sent, inbox, Buffer, next, handled>>
      BY <1>1 DEF Subscribe, FailBeforeSocket, OpenSocket, FailWithSocket, Listen, threadVars,
                  mainVars, vars
    <2>2. mainPc' \in {"idle", "starting", "opened", "started"} =>
             mainPc \in {"idle", "starting", "opened", "started"}
      BY <1>1 DEF Subscribe, FailBeforeSocket, OpenSocket, FailWithSocket, Listen, mainVars, vars
    <2> QED
      BY <1>0, <2>1, <2>2 DEF Once, Waiting
  <1>2. ASSUME NEW d \in Datagrams, d \notin sent, sent' = sent \cup {d},
               inbox' \in {inbox, Append(inbox, d)}, UNCHANGED threadVars,
               mainPc' # "sleep" => d # Test /\ mainPc' = mainPc
        PROVE  Once'
    <2>1. UNCHANGED <<Buffer, next, handled>>
      BY <1>2 DEF threadVars
    <2>2. handled[d] = 0 /\ d # Buffer
      BY <1>0, <1>2 DEF Once
    <2>3. \A i \in DOMAIN inbox : inbox[i] # d
      BY <1>0, <1>2 DEF Waiting
    <2>4. Waiting'
      <3>1. CASE inbox' = inbox
        BY <1>0, <1>2, <2>1, <3>1 DEF Waiting
      <3>2. CASE inbox' = Append(inbox, d)
        <4>1. /\ \A i, j \in DOMAIN inbox' : inbox'[i] = inbox'[j] => i = j
              /\ \A i \in DOMAIN inbox' :
                    inbox'[i] = d \/ \E k \in DOMAIN inbox : inbox'[i] = inbox[k]
          BY <1>0, <2>3, <3>2, JoinsTheLine DEF Waiting
        <4> QED
          BY <1>0, <1>2, <2>1, <2>2, <4>1 DEF Waiting
      <3> QED
        BY <1>2, <3>1, <3>2
    <2>5. mainPc' \in {"idle", "starting", "opened", "started"} => Test \notin sent'
      BY <1>0, <1>2 DEF Once
    <2> QED
      BY <1>0, <1>2, <2>1, <2>4, <2>5 DEF Once
  <1>3. CASE SendTest
    BY <1>0, <1>2, <1>3 DEF SendTest, Once
  <1>4. ASSUME NEW d \in Datagrams, Announce(d)
        PROVE  Once'
    BY <1>2, <1>4 DEF Announce, mainVars
  <1>5. CASE ReceiveUDPData
    <2>1. /\ \E k \in DOMAIN inbox : Head(inbox) = inbox[k]
          /\ \A i, j \in DOMAIN inbox' : inbox'[i] = inbox'[j] => i = j
          /\ \A i \in DOMAIN inbox' :
                inbox'[i] # Head(inbox) /\ \E k \in DOMAIN inbox : inbox'[i] = inbox[k]
      BY <1>0, <1>5, LeavesTheLine DEF ReceiveUDPData, Waiting
    <2>2. Buffer' \in {Nothing, Head(inbox)} /\ next' = 1
      BY <1>5 DEF ReceiveUDPData
    <2>3. UNCHANGED <<sent, handled, mainPc>>
      BY <1>5 DEF ReceiveUDPData, mainVars
    <2>4. Waiting'
      BY <1>0, <2>1, <2>2, <2>3 DEF Waiting
    <2> QED
      BY <1>0, <2>1, <2>2, <2>3, <2>4 DEF Once, Waiting
  <1>6. CASE Invoke
    <2>1. listeners \in {0, 1} /\ next = 1 /\ next' = 2
      BY <1>0, <1>6 DEF Invoke, IInv, TypeOK, Once
    <2>2. Buffer \in Datagrams /\ Buffer \in sent /\ handled[Buffer] = 0
      BY <1>0, <1>6, <2>1 DEF Invoke, Once
    <2>3. handled'[Buffer] = 1 /\ \A d \in Datagrams : d # Buffer => handled'[d] = handled[d]
      BY <1>0, <1>6, <2>2 DEF Invoke, OnDataReceived
    <2>4. UNCHANGED <<sent, inbox, Buffer, mainPc>>
      BY <1>6 DEF Invoke, mainVars
    <2>5. Waiting'
      BY <1>0, <2>3, <2>4 DEF Waiting
    <2> QED
      BY <1>0, <2>1, <2>2, <2>3, <2>4, <2>5 DEF Once
  <1>7. CASE InvokeReturns
    BY <1>0, <1>7 DEF InvokeReturns, mainVars, Once, Waiting
  <1> QED
    BY <1>1, <1>3, <1>4, <1>5, <1>6, <1>7 DEF Next, HandleListening

\* Every call of the callback sets what was read of its datagram.
LEMMA StepKeepsReads ==
    ASSUME IInv, [Next]_vars
    PROVE  ReadsLast'
  <1> DEFINE last(d) == {p \in FromJson(Text(d)) : p.SenderId # SenderId}
  <1>1. ReadsLast /\ read \in [Datagrams -> SUBSET Readable] /\ handled \in [Datagrams -> Nat]
    BY DEF IInv, TypeOK
  <1>2. CASE Invoke
    <2>1. Buffer \in Datagrams /\ payload' = payload
      BY <1>2 DEF Invoke, IInv, TypeOK
    <2>2. /\ handled' = [handled EXCEPT ![Buffer] = @ + 1]
          /\ read' = [read EXCEPT ![Buffer] = last(Buffer)]
      BY <1>2, Zenon DEF Invoke, OnDataReceived
    <2>3. \A d \in Datagrams : last(d)' = last(d)
      BY <2>1 DEF Text
    <2> HIDE DEF last
    <2>4. ASSUME NEW d \in Datagrams
          PROVE  read'[d] = IF handled'[d] = 0 THEN {} ELSE last(d)'
      <3>1. read[d] = IF handled[d] = 0 THEN {} ELSE last(d)
        BY <1>1, Zenon DEF ReadsLast, last
      <3>2. CASE d = Buffer
        <4>1. handled'[d] = handled[d] + 1 /\ handled[d] \in Nat
          BY <1>1, <2>2, <3>2
        <4>2. handled'[d] # 0
          BY <4>1
        <4>3. read'[d] = last(d)
          BY <1>1, <2>2, <3>2, Zenon
        <4> QED
          BY <2>3, <4>2, <4>3, Zenon
      <3>3. CASE d # Buffer
        <4>1. handled'[d] = handled[d] /\ read'[d] = read[d]
          BY <1>1, <2>2, <3>3, Zenon
        <4> QED
          BY <2>3, <3>1, <4>1, Zenon
      <3> QED
        BY <3>2, <3>3
    <2> QED
      BY <2>4, Zenon DEF ReadsLast, last
  <1>3. CASE UNCHANGED <<handled, read, payload>>
    BY <1>1, <1>3 DEF ReadsLast, Text
  <1>4. Invoke \/ UNCHANGED <<handled, read, payload>>
    BY DEF Next, Subscribe, FailBeforeSocket, OpenSocket, FailWithSocket, Listen, SendTest,
           Announce, HandleListening, ReceiveUDPData, InvokeReturns, vars, threadVars
  <1> QED
    BY <1>2, <1>3, <1>4

LEMMA StepPreserves == IInv /\ [Next]_vars => IInv'
  <1> SUFFICES ASSUME IInv, [Next]_vars PROVE IInv'
    OBVIOUS
  <1>0. Once' /\ ReadsLast'
    BY StepKeepsOnce, StepKeepsReads
  <1>1. CASE Subscribe \/ FailBeforeSocket \/ OpenSocket \/ FailWithSocket \/ Listen \/ SendTest
    <2>1. TypeOK'
      BY <1>1, MainKeepsTypes
    <2>2. (NoSocketLeak /\ Started /\ Starting)'
      BY <1>1, MainKeepsSockets
    <2> QED
      BY <1>0, <2>1, <2>2 DEF IInv
  <1>2. CASE (\E d \in Datagrams : Announce(d)) \/ HandleListening
    <2>1. TypeOK'
      BY <1>2, GroupKeepsTypes DEF IInv
    <2>2. (NoSocketLeak /\ Started /\ Starting)'
      BY <1>2, GroupKeepsSockets
    <2> QED
      BY <1>0, <2>1, <2>2 DEF IInv
  <1>3. CASE UNCHANGED vars
    BY <1>0, <1>3, ReadableKept DEF IInv, TypeOK, NoSocketLeak, Started, Starting, vars, mainVars, threadVars
  <1> QED
    BY <1>1, <1>2, <1>3 DEF Next

\* The inductive invariant holds of every behaviour of the C++ program.
THEOREM Invariance == Spec => []IInv
  BY InitEstablishes, StepPreserves, PTL DEF Spec

\* Every variable of the C++ program keeps its type: what OnDataReceived has read of
\* a datagram is a packet FromJson makes of some datagram that fits the buffer.
THEOREM TypeCorrect == Spec => []TypeOK
  <1>1. IInv => TypeOK
    BY DEF IInv
  <1> QED
    BY <1>1, Invariance, PTL

\* UDPServer::StartMulticastServer closes the socket it gives up, wherever it fails,
\* and SendTo goes through the thread's socket.
THEOREM NoSocketLeaks == Spec => []NoSocketLeak
  <1>1. IInv => NoSocketLeak
    BY DEF IInv
  <1> QED
    BY <1>1, Invariance, PTL

\* Event::Invoke calls OnDataReceived at most once with a datagram, and only with one
\* that was sent, however many are sent and in whatever order they are received.
THEOREM NothingHandledTwice ==
    Spec => [](\A d \in Datagrams : handled[d] \in {0, 1} /\ (handled[d] = 1 => d \in sent))
  <1>1. IInv => \A d \in Datagrams : handled[d] \in {0, 1} /\ (handled[d] = 1 => d \in sent)
    BY DEF IInv, Once
  <1> QED
    BY <1>1, Invariance, PTL

\* Whatever announces a packet, in whichever alphabet and however filled up its data,
\* small or capital its GUID, OnDataReceived reads that packet of it, for every packet
\* and every document; and it reads none of what the C++ program's own ToJson writes.
THEOREM AnnouncementsAreRead == Spec => []AnnouncementsRead
  <1>1. ASSUME IInv, NEW d \in DOMAIN payload
        PROVE  /\ handled[d] = 0 => read[d] = {}
               /\ handled[d] \in Nat
               /\ handled[d] # 0 => read[d] = {p \in FromJson(payload[d]) : p.SenderId # SenderId}
    <2>1. d \in Datagrams /\ Text(d) = payload[d] /\ handled[d] \in Nat
      BY <1>1 DEF IInv, TypeOK, Text
    <2>2. read[d] = IF handled[d] = 0 THEN {}
                    ELSE {p \in FromJson(payload[d]) : p.SenderId # SenderId}
      BY <1>1, <2>1, Zenon DEF IInv, ReadsLast
    <2> QED
      BY <2>1, <2>2, Zenon
  <1>2. IInv => AnnouncementsRead
    <2> SUFFICES ASSUME IInv, NEW d \in DOMAIN payload, NEW p \in Packets
                 PROVE  /\ handled[d] = 0 => read[d] = {}
                        /\ handled[d] > 0 /\ Announces(payload[d], p) =>
                              read[d] = {q \in {p} : q.SenderId # SenderId}
                        /\ payload[d] = ToJson(p) => read[d] = {}
      BY <1>1, Zenon DEF AnnouncementsRead
    <2>1. p \in [SenderId : GUIDs, Data : Seq(0..255), Action : 0..255]
      BY PacketsAssumption
    <2>2. ASSUME handled[d] > 0, Announces(payload[d], p)
          PROVE  read[d] = {q \in {p} : q.SenderId # SenderId}
      <3>1. handled[d] # 0
        BY <1>1, <2>2
      <3>2. FromJson(payload[d]) = {p}
        BY <2>1, <2>2, AnnouncedIsRead, Zenon
      <3> QED
        BY <1>1, <3>1, <3>2, Zenon
    <2>3. ASSUME payload[d] = ToJson(p)
          PROVE  read[d] = {}
      <3>1. FromJson(payload[d]) = {}
        BY <2>3, OwnFormIsRefused, Zenon
      <3>2. {q \in FromJson(payload[d]) : q.SenderId # SenderId} = {}
        BY <3>1, Zenon
      <3> QED
        BY <1>1, <3>2, Zenon
    <2> QED
      BY <1>1, <2>2, <2>3, Zenon
  <1> QED
    BY <1>2, Invariance, PTL
=============================================================================
