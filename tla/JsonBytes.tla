------------------------------ MODULE JsonBytes ------------------------------
(***************************************************************************)
(* Numbers as json.hpp stores and converts them: an integer is its eight   *)
(* bytes, the highest first, in two's complement, so that no width is      *)
(* scaled; a number_float_t is the eight bytes of an IEEE 754 double.      *)
(***************************************************************************)
EXTENDS Integers, SequencesExt

Fill(n, b) == [k \in 1..n |-> b]
Low(bs, n) == SubSeq(bs, Len(bs) - n + 1, Len(bs))

\* The conversions to a wider type, and the numbers that a narrow one holds.
ZeroExtend(bs) == Fill(8 - Len(bs), 0) \o bs
SignExtend(bs) == Fill(8 - Len(bs), IF bs[1] >= 128 THEN 255 ELSE 0) \o bs
FitsUnsigned(x, n) == ZeroExtend(Low(x, n)) = x
FitsSigned(x, n) == SignExtend(Low(x, n)) = x
Negative(x) == x[1] >= 128

\* The smallest of the types of 1, 2, 4 and 8 bytes that holds a number.
Log == 1 :> 0 @@ 2 :> 1 @@ 4 :> 2 @@ 8 :> 3
Least(x, Fits(_, _)) == CHOOSE n \in DOMAIN Log : Fits(x, n) /\ \A m \in DOMAIN Log : Fits(x, m) => n <= m

\* -1 - x
Complement(x) == [k \in DOMAIN x |-> 255 - x[k]]

\* A natural number as eight bytes, and back: more than Many is Many, which no
\* input is as long as.
Many == 2^24
Bytes(n) == ZeroExtend(<<n \div 65536, (n \div 256) % 256, n % 256>>)
Natural(bs) == IF \E k \in 1..(Len(bs) - 3) : bs[k] # 0 THEN Many
               ELSE FoldLeft(LAMBDA n, b : 256 * n + b, 0, bs)

\* The decimal digits of an unsigned number, by long division, and back.
Quotient(x) ==
    FoldLeft(LAMBDA a, b : [q |-> Append(a.q, (256 * a.r + b) \div 10), r |-> (256 * a.r + b) % 10],
             [q |-> << >>, r |-> 0], x)
RECURSIVE Decimal(_)
Decimal(x) == IF FitsUnsigned(x, 1) /\ x[8] < 10 THEN <<48 + x[8]>>
              ELSE Append(Decimal(Quotient(x).q), 48 + Quotient(x).r)

\* f * x + y modulo 2^64, with what does not fit as carry; f is at most 255.
MulAdd(f, x, y) ==
    FoldRight(LAMBDA k, a : [x |-> <<(f * x[k] + y[k] + a.carry) % 256>> \o a.x,
                             carry |-> (f * x[k] + y[k] + a.carry) \div 256],
              [k \in 1..8 |-> k], [x |-> << >>, carry |-> 0])
Times(x, y) == FoldLeft(LAMBDA a, b : MulAdd(b, x, Tail(a) \o <<0>>).x, Fill(8, 0), y)
Negated(x) == MulAdd(1, Complement(x), Bytes(1)).x

\* The number that decimal digits denote.
FromDecimal(ds) ==
    FoldLeft(LAMBDA a, d : LET next == MulAdd(10, a.x, Bytes(d - 48))
                           IN [x |-> next.x, fits |-> a.fits /\ next.carry = 0],
             [x |-> Fill(8, 0), fits |-> TRUE], ds)

\* The double with a sign, a biased exponent and the upper 23 bits of the fraction.
Double(sign, e, f) ==
    <<128 * sign + e \div 16, 16 * (e % 16) + f \div 2^19, (f \div 2^11) % 256, (f \div 8) % 256,
      32 * (f % 8), 0, 0, 0>>

\* A float of n fraction bits, whose exponent is biased by bias: the numbers below
\* 2^(1 - bias) have no leading one.
Widen(sign, e, f, n, bias, last) ==
    CASE e = last -> Double(sign, 2047, f * 2^(23 - n))
      [] e = 0 /\ f = 0 -> Double(sign, 0, 0)
      [] e = 0 /\ f # 0 ->
            LET k == CHOOSE j \in 0..(n - 1) : 2^j <= f /\ f < 2^(j + 1)
            IN Double(sign, 1024 - bias + k - n, (f - 2^k) * 2^(23 - k))
      [] OTHER -> Double(sign, e + 1023 - bias, f * 2^(23 - n))

\* A single-precision float as a double, and the singles that a double can be.
Single(bs) == Widen(bs[1] \div 128, 2 * (bs[1] % 128) + bs[2] \div 128,
                    65536 * (bs[2] % 128) + 256 * bs[3] + bs[4], 23, 127, 255)
FloatExponent(d) == 16 * (d[1] % 128) + d[2] \div 16
Fraction(d) == (d[2] % 16) * 2^19 + d[3] * 2^11 + d[4] * 8 + d[5] \div 32
NarrowBytes(d) ==
    LET e == IF FloatExponent(d) = 0 THEN 0 ELSE FloatExponent(d) - 896
        f == Fraction(d)
    IN <<128 * (d[1] \div 128) + e \div 2, 128 * (e % 2) + f \div 65536, (f \div 256) % 256, f % 256>>

IsNaN(d) == FloatExponent(d) = 2047 /\ (d[2] % 16 # 0 \/ \E k \in 3..8 : d[k] # 0)
IsInf(d) == FloatExponent(d) = 2047 /\ ~IsNaN(d)

\* The conversion to float and back gives the same number; normal numbers and zeros.
IsSingle(d) ==
    /\ FloatExponent(d) \in 897..1150 \/ \A k \in 2..8 : d[k] = 0 /\ FloatExponent(d) = 0
    /\ d[5] % 32 = 0 /\ d[6] = 0 /\ d[7] = 0 /\ d[8] = 0

\* A half-precision float, by the formula of RFC 7049.
Half(b1, b2) ==
    LET e == (b1 \div 4) % 32
        f == 256 * (b1 % 4) + b2
    IN IF e = 31 /\ f # 0 THEN Double(b1 \div 128, 2047, 2^22) \* quiet_NaN()
       ELSE Widen(b1 \div 128, e, f, 10, 15, 31)
=============================================================================
