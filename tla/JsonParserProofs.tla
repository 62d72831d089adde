-------------------------- MODULE JsonParserProofs --------------------------
(***************************************************************************)
(* The parser of json.hpp and the two handlers that build a document, for  *)
(* texts of any length and any depth, and dump().                          *)
(*                                                                         *)
(* A handler trusts the parser: it dereferences the last of ref_stack, and *)
(* what end_array removes, without a test.  The proof keeps what makes that*)
(* right: Refs says that each pointer leads to the container that is open  *)
(* at its depth and to nothing but the last element of an array, Ready that*)
(* there is a member for the value of a key, and Kinds how the states and  *)
(* the label remember which containers are open.  What a change of the     *)
(* document does to the pointers into it follows from At and Put, which go *)
(* along a path one step at a time (Walks).                                *)
(*                                                                         *)
(* dump() doubles indent_string at most once before it writes from it.     *)
(* Once is enough: a container's indentation fits before its elements ask  *)
(* for IndentStep characters more, and IndentStep is no longer than the    *)
(* string it begins with.                                                  *)
(***************************************************************************)
EXTENDS JsonParser, JsonDump, SequenceTheorems, FiniteSetTheorems, WellFoundedInduction, TLAPS

\* A set of numbers with 0 that goes on has all of them.
LEMMA EveryNatural ==
  ASSUME NEW S \in SUBSET Nat, 0 \in S, \A n \in S : n + 1 \in S
  PROVE  S = Nat
<1> DEFINE Lesser == {ss \in Nat \X Nat : ss[1] < ss[2]}
<1>1. IsWellFoundedOn(Lesser, Nat)
  <2>1. OpToRel(<, Nat) = Lesser
    BY DEF OpToRel
  <2> QED
    BY <2>1, NatLessThanWellFounded, Zenon
<1> SUFFICES ASSUME Nat \ S # {}
             PROVE  FALSE
  OBVIOUS
<1>2. Nat \ S \subseteq Nat
  OBVIOUS
<1>3. PICK x \in Nat \ S : \A y \in Nat \ S : <<y, x>> \notin Lesser
  <2> HIDE DEF Lesser
  <2> QED
    BY <1>1, <1>2, WFMin
<1>4. x - 1 \in Nat \ S
  OBVIOUS
<1>5. <<x - 1, x>> \in Lesser
  BY <1>4
<1> HIDE DEF Lesser
<1> QED
  BY <1>3, <1>4, <1>5, Zenon

-----------------------------------------------------------------------------
(* At, Put and Opened by the last step.                                    *)

\* The three recursive definitions of the parser go from one value to the next along a
\* sequence: down a path, up a path, through the tokens.
Along(x, a) ==
    CASE a[1] = "down" -> Child(x, a[2])
      [] a[1] = "up" -> Changed(a[2], a[3], x)
      [] a[1] = "token" -> Bracket(x, a[2])

\* f is what such a definition makes of the first n arguments in s, from v.
Walks(v, s, n, f) ==
    f = [k \in 0..n |-> IF k = 0 THEN v ELSE Along(f[k - 1], s[k])]

\* What each of the first n arguments does.
LEMMA WalkSteps ==
  ASSUME NEW v, NEW s, NEW n \in Nat, NEW f, Walks(v, s, n, f)
  PROVE  f[0] = v /\ \A k \in 1..n : f[k] = Along(f[k - 1], s[k])
<1> DEFINE h == [k \in 0..n |-> IF k = 0 THEN v ELSE Along(f[k - 1], s[k])]
<1>1. f = h
  BY Zenon DEF Walks
<1>2. \A k \in 0..n : h[k] = IF k = 0 THEN v ELSE Along(f[k - 1], s[k])
  BY Zenon
<1>3. 0 \in 0..n /\ \A k \in 1..n : k \in 0..n /\ k # 0
  OBVIOUS
<1> HIDE DEF h
<1> QED
  BY <1>1, <1>2, <1>3, Zenon

\* A recursive definition of this form has a value for every sequence.
LEMMA WalkExists ==
  ASSUME NEW v, NEW s, NEW n \in Nat
  PROVE  \E f : Walks(v, s, n, f)
<1> DEFINE S == {k \in Nat : \E f : Walks(v, s, k, f)}
<1>1. 0 \in S
  <2> DEFINE f == [k \in 0..0 |-> v]
  <2>1. f = [k \in 0..0 |-> IF k = 0 THEN v ELSE Along(f[k - 1], s[k])]
    OBVIOUS
  <2>2. Walks(v, s, 0, f)
    BY <2>1, Zenon DEF Walks
  <2> QED
    BY <2>2
<1>2. ASSUME NEW k \in S PROVE k + 1 \in S
  <2>1. PICK f : Walks(v, s, k, f)
    OBVIOUS
  <2> DEFINE more == [m \in 0..(k + 1) |-> IF m = k + 1 THEN Along(f[k], s[k + 1]) ELSE f[m]]
             step == [m \in 0..(k + 1) |-> IF m = 0 THEN v ELSE Along(more[m - 1], s[m])]
  <2>2. f[0] = v /\ \A m \in 1..k : f[m] = Along(f[m - 1], s[m])
    BY <2>1, WalkSteps
  <2>3. ASSUME NEW m \in 0..(k + 1) PROVE more[m] = step[m]
    <3>1. CASE m = 0
      BY <3>1, <2>2
    <3>2. CASE m = k + 1
      BY <3>2
    <3>3. CASE m \in 1..k
      <4>1. more[m] = f[m] /\ more[m - 1] = f[m - 1]
        BY <3>3
      <4> QED
        BY <3>3, <4>1, <2>2
    <3> QED
      BY <3>1, <3>2, <3>3
  <2>4. more = step
    <3>1. DOMAIN more = 0..(k + 1) /\ DOMAIN step = 0..(k + 1)
      OBVIOUS
    <3> QED
      BY <2>3
  <2>5. Walks(v, s, k + 1, more)
    BY <2>4, Zenon DEF Walks
  <2> QED
    BY <2>5
<1> HIDE DEF S
<1>3. S \in SUBSET Nat
  BY DEF S
<1>4. S = Nat
  BY <1>1, <1>2, <1>3, EveryNatural, Zenon
<1> QED
  BY <1>4 DEF S

\* Two sequences that begin alike lead to the same place.
LEMMA WalksAgree ==
  ASSUME NEW v, NEW p, NEW q, NEW m \in Nat, NEW n \in Nat, NEW f, NEW g,
         Walks(v, p, m, f), Walks(v, q, n, g), n <= m, \A k \in 1..n : p[k] = q[k]
  PROVE  f[n] = g[n]
<1> DEFINE S == {k \in Nat : k <= n => f[k] = g[k]}
<1>1. f[0] = v /\ \A k \in 1..m : f[k] = Along(f[k - 1], p[k])
  BY WalkSteps
<1>2. g[0] = v /\ \A k \in 1..n : g[k] = Along(g[k - 1], q[k])
  BY WalkSteps
<1>3. 0 \in S
  BY <1>1, <1>2
<1>4. ASSUME NEW k \in S PROVE k + 1 \in S
  <2> SUFFICES ASSUME k + 1 <= n PROVE f[k + 1] = g[k + 1]
    OBVIOUS
  <2>1. k + 1 \in 1..m /\ k + 1 \in 1..n /\ (k + 1) - 1 = k /\ f[k] = g[k]
    OBVIOUS
  <2>2. f[k + 1] = Along(f[(k + 1) - 1], p[k + 1]) /\ g[k + 1] = Along(g[(k + 1) - 1], q[k + 1])
    BY <1>1, <1>2, <2>1
  <2> QED
    BY <2>1, <2>2
<1>5. S = Nat
  <2> HIDE DEF S
  <2>1. S \in SUBSET Nat
    BY DEF S
  <2> QED
    BY <1>3, <1>4, <2>1, EveryNatural, Zenon
<1> QED
  BY <1>5

Down(path) == [k \in 1..Len(path) |-> <<"down", path[k]>>]

\* At goes down the path.
LEMMA AtWalks ==
  ASSUME NEW v, NEW T, NEW path \in Seq(T)
  PROVE  \E f : Walks(v, Down(path), Len(path), f) /\ At(v, path) = f[Len(path)]
<1> DEFINE Is(at) == at = [n \in 0..Len(path) |-> IF n = 0 THEN v ELSE Child(at[n - 1], path[n])]
           found == CHOOSE at : Is(at)
<1>1. ASSUME NEW at PROVE Is(at) <=> Walks(v, Down(path), Len(path), at)
  <2> DEFINE one == [n \in 0..Len(path) |-> IF n = 0 THEN v ELSE Child(at[n - 1], path[n])]
             two == [n \in 0..Len(path) |-> IF n = 0 THEN v ELSE Along(at[n - 1], Down(path)[n])]
  <2>1. ASSUME NEW n \in 0..Len(path), n # 0
        PROVE  Along(at[n - 1], Down(path)[n]) = Child(at[n - 1], path[n])
    <3>1. n \in 1..Len(path)
      BY <2>1
    <3>2. Down(path)[n] = <<"down", path[n]>>
      BY <3>1 DEF Down
    <3> QED
      BY <3>2 DEF Along
  <2>2. one = two
    BY <2>1
  <2> QED
    BY <2>2, Zenon DEF Walks
<1>2. \E at : Is(at)
  <2>1. Len(path) \in Nat
    OBVIOUS
  <2> HIDE DEF Is
  <2> QED
    BY <1>1, <2>1, WalkExists, Zenon
<1>3. Is(found)
  <2> HIDE DEF Is
  <2> QED
    BY <1>2, Zenon
<1>4. At(v, path) = found[Len(path)]
  BY Zenon DEF At
<1> HIDE DEF found, Is
<1> QED
  BY <1>1, <1>3, <1>4, Zenon

\* The root is at the empty path.
LEMMA AtEmpty ==
  ASSUME NEW v
  PROVE  At(v, << >>) = v
<1>1. << >> \in Seq({v}) /\ Len(<< >>) = 0
  OBVIOUS
<1>2. PICK f : Walks(v, Down(<< >>), 0, f) /\ At(v, << >>) = f[0]
  BY <1>1, AtWalks
<1> QED
  BY <1>2, WalkSteps

\* One step further down is a child of what was there.
LEMMA AtAppend ==
  ASSUME NEW v, NEW T, NEW path \in Seq(T), NEW n \in T
  PROVE  At(v, Append(path, n)) = Child(At(v, path), n)
<1> DEFINE long == Append(path, n)
           L == Len(path)
<1>1. L \in Nat /\ long \in Seq(T) /\ Len(long) = L + 1 /\ long[L + 1] = n
      /\ \A k \in 1..L : long[k] = path[k]
  BY AppendProperties
<1> HIDE DEF long
<1>2. PICK f : Walks(v, Down(long), L + 1, f) /\ At(v, long) = f[L + 1]
  BY <1>1, AtWalks
<1>3. PICK g : Walks(v, Down(path), L, g) /\ At(v, path) = g[L]
  BY <1>1, AtWalks
<1>4. \A k \in 1..L : Down(long)[k] = Down(path)[k]
  BY <1>1 DEF Down
<1>5. Down(long)[L + 1] = <<"down", n>>
  BY <1>1 DEF Down
<1> HIDE DEF L
<1>6. f[L] = g[L]
  <2>1. L + 1 \in Nat /\ L <= L + 1
    BY <1>1
  <2> QED
    BY <1>1, <1>2, <1>3, <1>4, <2>1, WalksAgree
<1>7. f[L + 1] = Along(f[L], Down(long)[L + 1])
  <2> DEFINE M == L + 1
             s == Down(long)
  <2>1. M \in Nat /\ M \in 1..M /\ M - 1 = L /\ Walks(v, s, M, f)
    BY <1>1, <1>2
  <2> HIDE DEF M, s
  <2>2. f[0] = v /\ \A k \in 1..M : f[k] = Along(f[k - 1], s[k])
    BY <2>1, WalkSteps
  <2>3. f[M] = Along(f[M - 1], s[M])
    BY <2>1, <2>2, Zenon
  <2>4. f[M] = Along(f[L], s[M])
    BY <2>1, <2>3, Zenon
  <2> QED
    BY <2>4 DEF M, s
<1>8. Along(f[L], <<"down", n>>) = Child(f[L], n)
  BY DEF Along
<1> QED
  BY <1>2, <1>3, <1>5, <1>6, <1>7, <1>8 DEF long

Up(v, path) ==
    [k \in 1..Len(path) |-> <<"up", At(v, SubSeq(path, 1, Len(path) - k)), path[Len(path) - k + 1]>>]

\* Put comes up the path.
LEMMA PutWalks ==
  ASSUME NEW v, NEW T, NEW path \in Seq(T), NEW w
  PROVE  \E f : Walks(w, Up(v, path), Len(path), f) /\ Put(v, path, w) = f[Len(path)]
<1> DEFINE Is(put) == put = [n \in 0..Len(path) |->
                IF n = 0 THEN w
                ELSE Changed(At(v, SubSeq(path, 1, Len(path) - n)), path[Len(path) - n + 1], put[n - 1])]
           found == CHOOSE put : Is(put)
<1>1. ASSUME NEW put PROVE Is(put) <=> Walks(w, Up(v, path), Len(path), put)
  <2> DEFINE one == [n \in 0..Len(path) |->
                IF n = 0 THEN w
                ELSE Changed(At(v, SubSeq(path, 1, Len(path) - n)), path[Len(path) - n + 1], put[n - 1])]
             two == [n \in 0..Len(path) |-> IF n = 0 THEN w ELSE Along(put[n - 1], Up(v, path)[n])]
  <2>1. ASSUME NEW n \in 0..Len(path), n # 0
        PROVE  Along(put[n - 1], Up(v, path)[n])
                 = Changed(At(v, SubSeq(path, 1, Len(path) - n)), path[Len(path) - n + 1], put[n - 1])
    <3>1. n \in 1..Len(path)
      BY <2>1
    <3>2. Up(v, path)[n] = <<"up", At(v, SubSeq(path, 1, Len(path) - n)), path[Len(path) - n + 1]>>
      BY <3>1, Zenon DEF Up
    <3> QED
      BY <3>2 DEF Along
  <2>2. one = two
    BY <2>1
  <2> QED
    BY <2>2, Zenon DEF Walks
<1>2. \E put : Is(put)
  <2>1. Len(path) \in Nat
    OBVIOUS
  <2> HIDE DEF Is
  <2> QED
    BY <1>1, <2>1, WalkExists, Zenon
<1>3. Is(found)
  <2> HIDE DEF Is
  <2> QED
    BY <1>2, Zenon
<1>4. Put(v, path, w) = found[Len(path)]
  BY Zenon DEF Put
<1> HIDE DEF found, Is
<1> QED
  BY <1>1, <1>3, <1>4, Zenon

\* A value at the root is the document.
LEMMA PutEmpty ==
  ASSUME NEW v, NEW w
  PROVE  Put(v, << >>, w) = w
<1>1. << >> \in Seq({v}) /\ Len(<< >>) = 0
  OBVIOUS
<1>2. PICK f : Walks(w, Up(v, << >>), 0, f) /\ Put(v, << >>, w) = f[0]
  BY <1>1, PutWalks
<1> QED
  BY <1>2, WalkSteps

\* To put w at the end of a path is to put what it makes of the last container at the
\* end of the path to that container.
LEMMA PutAppend ==
  ASSUME NEW v, NEW T, NEW path \in Seq(T), NEW n \in T, NEW w
  PROVE  Put(v, Append(path, n), w) = Put(v, path, Changed(At(v, path), n, w))
<1> DEFINE long == Append(path, n)
           L == Len(path)
           x == Changed(At(v, path), n, w)
<1>1. L \in Nat /\ long \in Seq(T) /\ Len(long) = L + 1 /\ long[L + 1] = n
      /\ \A k \in 1..L : long[k] = path[k]
  BY AppendProperties
<1>2. ASSUME NEW m \in 0..L PROVE SubSeq(long, 1, m) = SubSeq(path, 1, m)
  OBVIOUS
<1>3. SubSeq(path, 1, L) = path
  OBVIOUS
<1> HIDE DEF long
<1>4. PICK f : Walks(w, Up(v, long), L + 1, f) /\ Put(v, long, w) = f[L + 1]
  BY <1>1, PutWalks
<1>5. PICK g : Walks(x, Up(v, path), L, g) /\ Put(v, path, x) = g[L]
  BY <1>1, PutWalks
<1>6. Up(v, long)[1] = <<"up", At(v, path), n>>
  <2>1. 1 \in 1..(L + 1) /\ (L + 1) - 1 = L /\ L - 1 + 1 = L /\ L \in 0..L /\ (L + 1) - 1 + 1 = L + 1
    BY <1>1
  <2>2. Up(v, long)[1] = <<"up", At(v, SubSeq(long, 1, (L + 1) - 1)), long[(L + 1) - 1 + 1]>>
    BY <1>1, <2>1 DEF Up
  <2> QED
    BY <1>1, <1>2, <1>3, <2>1, <2>2
<1>7. ASSUME NEW k \in 1..L PROVE Up(v, long)[k + 1] = Up(v, path)[k]
  <2>1. /\ k + 1 \in 1..(L + 1) /\ (L + 1) - (k + 1) = L - k /\ L - k \in 0..L
        /\ (L + 1) - (k + 1) + 1 = L - k + 1 /\ L - k + 1 \in 1..L
    BY <1>1
  <2>2. Up(v, long)[k + 1] = <<"up", At(v, SubSeq(long, 1, (L + 1) - (k + 1))), long[(L + 1) - (k + 1) + 1]>>
    BY <1>1, <2>1, Zenon DEF Up
  <2>3. Up(v, path)[k] = <<"up", At(v, SubSeq(path, 1, L - k)), path[L - k + 1]>>
    BY Zenon DEF Up
  <2>4. SubSeq(long, 1, L - k) = SubSeq(path, 1, L - k) /\ long[L - k + 1] = path[L - k + 1]
    BY <1>1, <1>2, <2>1
  <2> QED
    BY <2>1, <2>2, <2>3, <2>4
<1> HIDE DEF L, x
<1>8. f[0] = w /\ \A k \in 1..(L + 1) : f[k] = Along(f[k - 1], Up(v, long)[k])
  <2>1. L + 1 \in Nat
    BY <1>1
  <2> QED
    BY <1>4, <2>1, WalkSteps
<1>9. f[1] = x
  <2>1. 1 \in 1..(L + 1) /\ 1 - 1 = 0
    BY <1>1
  <2>2. f[1] = Along(w, <<"up", At(v, path), n>>)
    BY <1>6, <1>8, <2>1
  <2> QED
    BY <2>2 DEF Along, x
<1> DEFINE h == [k \in 0..L |-> f[k + 1]]
           step == [k \in 0..L |-> IF k = 0 THEN x ELSE Along(h[k - 1], Up(v, path)[k])]
<1>10. ASSUME NEW k \in 0..L PROVE h[k] = step[k]
  <2>1. CASE k = 0
    BY <1>9, <2>1
  <2>2. CASE k # 0
    <3>1. k \in 1..L /\ k + 1 \in 1..(L + 1) /\ (k + 1) - 1 = k /\ k - 1 \in 0..L /\ (k - 1) + 1 = k
      BY <1>1, <2>2
    <3>2. f[k + 1] = Along(f[k], Up(v, path)[k])
      BY <1>7, <1>8, <3>1
    <3> QED
      BY <2>2, <3>1, <3>2
  <2> QED
    BY <2>1, <2>2
<1>11. Walks(x, Up(v, path), L, h)
  <2>1. h = step
    BY <1>10
  <2> QED
    BY <2>1, Zenon DEF Walks
<1> HIDE DEF h
<1>12. h[L] = g[L]
  BY <1>1, <1>5, <1>11, WalksAgree
<1>13. h[L] = f[L + 1]
  BY <1>1 DEF h
<1> QED
  BY <1>4, <1>5, <1>12, <1>13 DEF long, x

Through(s) == [k \in 1..Len(s) |-> <<"token", s[k]>>]

\* Opened goes through the tokens.
LEMMA OpenedWalks ==
  ASSUME NEW T, NEW s \in Seq(T)
  PROVE  \E f : Walks(<< >>, Through(s), Len(s), f) /\ Opened(s) = f[Len(s)]
<1> DEFINE Is(opened) == opened = [n \in 0..Len(s) |->
                            IF n = 0 THEN << >> ELSE Bracket(opened[n - 1], s[n])]
           found == CHOOSE opened : Is(opened)
<1>1. ASSUME NEW opened PROVE Is(opened) <=> Walks(<< >>, Through(s), Len(s), opened)
  <2> DEFINE one == [n \in 0..Len(s) |-> IF n = 0 THEN << >> ELSE Bracket(opened[n - 1], s[n])]
             two == [n \in 0..Len(s) |-> IF n = 0 THEN << >> ELSE Along(opened[n - 1], Through(s)[n])]
  <2>1. ASSUME NEW n \in 0..Len(s), n # 0
        PROVE  Along(opened[n - 1], Through(s)[n]) = Bracket(opened[n - 1], s[n])
    <3>1. n \in 1..Len(s)
      BY <2>1
    <3>2. Through(s)[n] = <<"token", s[n]>>
      BY <3>1 DEF Through
    <3> QED
      BY <3>2 DEF Along
  <2>2. one = two
    BY <2>1
  <2> QED
    BY <2>2, Zenon DEF Walks
<1>2. \E opened : Is(opened)
  <2>1. Len(s) \in Nat
    OBVIOUS
  <2> HIDE DEF Is
  <2> QED
    BY <1>1, <2>1, WalkExists, Zenon
<1>3. Is(found)
  <2> HIDE DEF Is
  <2> QED
    BY <1>2, Zenon
<1>4. Opened(s) = found[Len(s)]
  BY Zenon DEF Opened
<1> HIDE DEF found, Is
<1> QED
  BY <1>1, <1>3, <1>4, Zenon

\* Nothing is open before the first token.
LEMMA OpenedEmpty == Opened(<< >>) = << >>
<1>1. << >> \in Seq({}) /\ Len(<< >>) = 0
  OBVIOUS
<1>2. PICK f : Walks(<< >>, Through(<< >>), 0, f) /\ Opened(<< >>) = f[0]
  BY <1>1, OpenedWalks
<1> QED
  BY <1>2, WalkSteps

\* One more token is one more bracket, or none.
LEMMA OpenedAppend ==
  ASSUME NEW T, NEW s \in Seq(T), NEW t \in T
  PROVE  Opened(Append(s, t)) = Bracket(Opened(s), t)
<1> DEFINE long == Append(s, t)
           L == Len(s)
<1>1. L \in Nat /\ long \in Seq(T) /\ Len(long) = L + 1 /\ long[L + 1] = t
      /\ \A k \in 1..L : long[k] = s[k]
  BY AppendProperties
<1> HIDE DEF long
<1>2. PICK f : Walks(<< >>, Through(long), L + 1, f) /\ Opened(long) = f[L + 1]
  BY <1>1, OpenedWalks
<1>3. PICK g : Walks(<< >>, Through(s), L, g) /\ Opened(s) = g[L]
  BY <1>1, OpenedWalks
<1>4. \A k \in 1..L : Through(long)[k] = Through(s)[k]
  BY <1>1 DEF Through
<1>5. Through(long)[L + 1] = <<"token", t>>
  BY <1>1 DEF Through
<1> HIDE DEF L
<1>6. f[L] = g[L]
  <2>1. L + 1 \in Nat /\ L <= L + 1
    BY <1>1
  <2> QED
    BY <1>1, <1>2, <1>3, <1>4, <2>1, WalksAgree
<1>7. f[L + 1] = Along(f[L], Through(long)[L + 1])
  <2>1. L + 1 \in Nat /\ L + 1 \in 1..(L + 1) /\ (L + 1) - 1 = L
    BY <1>1
  <2>2. f[0] = << >> /\ \A k \in 1..(L + 1) : f[k] = Along(f[k - 1], Through(long)[k])
    BY <1>2, <2>1, WalkSteps
  <2> QED
    BY <2>1, <2>2
<1>8. Along(f[L], <<"token", t>>) = Bracket(f[L], t)
  BY DEF Along
<1> QED
  BY <1>2, <1>3, <1>5, <1>6, <1>7, <1>8 DEF long

-----------------------------------------------------------------------------
(* Paths in a document.                                                    *)

\* A sequence, of whatever.
IsSeq(s) == \E S : s \in Seq(S)

\* An array or an object.
Container(v) == \E kind \in {"array", "object"} : \E s : v = <<kind, s>> /\ IsSeq(s)

\* The pointers of the document, without null.
Path == Seq(Nat \ {0})

\* There is a container at every step of the path, with the child that the path takes.
Leads(v, path) ==
    \A m \in 1..Len(path) :
        /\ Container(At(v, SubSeq(path, 1, m - 1)))
        /\ path[m] \in DOMAIN At(v, SubSeq(path, 1, m - 1))[2]

\* w is a container as u is, with as many children.
Alike(u, w) == Container(w) /\ w[1] = u[1] /\ DOMAIN w[2] = DOMAIN u[2]

\* The elements of a sequence are numbered from 1.
LEMMA SeqHas ==
  ASSUME NEW s, IsSeq(s)
  PROVE  Len(s) \in Nat /\ DOMAIN s = 1..Len(s)
<1>1. PICK S : s \in Seq(S)
  BY DEF IsSeq
<1> QED
  BY <1>1

\* The parts of a container.
LEMMA ContainerIs ==
  ASSUME NEW v, Container(v)
  PROVE  v = <<v[1], v[2]>> /\ v[1] \in {"array", "object"} /\ IsSeq(v[2])
<1>1. PICK kind \in {"array", "object"} : \E s : v = <<kind, s>> /\ IsSeq(s)
  BY DEF Container
<1> QED
  BY <1>1

\* A sequence is the content of a container.
LEMMA ContainerMade ==
  ASSUME NEW kind \in {"array", "object"}, NEW s, IsSeq(s)
  PROVE  Container(<<kind, s>>) /\ <<kind, s>>[1] = kind /\ <<kind, s>>[2] = s
<1>1. <<kind, s>>[1] = kind /\ <<kind, s>>[2] = s
  OBVIOUS
<1>2. Container(<<kind, s>>)
  BY Zenon DEF Container
<1> QED
  BY <1>1, <1>2

\* Only the child that is put into a container is another one.
LEMMA ChangedIsAlike ==
  ASSUME NEW v, Container(v), NEW n \in DOMAIN v[2], NEW w
  PROVE  Alike(v, Changed(v, n, w)) /\ Child(Changed(v, n, w), n) = w
<1> DEFINE x == IF v[1] = "array" THEN w ELSE <<v[2][n][1], w>>
           s == [v[2] EXCEPT ![n] = x]
<1>1. v[1] \in {"array", "object"} /\ IsSeq(v[2])
  BY ContainerIs
<1>2. Changed(v, n, w) = <<v[1], s>>
  <2>1. CASE v[1] = "array"
    BY <2>1 DEF Changed, IsArray
  <2>2. CASE v[1] # "array"
    BY <2>2 DEF Changed, IsArray
  <2> QED
    BY <2>1, <2>2
<1>3. IsSeq(s) /\ DOMAIN s = DOMAIN v[2] /\ s[n] = x
  <2>1. PICK S : v[2] \in Seq(S)
    BY <1>1 DEF IsSeq
  <2>2. s \in Seq(S \cup {x})
    <3>1. Len(v[2]) \in Nat /\ DOMAIN v[2] = 1..Len(v[2]) /\ \A k \in DOMAIN v[2] : v[2][k] \in S
      BY <2>1
    <3>2. s \in [1..Len(v[2]) -> S \cup {x}]
      BY <3>1
    <3> HIDE DEF s, x
    <3> QED
      BY <3>1, <3>2, IsASeq
  <2>3. DOMAIN s = DOMAIN v[2] /\ s[n] = x
    OBVIOUS
  <2> HIDE DEF s, x
  <2> QED
    BY <2>2, <2>3 DEF IsSeq
<1> HIDE DEF s
<1>4. Container(<<v[1], s>>) /\ <<v[1], s>>[1] = v[1] /\ <<v[1], s>>[2] = s
  BY <1>1, <1>3, ContainerMade
<1>5. Child(<<v[1], s>>, n) = w
  BY <1>1, <1>3, <1>4 DEF Child, IsArray
<1> QED
  BY <1>2, <1>3, <1>4, <1>5 DEF Alike

\* The steps before the last one.
LEMMA PathSplit ==
  ASSUME NEW T, NEW path \in Seq(T), NEW n \in Nat, Len(path) = n + 1
  PROVE  /\ SubSeq(path, 1, n) \in Seq(T)
         /\ Len(SubSeq(path, 1, n)) = n
         /\ path[n + 1] \in T
         /\ path = Append(SubSeq(path, 1, n), path[n + 1])
         /\ \A m \in 0..n : SubSeq(SubSeq(path, 1, n), 1, m) = SubSeq(path, 1, m)
         /\ \A m \in 1..n : SubSeq(path, 1, n)[m] = path[m]
  OBVIOUS

\* After w was put at the end of a path it is there, and the containers on the way
\* are as they were, but for what is in them.
Kept(v, path, w) ==
    /\ At(Put(v, path, w), path) = w
    /\ \A m \in 0..(Len(path) - 1) :
          Alike(At(v, SubSeq(path, 1, m)), At(Put(v, path, w), SubSeq(path, 1, m)))

\* What Kept says, along every path that there is in the document.
LEMMA PutKeeps ==
  ASSUME NEW v
  PROVE  \A path \in Path : Leads(v, path) => \A w : Kept(v, path, w)
<1> DEFINE S == {L \in Nat : \A path \in Path : Len(path) = L /\ Leads(v, path) => \A w : Kept(v, path, w)}
<1>1. 0 \in S
  <2> SUFFICES ASSUME NEW path \in Path, Len(path) = 0, NEW w
               PROVE  Kept(v, path, w)
    OBVIOUS
  <2>1. path = << >>
    BY DEF Path
  <2>2. At(Put(v, path, w), path) = w
    BY <2>1, PutEmpty, AtEmpty
  <2> QED
    BY <2>2 DEF Kept
<1>2. ASSUME NEW L \in S PROVE L + 1 \in S
  <2> SUFFICES ASSUME NEW path \in Path, Len(path) = L + 1, Leads(v, path), NEW w
               PROVE  Kept(v, path, w)
    OBVIOUS
  <2> DEFINE q == SubSeq(path, 1, L)
             n == path[L + 1]
             x == Changed(At(v, q), n, w)
             r == Put(v, path, w)
  <2>1. L \in Nat /\ path \in Seq(Nat \ {0})
    BY DEF Path
  <2>2. /\ q \in Path /\ Len(q) = L /\ n \in Nat \ {0} /\ path = Append(q, n)
        /\ \A m \in 0..L : SubSeq(q, 1, m) = SubSeq(path, 1, m)
        /\ \A m \in 1..L : q[m] = path[m]
    BY <2>1, PathSplit DEF Path
  <2>3. Container(At(v, q)) /\ n \in DOMAIN At(v, q)[2]
    <3>1. L + 1 \in 1..Len(path) /\ (L + 1) - 1 = L
      BY <2>1
    <3> QED
      BY <3>1 DEF Leads
  <2>4. Leads(v, q)
    <3> SUFFICES ASSUME NEW m \in 1..Len(q)
                 PROVE  /\ Container(At(v, SubSeq(q, 1, m - 1)))
                        /\ q[m] \in DOMAIN At(v, SubSeq(q, 1, m - 1))[2]
      BY DEF Leads
    <3>1. m \in 1..Len(path) /\ m - 1 \in 0..L /\ m \in 1..L
      BY <2>1, <2>2
    <3>2. SubSeq(q, 1, m - 1) = SubSeq(path, 1, m - 1) /\ q[m] = path[m]
      BY <2>2, <3>1
    <3> HIDE DEF q
    <3> QED
      BY <3>1, <3>2 DEF Leads
  <2> HIDE DEF q, n
  <2>5. Kept(v, q, x)
    BY <2>2, <2>4
  <2>6. r = Put(v, q, x)
    BY <2>2, PutAppend DEF Path
  <2> HIDE DEF r, x
  <2>7. At(r, q) = x /\ \A m \in 0..(L - 1) : Alike(At(v, SubSeq(q, 1, m)), At(r, SubSeq(q, 1, m)))
    BY <2>2, <2>5, <2>6 DEF Kept
  <2>8. Alike(At(v, q), x) /\ Child(x, n) = w
    BY <2>3, ChangedIsAlike DEF x
  <2>9. At(r, path) = w
    <3>1. At(r, path) = Child(At(r, q), n)
      BY <2>2, AtAppend DEF Path
    <3> QED
      BY <2>7, <2>8, <3>1
  <2>10. ASSUME NEW m \in 0..L
         PROVE  Alike(At(v, SubSeq(path, 1, m)), At(r, SubSeq(path, 1, m)))
    <3>1. CASE m = L
      <4>1. SubSeq(path, 1, m) = q
        BY <3>1 DEF q
      <4> QED
        BY <2>7, <2>8, <4>1
    <3>2. CASE m # L
      <4>1. m \in 0..(L - 1) /\ SubSeq(path, 1, m) = SubSeq(q, 1, m)
        BY <2>1, <2>2, <3>2
      <4> QED
        BY <2>7, <4>1
    <3> QED
      BY <3>1, <3>2
  <2>11. (L + 1) - 1 = L
    BY <2>1
  <2> QED
    BY <2>9, <2>10, <2>11 DEF Kept, r
<1>3. S = Nat
  <2> HIDE DEF S
  <2>1. S \in SUBSET Nat
    BY DEF S
  <2> QED
    BY <1>1, <1>2, <2>1, EveryNatural, Zenon
<1>4. ASSUME NEW path \in Path PROVE Len(path) \in Nat
  BY DEF Path
<1> QED
  BY <1>3, <1>4

-----------------------------------------------------------------------------
(* The pointers of ref_stack.  They begin with those that are not null, of *)
(* which each is one step longer than the one before.                      *)

\* The name of the kind of a container.
Kind(array) == IF array THEN "array" ELSE "object"

\* The nth pointer of rs points to a container of the document r, of the kind in open,
\* below those before it, and behind nothing else in an array.
Refers(r, rs, open, n) ==
    /\ rs[n] \in Path /\ Len(rs[n]) = n - 1
    /\ \A m \in 1..n : rs[m] = SubSeq(rs[n], 1, m - 1)
    /\ Container(At(r, rs[n])) /\ At(r, rs[n])[1] = Kind(open[n])
    /\ n > 1 => LET up == At(r, rs[n - 1])
                IN /\ rs[n][n - 1] \in DOMAIN up[2]
                   /\ up[1] = "array" => rs[n][n - 1] = Len(up[2])

Refs(r, rs, open) ==
    /\ rs \in Seq(Seq(Int)) /\ open \in Seq(BOOLEAN) /\ Len(rs) = Len(open)
    /\ \A n \in 1..Len(rs) : rs[n] # NoRef => Refers(r, rs, open, n)

\* NoRef is no path.
LEMMA PathIsNoNull ==
  ASSUME NEW path \in Path
  PROVE  path # NoRef
<1> SUFFICES ASSUME path = NoRef PROVE FALSE
  OBVIOUS
<1>1. Len(path) = 1 /\ path[1] = -1
  BY DEF NoRef
<1> QED
  BY <1>1 DEF Path

\* No pointer is null before one that is not, and each leads to the container it should.
LEMMA RefersAbove ==
  ASSUME NEW r, NEW rs, NEW open, Refs(r, rs, open), NEW n \in 1..Len(rs), rs[n] # NoRef,
         NEW m \in 1..n
  PROVE  Refers(r, rs, open, m) /\ rs[m] # NoRef
<1>1. Refers(r, rs, open, n)
  BY DEF Refs
<1>2. n \in Nat /\ m \in Nat /\ m <= n /\ m \in 1..Len(rs)
  BY DEF Refs
<1>3. rs[m] = SubSeq(rs[n], 1, m - 1) /\ rs[n] \in Seq(Nat \ {0}) /\ Len(rs[n]) = n - 1
  BY <1>1 DEF Refers, Path
<1>4. SubSeq(rs[n], 1, m - 1) \in Path
  BY <1>2, <1>3 DEF Path
<1>5. rs[m] # NoRef
  BY <1>3, <1>4, PathIsNoNull
<1> QED
  BY <1>2, <1>5 DEF Refs

\* The pointers are paths in the document.
LEMMA RefsLead ==
  ASSUME NEW r, NEW rs, NEW open, Refs(r, rs, open), NEW n \in 1..Len(rs), rs[n] # NoRef
  PROVE  Leads(r, rs[n])
<1>1. Refers(r, rs, open, n)
  BY DEF Refs
<1>2. n \in Nat /\ rs[n] \in Seq(Nat \ {0}) /\ Len(rs[n]) = n - 1
  BY <1>1 DEF Refs, Refers, Path
<1> SUFFICES ASSUME NEW m \in 1..Len(rs[n])
             PROVE  /\ Container(At(r, SubSeq(rs[n], 1, m - 1)))
                    /\ rs[n][m] \in DOMAIN At(r, SubSeq(rs[n], 1, m - 1))[2]
  BY DEF Leads
<1>3. m \in 1..n /\ m + 1 \in 1..n /\ (m + 1) - 1 = m /\ m + 1 > 1
  BY <1>2
<1>4. rs[m] = SubSeq(rs[n], 1, m - 1) /\ rs[m + 1] = SubSeq(rs[n], 1, m)
  BY <1>1, <1>3 DEF Refers
<1>5. SubSeq(rs[n], 1, m)[m] = rs[n][m]
  BY <1>2
<1>6. Refers(r, rs, open, m) /\ Refers(r, rs, open, m + 1)
  BY <1>3, RefersAbove
<1>7. Container(At(r, rs[m]))
  BY <1>6 DEF Refers
<1>8. rs[m + 1][m] \in DOMAIN At(r, rs[m])[2]
  BY <1>3, <1>6 DEF Refers
<1> QED
  BY <1>4, <1>5, <1>7, <1>8

\* What a pointer refers to depends on no later one.
LEMMA RefersMoved ==
  ASSUME NEW r, NEW rs, NEW open, NEW m \in Nat \ {0}, NEW less, NEW left,
         Refers(r, rs, open, m),
         \A k \in 1..m : rs[k] = less[k] /\ open[k] = left[k]
  PROVE  Refers(r, less, left, m)
<1>1. m \in 1..m /\ (m > 1 => m - 1 \in 1..m)
  OBVIOUS
<1>2. rs[m] = less[m] /\ open[m] = left[m] /\ (m > 1 => rs[m - 1] = less[m - 1])
  BY <1>1, Zenon
<1>3. \A k \in 1..m : less[k] = SubSeq(less[m], 1, k - 1)
  BY <1>2 DEF Refers
<1>4. /\ less[m] \in Path /\ Len(less[m]) = m - 1
      /\ Container(At(r, less[m])) /\ At(r, less[m])[1] = Kind(left[m])
  <2>1. /\ rs[m] \in Path /\ Len(rs[m]) = m - 1
        /\ Container(At(r, rs[m])) /\ At(r, rs[m])[1] = Kind(open[m])
    BY Zenon DEF Refers
  <2>2. Kind(open[m]) = Kind(left[m])
    BY <1>2, Zenon
  <2> QED
    BY <1>2, <2>1, <2>2, Zenon
<1>5. m > 1 => LET up == At(r, less[m - 1])
               IN /\ less[m][m - 1] \in DOMAIN up[2]
                  /\ up[1] = "array" => less[m][m - 1] = Len(up[2])
  BY <1>2 DEF Refers
<1> QED
  BY <1>3, <1>4, <1>5 DEF Refers

\* p is the innermost pointer, and not null.
IsInnermost(rs, p) == Len(rs) # 0 /\ p = rs[Len(rs)] /\ p # NoRef

\* With w, or with w as its child i, where p leads, the document is still what rs says.
PutThere(r, rs, open, p, w) ==
    Refs(Put(r, p, w), rs, open) /\ At(Put(r, p, w), p) = w

PutBelow(r, rs, open, p, i, w) ==
    /\ Refs(Put(r, Append(p, i), w), rs, open)
    /\ At(Put(r, Append(p, i), w), p) = Changed(At(r, p), i, w)
    /\ Alike(At(r, p), Changed(At(r, p), i, w))
    /\ At(Put(r, Append(p, i), w), Append(p, i)) = w

\* Another container of the same kind in place of the innermost one.
LEMMA RefsPut ==
  ASSUME NEW r, NEW rs, NEW open, Refs(r, rs, open), NEW p, IsInnermost(rs, p),
         NEW w, Container(w), w[1] = Kind(open[Len(rs)])
  PROVE  PutThere(r, rs, open, p, w)
<1>1. PICK n : n = Len(rs)
  OBVIOUS
<1> DEFINE after == Put(r, rs[n], w)
<1>2. n \in 1..Len(rs) /\ p = rs[n] /\ rs[n] # NoRef /\ w[1] = Kind(open[n])
  <2>1. rs \in Seq(Seq(Int))
    BY DEF Refs
  <2> QED
    BY <1>1, <2>1 DEF IsInnermost
<1>3. Refers(r, rs, open, n) /\ Leads(r, rs[n])
  BY <1>2, RefsLead DEF Refs
<1>4. rs[n] \in Path /\ Len(rs[n]) = n - 1 /\ n \in Nat
  BY <1>2, <1>3 DEF Refers, Refs
<1>5. Kept(r, rs[n], w)
  BY <1>3, <1>4, PutKeeps
<1>6. At(after, rs[n]) = w
  BY <1>5 DEF Kept
<1>7. ASSUME NEW m \in 1..n, m # n
      PROVE  Alike(At(r, rs[m]), At(after, rs[m]))
  <2>1. m - 1 \in 0..(Len(rs[n]) - 1)
    BY <1>4, <1>7
  <2>2. rs[m] = SubSeq(rs[n], 1, m - 1)
    BY <1>3 DEF Refers
  <2>3. Alike(At(r, SubSeq(rs[n], 1, m - 1)), At(after, SubSeq(rs[n], 1, m - 1)))
    BY <1>5, <2>1 DEF Kept
  <2> QED
    BY <2>2, <2>3
<1> HIDE DEF after
<1>8. ASSUME NEW m \in 1..Len(rs), rs[m] # NoRef
      PROVE  Refers(after, rs, open, m)
  <2>1. m \in 1..n /\ Refers(r, rs, open, m)
    BY <1>1, <1>8 DEF Refs
  <2>2. Container(At(after, rs[m])) /\ At(after, rs[m])[1] = Kind(open[m])
    <3>1. CASE m = n
      BY <1>6, <1>2, <3>1
    <3>2. CASE m # n
      <4>1. Alike(At(r, rs[m]), At(after, rs[m]))
        BY <1>7, <2>1, <3>2
      <4> QED
        BY <2>1, <4>1 DEF Alike, Refers
    <3> QED
      BY <3>1, <3>2
  <2>3. ASSUME m > 1
        PROVE  LET up == At(after, rs[m - 1])
               IN /\ rs[m][m - 1] \in DOMAIN up[2]
                  /\ up[1] = "array" => rs[m][m - 1] = Len(up[2])
    <3> DEFINE u == At(r, rs[m - 1])
               up == At(after, rs[m - 1])
    <3>1. m - 1 \in 1..n /\ m - 1 # n
      BY <1>4, <2>1, <2>3
    <3>2. Alike(u, up)
      BY <1>7, <3>1
    <3>3. rs[m][m - 1] \in DOMAIN u[2] /\ (u[1] = "array" => rs[m][m - 1] = Len(u[2]))
      BY <2>1, <2>3 DEF Refers
    <3>4. Refers(r, rs, open, m - 1)
      BY <2>1, <3>1, RefersAbove, <1>8
    <3>5. Container(u) /\ Container(up)
      BY <3>2, <3>4 DEF Refers, Alike
    <3> HIDE DEF u, up
    <3>6. IsSeq(u[2]) /\ IsSeq(up[2])
      BY <3>5, ContainerIs
    <3>7. Len(u[2]) = Len(up[2])
      <4>1. /\ Len(u[2]) \in Nat /\ DOMAIN u[2] = 1..Len(u[2])
            /\ Len(up[2]) \in Nat /\ DOMAIN up[2] = 1..Len(up[2])
        BY <3>6, SeqHas
      <4>2. DOMAIN u[2] = DOMAIN up[2]
        BY <3>2 DEF Alike
      <4> QED
        BY <4>1, <4>2
    <3>8. rs[m][m - 1] \in DOMAIN up[2] /\ (up[1] = "array" => rs[m][m - 1] = Len(up[2]))
      BY <3>2, <3>3, <3>7 DEF Alike
    <3> QED
      BY <3>8 DEF up
  <2> QED
    BY <2>1, <2>2, <2>3 DEF Refers
<1> QED
  BY <1>2, <1>6, <1>8 DEF Refs, PutThere, after

\* Another value in place of a child of the innermost one.
LEMMA RefsPutChild ==
  ASSUME NEW r, NEW rs, NEW open, Refs(r, rs, open), NEW p, IsInnermost(rs, p),
         NEW i, i \in DOMAIN At(r, p)[2], NEW w
  PROVE  PutBelow(r, rs, open, p, i, w)
<1> DEFINE u == At(r, p)
           x == Changed(u, i, w)
<1>1. PICK n : n = Len(rs)
  OBVIOUS
<1>2. n \in 1..Len(rs) /\ n = Len(rs) /\ p = rs[n] /\ rs[n] # NoRef
  <2>1. rs \in Seq(Seq(Int))
    BY DEF Refs
  <2> QED
    BY <1>1, <2>1 DEF IsInnermost
<1>3. Refers(r, rs, open, n)
  BY <1>2 DEF Refs
<1>4. p \in Seq(Nat \ {0}) /\ Container(u) /\ u[1] = Kind(open[n])
  BY <1>2, <1>3 DEF Refers, Path
<1>5. i \in Nat \ {0}
  <2>1. Len(u[2]) \in Nat /\ DOMAIN u[2] = 1..Len(u[2])
    BY <1>4, ContainerIs, SeqHas
  <2> QED
    BY <2>1
<1>6. Alike(u, x) /\ Child(x, i) = w
  BY <1>4, ChangedIsAlike
<1>7. Put(r, Append(p, i), w) = Put(r, p, x)
  BY <1>4, <1>5, PutAppend
<1> HIDE DEF u, x
<1>8. Refs(Put(r, p, x), rs, open) /\ At(Put(r, p, x), p) = x
  <2>1. Container(x) /\ x[1] = Kind(open[Len(rs)])
    BY <1>1, <1>4, <1>6 DEF Alike
  <2>2. PutThere(r, rs, open, p, x)
    BY <2>1, RefsPut
  <2> QED
    BY <2>2 DEF PutThere
<1>9. At(Put(r, p, x), Append(p, i)) = Child(At(Put(r, p, x), p), i)
  BY <1>4, <1>5, AtAppend
<1> QED
  BY <1>6, <1>7, <1>8, <1>9 DEF PutBelow, u, x

\* A child of the innermost container that begins, the last one in an array.
LEMMA RefsPush ==
  ASSUME NEW r, NEW rs, NEW open, Refs(r, rs, open), NEW n \in 1..Len(rs), n = Len(rs),
         rs[n] # NoRef, NEW i \in DOMAIN At(r, rs[n])[2],
         At(r, rs[n])[1] = "array" => i = Len(At(r, rs[n])[2]),
         NEW b \in BOOLEAN,
         Container(At(r, Append(rs[n], i))), At(r, Append(rs[n], i))[1] = Kind(b)
  PROVE  Refs(r, Append(rs, Append(rs[n], i)), Append(open, b))
<1> DEFINE ref == Append(rs[n], i)
           more == Append(rs, ref)
           wide == Append(open, b)
<1>1. Refers(r, rs, open, n) /\ n \in Nat /\ n + 1 \in Nat
  BY DEF Refs
<1>2. rs[n] \in Seq(Nat \ {0}) /\ Len(rs[n]) = n - 1
  BY <1>1 DEF Refers, Path
<1>3. i \in Nat \ {0}
  <2>1. Container(At(r, rs[n]))
    BY <1>1 DEF Refers
  <2>2. Len(At(r, rs[n])[2]) \in Nat /\ DOMAIN At(r, rs[n])[2] = 1..Len(At(r, rs[n])[2])
    BY <2>1, ContainerIs, SeqHas
  <2> QED
    BY <2>2
<1>4. /\ ref \in Seq(Nat \ {0}) /\ Len(ref) = n /\ ref[n] = i
      /\ \A m \in 1..n : SubSeq(ref, 1, m - 1) = SubSeq(rs[n], 1, m - 1)
      /\ SubSeq(ref, 1, n) = ref
  <2>1. ref \in Seq(Nat \ {0}) /\ Len(ref) = (n - 1) + 1 /\ ref[(n - 1) + 1] = i
    BY <1>2, <1>3, AppendProperties
  <2>2. (n - 1) + 1 = n
    BY <1>1
  <2>3. ASSUME NEW m \in 1..n PROVE SubSeq(ref, 1, m - 1) = SubSeq(rs[n], 1, m - 1)
    BY <1>1, <1>2, <1>3
  <2>4. SubSeq(ref, 1, n) = ref
    BY <2>1, <2>2, SubSeqFull
  <2> QED
    BY <2>1, <2>2, <2>3, <2>4
<1>5. ref \in Seq(Int)
  BY <1>4
<1> HIDE DEF ref
<1>6. /\ more \in Seq(Seq(Int)) /\ Len(more) = n + 1 /\ more[n + 1] = ref
      /\ \A m \in 1..n : more[m] = rs[m]
  BY <1>5, AppendProperties DEF Refs
<1>7. /\ wide \in Seq(BOOLEAN) /\ Len(wide) = n + 1 /\ wide[n + 1] = b
      /\ \A m \in 1..n : wide[m] = open[m]
  BY AppendProperties DEF Refs
<1> HIDE DEF more, wide
<1>8. ASSUME NEW m \in 1..n, more[m] # NoRef
      PROVE  Refers(r, more, wide, m)
  <2>1. \A k \in 1..m : k \in 1..n /\ rs[k] = more[k] /\ open[k] = wide[k]
    BY <1>1, <1>6, <1>7
  <2>2. Refers(r, rs, open, m)
    BY <1>6, <1>8 DEF Refs
  <2>3. m \in Nat \ {0}
    BY <1>1
  <2> QED
    BY <2>1, <2>2, <2>3, RefersMoved
<1>9. Refers(r, more, wide, n + 1)
  <2>1. (n + 1) - 1 = n /\ n + 1 > 1
    BY <1>1
  <2>2. more[n + 1] \in Path /\ Len(more[n + 1]) = (n + 1) - 1
    BY <1>4, <1>6, <2>1 DEF Path
  <2>3. ASSUME NEW m \in 1..(n + 1) PROVE more[m] = SubSeq(more[n + 1], 1, m - 1)
    <3>1. CASE m = n + 1
      BY <1>4, <1>6, <2>1, <3>1
    <3>2. CASE m # n + 1
      <4>1. m \in 1..n
        BY <1>1, <3>2
      <4>2. rs[m] = SubSeq(rs[n], 1, m - 1)
        BY <1>1, <4>1 DEF Refers
      <4> QED
        BY <1>4, <1>6, <4>1, <4>2
    <3> QED
      BY <3>1, <3>2
  <2>4. Container(At(r, more[n + 1])) /\ At(r, more[n + 1])[1] = Kind(wide[n + 1])
    BY <1>6, <1>7 DEF ref
  <2>5. more[(n + 1) - 1] = rs[n] /\ more[n + 1][(n + 1) - 1] = i
    BY <1>1, <1>4, <1>6, <2>1
  <2> QED
    BY <2>2, <2>3, <2>4, <2>5 DEF Refers
<1>10. ASSUME NEW m \in 1..Len(more), more[m] # NoRef PROVE Refers(r, more, wide, m)
  <2>1. m = n + 1 \/ m \in 1..n
    BY <1>1, <1>6
  <2> QED
    BY <1>8, <1>9, <1>10, <2>1
<1> QED
  BY <1>6, <1>7, <1>10 DEF Refs, more, wide, ref

\* A container that begins and is not kept.
LEMMA RefsPushNull ==
  ASSUME NEW r, NEW rs, NEW open, Refs(r, rs, open), NEW b \in BOOLEAN
  PROVE  Refs(r, Append(rs, NoRef), Append(open, b))
<1> DEFINE more == Append(rs, NoRef)
           wide == Append(open, b)
           n == Len(rs)
<1>1. n \in Nat /\ NoRef \in Seq(Int)
  BY DEF Refs, NoRef
<1>2. /\ more \in Seq(Seq(Int)) /\ Len(more) = n + 1 /\ more[n + 1] = NoRef
      /\ \A m \in 1..n : more[m] = rs[m]
  BY <1>1, AppendProperties DEF Refs
<1>3. /\ wide \in Seq(BOOLEAN) /\ Len(wide) = n + 1
      /\ \A m \in 1..n : wide[m] = open[m]
  BY AppendProperties DEF Refs
<1> HIDE DEF more, wide
<1>4. ASSUME NEW m \in 1..Len(more), more[m] # NoRef
      PROVE  Refers(r, more, wide, m)
  <2>1. m \in 1..n
    BY <1>1, <1>2, <1>4
  <2>2. ASSUME NEW k \in 1..m PROVE rs[k] = more[k] /\ open[k] = wide[k]
    <3>1. k \in 1..n
      BY <1>1, <2>1
    <3> QED
      BY <1>2, <1>3, <3>1, Zenon
  <2>3. Refers(r, rs, open, m)
    BY <1>2, <1>4, <2>1 DEF Refs
  <2>4. m \in Nat \ {0}
    BY <1>1, <2>1
  <2> QED
    BY <2>2, <2>3, <2>4, RefersMoved
<1> QED
  BY <1>2, <1>3, <1>4 DEF Refs, more, wide

\* A container ends.
LEMMA RefsPop ==
  ASSUME NEW r, NEW rs, NEW open, Refs(r, rs, open), Len(rs) # 0
  PROVE  Refs(r, Front(rs), Front(open))
<1> DEFINE less == Front(rs)
           left == Front(open)
           n == Len(rs)
<1>1. n \in Nat \ {0}
  BY DEF Refs
<1>2. /\ less \in Seq(Seq(Int)) /\ Len(less) = n - 1
      /\ \A m \in 1..(n - 1) : less[m] = rs[m]
  BY <1>1 DEF Refs, Front
<1>3. /\ left \in Seq(BOOLEAN) /\ Len(left) = n - 1
      /\ \A m \in 1..(n - 1) : left[m] = open[m]
  BY <1>1 DEF Refs, Front
<1> HIDE DEF less, left
<1>4. ASSUME NEW m \in 1..Len(less), less[m] # NoRef
      PROVE  Refers(r, less, left, m)
  <2>1. m \in 1..(n - 1) /\ m \in 1..n
    BY <1>1, <1>2
  <2>2. ASSUME NEW k \in 1..m PROVE rs[k] = less[k] /\ open[k] = left[k]
    <3>1. k \in 1..(n - 1)
      BY <1>1, <2>1
    <3> QED
      BY <1>2, <1>3, <3>1, Zenon
  <2>3. Refers(r, rs, open, m)
    BY <1>2, <1>4, <2>1 DEF Refs
  <2>4. m \in Nat \ {0}
    BY <1>1, <2>1
  <2> QED
    BY <2>2, <2>3, <2>4, RefersMoved
<1> QED
  BY <1>2, <1>3, <1>4 DEF Refs, less, left

\* The whole document is one container.
LEMMA RefsFirst ==
  ASSUME NEW v, NEW b \in BOOLEAN, Container(v), v[1] = Kind(b)
  PROVE  Refs(v, << << >> >>, <<b>>)
<1>1. << << >> >> \in Seq(Seq(Int)) /\ <<b>> \in Seq(BOOLEAN) /\ Len(<< << >> >>) = 1 /\ Len(<<b>>) = 1
  OBVIOUS
<1>2. << << >> >>[1] = << >> /\ <<b>>[1] = b
  OBVIOUS
<1>3. At(v, << >>) = v /\ << >> \in Path /\ Len(<< >>) = 0 /\ SubSeq(<< >>, 1, 0) = << >>
  BY AtEmpty DEF Path
<1>4. Refers(v, << << >> >>, <<b>>, 1)
  BY <1>2, <1>3 DEF Refers
<1> QED
  BY <1>1, <1>4 DEF Refs

\* Any document, while nothing is open.
LEMMA RefsNone ==
  ASSUME NEW v
  PROVE  Refs(v, << >>, << >>)
  BY DEF Refs

-----------------------------------------------------------------------------
(* The handlers.                                                           *)

\* The handlers of sax_parse_internal.
Handlers == {"accept", "dom", "callback"}

\* What a handler has built while the containers in open are.
Built(open) ==
    handler # "accept" =>
        /\ Refs(root, ref_stack, open)
        /\ handler = "dom" => \A n \in 1..Len(ref_stack) : ref_stack[n] # NoRef
        /\ handler = "callback" =>
              /\ keep_stack \in Seq(BOOLEAN) /\ Len(keep_stack) = Len(open) + 1
              /\ key_keep_stack \in Seq(BOOLEAN)

\* There is a member for the next value, if the value is to be kept.
Ready ==
    handler # "accept" =>
        /\ handler = "callback" => key_keep_stack # << >>
        /\ Last(ref_stack) # NoRef /\ (handler = "callback" => Last(key_keep_stack)) =>
              object_element \in Below(Last(ref_stack), Back)

\* What Back is, if it may be looked at.
LEMMA Innermost ==
  ASSUME NEW open, Refs(root, ref_stack, open), ref_stack # << >> \/ open # << >>
  PROVE  /\ ref_stack # << >> /\ open # << >>
         /\ Len(ref_stack) \in Nat \ {0} /\ Len(ref_stack) \in 1..Len(ref_stack)
         /\ Len(open) = Len(ref_stack)
         /\ Last(ref_stack) = ref_stack[Len(ref_stack)] /\ Last(open) = open[Len(ref_stack)]
         /\ Last(open) \in BOOLEAN
         /\ Last(ref_stack) # NoRef =>
               /\ Refers(root, ref_stack, open, Len(ref_stack))
               /\ Last(ref_stack) \in Path
               /\ Container(Back) /\ Back[1] = Kind(Last(open))
               /\ IsSeq(Back[2])
               /\ Back = At(root, ref_stack[Len(ref_stack)])
<1> DEFINE n == Len(ref_stack)
<1>1. /\ ref_stack \in Seq(Seq(Int)) /\ open \in Seq(BOOLEAN) /\ n = Len(open)
      /\ \A m \in 1..n : ref_stack[m] # NoRef => Refers(root, ref_stack, open, m)
  BY DEF Refs
<1>2. ref_stack # << >> /\ open # << >> /\ n \in Nat \ {0} /\ n \in 1..n
  BY <1>1
<1>3. Last(ref_stack) = ref_stack[n] /\ Last(open) = open[n]
  BY <1>1 DEF Last
<1>4. open[n] \in BOOLEAN
  BY <1>1, <1>2
<1>5. ASSUME Last(ref_stack) # NoRef
      PROVE  /\ Refers(root, ref_stack, open, n)
             /\ Last(ref_stack) \in Path
             /\ Container(Back) /\ Back[1] = Kind(Last(open))
             /\ IsSeq(Back[2])
             /\ Back = At(root, ref_stack[n])
  <2>1. Refers(root, ref_stack, open, n)
    BY <1>1, <1>2, <1>3, <1>5
  <2>2. Back = At(root, ref_stack[n])
    BY <1>3 DEF Back
  <2>3. ref_stack[n] \in Path /\ Container(At(root, ref_stack[n])) /\ At(root, ref_stack[n])[1] = Kind(open[n])
    BY <2>1, Zenon DEF Refers
  <2>4. Container(Back) /\ Back[1] = Kind(Last(open))
    BY <1>3, <2>2, <2>3, Zenon
  <2>5. IsSeq(Back[2])
    BY <2>4, ContainerIs
  <2> QED
    BY <1>3, <2>1, <2>2, <2>3, <2>4, <2>5, Zenon
<1> QED
  BY <1>1, <1>2, <1>3, <1>4, <1>5

\* handle_value has a place for v: the document stays what ref_stack says, and the
\* pointer it returns may be pushed if v is a container.
LEMMA Handled ==
  ASSUME NEW open, Refs(root, ref_stack, open), NEW v,
         ref_stack # << >> =>
            /\ Last(ref_stack) # NoRef
            /\ ~Last(open) => object_element \in Below(Last(ref_stack), Back)
  PROVE  /\ Refs(handle_value(v).root, ref_stack, open)
         /\ handle_value(v).at # NoRef
         /\ \A b \in BOOLEAN : Container(v) /\ v[1] = Kind(b) =>
               Refs(handle_value(v).root, Append(ref_stack, handle_value(v).at), Append(open, b))
<1> DEFINE n == Len(ref_stack)
<1>1. CASE ref_stack = << >>
  <2>1. handle_value(v) = [at |-> << >>, root |-> v]
    BY <1>1 DEF handle_value
  <2>2. open = << >>
    <3>1. ~(open # << >>)
      BY <1>1, Innermost
    <3> QED
      BY <3>1
  <2>3. Append(ref_stack, << >>) = << << >> >> /\ \A b \in BOOLEAN : Append(open, b) = <<b>>
    BY <1>1, <2>2
  <2>4. Refs(v, ref_stack, open)
    BY <1>1, <2>2, RefsNone
  <2>5. << >> # NoRef
    <3>1. << >> \in Path
      BY DEF Path
    <3> QED
      BY <3>1, PathIsNoNull
  <2>6. ASSUME NEW b \in BOOLEAN, Container(v), v[1] = Kind(b)
        PROVE  Refs(v, << << >> >>, <<b>>)
    BY <2>6, RefsFirst
  <2>7. handle_value(v).root = v /\ handle_value(v).at = << >>
    BY <2>1
  <2>8. ASSUME NEW b \in BOOLEAN, Container(v), v[1] = Kind(b)
        PROVE  Refs(v, Append(ref_stack, << >>), Append(open, b))
    <3>1. Refs(v, << << >> >>, <<b>>)
      BY <2>6, <2>8
    <3> QED
      BY <2>3, <3>1, Zenon
  <2> QED
    BY <2>4, <2>5, <2>7, <2>8, Zenon
<1>2. CASE ref_stack # << >>
  <2>1. /\ n \in 1..n /\ n = Len(ref_stack) /\ ref_stack[n] # NoRef /\ Last(ref_stack) = ref_stack[n]
        /\ Last(open) = open[n] /\ open[n] \in BOOLEAN
        /\ ref_stack[n] \in Path /\ Container(Back) /\ Back[1] = Kind(open[n])
        /\ IsSeq(Back[2]) /\ Back = At(root, ref_stack[n])
    BY <1>2, Innermost
  <2> HIDE DEF n
  <2>2. CASE IsArray(Back)
    <3> DEFINE w == <<"array", Append(Back[2], v)>>
               i == BackIndex(Back[2])
               r == Put(root, ref_stack[n], w)
    <3>1. handle_value(v) = [at |-> Append(ref_stack[n], i), root |-> r]
      BY <1>2, <2>1, <2>2 DEF handle_value
    <3>2. /\ IsSeq(Append(Back[2], v)) /\ i \in DOMAIN Append(Back[2], v) /\ i = Len(Append(Back[2], v))
          /\ Append(Back[2], v)[i] = v /\ i \in Nat \ {0}
      <4>1. PICK S : Back[2] \in Seq(S)
        BY <2>1 DEF IsSeq
      <4>2. Back[2] \in Seq(S \cup {v})
        <5>1. S \subseteq S \cup {v}
          OBVIOUS
        <5> QED
          BY <4>1, <5>1, SeqMonotonic
      <4>3. Append(Back[2], v) \in Seq(S \cup {v})
        BY <4>2
      <4>4. /\ i \in DOMAIN Append(Back[2], v) /\ i = Len(Append(Back[2], v))
            /\ Append(Back[2], v)[i] = v /\ i \in Nat \ {0}
        BY <4>2 DEF BackIndex
      <4> QED
        BY <4>3, <4>4 DEF IsSeq
    <3>3. Container(w) /\ w[1] = "array" /\ w[2] = Append(Back[2], v)
      BY <3>2, ContainerMade
    <3>4. Kind(open[n]) = "array"
      BY <2>1, <2>2 DEF IsArray
    <3> HIDE DEF w, i
    <3>5. Refs(r, ref_stack, open) /\ At(r, ref_stack[n]) = w
      <4>1. PICK p : p = ref_stack[n]
        OBVIOUS
      <4>2. IsInnermost(ref_stack, p) /\ w[1] = Kind(open[Len(ref_stack)])
        BY <2>1, <3>3, <3>4, <4>1 DEF IsInnermost
      <4>3. PutThere(root, ref_stack, open, p, w)
        BY <3>3, <4>2, RefsPut
      <4> QED
        BY <4>1, <4>3, Zenon DEF PutThere
    <3> HIDE DEF r
    <3>6. At(r, Append(ref_stack[n], i)) = v
      <4>1. At(r, Append(ref_stack[n], i)) = Child(At(r, ref_stack[n]), i)
        BY <2>1, <3>2, AtAppend DEF Path
      <4>2. Child(w, i) = v
        BY <3>2, <3>3 DEF Child, IsArray
      <4> QED
        BY <3>5, <4>1, <4>2
    <3>7. Append(ref_stack[n], i) # NoRef
      <4>1. Append(ref_stack[n], i) \in Path
        BY <2>1, <3>2 DEF Path
      <4> QED
        BY <4>1, PathIsNoNull
    <3>8. ASSUME NEW b \in BOOLEAN, Container(v), v[1] = Kind(b)
          PROVE  Refs(r, Append(ref_stack, Append(ref_stack[n], i)), Append(open, b))
      <4>1. i \in DOMAIN At(r, ref_stack[n])[2] /\ i = Len(At(r, ref_stack[n])[2])
        BY <3>2, <3>3, <3>5
      <4> QED
        BY <2>1, <3>5, <3>6, <3>8, <4>1, RefsPush
    <3> QED
      BY <3>1, <3>5, <3>7, <3>8
  <2>3. CASE ~IsArray(Back)
    <3> DEFINE r == Put(root, object_element, v)
    <3>1. handle_value(v) = [at |-> object_element, root |-> r]
      BY <1>2, <2>3 DEF handle_value
    <3>2. Kind(open[n]) = "object" /\ ~Last(open)
      BY <2>1, <2>3 DEF IsArray, Kind
    <3>3. PICK i \in DOMAIN Back[2] : object_element = Append(ref_stack[n], i)
      BY <1>2, <2>1, <3>2 DEF Below
    <3>4. i \in DOMAIN At(root, ref_stack[n])[2]
      BY <2>1
    <3>5. i \in Nat \ {0}
      <4>1. Len(Back[2]) \in Nat /\ DOMAIN Back[2] = 1..Len(Back[2])
        BY <2>1, SeqHas
      <4> QED
        BY <4>1
    <3>6. /\ Refs(r, ref_stack, open)
          /\ Alike(At(root, ref_stack[n]), At(r, ref_stack[n]))
          /\ At(r, object_element) = v
      <4> DEFINE x == Changed(At(root, ref_stack[n]), i, v)
                 q == Put(root, Append(ref_stack[n], i), v)
      <4>1. /\ Refs(q, ref_stack, open) /\ At(q, ref_stack[n]) = x
            /\ Alike(At(root, ref_stack[n]), x)
            /\ At(q, Append(ref_stack[n], i)) = v
        <5>1. PICK p : p = ref_stack[n]
          OBVIOUS
        <5>2. IsInnermost(ref_stack, p) /\ i \in DOMAIN At(root, p)[2]
          BY <2>1, <3>4, <5>1 DEF IsInnermost
        <5>3. PutBelow(root, ref_stack, open, p, i, v)
          BY <5>2, RefsPutChild
        <5> QED
          BY <5>1, <5>3, Zenon DEF PutBelow
      <4>2. r = q
        BY <3>3, Zenon
      <4>3. At(r, ref_stack[n]) = x /\ At(r, object_element) = v /\ Refs(r, ref_stack, open)
        BY <3>3, <4>1, <4>2, Zenon
      <4> HIDE DEF q, x, r
      <4> QED
        BY <4>1, <4>3, Zenon
    <3> HIDE DEF r
    <3>7. object_element # NoRef
      <4>1. object_element \in Path
        BY <2>1, <3>3, <3>5 DEF Path
      <4> QED
        BY <4>1, PathIsNoNull
    <3>8. ASSUME NEW b \in BOOLEAN, Container(v), v[1] = Kind(b)
          PROVE  Refs(r, Append(ref_stack, object_element), Append(open, b))
      <4>1. i \in DOMAIN At(r, ref_stack[n])[2] /\ At(r, ref_stack[n])[1] # "array"
        BY <2>1, <3>2, <3>4, <3>6 DEF Alike
      <4>2. Container(At(r, Append(ref_stack[n], i))) /\ At(r, Append(ref_stack[n], i))[1] = Kind(b)
        BY <3>3, <3>6, <3>8
      <4> QED
        BY <2>1, <3>3, <3>6, <4>1, <4>2, RefsPush
    <3> QED
      BY <3>1, <3>6, <3>7, <3>8
  <2> QED
    BY <2>2, <2>3
<1> QED
  BY <1>1, <1>2

\* The same of handle_value with a callback, whatever it has kept.
LEMMA HandledOrNot ==
  ASSUME NEW open, Refs(root, ref_stack, open), NEW v, NEW keeps, NEW keep,
         key_keep_stack \in Seq(BOOLEAN),
         ref_stack # << >> /\ ~Last(open) =>
            /\ key_keep_stack # << >>
            /\ Last(ref_stack) # NoRef /\ Last(key_keep_stack) =>
                  object_element \in Below(Last(ref_stack), Back)
  PROVE  LET h == HandleKept(v, keeps, keep)
         IN /\ Refs(h.root, ref_stack, open)
            /\ h.keys \in Seq(BOOLEAN)
            /\ \A b \in BOOLEAN : Container(v) /\ v[1] = Kind(b) =>
                  Refs(h.root, Append(ref_stack, h.at), Append(open, b))
<1> DEFINE h == HandleKept(v, keeps, keep)
           Fine == /\ Refs(h.root, ref_stack, open)
                   /\ h.keys \in Seq(BOOLEAN)
                   /\ \A b \in BOOLEAN : Container(v) /\ v[1] = Kind(b) =>
                         Refs(h.root, Append(ref_stack, h.at), Append(open, b))
<1>1. ASSUME h.at = NoRef, h.root = root, h.keys \in Seq(BOOLEAN)
      PROVE  Fine
  <2>1. \A b \in BOOLEAN : Refs(root, Append(ref_stack, NoRef), Append(open, b))
    BY RefsPushNull
  <2> HIDE DEF h
  <2> QED
    BY <1>1, <2>1
<1>2. ASSUME h.at = handle_value(v).at, h.root = handle_value(v).root, h.keys \in Seq(BOOLEAN),
             ref_stack # << >> =>
                /\ Last(ref_stack) # NoRef
                /\ ~Last(open) => object_element \in Below(Last(ref_stack), Back)
      PROVE  Fine
  <2>1. /\ Refs(handle_value(v).root, ref_stack, open)
        /\ \A b \in BOOLEAN : Container(v) /\ v[1] = Kind(b) =>
              Refs(handle_value(v).root, Append(ref_stack, handle_value(v).at), Append(open, b))
    BY <1>2, Handled
  <2> HIDE DEF h
  <2> QED
    BY <1>2, <2>1
<1>3. CASE ~Last(keeps) \/ ~keep
  <2>1. h.at = NoRef /\ h.root = root /\ h.keys = key_keep_stack
    BY <1>3 DEF HandleKept
  <2> QED
    BY <1>1, <2>1
<1>4. CASE ~(~Last(keeps) \/ ~keep) /\ ref_stack = << >>
  <2>1. h.at = handle_value(v).at /\ h.root = handle_value(v).root /\ h.keys = key_keep_stack
    BY <1>4 DEF HandleKept
  <2> QED
    BY <1>2, <1>4, <2>1
<1>5. CASE ~(~Last(keeps) \/ ~keep) /\ ref_stack # << >> /\ Last(ref_stack) = NoRef
  <2>1. h.at = NoRef /\ h.root = root /\ h.keys = key_keep_stack
    BY <1>5 DEF HandleKept
  <2> QED
    BY <1>1, <2>1
<1>6. CASE ~(~Last(keeps) \/ ~keep) /\ ref_stack # << >> /\ Last(ref_stack) # NoRef /\ IsArray(Back)
  <2>1. h.at = handle_value(v).at /\ h.root = handle_value(v).root /\ h.keys = key_keep_stack
    BY <1>6 DEF HandleKept
  <2>2. Last(open)
    <3>1. Back[1] = Kind(Last(open)) /\ Last(open) \in BOOLEAN
      BY <1>6, Innermost
    <3> QED
      BY <1>6, <3>1 DEF IsArray, Kind
  <2> QED
    BY <1>2, <1>6, <2>1, <2>2
<1>7. CASE ~(~Last(keeps) \/ ~keep) /\ ref_stack # << >> /\ Last(ref_stack) # NoRef /\ ~IsArray(Back)
  <2>1. ~Last(open)
    <3>1. Back[1] = Kind(Last(open)) /\ Last(open) \in BOOLEAN
      BY <1>7, Innermost
    <3> QED
      BY <1>7, <3>1 DEF IsArray, Kind
  <2>2. key_keep_stack # << >> /\ (Last(key_keep_stack) => object_element \in Below(Last(ref_stack), Back))
    BY <1>7, <2>1
  <2>3. Front(key_keep_stack) \in Seq(BOOLEAN)
    BY <2>2 DEF Front
  <2>4. CASE Last(key_keep_stack)
    <3>1. h.at = handle_value(v).at /\ h.root = handle_value(v).root /\ h.keys = Front(key_keep_stack)
      BY <1>7, <2>4 DEF HandleKept
    <3> QED
      BY <1>2, <1>7, <2>2, <2>3, <2>4, <3>1
  <2>5. CASE ~Last(key_keep_stack)
    <3>1. h.at = NoRef /\ h.root = root /\ h.keys = Front(key_keep_stack)
      BY <1>7, <2>5 DEF HandleKept
    <3> QED
      BY <1>1, <2>3, <3>1
  <2> QED
    BY <2>4, <2>5
<1> QED
  BY <1>3, <1>4, <1>5, <1>6, <1>7, Zenon


\* Parts of a sequence, and a sequence between two of them.
LEMMA PartIsSeq ==
  ASSUME NEW S, NEW s \in Seq(S), NEW m \in Nat \ {0}, NEW n \in Int, n <= Len(s)
  PROVE  /\ SubSeq(s, m, n) \in Seq(S)
         /\ Len(SubSeq(s, m, n)) = IF m <= n THEN n - m + 1 ELSE 0
<1>1. \A i \in m..n : s[i] \in S
  OBVIOUS
<1> QED
  BY <1>1, SubSeqProperties, SMTT(60)

\* A sequence without one of its elements.
LEMMA LessOne ==
  ASSUME NEW s, IsSeq(s)
  PROVE  /\ IsSeq(Front(s))
         /\ \A i \in DOMAIN s : IsSeq(RemoveAt(s, i))
<1>1. PICK S : s \in Seq(S)
  BY DEF IsSeq
<1>2. Front(s) \in Seq(S)
  <2>1. Len(s) - 1 \in Int /\ Len(s) - 1 <= Len(s) /\ 1 \in Nat \ {0}
    BY <1>1
  <2> QED
    BY <1>1, <2>1, PartIsSeq DEF Front
<1>3. ASSUME NEW i \in DOMAIN s PROVE RemoveAt(s, i) \in Seq(S)
  <2>1. /\ i \in Nat \ {0} /\ i <= Len(s) /\ i - 1 \in Int /\ i - 1 <= Len(s) /\ 1 \in Nat \ {0}
        /\ i + 1 \in Nat \ {0} /\ Len(s) \in Int /\ Len(s) <= Len(s)
    BY <1>1, <1>3
  <2>2. SubSeq(s, 1, i - 1) \in Seq(S) /\ SubSeq(s, i + 1, Len(s)) \in Seq(S)
    BY <1>1, <2>1, PartIsSeq
  <2> QED
    BY <2>2, ConcatProperties DEF RemoveAt
<1> QED
  BY <1>2, <1>3 DEF IsSeq

\* The members that operator[] leaves are members, and one of them is for the key.
LEMMA MemberIsThere ==
  ASSUME NEW members, IsSeq(members), NEW k
  PROVE  /\ IsSeq(Member(members, k))
         /\ \E n \in DOMAIN Member(members, k) : Member(members, k)[n][1] = k
<1> DEFINE i == Position(members, k)
           e == <<k, Null>>
           more == Member(members, k)
<1>1. PICK S : members \in Seq(S)
  BY DEF IsSeq
<1>2. CASE Holds(members, k)
  <2>1. more = members
    BY <1>2 DEF Member
  <2>2. \E n \in DOMAIN members : members[n][1] = k
    BY <1>2 DEF Holds
  <2> QED
    BY <2>1, <2>2, Zenon
<1>3. CASE ~Holds(members, k)
  <2>1. i \in 1..(Len(members) + 1)
    <3> DEFINE lesser == {n \in DOMAIN members : members[n][1] < k}
    <3>1. Len(members) \in Nat /\ DOMAIN members = 1..Len(members)
      BY <1>1
    <3>2. lesser \in SUBSET (1..Len(members))
      BY <3>1
    <3>3. IsFiniteSet(1..Len(members)) /\ Cardinality(1..Len(members)) = Len(members)
      <4>1. 1 \in Int /\ Len(members) \in Int
        BY <3>1
      <4>2. /\ IsFiniteSet(1..Len(members))
            /\ Cardinality(1..Len(members)) = IF 1 > Len(members) THEN 0 ELSE Len(members) - 1 + 1
        BY <4>1, FS_Interval
      <4> QED
        BY <3>1, <4>2
    <3>4. i = 1 + (IF ordered THEN Len(members) ELSE Cardinality(lesser))
      BY <1>3 DEF Position
    <3> HIDE DEF lesser, i
    <3>5. IsFiniteSet(lesser) /\ Cardinality(lesser) <= Len(members)
      BY <3>2, <3>3, FS_Subset
    <3>6. Cardinality(lesser) \in Nat
      BY <3>5, FS_CardinalityType
    <3> QED
      BY <3>1, <3>4, <3>5, <3>6
  <2>2. more = InsertAt(members, i, e)
    BY <1>3 DEF Member
  <2> HIDE DEF more, i, e
  <2> DEFINE U == S \cup {e}
             front == SubSeq(members, 1, i - 1)
             rest == SubSeq(members, i, Len(members))
  <2>3. members \in Seq(U)
    <3>1. S \subseteq U
      OBVIOUS
    <3> QED
      BY <1>1, <3>1, SeqMonotonic
  <2>4. /\ i \in Nat \ {0} /\ i - 1 \in Int /\ i - 1 <= Len(members) /\ 1 \in Nat \ {0}
        /\ Len(members) \in Int /\ Len(members) <= Len(members) /\ i - 1 >= 0
    BY <1>1, <2>1
  <2>5. front \in Seq(U) /\ Len(front) = i - 1
    <3>1. front \in Seq(U) /\ Len(front) = IF 1 <= i - 1 THEN (i - 1) - 1 + 1 ELSE 0
      BY <2>3, <2>4, PartIsSeq
    <3> QED
      BY <2>4, <3>1
  <2>6. rest \in Seq(U)
    BY <2>3, <2>4, PartIsSeq
  <2>7. <<e>> \in Seq(U) /\ Len(<<e>>) = 1 /\ <<e>>[1] = e
    OBVIOUS
  <2>8. more = front \o <<e>> \o rest
    BY <2>2 DEF InsertAt
  <2> HIDE DEF front, rest, U
  <2>9. front \o <<e>> \in Seq(U) /\ Len(front \o <<e>>) = i /\ (front \o <<e>>)[i] = e
    BY <2>4, <2>5, <2>7
  <2>10. more \in Seq(U) /\ i \in DOMAIN more /\ more[i] = e
    <3> DEFINE one == front \o <<e>>
    <3>1. one \in Seq(U) /\ Len(one) = i /\ one[i] = e /\ more = one \o rest
      BY <2>8, <2>9
    <3> HIDE DEF one
    <3>2. /\ one \o rest \in Seq(U) /\ Len(one \o rest) = i + Len(rest) /\ Len(rest) \in Nat
          /\ \A n \in 1..(i + Len(rest)) : (one \o rest)[n] = IF n <= i THEN one[n] ELSE rest[n - i]
      <4>1. /\ one \o rest \in Seq(U) /\ Len(one \o rest) = Len(one) + Len(rest)
            /\ \A n \in 1..(Len(one) + Len(rest)) :
                  (one \o rest)[n] = IF n <= Len(one) THEN one[n] ELSE rest[n - Len(one)]
        BY <2>6, <3>1, ConcatProperties, Zenon
      <4>2. Len(one) = i /\ Len(rest) \in Nat
        BY <2>6, <3>1
      <4> QED
        BY <4>1, <4>2
    <3> QED
      BY <2>4, <3>1, <3>2
  <2>11. more[i][1] = k
    BY <2>10 DEF e
  <2> QED
    BY <2>10, <2>11 DEF IsSeq, more
<1> QED
  BY <1>2, <1>3

\* What Cleaned erases is a child.
LEMMA DiscardedIsThere ==
  ASSUME NEW v, IsSeq(v[2]), FirstDiscarded(v) # {}
  PROVE  Max(FirstDiscarded(v)) \in DOMAIN v[2]
<1> DEFINE F == FirstDiscarded(v)
<1>1. DOMAIN v[2] = 1..Len(v[2]) /\ Len(v[2]) \in Nat
  BY SeqHas
<1>2. F \subseteq DOMAIN v[2]
  BY DEF FirstDiscarded
<1>3. ASSUME NEW x \in F, NEW y \in F PROVE x >= y
  <2>1. x \in Nat \ {0} /\ y \in Nat \ {0}
    BY <1>1, <1>2
  <2>2. Child(v, x) = Discarded /\ \A m \in 1..(y - 1) : Child(v, m) # Discarded
    BY DEF FirstDiscarded
  <2> QED
    BY <2>1, <2>2
<1> HIDE DEF F
<1>4. \E x \in F : \A y \in F : x >= y
  BY <1>3 DEF F
<1>5. Max(F) \in F
  BY <1>4 DEF Max
<1> QED
  BY <1>2, <1>5 DEF F

\* null, boolean, a number or a string.
LEMMA ScalarBuilds ==
  ASSUME NEW open, Built(open), handler \in Handlers, handler' = handler,
         open # << >> /\ ~Last(open) => Ready,
         NEW v, Scalar(v)
  PROVE  Built(open)'
<1>1. CASE handler = "accept"
  BY <1>1 DEF Built
<1>2. CASE handler = "dom"
  <2>1. DomScalar(v)
    BY <1>2 DEF Scalar
  <2>2. /\ Refs(root, ref_stack, open)
        /\ \A n \in 1..Len(ref_stack) : ref_stack[n] # NoRef
    BY <1>2 DEF Built
  <2>3. ref_stack # << >> =>
           /\ Last(ref_stack) # NoRef
           /\ ~Last(open) => object_element \in Below(Last(ref_stack), Back)
    <3> SUFFICES ASSUME ref_stack # << >>
                 PROVE  /\ Last(ref_stack) # NoRef
                        /\ ~Last(open) => object_element \in Below(Last(ref_stack), Back)
      OBVIOUS
    <3>1. open # << >> /\ Last(ref_stack) # NoRef
      BY <2>2, Innermost
    <3> QED
      BY <1>2, <3>1 DEF Ready
  <2>4. Refs(handle_value(v).root, ref_stack, open)
    BY <2>2, <2>3, Handled
  <2>5. root' = handle_value(v).root /\ ref_stack' = ref_stack
    BY <2>1 DEF DomScalar
  <2> QED
    BY <1>2, <2>2, <2>4, <2>5 DEF Built
<1>3. CASE handler = "callback"
  <2>1. KeptScalar(v)
    BY <1>3 DEF Scalar
  <2>2. /\ Refs(root, ref_stack, open)
        /\ keep_stack \in Seq(BOOLEAN) /\ Len(keep_stack) = Len(open) + 1
        /\ key_keep_stack \in Seq(BOOLEAN)
    BY <1>3 DEF Built
  <2>3. ref_stack' = ref_stack /\ keep_stack' = keep_stack
    BY <2>1 DEF KeptScalar
  <2>4. Refs(root', ref_stack, open) /\ key_keep_stack' \in Seq(BOOLEAN)
    <3>1. CASE ~Last(keep_stack)
      BY <2>1, <2>2, <3>1 DEF KeptScalar
    <3>2. CASE Last(keep_stack)
      <4>1. PICK keep \in BOOLEAN :
              LET h == HandleKept(v, keep_stack, keep)
              IN root' = h.root /\ key_keep_stack' = h.keys
        BY <2>1, <3>2 DEF KeptScalar
      <4>2. ref_stack # << >> /\ ~Last(open) =>
               /\ key_keep_stack # << >>
               /\ Last(ref_stack) # NoRef /\ Last(key_keep_stack) =>
                     object_element \in Below(Last(ref_stack), Back)
        <5> SUFFICES ASSUME ref_stack # << >>, ~Last(open)
                     PROVE  /\ key_keep_stack # << >>
                            /\ Last(ref_stack) # NoRef /\ Last(key_keep_stack) =>
                                  object_element \in Below(Last(ref_stack), Back)
          OBVIOUS
        <5>1. open # << >>
          BY <2>2, Innermost
        <5> QED
          BY <1>3, <5>1 DEF Ready
      <4>3. LET h == HandleKept(v, keep_stack, keep)
            IN Refs(h.root, ref_stack, open) /\ h.keys \in Seq(BOOLEAN)
        BY <2>2, <4>2, HandledOrNot
      <4> QED
        BY <4>1, <4>3
    <3> QED
      BY <3>1, <3>2
  <2> QED
    BY <1>3, <2>2, <2>3, <2>4 DEF Built
<1> QED
  BY <1>1, <1>2, <1>3 DEF Handlers

\* start_object and start_array.
LEMMA StartBuilds ==
  ASSUME NEW open, Built(open), handler \in Handlers, handler' = handler,
         open # << >> /\ ~Last(open) => Ready,
         NEW b \in BOOLEAN, Start(<<Kind(b), << >> >>)
  PROVE  Built(Append(open, b))'
<1> DEFINE v == <<Kind(b), << >> >>
<1>1. CASE handler = "accept"
  BY <1>1 DEF Built
<1>2. Container(v) /\ v[1] = Kind(b)
  <2>1. IsSeq(<< >>) /\ Kind(b) \in {"array", "object"}
    <3>1. << >> \in Seq({})
      OBVIOUS
    <3> QED
      BY <3>1 DEF IsSeq, Kind
  <2> QED
    BY <2>1, ContainerMade
<1>3. Start(v)
  OBVIOUS
<1> HIDE DEF v
<1>4. CASE handler = "dom"
  <2>1. DomStart(v)
    BY <1>3, <1>4 DEF Start
  <2>2. /\ Refs(root, ref_stack, open)
        /\ \A n \in 1..Len(ref_stack) : ref_stack[n] # NoRef
    BY <1>4 DEF Built
  <2>3. ref_stack # << >> =>
           /\ Last(ref_stack) # NoRef
           /\ ~Last(open) => object_element \in Below(Last(ref_stack), Back)
    <3> SUFFICES ASSUME ref_stack # << >>
                 PROVE  /\ Last(ref_stack) # NoRef
                        /\ ~Last(open) => object_element \in Below(Last(ref_stack), Back)
      OBVIOUS
    <3>1. open # << >> /\ Last(ref_stack) # NoRef
      BY <2>2, Innermost
    <3> QED
      BY <1>4, <3>1 DEF Ready
  <2>4. /\ handle_value(v).at # NoRef
        /\ Refs(handle_value(v).root, Append(ref_stack, handle_value(v).at), Append(open, b))
    BY <1>2, <2>2, <2>3, Handled
  <2>5. root' = handle_value(v).root /\ ref_stack' = Append(ref_stack, handle_value(v).at)
    BY <2>1 DEF DomStart
  <2>6. \A n \in 1..Len(ref_stack') : ref_stack'[n] # NoRef
    <3>1. ref_stack \in Seq(Seq(Int)) /\ ref_stack' \in Seq(Seq(Int))
      BY <2>2, <2>4, <2>5 DEF Refs
    <3>2. handle_value(v).at \in Seq(Int)
      <4>1. \A x : Append(ref_stack, x)[Len(ref_stack) + 1] = x /\ Len(Append(ref_stack, x)) = Len(ref_stack) + 1
        BY <3>1
      <4> DEFINE x == handle_value(v).at
      <4>2. ref_stack'[Len(ref_stack) + 1] = x /\ Len(ref_stack') = Len(ref_stack) + 1
        BY <2>5, <4>1, Zenon
      <4> HIDE DEF x
      <4>3. x \in Seq(Int)
        BY <3>1, <4>2
      <4> QED
        BY <4>3 DEF x
    <3>3. \A n \in 1..(Len(ref_stack) + 1) :
             ref_stack'[n] = IF n <= Len(ref_stack) THEN ref_stack[n] ELSE handle_value(v).at
      BY <2>5, <3>1, <3>2
    <3>4. Len(ref_stack') = Len(ref_stack) + 1
      BY <2>5, <3>1, <3>2
    <3>5. Len(ref_stack) \in Nat
      BY <3>1
    <3>6. ASSUME NEW n \in 1..(Len(ref_stack) + 1) PROVE ref_stack'[n] # NoRef
      <4>1. CASE n <= Len(ref_stack)
        BY <2>2, <3>3, <3>5, <4>1
      <4>2. CASE ~(n <= Len(ref_stack))
        <5>1. ref_stack'[n] = handle_value(v).at
          BY <3>3, <4>2
        <5> QED
          BY <2>4, <5>1, Zenon
      <4> QED
        BY <4>1, <4>2
    <3> QED
      BY <3>4, <3>6
  <2> QED
    BY <1>4, <2>4, <2>5, <2>6 DEF Built
<1>5. CASE handler = "callback"
  <2>1. KeptStart(v)
    BY <1>3, <1>5 DEF Start
  <2>2. /\ Refs(root, ref_stack, open)
        /\ keep_stack \in Seq(BOOLEAN) /\ Len(keep_stack) = Len(open) + 1
        /\ key_keep_stack \in Seq(BOOLEAN)
    BY <1>5 DEF Built
  <2>3. PICK keep \in BOOLEAN :
          LET h == HandleKept(v, Append(keep_stack, keep), TRUE)
          IN /\ keep_stack' = Append(keep_stack, keep)
             /\ root' = h.root
             /\ ref_stack' = Append(ref_stack, h.at)
             /\ key_keep_stack' = h.keys
    BY <2>1 DEF KeptStart
  <2>4. ref_stack # << >> /\ ~Last(open) =>
           /\ key_keep_stack # << >>
           /\ Last(ref_stack) # NoRef /\ Last(key_keep_stack) =>
                 object_element \in Below(Last(ref_stack), Back)
    <3> SUFFICES ASSUME ref_stack # << >>, ~Last(open)
                 PROVE  /\ key_keep_stack # << >>
                        /\ Last(ref_stack) # NoRef /\ Last(key_keep_stack) =>
                              object_element \in Below(Last(ref_stack), Back)
      OBVIOUS
    <3>1. open # << >>
      BY <2>2, Innermost
    <3> QED
      BY <1>5, <3>1 DEF Ready
  <2>5. LET h == HandleKept(v, Append(keep_stack, keep), TRUE)
        IN /\ Refs(h.root, Append(ref_stack, h.at), Append(open, b))
           /\ h.keys \in Seq(BOOLEAN)
    BY <1>2, <2>2, <2>4, HandledOrNot
  <2>6. Refs(root', ref_stack', Append(open, b)) /\ key_keep_stack' \in Seq(BOOLEAN)
    BY <2>3, <2>5
  <2>7. keep_stack' \in Seq(BOOLEAN) /\ Len(keep_stack') = Len(Append(open, b)) + 1
    <3>1. open \in Seq(BOOLEAN)
      BY <2>2 DEF Refs
    <3> QED
      BY <2>2, <2>3, <3>1
  <2> QED
    BY <1>5, <2>6, <2>7 DEF Built
<1> QED
  BY <1>1, <1>4, <1>5 DEF Handlers

\* The member that key() makes is a child of the object that is open, before and after
\* it is marked as discarded.
LEMMA KeyMakes ==
  ASSUME NEW open, Refs(root, ref_stack, open), open # << >>, ~Last(open),
         Last(ref_stack) # NoRef, NEW k
  PROVE  /\ Refs(With(k), ref_stack, open)
         /\ MemberAt(k) \in Below(Last(ref_stack), At(With(k), Last(ref_stack)))
         /\ \A d : /\ Refs(Put(With(k), MemberAt(k), d), ref_stack, open)
                   /\ MemberAt(k) \in Below(Last(ref_stack),
                                            At(Put(With(k), MemberAt(k), d), Last(ref_stack)))
<1> DEFINE n == Len(ref_stack)
           es == Member(Back[2], k)
           w == <<"object", es>>
           c == CHOOSE m \in DOMAIN es : es[m][1] = k
           r == With(k)
<1>1. /\ n \in 1..n /\ n = Len(ref_stack) /\ ref_stack[n] # NoRef /\ Last(ref_stack) = ref_stack[n]
      /\ Last(open) = open[n] /\ IsSeq(Back[2])
  BY Innermost
<1>2. IsSeq(es) /\ \E m \in DOMAIN es : es[m][1] = k
  BY <1>1, MemberIsThere
<1>3. MemberAt(k) = Append(ref_stack[n], c)
  BY <1>1, Zenon DEF MemberAt
<1>4. r = Put(root, ref_stack[n], w)
  BY <1>1, Zenon DEF With
<1> HIDE DEF es, n, r
<1>5. c \in DOMAIN es
  BY <1>2, Zenon
<1> HIDE DEF c
<1>6. Container(w) /\ w[1] = Kind(open[n]) /\ w[2] = es
  <2>1. ~open[n]
    BY <1>1, Zenon
  <2>2. Kind(open[n]) = "object"
    BY <2>1 DEF Kind
  <2> QED
    BY <1>2, <2>2, ContainerMade
<1> HIDE DEF w
<1>7. Refs(r, ref_stack, open) /\ At(r, ref_stack[n]) = w
  <2>1. PICK p : p = ref_stack[n]
    OBVIOUS
  <2>2. IsInnermost(ref_stack, p) /\ w[1] = Kind(open[Len(ref_stack)])
    BY <1>1, <1>6, <2>1 DEF IsInnermost
  <2>3. PutThere(root, ref_stack, open, p, w)
    BY <1>6, <2>2, RefsPut
  <2> QED
    BY <1>4, <2>1, <2>3, Zenon DEF PutThere
<1>8. c \in DOMAIN At(r, ref_stack[n])[2]
  BY <1>5, <1>6, <1>7
<1>9. ASSUME NEW u, DOMAIN u[2] = DOMAIN w[2]
      PROVE  MemberAt(k) \in Below(Last(ref_stack), u)
  BY <1>1, <1>3, <1>5, <1>6, <1>9 DEF Below
<1>10. ASSUME NEW d
       PROVE  /\ Refs(Put(r, MemberAt(k), d), ref_stack, open)
              /\ MemberAt(k) \in Below(Last(ref_stack), At(Put(r, MemberAt(k), d), Last(ref_stack)))
  <2> DEFINE q == Put(r, Append(ref_stack[n], c), d)
             x == Changed(At(r, ref_stack[n]), c, d)
  <2>1. Refs(q, ref_stack, open) /\ At(q, ref_stack[n]) = x /\ Alike(At(r, ref_stack[n]), x)
    <3>1. PICK p : p = ref_stack[n]
      OBVIOUS
    <3>2. PICK j : j = c
      OBVIOUS
    <3>3. PICK s : s = r
      OBVIOUS
    <3>4. IsInnermost(ref_stack, p)
      BY <1>1, <3>1 DEF IsInnermost
    <3>5. Refs(s, ref_stack, open)
      BY <1>7, <3>3, Zenon
    <3>6. j \in DOMAIN At(s, p)[2]
      BY <1>8, <3>1, <3>2, <3>3, Zenon
    <3>7. PutBelow(s, ref_stack, open, p, j, d)
      BY <3>4, <3>5, <3>6, RefsPutChild
    <3> QED
      BY <3>1, <3>2, <3>3, <3>7, Zenon DEF PutBelow
  <2>2. Put(r, MemberAt(k), d) = q
    BY <1>3, Zenon
  <2> HIDE DEF q, x
  <2>3. DOMAIN x[2] = DOMAIN w[2]
    BY <1>7, <2>1 DEF Alike
  <2>4. MemberAt(k) \in Below(Last(ref_stack), x)
    BY <1>9, <2>3
  <2> QED
    BY <1>1, <2>1, <2>2, <2>4, Zenon
<1>11. MemberAt(k) \in Below(Last(ref_stack), At(r, Last(ref_stack)))
  BY <1>1, <1>7, <1>9, Zenon
<1> QED
  BY <1>7, <1>10, <1>11, Zenon DEF r

\* key: the handler has a place for the value that comes.
LEMMA KeyBuilds ==
  ASSUME NEW open, Built(open), handler \in Handlers, handler' = handler,
         open # << >>, ~Last(open), NEW k, Key(k)
  PROVE  Built(open)' /\ Ready'
<1>1. CASE handler = "accept"
  BY <1>1 DEF Built, Ready
<1>2. CASE handler = "dom"
  <2>1. DomKey(k)
    BY <1>2 DEF Key
  <2>2. /\ Refs(root, ref_stack, open)
        /\ \A n \in 1..Len(ref_stack) : ref_stack[n] # NoRef
    BY <1>2 DEF Built
  <2>3. Last(ref_stack) # NoRef
    BY <2>2, Innermost
  <2>4. root' = With(k) /\ object_element' = MemberAt(k) /\ ref_stack' = ref_stack
    BY <2>1 DEF DomKey
  <2>5. /\ Refs(With(k), ref_stack, open)
        /\ MemberAt(k) \in Below(Last(ref_stack), At(With(k), Last(ref_stack)))
    BY <2>2, <2>3, KeyMakes
  <2>6. Built(open)'
    BY <1>2, <2>2, <2>4, <2>5 DEF Built
  <2>7. object_element' \in Below(Last(ref_stack)', Back')
    BY <2>4, <2>5, Zenon DEF Back
  <2> QED
    BY <1>2, <2>6, <2>7 DEF Ready
<1>3. CASE handler = "callback"
  <2>1. KeptKey(k)
    BY <1>3 DEF Key
  <2>2. /\ Refs(root, ref_stack, open)
        /\ keep_stack \in Seq(BOOLEAN) /\ Len(keep_stack) = Len(open) + 1
        /\ key_keep_stack \in Seq(BOOLEAN)
    BY <1>3 DEF Built
  <2>3. PICK keep \in BOOLEAN :
          /\ key_keep_stack' = Append(key_keep_stack, keep)
          /\ IF keep /\ Last(ref_stack) # NoRef
             THEN root' = Put(With(k), MemberAt(k), Discarded) /\ object_element' = MemberAt(k)
             ELSE UNCHANGED <<root, object_element>>
    BY <2>1 DEF KeptKey
  <2>4. ref_stack' = ref_stack /\ keep_stack' = keep_stack
    BY <2>1 DEF KeptKey
  <2>5. /\ key_keep_stack' \in Seq(BOOLEAN) /\ key_keep_stack' # << >>
        /\ Last(key_keep_stack') = keep
    BY <2>2, <2>3 DEF Last
  <2>6. CASE keep /\ Last(ref_stack) # NoRef
    <3> DEFINE r == Put(With(k), MemberAt(k), Discarded)
    <3>1. root' = r /\ object_element' = MemberAt(k)
      BY <2>3, <2>6
    <3>2. Refs(r, ref_stack, open) /\ MemberAt(k) \in Below(Last(ref_stack), At(r, Last(ref_stack)))
      BY <2>2, <2>6, KeyMakes
    <3> HIDE DEF r
    <3>3. object_element' \in Below(Last(ref_stack)', Back')
      BY <2>4, <3>1, <3>2, Zenon DEF Back
    <3>4. Refs(root, ref_stack, open)'
      BY <2>4, <3>1, <3>2, Zenon
    <3> QED
      BY <1>3, <2>2, <2>4, <2>5, <3>3, <3>4 DEF Built, Ready
  <2>7. CASE ~(keep /\ Last(ref_stack) # NoRef)
    <3>1. root' = root
      BY <2>3, <2>7
    <3>2. Refs(root, ref_stack, open)'
      BY <2>2, <2>4, <3>1, Zenon
    <3>3. ~(Last(ref_stack)' # NoRef /\ Last(key_keep_stack)')
      BY <2>4, <2>5, <2>7
    <3> QED
      BY <1>3, <2>2, <2>4, <2>5, <3>2, <3>3 DEF Built, Ready
  <2> QED
    BY <2>6, <2>7
<1> QED
  BY <1>1, <1>2, <1>3 DEF Handlers

\* A container that ends and is discarded is a child of the one around it.
LEMMA LeftBehind ==
  ASSUME NEW open, Refs(root, ref_stack, open), open # << >>
  PROVE  /\ Refs(root, Front(ref_stack), Front(open))
         /\ Last(ref_stack) # NoRef =>
               Refs(Put(root, Last(ref_stack), Discarded), Front(ref_stack), Front(open))
<1> DEFINE n == Len(ref_stack)
           up == Front(ref_stack)
           p == ref_stack[n]
           above == Front(open)
<1>1. /\ n \in Nat \ {0} /\ n \in 1..n /\ Last(ref_stack) = p /\ Len(open) = n
      /\ p # NoRef => Refers(root, ref_stack, open, n) /\ p \in Path
  BY Innermost
<1>2. Refs(root, up, above)
  BY <1>1, RefsPop
<1>3. ref_stack \in Seq(Seq(Int)) /\ open \in Seq(BOOLEAN)
  BY DEF Refs
<1>4. /\ up \in Seq(Seq(Int)) /\ Len(up) = n - 1 /\ \A m \in 1..(n - 1) : up[m] = ref_stack[m]
      /\ above \in Seq(BOOLEAN) /\ Len(above) = n - 1
  BY <1>1, <1>3 DEF Front
<1> HIDE DEF up, above
<1>5. ASSUME p # NoRef
      PROVE  Refs(Put(root, p, Discarded), up, above)
  <2>1. CASE n = 1
    <3>1. up = << >> /\ above = << >>
      BY <1>4, <2>1
    <3> QED
      BY <3>1, RefsNone
  <2>2. CASE n # 1
    <3>1. n - 1 \in 1..n /\ n > 1
      BY <1>1, <2>2
    <3>2. /\ p \in Path /\ Len(p) = n - 1
          /\ ref_stack[n - 1] = SubSeq(p, 1, (n - 1) - 1)
          /\ p[n - 1] \in DOMAIN At(root, ref_stack[n - 1])[2]
      BY <1>1, <1>5, <3>1 DEF Refers
    <3>3. ref_stack[n - 1] # NoRef
      BY <1>5, <1>1, <3>1, RefersAbove
    <3>4. PICK m \in Nat : m = n - 2
      BY <1>1, <2>2
    <3>5. p = Append(SubSeq(p, 1, m), p[m + 1])
      <4>1. Len(p) = m + 1 /\ p \in Seq(Nat \ {0})
        BY <3>2, <3>4 DEF Path
      <4> HIDE DEF p
      <4> QED
        BY <4>1, PathSplit
    <3>6. PICK q : q = ref_stack[n - 1]
      OBVIOUS
    <3>7. PICK i : i = p[n - 1]
      OBVIOUS
    <3>8. p = Append(q, i)
      <4>1. (n - 1) - 1 = m /\ m + 1 = n - 1
        BY <1>1, <3>4
      <4> HIDE DEF p
      <4> QED
        BY <3>2, <3>5, <3>6, <3>7, <4>1
    <3>9. IsInnermost(up, q) /\ i \in DOMAIN At(root, q)[2]
      <4>1. n - 1 \in 1..(n - 1) /\ n - 1 # 0
        BY <1>1, <2>2
      <4> QED
        BY <1>4, <3>2, <3>3, <3>6, <3>7, <4>1 DEF IsInnermost
    <3>10. Refs(Put(root, Append(q, i), Discarded), up, above)
      <4>1. PutBelow(root, up, above, q, i, Discarded)
        BY <1>2, <3>9, RefsPutChild
      <4> QED
        BY <4>1, Zenon DEF PutBelow
    <3> QED
      BY <3>8, <3>10, Zenon
  <2> QED
    BY <2>1, <2>2
<1> QED
  BY <1>1, <1>2, <1>5, Zenon DEF up, above

\* What is erased from the container above leaves a container.
LEMMA CleanedStays ==
  ASSUME NEW r, NEW up, NEW open, Refs(r, up, open), NEW array \in BOOLEAN, NEW keep \in BOOLEAN
  PROVE  Refs(Cleaned(r, up, array, keep), up, open)
<1>1. CASE up = << >> \/ (up # << >> /\ Last(up) = NoRef)
  BY <1>1 DEF Cleaned
<1>2. CASE ~(up = << >> \/ (up # << >> /\ Last(up) = NoRef))
  <2>1. PICK p : p = Last(up)
    OBVIOUS
  <2>2. PICK v : v = At(r, p)
    OBVIOUS
  <2>3. PICK n : n = Len(up)
    OBVIOUS
  <2>4. n \in 1..Len(up) /\ p = up[n] /\ p # NoRef
    <3>1. up \in Seq(Seq(Int))
      BY DEF Refs
    <3>2. up # << >> /\ Last(up) # NoRef
      BY <1>2
    <3> QED
      BY <2>1, <2>3, <3>1, <3>2 DEF Last
  <2>5. Refers(r, up, open, n)
    BY <2>4 DEF Refs
  <2>6. Container(v) /\ v[1] = Kind(open[n])
    BY <2>2, <2>4, <2>5 DEF Refers
  <2>7. v[1] \in {"array", "object"} /\ IsSeq(v[2])
    BY <2>6, ContainerIs
  <2>8. ASSUME NEW s, IsSeq(s)
        PROVE  Refs(Put(r, p, <<v[1], s>>), up, open)
    <3>1. Container(<<v[1], s>>) /\ <<v[1], s>>[1] = v[1]
      BY <2>7, <2>8, ContainerMade
    <3>2. PICK w : w = <<v[1], s>>
      OBVIOUS
    <3>3. Container(w) /\ w[1] = Kind(open[n])
      BY <2>6, <3>1, <3>2
    <3>4. PutThere(r, up, open, p, w)
      BY <2>3, <2>4, <3>3, RefsPut DEF IsInnermost
    <3> QED
      BY <3>2, <3>4, Zenon DEF PutThere
  <2>9. Cleaned(r, up, array, keep) =
          CASE array /\ ~keep /\ IsArray(v) -> Put(r, p, <<v[1], Front(v[2])>>)
            [] ~array /\ FirstDiscarded(v) # {} ->
                  Put(r, p, <<v[1], RemoveAt(v[2], Max(FirstDiscarded(v)))>>)
            [] OTHER -> r
    BY <1>2, <2>1, <2>2 DEF Cleaned
  <2>10. CASE array /\ ~keep /\ IsArray(v)
    <3>1. IsSeq(Front(v[2]))
      BY <2>7, LessOne
    <3>2. Cleaned(r, up, array, keep) = Put(r, p, <<v[1], Front(v[2])>>)
      BY <2>9, <2>10
    <3> QED
      BY <2>8, <3>1, <3>2
  <2>11. CASE ~array /\ FirstDiscarded(v) # {}
    <3>1. Max(FirstDiscarded(v)) \in DOMAIN v[2]
      BY <2>7, <2>11, DiscardedIsThere
    <3>2. IsSeq(RemoveAt(v[2], Max(FirstDiscarded(v))))
      BY <2>7, <3>1, LessOne
    <3>3. Cleaned(r, up, array, keep) = Put(r, p, <<v[1], RemoveAt(v[2], Max(FirstDiscarded(v)))>>)
      BY <2>9, <2>11
    <3> QED
      BY <2>8, <3>2, <3>3
  <2>12. CASE ~(array /\ ~keep /\ IsArray(v)) /\ ~(~array /\ FirstDiscarded(v) # {})
    <3>1. Cleaned(r, up, array, keep) = r
      BY <2>9, <2>12
    <3> QED
      BY <3>1
  <2> QED
    BY <2>10, <2>11, <2>12
<1> QED
  BY <1>1, <1>2

\* end_object and end_array.
LEMMA EndBuilds ==
  ASSUME NEW open, Built(open), handler \in Handlers, handler' = handler, open # << >>,
         NEW array \in BOOLEAN, End(array)
  PROVE  Built(Front(open))'
<1>1. CASE handler = "accept"
  BY <1>1 DEF Built
<1>2. CASE handler = "dom"
  <2>1. DomEnd
    BY <1>2 DEF End
  <2>2. /\ Refs(root, ref_stack, open)
        /\ \A n \in 1..Len(ref_stack) : ref_stack[n] # NoRef
    BY <1>2 DEF Built
  <2>3. root' = root /\ ref_stack' = Front(ref_stack)
    BY <2>1 DEF DomEnd
  <2>4. Refs(root, Front(ref_stack), Front(open))
    BY <2>2, LeftBehind
  <2>5. \A n \in 1..Len(Front(ref_stack)) : Front(ref_stack)[n] # NoRef
    <3>1. ref_stack \in Seq(Seq(Int)) /\ Len(ref_stack) \in Nat \ {0}
      BY <2>2, Innermost DEF Refs
    <3>2. /\ Len(Front(ref_stack)) = Len(ref_stack) - 1
          /\ \A n \in 1..(Len(ref_stack) - 1) : Front(ref_stack)[n] = ref_stack[n]
      <4> DEFINE m == Len(ref_stack) - 1
      <4>1. m \in Nat /\ \A n \in 1..m : n \in 1..Len(ref_stack) /\ 1 + n - 1 = n
        BY <3>1
      <4>2. \A n \in 1..m : ref_stack[n] \in Seq(Int)
        BY <3>1, <4>1
      <4> HIDE DEF m
      <4>3. /\ Len(SubSeq(ref_stack, 1, m)) = IF 1 <= m THEN m - 1 + 1 ELSE 0
            /\ \A n \in 1..(m - 1 + 1) : SubSeq(ref_stack, 1, m)[n] = ref_stack[1 + n - 1]
        <5>1. 1 \in Int /\ m \in Int
          BY <4>1
        <5> QED
          BY <4>2, <5>1, SubSeqProperties
      <4>4. m - 1 + 1 = m /\ (IF 1 <= m THEN m - 1 + 1 ELSE 0) = m
        BY <4>1
      <4>5. Front(ref_stack) = SubSeq(ref_stack, 1, m)
        BY DEF Front, m
      <4>6. Len(Front(ref_stack)) = m /\ \A n \in 1..m : Front(ref_stack)[n] = ref_stack[n]
        BY <4>1, <4>3, <4>4, <4>5, Zenon
      <4> QED
        BY <4>6 DEF m
    <3>3. ASSUME NEW n \in 1..(Len(ref_stack) - 1) PROVE Front(ref_stack)[n] # NoRef
      <4>1. n \in 1..Len(ref_stack)
        BY <3>1
      <4> QED
        BY <2>2, <3>2, <4>1
    <3> QED
      BY <3>2, <3>3
  <2> QED
    BY <1>2, <2>3, <2>4, <2>5 DEF Built
<1>3. CASE handler = "callback"
  <2>1. KeptEnd(array)
    BY <1>3 DEF End
  <2>2. /\ Refs(root, ref_stack, open)
        /\ keep_stack \in Seq(BOOLEAN) /\ Len(keep_stack) = Len(open) + 1
        /\ key_keep_stack \in Seq(BOOLEAN)
    BY <1>3 DEF Built
  <2>3. PICK keep \in BOOLEAN :
          LET live == Last(ref_stack) # NoRef
              left == IF live /\ ~keep THEN Put(root, Last(ref_stack), Discarded) ELSE root
          IN /\ ref_stack' = Front(ref_stack)
             /\ keep_stack' = Front(keep_stack)
             /\ root' = Cleaned(left, ref_stack', array, keep)
    BY <2>1 DEF KeptEnd
  <2>4. PICK left : left = IF Last(ref_stack) # NoRef /\ ~keep
                           THEN Put(root, Last(ref_stack), Discarded) ELSE root
    OBVIOUS
  <2>5. Refs(left, Front(ref_stack), Front(open))
    <3>1. /\ Refs(root, Front(ref_stack), Front(open))
          /\ Last(ref_stack) # NoRef =>
                Refs(Put(root, Last(ref_stack), Discarded), Front(ref_stack), Front(open))
      BY <2>2, LeftBehind
    <3> QED
      BY <2>4, <3>1, Zenon
  <2>6. PICK up, above : up = Front(ref_stack) /\ above = Front(open)
    OBVIOUS
  <2>7. Refs(Cleaned(left, up, array, keep), up, above)
    BY <2>5, <2>6, CleanedStays
  <2>8. ref_stack' = up /\ keep_stack' = Front(keep_stack) /\ root' = Cleaned(left, up, array, keep)
    BY <2>3, <2>4, <2>6
  <2>9. Refs(root', ref_stack', Front(open))
    BY <2>6, <2>7, <2>8, Zenon
  <2>10. keep_stack' \in Seq(BOOLEAN) /\ Len(keep_stack') = Len(Front(open)) + 1
    <3>1. open \in Seq(BOOLEAN) /\ Len(open) # 0
      BY <2>2 DEF Refs
    <3> QED
      BY <2>2, <2>8, <3>1 DEF Front
  <2>11. key_keep_stack' = key_keep_stack
    BY <2>1 DEF KeptEnd
  <2> QED
    BY <1>3, <2>2, <2>9, <2>10, <2>11 DEF Built
<1> QED
  BY <1>1, <1>2, <1>3 DEF Handlers

-----------------------------------------------------------------------------
(* sax_parse_internal.                                                     *)

\* The containers that are open, from the states and the label: a container is put into
\* the states with its first value, not when it begins.
Kinds ==
    CASE label \in {"first_key", "first_separator"} -> Append(states, FALSE)
      [] label = "first_element" -> Append(states, TRUE)
      [] OTHER -> states

\* What the label says of the states.
Labelled ==
    /\ states \in Seq(BOOLEAN)
    /\ label = "end" => states = << >> /\ tokens # << >>
    /\ label = "next" => states # << >>
    /\ label \in {"key", "separator"} => states # << >> /\ ~Last(states)
    /\ label = "value" /\ states = << >> => tokens = << >>

\* The bracket t closes what is open last.
Closes(open, t) ==
    /\ t = <<"end_array">> => open # << >> /\ Last(open)
    /\ t = <<"end_object">> => open # << >> /\ ~Last(open)

Closed ==
    \A n \in 1..Len(tokens) : Closes(Opened(SubSeq(tokens, 1, n - 1)), tokens[n])

\* The next value belongs to a key, by the states.
Due ==
    \/ label \in {"first_separator", "separator"}
    \/ label = "value" /\ states # << >> /\ ~Last(states)

ParserInv ==
    /\ handler \in Handlers
    /\ tokens \in Seq(Tokens)
    /\ label \in Asking \cup {"error", "done"}
    /\ label \in Asking =>
          /\ Opened(tokens) = Kinds
          /\ Labelled
          /\ Closed
          /\ Built(Kinds)
          /\ Due => Ready

\* The parser starts with an empty text and an empty stack.
LEMMA ParserStarts == ParserInit => ParserInv
<1> SUFFICES ASSUME ParserInit PROVE ParserInv
  OBVIOUS
<1>1. /\ handler \in Handlers /\ tokens = << >> /\ label = "value" /\ states = << >>
      /\ root = Null /\ ref_stack = << >> /\ keep_stack = <<TRUE>> /\ key_keep_stack = << >>
  BY DEF ParserInit, Handlers
<1>2. Kinds = << >> /\ ~Due
  BY <1>1 DEF Kinds, Due
<1>3. Opened(tokens) = Kinds
  BY <1>1, <1>2, OpenedEmpty
<1>4. Labelled /\ Closed
  BY <1>1 DEF Labelled, Closed
<1>5. Built(Kinds)
  <2>1. Refs(root, << >>, << >>)
    BY RefsNone
  <2>2. <<TRUE>> \in Seq(BOOLEAN) /\ << >> \in Seq(BOOLEAN) /\ Len(<<TRUE>>) = Len(<< >>) + 1 /\ Len(<< >>) = 0
    OBVIOUS
  <2> QED
    BY <1>1, <1>2, <2>1, <2>2 DEF Built
<1> QED
  BY <1>1, <1>2, <1>3, <1>4, <1>5 DEF ParserInv, Asking

\* After a token the parser asks for the next one: what has to be shown of a step.
LEMMA Goes ==
  ASSUME ParserInv, label \in Asking, NEW t \in Tokens, tokens' = Append(tokens, t),
         handler' = handler, label' \in Asking, states' \in Seq(BOOLEAN),
         NEW next, Kinds' = next, Bracket(Kinds, t) = next, Closes(Kinds, t),
         label' = "end" => states' = << >>,
         label' \in {"value", "next"} => states' # << >>,
         label' \in {"key", "separator"} => states' # << >> /\ ~Last(states'),
         Built(next)', Due' => Ready'
  PROVE  ParserInv'
<1>1. /\ handler \in Handlers /\ tokens \in Seq(Tokens) /\ Opened(tokens) = Kinds /\ Closed
  BY DEF ParserInv
<1>2. tokens' \in Seq(Tokens) /\ tokens' # << >>
  BY <1>1
<1>3. Opened(tokens)' = Kinds'
  <2>1. Opened(Append(tokens, t)) = Bracket(Opened(tokens), t)
    BY <1>1, OpenedAppend
  <2> QED
    BY <1>1, <2>1, Zenon
<1>4. Labelled'
  BY <1>2 DEF Labelled
<1>5. Closed'
  <2> DEFINE long == Append(tokens, t)
             L == Len(tokens)
  <2>1. /\ Len(long) = L + 1 /\ long[L + 1] = t /\ L \in Nat
        /\ \A n \in 1..L : long[n] = tokens[n]
    BY <1>1
  <2>2. ASSUME NEW n \in 1..(L + 1) PROVE SubSeq(long, 1, n - 1) = SubSeq(tokens, 1, n - 1)
    BY <1>1
  <2>3. SubSeq(tokens, 1, L) = tokens
    BY <1>1
  <2> HIDE DEF long, L
  <2>4. ASSUME NEW n \in 1..(L + 1)
        PROVE  Closes(Opened(SubSeq(long, 1, n - 1)), long[n])
    <3>1. CASE n \in 1..L
      <4>1. Closes(Opened(SubSeq(tokens, 1, n - 1)), tokens[n])
        BY <1>1, <3>1 DEF Closed, L
      <4> QED
        BY <2>1, <2>2, <3>1, <4>1
    <3>2. CASE n = L + 1
      <4>1. n - 1 = L
        BY <2>1, <3>2
      <4>2. Opened(SubSeq(long, 1, n - 1)) = Kinds
        BY <1>1, <2>2, <2>3, <4>1
      <4>3. long[n] = t
        BY <2>1, <3>2
      <4> QED
        BY <4>2, <4>3, Zenon
    <3> QED
      BY <2>1, <3>1, <3>2
  <2>5. tokens' = long
    BY DEF long
  <2> QED
    BY <2>1, <2>4, <2>5, Zenon DEF Closed
<1>6. Built(Kinds)'
  BY Zenon DEF Built
<1> QED
  BY <1>1, <1>2, <1>3, <1>4, <1>5, <1>6 DEF ParserInv

\* A bracket, and a token that is none.
LEMMA BracketIs ==
  ASSUME NEW open, NEW t
  PROVE  /\ t = <<"begin_array">> => Bracket(open, t) = Append(open, TRUE) /\ Closes(open, t)
         /\ t = <<"begin_object">> => Bracket(open, t) = Append(open, FALSE) /\ Closes(open, t)
         /\ t = <<"end_array">> =>
               Bracket(open, t) = Front(open) /\ (open # << >> /\ Last(open) => Closes(open, t))
         /\ t = <<"end_object">> =>
               Bracket(open, t) = Front(open) /\ (open # << >> /\ ~Last(open) => Closes(open, t))
         /\ t[1] \notin {"begin_array", "begin_object", "end_array", "end_object"} =>
               Bracket(open, t) = open /\ Closes(open, t)
<1>1. /\ <<"begin_array">> # <<"begin_object">> /\ <<"end_array">> # <<"end_object">>
      /\ <<"end_array">> \notin {<<"begin_array">>, <<"begin_object">>}
      /\ <<"end_object">> \notin {<<"begin_array">>, <<"begin_object">>}
  OBVIOUS
<1>2. ASSUME t[1] \notin {"begin_array", "begin_object", "end_array", "end_object"}
      PROVE  t \notin {<<"begin_array">>, <<"begin_object">>, <<"end_array">>, <<"end_object">>}
  BY <1>2
<1> QED
  BY <1>1, <1>2 DEF Bracket, Closes

\* pop_back() undoes push_back().
LEMMA FrontAppended ==
  ASSUME NEW s \in Seq(BOOLEAN), NEW open
  PROVE  /\ open = Append(s, TRUE) =>
               open \in Seq(BOOLEAN) /\ open # << >> /\ Front(open) = s /\ Last(open) = TRUE
         /\ open = Append(s, FALSE) =>
               open \in Seq(BOOLEAN) /\ open # << >> /\ Front(open) = s /\ Last(open) = FALSE
<1>1. ASSUME NEW b \in BOOLEAN
      PROVE  /\ Append(s, b) \in Seq(BOOLEAN) /\ Append(s, b) # << >>
             /\ Front(Append(s, b)) = s /\ Last(Append(s, b)) = b
  BY DEF Front, Last
<1>2. TRUE \in BOOLEAN /\ FALSE \in BOOLEAN
  OBVIOUS
<1> QED
  BY <1>1, <1>2, Zenon

\* What pop_back() leaves of a stack that is not empty.
LEMMA FrontOfSeq ==
  ASSUME NEW S, NEW s \in Seq(S), s # << >>
  PROVE  Front(s) \in Seq(S)
  BY DEF Front

\* The switch on last_token, when the parser is to have a value.
LEMMA ValueGoes ==
  ASSUME ParserInv, label \in Asking, NEW t \in Tokens, tokens' = Append(tokens, t),
         handler' = handler, label' \in Asking, Value(t)
  PROVE  ParserInv'
<1>1. PICK open : open = Kinds
  OBVIOUS
<1>2. handler \in Handlers /\ Labelled /\ Built(open) /\ (Due => Ready)
  BY <1>1, Zenon DEF ParserInv
<1>3. label \in {"value", "first_element"} /\ states \in Seq(BOOLEAN)
  BY <1>2 DEF Value, Labelled
<1>4. states' = open /\ open \in Seq(BOOLEAN)
  <2>1. CASE label = "value"
    <3>1. Kinds = states
      BY <2>1 DEF Kinds
    <3> QED
      BY <1>1, <1>3, <2>1, <3>1 DEF Value
  <2>2. CASE label = "first_element"
    <3>1. Kinds = Append(states, TRUE)
      BY <2>2 DEF Kinds
    <3>2. states' = Append(states, TRUE)
      BY <2>2 DEF Value
    <3> QED
      BY <1>1, <1>3, <3>1, <3>2
  <2> QED
    BY <1>3, <2>1, <2>2
<1>5. open # << >> /\ ~Last(open) => Ready
  <2> SUFFICES ASSUME open # << >>, ~Last(open) PROVE Ready
    OBVIOUS
  <2>1. CASE label = "value"
    <3>1. Kinds = states
      BY <2>1 DEF Kinds
    <3>2. Due
      BY <1>1, <2>1, <3>1, Zenon DEF Due
    <3> QED
      BY <1>2, <3>2
  <2>2. CASE label = "first_element"
    <3>1. Kinds = Append(states, TRUE)
      BY <2>2 DEF Kinds
    <3>2. Last(open)
      BY <1>1, <1>3, <3>1, FrontAppended
    <3> QED
      BY <3>2
  <2> QED
    BY <1>3, <2>1, <2>2
<1>6. CASE t = <<"begin_object">>
  <2>1. Start(<<"object", << >> >>) /\ label' = "first_key"
    <3>1. /\ ~(t \in Scalars \/ t[1] = "value_string") /\ t # <<"begin_array">>
      BY <1>6, ScalarsAssumption
    <3> QED
      BY <1>6, <3>1 DEF Value
  <2>2. Kind(FALSE) = "object" /\ FALSE \in BOOLEAN
    BY DEF Kind
  <2>3. PICK next : next = Append(open, FALSE)
    OBVIOUS
  <2>4. Built(next)'
    <3>1. Start(<<Kind(FALSE), << >> >>)
      BY <2>1, <2>2, Zenon
    <3>2. Built(Append(open, FALSE))'
      BY <1>2, <1>5, <2>2, <3>1, StartBuilds
    <3> QED
      BY <2>3, <3>2
  <2>5. Kinds' = next /\ Bracket(Kinds, t) = next /\ Closes(Kinds, t)
    <3>1. Kinds' = Append(states', FALSE)
      BY <2>1 DEF Kinds
    <3> QED
      BY <1>1, <1>4, <1>6, <2>3, <3>1, BracketIs
  <2>6. ~Due'
    BY <2>1 DEF Due
  <2> QED
    BY <1>4, <2>1, <2>4, <2>5, <2>6, Goes
<1>7. CASE t = <<"begin_array">>
  <2>1. Start(<<"array", << >> >>) /\ label' = "first_element"
    <3>1. /\ ~(t \in Scalars \/ t[1] = "value_string") /\ t # <<"begin_object">>
      BY <1>7, ScalarsAssumption
    <3> QED
      BY <1>7, <3>1 DEF Value
  <2>2. Kind(TRUE) = "array" /\ TRUE \in BOOLEAN
    BY DEF Kind
  <2>3. PICK next : next = Append(open, TRUE)
    OBVIOUS
  <2>4. Built(next)'
    <3>1. Start(<<Kind(TRUE), << >> >>)
      BY <2>1, <2>2, Zenon
    <3>2. Built(Append(open, TRUE))'
      BY <1>2, <1>5, <2>2, <3>1, StartBuilds
    <3> QED
      BY <2>3, <3>2
  <2>5. Kinds' = next /\ Bracket(Kinds, t) = next /\ Closes(Kinds, t)
    <3>1. Kinds' = Append(states', TRUE)
      BY <2>1 DEF Kinds
    <3> QED
      BY <1>1, <1>4, <1>7, <2>3, <3>1, BracketIs
  <2>6. ~Due'
    BY <2>1 DEF Due
  <2> QED
    BY <1>4, <2>1, <2>4, <2>5, <2>6, Goes
<1>8. CASE t \notin {<<"begin_object">>, <<"begin_array">>}
  <2>1. (t \in Scalars \/ t[1] = "value_string") /\ Scalar(t) /\ Evaluate(states')
    <3>1. label' # "error"
      BY DEF Asking
    <3> QED
      BY <1>8, <3>1 DEF Value, Error
  <2>2. t[1] \notin {"begin_array", "begin_object", "end_array", "end_object"}
    BY <2>1, ScalarsAssumption
  <2>3. Built(open)'
    BY <1>2, <1>5, <2>1, ScalarBuilds
  <2>4. label' = IF open = << >> THEN "end" ELSE "next"
    BY <1>4, <2>1 DEF Evaluate
  <2>5. Kinds' = open /\ Bracket(Kinds, t) = open /\ Closes(Kinds, t)
    <3>1. Kinds' = states'
      BY <2>4 DEF Kinds
    <3> QED
      BY <1>1, <1>4, <2>2, <3>1, BracketIs
  <2>6. ~Due'
    BY <2>4 DEF Due
  <2> QED
    BY <1>4, <2>3, <2>4, <2>5, <2>6, Goes
<1> QED
  BY <1>6, <1>7, <1>8

\* The containers that are open when one has ended.
LEMMA EndGoes ==
  ASSUME ParserInv, label \in Asking, NEW t \in Tokens, tokens' = Append(tokens, t),
         handler' = handler, label' \in Asking,
         NEW array \in BOOLEAN, End(array), t = IF array THEN <<"end_array">> ELSE <<"end_object">>,
         NEW open, Kinds = open, open \in Seq(BOOLEAN), open # << >>, Last(open) = array,
         states' = Front(open), Evaluate(states')
  PROVE  ParserInv'
<1>1. handler \in Handlers /\ Built(open)
  BY Zenon DEF ParserInv
<1>2. PICK next : next = Front(open)
  OBVIOUS
<1>3. Built(next)'
  <2>1. Built(Front(open))'
    BY <1>1, EndBuilds
  <2> QED
    BY <1>2, <2>1
<1>4. label' = (IF next = << >> THEN "end" ELSE "next") /\ next \in Seq(BOOLEAN) /\ states' = next
  BY <1>2, FrontOfSeq DEF Evaluate
<1>5. Kinds' = next
  <2>1. Kinds' = states'
    BY <1>4 DEF Kinds
  <2> QED
    BY <1>4, <2>1
<1>6. Bracket(Kinds, t) = next /\ Closes(Kinds, t)
  BY <1>2, BracketIs
<1>7. ~Due'
  BY <1>4 DEF Due
<1> QED
  BY <1>3, <1>4, <1>5, <1>6, <1>7, Goes

\* [] and {}.
LEMMA EmptyContainerGoes ==
  ASSUME ParserInv, label \in Asking, NEW t \in Tokens, tokens' = Append(tokens, t),
         handler' = handler, label' \in Asking, EmptyContainer(t)
  PROVE  ParserInv'
<1>1. states \in Seq(BOOLEAN)
  BY DEF ParserInv, Labelled
<1>2. states' = states /\ Evaluate(states')
  BY DEF EmptyContainer, Evaluate
<1>3. PICK open : open = Kinds
  OBVIOUS
<1>4. CASE label \in EmptyArrayAt /\ t = <<"end_array">> /\ End(TRUE)
  <2>1. Kinds = Append(states, TRUE)
    BY <1>4 DEF EmptyArrayAt, Kinds
  <2>2. open \in Seq(BOOLEAN) /\ open # << >> /\ Last(open) = TRUE /\ Front(open) = states
    BY <1>1, <1>3, <2>1, FrontAppended
  <2> QED
    BY <1>2, <1>3, <1>4, <2>2, EndGoes
<1>5. CASE label = "first_key" /\ t = <<"end_object">> /\ End(FALSE)
  <2>1. Kinds = Append(states, FALSE)
    BY <1>5 DEF Kinds
  <2>2. open \in Seq(BOOLEAN) /\ open # << >> /\ Last(open) = FALSE /\ Front(open) = states
    BY <1>1, <1>3, <2>1, FrontAppended
  <2> QED
    BY <1>2, <1>3, <1>5, <2>2, EndGoes
<1> QED
  BY <1>4, <1>5 DEF EmptyContainer

\* A key.
LEMMA ObjectKeyGoes ==
  ASSUME ParserInv, label \in Asking, NEW t \in Tokens, tokens' = Append(tokens, t),
         handler' = handler, label' \in Asking, ObjectKey(t)
  PROVE  ParserInv'
<1>1. PICK open : open = Kinds
  OBVIOUS
<1>2. handler \in Handlers /\ Labelled /\ Built(open)
  BY <1>1, Zenon DEF ParserInv
<1>3. label \in {"first_key", "key"} /\ states' = states /\ states \in Seq(BOOLEAN)
  BY <1>2 DEF ObjectKey, Labelled
<1>4. /\ t[1] = "value_string" /\ Key(t[2])
      /\ label' = IF label = "key" THEN "separator" ELSE "first_separator"
  <2>1. label' # "error"
    BY DEF Asking
  <2> QED
    BY <2>1 DEF ObjectKey, Error
<1>5. open # << >> /\ ~Last(open) /\ Kinds' = open
  <2>1. CASE label = "first_key"
    <3>1. Kinds = Append(states, FALSE) /\ Kinds' = Append(states', FALSE)
      BY <1>4, <2>1 DEF Kinds
    <3> QED
      BY <1>1, <1>3, <3>1, FrontAppended
  <2>2. CASE label = "key"
    <3>1. Kinds = states /\ Kinds' = states'
      BY <1>4, <2>2 DEF Kinds
    <3> QED
      BY <1>1, <1>2, <1>3, <2>2, <3>1 DEF Labelled
  <2> QED
    BY <1>3, <2>1, <2>2
<1>6. Built(open)' /\ Ready'
  BY <1>2, <1>4, <1>5, KeyBuilds
<1>7. Bracket(Kinds, t) = open /\ Closes(Kinds, t)
  BY <1>1, <1>4, BracketIs
<1>8. label' = "separator" => states' # << >> /\ ~Last(states')
  BY <1>2, <1>3, <1>4 DEF Labelled
<1>9. label' \in {"separator", "first_separator"}
  BY <1>4
<1> QED
  BY <1>3, <1>5, <1>6, <1>7, <1>8, <1>9, Goes

\* A colon: the value of the key has its place.
LEMMA SeparatorGoes ==
  ASSUME ParserInv, label \in Asking, NEW t \in Tokens, tokens' = Append(tokens, t),
         handler' = handler, label' \in Asking, Separator(t)
  PROVE  ParserInv'
<1>1. PICK open : open = Kinds
  OBVIOUS
<1>2. Labelled /\ Built(open) /\ (Due => Ready)
  BY <1>1, Zenon DEF ParserInv
<1>3. /\ t = <<"name_separator">> /\ label \in {"separator", "first_separator"} /\ label' = "value"
      /\ states' = IF label = "separator" THEN states ELSE Append(states, FALSE)
      /\ UNCHANGED <<root, ref_stack, object_element, keep_stack, key_keep_stack>>
  <2>1. label' # "error"
    BY DEF Asking
  <2> QED
    BY <2>1 DEF Separator, Error
<1>4. states \in Seq(BOOLEAN)
  BY <1>2 DEF Labelled
<1>5. states' = open /\ open \in Seq(BOOLEAN) /\ open # << >>
  <2>1. CASE label = "separator"
    <3>1. Kinds = states
      BY <2>1 DEF Kinds
    <3> QED
      BY <1>1, <1>2, <1>3, <1>4, <2>1, <3>1 DEF Labelled
  <2>2. CASE label = "first_separator"
    <3>1. Kinds = Append(states, FALSE) /\ states' = Append(states, FALSE)
      BY <1>3, <2>2 DEF Kinds
    <3> QED
      BY <1>1, <1>4, <3>1, FrontAppended
  <2> QED
    BY <1>3, <2>1, <2>2
<1>6. Kinds' = open
  <2>1. Kinds' = states'
    BY <1>3 DEF Kinds
  <2> QED
    BY <1>5, <2>1
<1>7. Bracket(Kinds, t) = open /\ Closes(Kinds, t)
  <2>1. t[1] \notin {"begin_array", "begin_object", "end_array", "end_object"}
    BY <1>3
  <2> QED
    BY <1>1, <2>1, BracketIs
<1>8. Ready
  BY <1>2, <1>3 DEF Due
<1>9. Ready'
  BY <1>3, <1>8 DEF Ready, Back
<1>10. Built(open)'
  BY <1>2, <1>3 DEF Built
<1> QED
  BY <1>3, <1>5, <1>6, <1>7, <1>9, <1>10, Goes

\* A comma, or the end of the container.
LEMMA AfterValueGoes ==
  ASSUME ParserInv, label \in Asking, NEW t \in Tokens, tokens' = Append(tokens, t),
         handler' = handler, label' \in Asking, AfterValue(t)
  PROVE  ParserInv'
<1>1. PICK open : open = states
  OBVIOUS
<1>2. Labelled /\ label = "next"
  BY DEF ParserInv, AfterValue
<1>3. Kinds = open /\ open \in Seq(BOOLEAN) /\ open # << >>
  BY <1>1, <1>2 DEF Kinds, Labelled
<1>4. Built(open)
  BY <1>3, Zenon DEF ParserInv
<1>5. CASE t = <<"value_separator">>
  <2>1. /\ label' = IF Last(states) THEN "value" ELSE "key"
        /\ UNCHANGED <<states, root, ref_stack, object_element, keep_stack, key_keep_stack>>
    BY <1>2, <1>5 DEF AfterValue
  <2>2. Kinds' = open
    BY <1>1, <2>1 DEF Kinds
  <2>3. Bracket(Kinds, t) = open /\ Closes(Kinds, t)
    <3>1. t[1] \notin {"begin_array", "begin_object", "end_array", "end_object"}
      BY <1>5
    <3> QED
      BY <1>3, <3>1, BracketIs
  <2>4. Built(open)'
    BY <1>4, <2>1 DEF Built
  <2>5. ~Due'
    BY <2>1 DEF Due
  <2>6. /\ label' \in {"value", "key"} /\ states' = open
        /\ label' = "key" => ~Last(states')
    BY <1>1, <2>1
  <2> QED
    BY <1>3, <2>2, <2>3, <2>4, <2>5, <2>6, Goes
<1>6. CASE t # <<"value_separator">>
  <2>1. PICK array : array = Last(open)
    OBVIOUS
  <2>2. array \in BOOLEAN
    BY <1>3, <2>1 DEF Last
  <2>3. /\ t = IF array THEN <<"end_array">> ELSE <<"end_object">>
        /\ End(array) /\ states' = Front(open) /\ Evaluate(states')
    <3>1. label' # "error"
      BY DEF Asking
    <3> QED
      BY <1>1, <1>6, <2>1, <3>1 DEF AfterValue, Error, Pop
  <2> QED
    BY <1>3, <2>1, <2>2, <2>3, EndGoes
<1> QED
  BY <1>5, <1>6

\* Where the parser goes from where it asks for a token.
LEMMA LabelStays ==
  ASSUME NEW t, Token(t)
  PROVE  label \in Asking /\ label' \in Asking \cup {"error", "done"}
<1>1. CASE Value(t)
  <2>1. label \in Asking
    BY <1>1 DEF Value, Asking
  <2>2. CASE t = <<"begin_object">>
    <3>1. ~(t \in Scalars \/ t[1] = "value_string") /\ t # <<"begin_array">>
      BY <2>2, ScalarsAssumption
    <3> QED
      BY <1>1, <2>1, <2>2, <3>1 DEF Value, Asking
  <2>3. CASE t = <<"begin_array">>
    <3>1. ~(t \in Scalars \/ t[1] = "value_string") /\ t # <<"begin_object">>
      BY <2>3, ScalarsAssumption
    <3> QED
      BY <1>1, <2>1, <2>3, <3>1 DEF Value, Asking
  <2>4. CASE t \notin {<<"begin_object">>, <<"begin_array">>}
    <3>1. label' \in {"end", "next", "error"}
      BY <1>1, <2>4 DEF Value, Evaluate, Error
    <3> QED
      BY <2>1, <3>1 DEF Asking
  <2> QED
    BY <2>2, <2>3, <2>4
<1>2. CASE EmptyContainer(t)
  BY <1>2 DEF EmptyContainer, EmptyArrayAt, Evaluate, Asking
<1>3. CASE ObjectKey(t)
  BY <1>3 DEF ObjectKey, Error, Asking
<1>4. CASE Separator(t)
  BY <1>4 DEF Separator, Error, Asking
<1>5. CASE AfterValue(t)
  <2>1. label \in Asking
    BY <1>5 DEF AfterValue, Asking
  <2>2. CASE t = <<"value_separator">>
    <3>1. label' \in {"value", "key"}
      BY <1>5, <2>2 DEF AfterValue
    <3> QED
      BY <2>1, <3>1 DEF Asking
  <2>3. CASE t # <<"value_separator">>
    <3>1. label' \in {"end", "next", "error"}
      BY <1>5, <2>3 DEF AfterValue, Evaluate, Error
    <3> QED
      BY <2>1, <3>1 DEF Asking
  <2> QED
    BY <2>2, <2>3
<1>6. CASE Finish(t)
  BY <1>6 DEF Finish, Done, Error, Asking
<1> QED
  BY <1>1, <1>2, <1>3, <1>4, <1>5, <1>6 DEF Token

\* Any token.
LEMMA TokenKeeps ==
  ASSUME ParserInv, ParseToken
  PROVE  ParserInv'
<1>1. PICK t \in Tokens : tokens' = Append(tokens, t) /\ Token(t)
  BY DEF ParseToken
<1>2. handler' = handler
  BY DEF ParseToken
<1>3. label \in Asking /\ label' \in Asking \cup {"error", "done"}
  BY <1>1, LabelStays
<1>4. CASE label' \in Asking
  <2>1. CASE Value(t)
    BY <1>1, <1>2, <1>3, <1>4, <2>1, ValueGoes
  <2>2. CASE EmptyContainer(t)
    BY <1>1, <1>2, <1>3, <1>4, <2>2, EmptyContainerGoes
  <2>3. CASE ObjectKey(t)
    BY <1>1, <1>2, <1>3, <1>4, <2>3, ObjectKeyGoes
  <2>4. CASE Separator(t)
    BY <1>1, <1>2, <1>3, <1>4, <2>4, SeparatorGoes
  <2>5. CASE AfterValue(t)
    BY <1>1, <1>2, <1>3, <1>4, <2>5, AfterValueGoes
  <2>6. CASE Finish(t)
    <3>1. label' \in {"done", "error"}
      BY <2>6 DEF Finish, Done, Error
    <3> QED
      BY <1>4, <3>1 DEF Asking
  <2> QED
    BY <1>1, <2>1, <2>2, <2>3, <2>4, <2>5, <2>6 DEF Token
<1>5. CASE label' \notin Asking
  <2>1. handler' \in Handlers /\ tokens' \in Seq(Tokens)
    BY <1>1, <1>2 DEF ParserInv
  <2> QED
    BY <1>3, <1>5, <2>1 DEF ParserInv
<1> QED
  BY <1>4, <1>5

\* What the parser and the handlers keep to, for every text and every callback.
THEOREM ParserInvariance == ParserSpec => []ParserInv
<1>1. ParserInit => ParserInv
  BY ParserStarts
<1>2. ParserInv /\ [ParseToken \/ ParseEnds]_parser => ParserInv'
  <2> SUFFICES ASSUME ParserInv, [ParseToken \/ ParseEnds]_parser
               PROVE  ParserInv'
    OBVIOUS
  <2>1. CASE ParseToken
    BY <2>1, TokenKeeps
  <2>2. CASE ParseEnds
    <3>1. label' = "done" /\ handler' = handler /\ tokens' = tokens
      BY <2>2 DEF ParseEnds, Done
    <3> QED
      BY <3>1 DEF ParserInv, Asking
  <2>3. CASE UNCHANGED parser
    BY <2>3 DEF parser, ParserInv, Kinds, Labelled, Closed, Built, Due, Ready, Back
  <2> QED
    BY <2>1, <2>2, <2>3
<1> QED
  BY <1>1, <1>2, PTL DEF ParserSpec

-----------------------------------------------------------------------------

\* For every text, the switch of sax_parse_internal goes on only while every ] and }
\* ends what was begun last, and accepts an end where nothing is open.
THEOREM TextIsBalanced == ParserSpec => []BracketsMatch
<1>1. ParserInv => BracketsMatch
  <2> SUFFICES ASSUME ParserInv, label \in Asking
               PROVE  /\ \A n \in DOMAIN tokens :
                            LET before == Opened(SubSeq(tokens, 1, n - 1))
                            IN /\ tokens[n] = <<"end_array">> => before # << >> /\ Last(before)
                               /\ tokens[n] = <<"end_object">> => before # << >> /\ ~Last(before)
                      /\ label = "end" <=> Opened(tokens) = << >> /\ tokens # << >>
    BY Zenon DEF BracketsMatch
  <2>1. tokens \in Seq(Tokens) /\ Opened(tokens) = Kinds /\ Labelled /\ Closed
    BY DEF ParserInv
  <2>2. \A n \in DOMAIN tokens : Closes(Opened(SubSeq(tokens, 1, n - 1)), tokens[n])
    BY <2>1 DEF Closed
  <2>3. ASSUME label = "end" PROVE Opened(tokens) = << >> /\ tokens # << >>
    BY <2>1, <2>3 DEF Labelled, Kinds
  <2>4. ASSUME Opened(tokens) = << >>, tokens # << >> PROVE label = "end"
    <3>1. states \in Seq(BOOLEAN)
      BY <2>1 DEF Labelled
    <3>2. label \notin {"first_key", "first_separator", "first_element"}
      <4>1. Append(states, FALSE) # << >> /\ Append(states, TRUE) # << >>
        BY <3>1, FrontAppended, Zenon
      <4> QED
        BY <2>1, <2>4, <4>1 DEF Kinds
    <3>3. states = << >>
      BY <2>1, <2>4, <3>2 DEF Kinds
    <3>4. label \notin {"next", "key", "separator", "value"}
      BY <2>1, <2>4, <3>3 DEF Labelled
    <3> QED
      BY <3>2, <3>4 DEF Asking
  <2> QED
    BY <2>2, <2>3, <2>4, Zenon DEF Closes
<1> QED
  BY <1>1, ParserInvariance, PTL

\* For every text and every verdict of a callback, the assertions of json_sax_dom_parser
\* and json_sax_dom_callback_parser hold (json.hpp:6880-6967, 7100-7264): the stacks are
\* as deep as the text, no pointer is null or stale when it is used, and what end_array
\* pops is the array that ended.
THEOREM HandlersNeverLost == ParserSpec => []HandlersFollow
<1>1. ParserInv => HandlersFollow
  <2> SUFFICES ASSUME ParserInv, label \in Asking, handler # "accept"
               PROVE  /\ RefsFollow
                      /\ MemberReady
                      /\ handler = "callback" => Len(keep_stack) = Len(Opened(tokens)) + 1
    BY DEF HandlersFollow
  <2>1. PICK open : open = Kinds
    OBVIOUS
  <2>2. Opened(tokens) = open /\ Labelled /\ Built(open) /\ (Due => Ready) /\ Kinds = open
    BY <2>1, Zenon DEF ParserInv
  <2>3. /\ Refs(root, ref_stack, open)
        /\ handler = "dom" => \A n \in 1..Len(ref_stack) : ref_stack[n] # NoRef
        /\ handler = "callback" => Len(keep_stack) = Len(open) + 1
    BY <2>2 DEF Built
  <2>4. ref_stack \in Seq(Seq(Int)) /\ open \in Seq(BOOLEAN) /\ Len(ref_stack) = Len(open)
    BY <2>3 DEF Refs
  <2>5. ASSUME NEW n \in DOMAIN ref_stack, ref_stack[n] # NoRef
        PROVE  /\ At(root, ref_stack[n])[1] = IF open[n] THEN "array" ELSE "object"
               /\ IF n = 1 THEN ref_stack[n] = << >>
                  ELSE LET up == At(root, ref_stack[n - 1])
                       IN /\ ref_stack[n - 1] # NoRef
                          /\ ref_stack[n] \in Below(ref_stack[n - 1], up)
                          /\ open[n - 1] => Last(ref_stack[n]) = Len(up[2])
    <3>1. n \in 1..Len(ref_stack) /\ n \in Nat \ {0}
      BY <2>4
    <3>2. Refers(root, ref_stack, open, n)
      BY <2>3, <2>5, <3>1 DEF Refs
    <3>3. At(root, ref_stack[n])[1] = IF open[n] THEN "array" ELSE "object"
      BY <3>2 DEF Refers, Kind
    <3>4. PICK p : p = ref_stack[n]
      OBVIOUS
    <3>5. p \in Path /\ Len(p) = n - 1
      BY <3>2, <3>4 DEF Refers
    <3>6. CASE n = 1
      <4>1. p = << >>
        BY <3>5, <3>6 DEF Path
      <4> QED
        BY <3>3, <3>4, <3>6, <4>1
    <3>7. CASE n # 1
      <4>1. PICK m \in Nat : m = n - 2
        BY <3>1, <3>7
      <4>2. n - 1 = m + 1 /\ n - 1 \in 1..n /\ n > 1 /\ (n - 1) - 1 = m
        BY <3>1, <3>7, <4>1
      <4>3. PICK q : q = ref_stack[n - 1]
        OBVIOUS
      <4>4. q # NoRef /\ Refers(root, ref_stack, open, n - 1)
        BY <2>3, <2>5, <3>1, <4>2, <4>3, RefersAbove
      <4>5. PICK up : up = At(root, q)
        OBVIOUS
      <4>6. p[n - 1] \in DOMAIN up[2] /\ (up[1] = "array" => p[n - 1] = Len(up[2]))
        BY <3>2, <3>4, <4>2, <4>3, <4>5 DEF Refers
      <4>7. q = SubSeq(p, 1, m)
        BY <3>2, <3>4, <4>2, <4>3 DEF Refers
      <4>8. p = Append(q, p[n - 1])
        <5>1. Len(p) = m + 1 /\ p \in Seq(Nat \ {0})
          BY <3>5, <4>2 DEF Path
        <5>2. p = Append(SubSeq(p, 1, m), p[m + 1])
          BY <5>1, PathSplit
        <5> QED
          BY <4>2, <4>7, <5>2, Zenon
      <4>9. p \in Below(q, up)
        BY <4>6, <4>8 DEF Below
      <4>10. open[n - 1] => Last(p) = Len(up[2])
        <5>1. up[1] = Kind(open[n - 1])
          BY <4>3, <4>4, <4>5 DEF Refers
        <5>2. open[n - 1] => up[1] = "array"
          BY <5>1 DEF Kind
        <5>3. Last(p) = p[n - 1]
          BY <3>5 DEF Last
        <5> QED
          BY <4>6, <5>2, <5>3
      <4> QED
        BY <3>3, <3>4, <3>7, <4>3, <4>4, <4>5, <4>9, <4>10, Zenon
    <3> QED
      BY <3>6, <3>7
  <2>6. handler = "dom" => NoRef \notin Range(ref_stack)
    BY <2>3, <2>4 DEF Range
  <2>7. RefsFollow
    BY <2>2, <2>4, <2>5, <2>6, Zenon DEF RefsFollow
  <2>8. MemberReady
    <3> SUFFICES ASSUME MemberDue
                 PROVE  /\ handler = "callback" => key_keep_stack # << >>
                        /\ Last(ref_stack) # NoRef /\ (handler = "callback" => Last(key_keep_stack)) =>
                              object_element \in Below(Last(ref_stack), Back)
      BY DEF MemberReady
    <3>1. Due
      <4>1. CASE label \in {"first_separator", "separator"}
        BY <4>1 DEF Due
      <4>2. CASE label = "value" /\ open # << >> /\ ~Last(open)
        <5>1. open = states
          BY <2>1, <4>2 DEF Kinds
        <5> QED
          BY <4>2, <5>1, Zenon DEF Due
      <4> QED
        BY <2>2, <4>1, <4>2 DEF MemberDue
    <3> QED
      BY <2>2, <3>1 DEF Ready
  <2> QED
    BY <2>2, <2>3, <2>7, <2>8
<1> QED
  BY <1>1, ParserInvariance, PTL

-----------------------------------------------------------------------------
(* dump().                                                                 *)

\* The activation records of dump() whose values are in V.
Frames(V) == [val : V, done : Nat, current_indent : Nat]

DumpTypeInv ==
    /\ pretty_print \in BOOLEAN
    /\ indent_string \in Nat /\ IndentSize <= indent_string
    /\ \E V : calls \in Seq(Frames(V))
    /\ widest \in Nat

\* The indentation of a call fits, and once its bracket is written so does that of its
\* elements.
CallFits(c) ==
    /\ c.current_indent <= indent_string
    /\ pretty_print /\ c.done # 0 => c.current_indent + IndentStep <= indent_string

DumpInv ==
    /\ DumpTypeInv
    /\ \A n \in DOMAIN calls : CallFits(calls[n])
    /\ IndentFits

-----------------------------------------------------------------------------
\* Longer strings and more values keep what was there.
LEMMA MoreFrames ==
  ASSUME NEW V, NEW W, NEW s \in Seq(Frames(V)), NEW c \in Frames(W)
  PROVE  /\ Append(s, c) \in Seq(Frames(V \cup W))
         /\ Len(Append(s, c)) = Len(s) + 1
         /\ \A n \in 1..Len(s) : Append(s, c)[n] = s[n]
         /\ Append(s, c)[Len(s) + 1] = c
<1>1. s \in Seq(Frames(V \cup W))
  <2>1. Frames(V) \subseteq Frames(V \cup W)
    BY DEF Frames
  <2> QED
    BY <2>1, SeqMonotonic
<1>2. c \in Frames(V \cup W)
  BY DEF Frames
<1> QED
  BY <1>1, <1>2, AppendProperties

\* What is left when a call returns.
LEMMA Returned ==
  ASSUME NEW V, calls \in Seq(Frames(V)), calls # << >>
  PROVE  /\ Return \in Seq(Frames(V))
         /\ Len(Return) \in Nat /\ DOMAIN Return = 1..Len(Return)
         /\ \A n \in 1..Len(Return) : /\ n \in DOMAIN calls /\ Return[n] = calls[n]
                                     /\ calls[n].current_indent \in Nat
         /\ Len(calls) \in DOMAIN calls
         /\ Top \in Frames(V)
<1>1. Len(calls) \in Nat \ {0} /\ DOMAIN calls = 1..Len(calls)
  BY EmptySeq, LenProperties
<1>2. \A n \in 1..Len(calls) : calls[n] \in Frames(V)
  BY ElementOfSeq
<1> DEFINE m == Len(calls) - 1
<1>3. m \in Nat /\ \A n \in 1..m : n \in DOMAIN calls /\ calls[n] \in Frames(V)
  BY <1>1, <1>2
<1>4. /\ SubSeq(calls, 1, m) \in Seq(Frames(V))
      /\ Len(SubSeq(calls, 1, m)) = IF 1 <= m THEN m - 1 + 1 ELSE 0
      /\ \A n \in 1..(m - 1 + 1) : SubSeq(calls, 1, m)[n] = calls[1 + n - 1]
  BY <1>3, SubSeqProperties
<1> HIDE DEF m
<1>5. Len(SubSeq(calls, 1, m)) = m /\ \A n \in 1..m : SubSeq(calls, 1, m)[n] = calls[n]
  BY <1>3, <1>4
<1>6. Return = SubSeq(calls, 1, m)
  BY DEF Return, m
<1>7. DOMAIN Return = 1..Len(Return)
  BY <1>4, <1>6, LenProperties
<1>8. \A n \in 1..m : calls[n].current_indent \in Nat
  BY <1>3 DEF Frames
<1>9. Top \in Frames(V) /\ Len(calls) \in DOMAIN calls
  BY <1>1, <1>2 DEF Top
<1> QED
  BY <1>3, <1>4, <1>5, <1>6, <1>7, <1>8, <1>9

\* A string that is long enough for the enclosing level is so for the next one after one
\* doubling.
LEMMA OneDoubling ==
  ASSUME indent_string \in Nat, IndentSize <= indent_string,
         NEW n \in 0..(indent_string + IndentStep)
  PROVE  /\ Widened(n) \in Nat
         /\ indent_string <= Widened(n)
         /\ n <= Widened(n)
BY IndentAssumption DEF Widened

\* With a string that is no shorter and the same calls, what fitted fits.
LEMMA StillFits ==
  ASSUME DumpTypeInv, IndentFits, NEW c, CallFits(c), c.current_indent \in Nat,
         pretty_print' = pretty_print, indent_string' \in Nat, indent_string <= indent_string'
  PROVE  CallFits(c)'
BY IndentAssumption DEF DumpTypeInv, CallFits

-----------------------------------------------------------------------------
\* No call is open before the first one.
LEMMA DumpStarts == DumpInit => DumpInv
<1> SUFFICES ASSUME DumpInit PROVE DumpInv
  OBVIOUS
<1>1. calls \in Seq(Frames({}))
  BY DEF DumpInit
<1> QED
  BY <1>1, IndentAssumption DEF DumpInit, DumpInv, DumpTypeInv, IndentFits

\* A new document has a serializer of its own.
LEMMA DumpCalled ==
  ASSUME DumpInv, NEW val, DumpCall(val)
  PROVE  DumpInv'
<1>1. calls' = <<[val |-> val, done |-> 0, current_indent |-> 0]>>
  BY DEF DumpCall, Call
<1>2. calls' \in Seq(Frames({val}))
  BY <1>1 DEF Frames
<1>3. DumpTypeInv'
  BY <1>2, IndentAssumption DEF DumpCall, DumpTypeInv
<1>4. \A n \in DOMAIN calls' : CallFits(calls[n])'
  BY <1>1, IndentAssumption DEF DumpCall, CallFits
<1>5. IndentFits'
  BY IndentAssumption DEF DumpCall, IndentFits
<1> QED
  BY <1>3, <1>4, <1>5 DEF DumpInv

\* A call that returns after writing n characters of a string that has them.
LEMMA DumpReturned ==
  ASSUME DumpInv, calls # << >>, calls' = Return, pretty_print' = pretty_print,
         indent_string' \in Nat, indent_string <= indent_string',
         NEW n \in Nat, pretty_print => n <= indent_string', widest' = Wider(n)
  PROVE  DumpInv'
<1>1. PICK V : calls \in Seq(Frames(V))
  BY DEF DumpInv, DumpTypeInv
<1>2. DumpTypeInv'
  BY <1>1, Returned, IndentAssumption DEF DumpInv, DumpTypeInv, Wider
<1>3. \A k \in DOMAIN calls' : CallFits(calls[k])'
  <2> TAKE k \in DOMAIN calls'
  <2>1. k \in DOMAIN calls /\ calls'[k] = calls[k] /\ calls[k].current_indent \in Nat
    BY <1>1, Returned
  <2> QED
    BY <2>1, StillFits DEF DumpInv, CallFits
<1>4. IndentFits'
  BY DEF DumpInv, DumpTypeInv, IndentFits, Wider
<1> QED
  BY <1>2, <1>3, <1>4 DEF DumpInv

\* Every action of dump() keeps the invariant.
LEMMA DumpSteps ==
  ASSUME DumpInv, [dump \/ \E val \in Documents : DumpCall(val)]_dumping
  PROVE  DumpInv'
<1>1. PICK V : calls \in Seq(Frames(V))
  BY DEF DumpInv, DumpTypeInv
<1>2. ASSUME calls # << >>
      PROVE  /\ Top \in Frames(V) /\ CallFits(Top)
             /\ NewIndent \in 0..(indent_string + IndentStep)
             /\ Top.current_indent \in Nat
  BY <1>1, <1>2, Returned, IndentAssumption DEF DumpInv, DumpTypeInv, Top, CallFits, Frames, NewIndent
<1>3. CASE DumpLeaf
  <2>1. widest' = Wider(0)
    BY <1>3 DEF DumpLeaf, DumpInv, DumpTypeInv, Wider
  <2> QED
    BY <1>3, <2>1, DumpReturned DEF DumpLeaf, DumpInv, DumpTypeInv
<1>4. CASE DumpBinary
  <2>1. /\ calls # << >> /\ calls' = Return /\ pretty_print' = pretty_print
        /\ widest' = Wider(NewIndent)
        /\ indent_string' = IF pretty_print THEN Widened(NewIndent) ELSE indent_string
    BY <1>4 DEF DumpBinary
  <2>2. indent_string \in Nat /\ IndentSize <= indent_string
    BY DEF DumpInv, DumpTypeInv
  <2>3. /\ indent_string' \in Nat /\ indent_string <= indent_string'
        /\ pretty_print => NewIndent <= indent_string'
    BY <1>2, <2>1, <2>2, OneDoubling
  <2>4. NewIndent \in Nat
    BY <1>2, <2>1, <2>2, IndentAssumption
  <2> QED
    BY <2>1, <2>3, <2>4, DumpReturned
<1>5. CASE DumpOpen
  <2> DEFINE c == [Top EXCEPT !.done = 1]
  <2>1. /\ calls # << >> /\ calls' = Append(Return, c)
        /\ pretty_print' = pretty_print /\ widest' = widest
        /\ indent_string' = IF pretty_print THEN Widened(NewIndent) ELSE indent_string
    BY <1>5 DEF DumpOpen
  <2>2. indent_string \in Nat /\ IndentSize <= indent_string
    BY DEF DumpInv, DumpTypeInv
  <2>3. /\ indent_string' \in Nat /\ indent_string <= indent_string'
        /\ pretty_print => NewIndent <= indent_string'
    BY <1>2, <2>1, <2>2, OneDoubling
  <2>4. c \in Frames(V) /\ c.current_indent = Top.current_indent /\ c.done = 1
    BY <1>2, <2>1 DEF Frames
  <2>5. /\ calls' \in Seq(Frames(V \cup V))
        /\ Len(calls') = Len(Return) + 1
        /\ \A n \in 1..Len(Return) : calls'[n] = Return[n]
        /\ calls'[Len(Return) + 1] = c
    <3> HIDE DEF c
    <3>1. Return \in Seq(Frames(V))
      BY <1>1, <2>1, Returned
    <3>2. /\ Append(Return, c) \in Seq(Frames(V \cup V))
          /\ Len(Append(Return, c)) = Len(Return) + 1
          /\ \A n \in 1..Len(Return) : Append(Return, c)[n] = Return[n]
          /\ Append(Return, c)[Len(Return) + 1] = c
      BY <2>4, <3>1, MoreFrames
    <3> QED
      BY <2>1, <3>2
  <2>6. DumpTypeInv'
    BY <2>1, <2>2, <2>3, <2>5, IndentAssumption DEF DumpInv, DumpTypeInv
  <2>7. \A n \in DOMAIN calls' : CallFits(calls[n])'
    <3> TAKE n \in DOMAIN calls'
    <3>1. CASE n \in 1..Len(Return)
      <4>1. n \in DOMAIN calls /\ calls'[n] = calls[n] /\ calls[n].current_indent \in Nat
        BY <1>1, <2>1, <2>5, <3>1, Returned
      <4> QED
        BY <2>1, <2>3, <4>1, StillFits DEF DumpInv, CallFits
    <3>2. CASE n = Len(Return) + 1
      BY <1>2, <2>1, <2>2, <2>3, <2>4, <2>5, <3>2, IndentAssumption DEF CallFits, NewIndent
    <3> QED
      BY <1>1, <2>1, <2>5, <3>1, <3>2, Returned
  <2>8. IndentFits'
    BY <2>1, <2>2, <2>3 DEF DumpInv, DumpTypeInv, IndentFits
  <2> QED
    BY <2>6, <2>7, <2>8 DEF DumpInv
<1>6. CASE DumpElement
  <2> DEFINE c == [Top EXCEPT !.done = @ + 1]
  <2>1. /\ calls # << >> /\ Top.done # 0
        /\ pretty_print' = pretty_print /\ indent_string' = indent_string
        /\ widest' = Wider(NewIndent)
        /\ \E val : calls' = Append(Append(Return, c), Call(val, NewIndent))
    BY <1>6 DEF DumpElement
  <2>2. indent_string \in Nat /\ IndentSize <= indent_string
    BY DEF DumpInv, DumpTypeInv
  <2>3. NewIndent \in Nat /\ NewIndent <= indent_string
    BY <1>2, <2>1, <2>2, IndentAssumption DEF CallFits, NewIndent, DumpInv, DumpTypeInv
  <2>4. c \in Frames(V) /\ c.current_indent = Top.current_indent /\ c.done # 0
    BY <1>2, <2>1 DEF Frames
  <2>5. PICK val : calls' = Append(Append(Return, c), Call(val, NewIndent))
    BY <2>1
  <2>6. Call(val, NewIndent) \in Frames({val})
        /\ Call(val, NewIndent).current_indent = NewIndent /\ Call(val, NewIndent).done = 0
    BY <2>3 DEF Call, Frames
  <2> DEFINE s == Append(Return, c)
  <2>7. /\ s \in Seq(Frames(V \cup V))
        /\ Len(s) = Len(Return) + 1
        /\ \A n \in 1..Len(Return) : s[n] = Return[n]
        /\ s[Len(Return) + 1] = c
    <3> HIDE DEF c
    <3>1. Return \in Seq(Frames(V))
      BY <1>1, <2>1, Returned
    <3> QED
      BY <2>4, <3>1, MoreFrames
  <2>8. /\ calls' \in Seq(Frames((V \cup V) \cup {val}))
        /\ Len(calls') = Len(s) + 1
        /\ \A n \in 1..Len(s) : calls'[n] = s[n]
        /\ calls'[Len(s) + 1] = Call(val, NewIndent)
    <3> HIDE DEF s
    <3> DEFINE d == Call(val, NewIndent)
    <3>1. d \in Frames({val}) /\ s \in Seq(Frames(V \cup V)) /\ calls' = Append(s, d)
      BY <2>5, <2>6, <2>7 DEF s
    <3> HIDE DEF d
    <3>2. /\ Append(s, d) \in Seq(Frames((V \cup V) \cup {val}))
          /\ Len(Append(s, d)) = Len(s) + 1
          /\ \A n \in 1..Len(s) : Append(s, d)[n] = s[n]
          /\ Append(s, d)[Len(s) + 1] = d
      BY <3>1, MoreFrames
    <3> QED
      BY <3>1, <3>2 DEF d
  <2> HIDE DEF c, s
  <2>9. DumpTypeInv'
    BY <2>1, <2>2, <2>3, <2>8 DEF DumpInv, DumpTypeInv, Wider
  <2>10. \A n \in DOMAIN calls' : CallFits(calls[n])'
    <3> TAKE n \in DOMAIN calls'
    <3>1. CASE n \in 1..Len(Return)
      <4>1. n \in DOMAIN calls /\ calls'[n] = calls[n] /\ calls[n].current_indent \in Nat
        <5>1. n \in DOMAIN calls /\ Return[n] = calls[n] /\ calls[n].current_indent \in Nat
          BY <1>1, <2>1, <3>1, Returned
        <5>2. s[n] = Return[n] /\ n \in 1..Len(s)
          BY <1>1, <2>1, <2>7, <3>1, Returned
        <5> QED
          BY <2>8, <5>1, <5>2
      <4> QED
        BY <2>1, <2>2, <4>1, StillFits DEF DumpInv, CallFits
    <3>2. CASE n = Len(Return) + 1
      <4>1. calls'[n] = c
        BY <1>1, <2>1, <2>7, <2>8, <3>2, Returned
      <4> QED
        BY <1>2, <2>1, <2>2, <2>4, <4>1 DEF CallFits
    <3>3. CASE n = Len(s) + 1
      BY <2>1, <2>3, <2>6, <2>8, <3>3 DEF CallFits
    <3> QED
      BY <1>1, <2>1, <2>7, <2>8, <3>1, <3>2, <3>3, Returned
  <2>11. IndentFits'
    BY <2>1, <2>3 DEF DumpInv, IndentFits, Wider
  <2> QED
    BY <2>9, <2>10, <2>11 DEF DumpInv
<1>7. CASE DumpClose
  <2>1. /\ calls # << >> /\ calls' = Return /\ pretty_print' = pretty_print
        /\ indent_string' = indent_string /\ widest' = Wider(Top.current_indent)
    BY <1>7 DEF DumpClose
  <2>2. indent_string \in Nat /\ Top.current_indent \in Nat
        /\ Top.current_indent <= indent_string
    BY <1>2, <2>1 DEF DumpInv, DumpTypeInv, CallFits
  <2> QED
    BY <2>1, <2>2, DumpReturned
<1>8. CASE \E val \in Documents : DumpCall(val)
  BY <1>8, DumpCalled
<1>9. CASE UNCHANGED dumping
  BY <1>9 DEF dumping, DumpInv, DumpTypeInv, CallFits, IndentFits
<1> QED
  BY <1>3, <1>4, <1>5, <1>6, <1>7, <1>8, <1>9 DEF dump

-----------------------------------------------------------------------------
\* The strengthening: calls fit the string, and open containers leave room for their
\* elements (serializer::dump, json.hpp:18139).
THEOREM DumpInvariance == DumpSpec => []DumpInv
<1>1. DumpInit => DumpInv
  BY DumpStarts
<1>2. DumpInv /\ [dump \/ \E val \in Documents : DumpCall(val)]_dumping => DumpInv'
  BY DumpSteps
<1> QED
  BY <1>1, <1>2, PTL DEF DumpSpec

\* dump() never writes characters that indent_string does not have, however deep the
\* document, when one level is no wider than the string it begins with.
THEOREM IndentAlwaysFits == DumpSpec => []IndentFits
<1>1. DumpInv => IndentFits
  BY DEF DumpInv
<1> QED
  BY <1>1, DumpInvariance, PTL
=============================================================================
