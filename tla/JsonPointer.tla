------------------------------ MODULE JsonPointer ------------------------------
(***************************************************************************)
(* JSON values in memory (basic_json of src/CPlusConnectApp/json.hpp) and  *)
(* json_pointer: how a string names a place in a document, and what each   *)
(* of the library's four walks does on the way there: at() checks,         *)
(* operator[] creates, unflatten() creates and guesses, contains() asks.   *)
(*                                                                         *)
(* A value is <<kind, content>>: an array holds a sequence, an object a    *)
(* function from its keys.  A string is the sequence of its character      *)
(* codes.  A walk is a record: the document, the reference reached in it   *)
(* (the positions passed through) and the id of the exception thrown, 0    *)
(* when there is none.                                                     *)
(***************************************************************************)
EXTENDS Integers, SequencesExt

Null == <<"null">>
Arr(s) == <<"array", s>>
Obj(f) == <<"object", f>>

IsContainer(v) == v[1] \in {"array", "object"}

Hyphen == 45
Slash == 47
Zero == 48
One == 49
Nine == 57
Tilde == 126

Digits == Zero..Nine

\* The order std::map keeps its keys in.
RECURSIVE Before(_, _)
Before(s, t) ==
    IF s = << >> \/ t = << >> THEN s = << >> /\ t # << >>
    ELSE \/ s[1] < t[1]
         \/ s[1] = t[1] /\ Before(Tail(s), Tail(t))

RECURSIVE Sorted(_)
Sorted(keys) ==
    IF keys = {} THEN << >>
    ELSE LET least == CHOOSE k \in keys : \A l \in keys \ {k} : Before(k, l)
         IN <<least>> \o Sorted(keys \ {least})

RECURSIVE Get(_, _)
Get(doc, ref) == IF ref = << >> THEN doc ELSE Get(doc[2][ref[1]], Tail(ref))

RECURSIVE Put(_, _, _)
Put(doc, ref, v) ==
    IF ref = << >> THEN v
    ELSE <<doc[1], [doc[2] EXCEPT ![ref[1]] = Put(@, Tail(ref), v)]>>

-----------------------------------------------------------------------------
(* Tokens and strings.                                                     *)

\* Every occurrence of f, from the left, replaced by t; replacements are not rescanned.
RECURSIVE replace_substring(_, _, _)
replace_substring(s, f, t) ==
    IF Len(s) < Len(f) THEN s
    ELSE IF SubSeq(s, 1, Len(f)) = f
         THEN t \o replace_substring(SubSeq(s, Len(f) + 1, Len(s)), f, t)
         ELSE <<s[1]>> \o replace_substring(Tail(s), f, t)

escape(s) ==
    replace_substring(replace_substring(s, <<Tilde>>, <<Tilde, Zero>>), <<Slash>>, <<Tilde, One>>)

unescape(s) ==
    replace_substring(replace_substring(s, <<Tilde, One>>, <<Slash>>), <<Tilde, Zero>>, <<Tilde>>)

to_string(tokens) == FoldLeft(LAMBDA s, t : s \o <<Slash>> \o escape(t), << >>, tokens)

\* The pieces between slashes, of a string that begins with one.
RECURSIVE Pieces(_)
Pieces(s) ==
    IF s = << >> THEN << >>
    ELSE LET end == Min({n \in 2..Len(s) : s[n] = Slash} \cup {Len(s) + 1})
         IN <<SubSeq(s, 2, end - 1)>> \o Pieces(SubSeq(s, end, Len(s)))

EscapesWell(t) == \A n \in DOMAIN t : t[n] = Tilde => n < Len(t) /\ t[n + 1] \in {Zero, One}

Failure(id) == [error |-> id, tokens |-> << >>]

split(s) ==
    IF s = << >> THEN [error |-> 0, tokens |-> << >>]
    ELSE IF s[1] # Slash THEN Failure(107)
    ELSE IF \E n \in DOMAIN Pieces(s) : ~EscapesWell(Pieces(s)[n]) THEN Failure(108)
    ELSE [error |-> 0, tokens |-> [n \in DOMAIN Pieces(s) |-> unescape(Pieces(s)[n])]]

RECURSIVE Number(_)
Number(t) == IF t = << >> THEN 0 ELSE 10 * Number(Front(t)) + (Last(t) - Zero)

RECURSIVE Decimal(_)
Decimal(n) == IF n < 10 THEN <<Zero + n>> ELSE Decimal(n \div 10) \o <<Zero + (n % 10)>>

\* 2^64 - 1, the largest size_type, and an index beyond every array that fits in memory.
SizeMax == <<49, 56, 52, 52, 54, 55, 52, 52, 48, 55, 51, 55, 48, 57, 53, 53, 49, 54, 49, 53>>
Beyond == 999999999

Idx(error, value) == [error |-> error, value |-> value]

\* strtoull stops at the first character that is no digit.
array_index(t) ==
    LET Larger(s) == Len(s) > 20 \/ (Len(s) = 20 /\ Before(SizeMax, s))
    IN IF Len(t) > 1 /\ t[1] = Zero THEN Idx(106, 0)
       ELSE IF Len(t) > 1 /\ t[1] \notin One..Nine THEN Idx(109, 0)
       ELSE IF t = << >> \/ \E n \in DOMAIN t : t[n] \notin Digits THEN Idx(404, 0)
       ELSE IF Larger(t) THEN Idx(404, 0)
       ELSE IF t = SizeMax THEN Idx(410, 0)
       ELSE Idx(0, IF Len(t) > 9 THEN Beyond ELSE Number(t))

-----------------------------------------------------------------------------
(* Element access, one level deep.                                         *)

Walk(doc) == [doc |-> doc, ref |-> << >>, error |-> 0]
Throw(w, id) == [w EXCEPT !.error = id]
Step(w, p) == [w EXCEPT !.ref = Append(@, p)]
At(w) == Get(w.doc, w.ref)
Became(w, v) == [w EXCEPT !.doc = Put(@, w.ref, v)]

at_idx(w, idx) ==
    IF At(w)[1] # "array" THEN Throw(w, 304)
    ELSE IF idx >= Len(At(w)[2]) THEN Throw(w, 401)
    ELSE Step(w, idx + 1)

at_key(w, key) ==
    IF At(w)[1] # "object" THEN Throw(w, 304)
    ELSE IF key \notin DOMAIN At(w)[2] THEN Throw(w, 403)
    ELSE Step(w, key)

Resized(s, n) == [k \in 1..n |-> IF k <= Len(s) THEN s[k] ELSE Null]

\* Null becomes an array; a short array is filled up with nulls.
index_idx(w, idx) ==
    LET v == IF At(w) = Null THEN Arr(<< >>) ELSE At(w)
    IN IF v[1] # "array" THEN Throw(w, 305)
       ELSE IF idx < Len(v[2]) THEN Step(Became(w, v), idx + 1)
       ELSE Step(Became(w, Arr(Resized(v[2], idx + 1))), idx + 1)

\* Null becomes an object; a missing member is made, null.
index_key(w, key) ==
    LET v == IF At(w) = Null THEN Obj(<< >>) ELSE At(w)
    IN IF v[1] # "object" THEN Throw(w, 305)
       ELSE IF key \in DOMAIN v[2] THEN Step(Became(w, v), key)
       ELSE Step(Became(w, Obj([k \in DOMAIN v[2] \cup {key} |-> IF k = key THEN Null ELSE v[2][k]])), key)

-----------------------------------------------------------------------------
(* The walks.                                                              *)

\* One step of a walk that has not thrown.
Along(Visit(_, _), tokens, doc) ==
    FoldLeft(LAMBDA w, t : IF w.error # 0 THEN w ELSE Visit(w, t), Walk(doc), tokens)

ByIndex(w, token, Then(_, _)) ==
    LET idx == array_index(token)
    IN IF idx.error # 0 THEN Throw(w, idx.error) ELSE Then(w, idx.value)

CheckedStep(w, token) ==
    CASE At(w)[1] = "object" -> at_key(w, token)
      [] At(w)[1] = "array" ->
           IF token = <<Hyphen>> THEN Throw(w, 402) ELSE ByIndex(w, token, at_idx)
      [] OTHER -> Throw(w, 404)

get_checked(doc, tokens) == Along(CheckedStep, tokens, doc)

\* The index that "-" stands for.
PastEnd_Last(v) == Max({0, Len(v[2]) - 1})
PastEnd(v) == Len(v[2])

\* A null on the way becomes an array when the token could be an index (the empty
\* token too), else an object.
UncheckedStep(w, token) ==
    LET v == IF At(w) # Null THEN At(w)
             ELSE IF token = <<Hyphen>> \/ \A n \in DOMAIN token : token[n] \in Digits
             THEN Arr(<< >>) ELSE Obj(<< >>)
        u == Became(w, v)
    IN CASE v[1] = "object" -> index_key(u, token)
         [] v[1] = "array" ->
              IF token = <<Hyphen>> THEN index_idx(u, PastEnd(v)) ELSE ByIndex(u, token, index_idx)
         [] OTHER -> Throw(u, 404)

get_unchecked(doc, tokens) == Along(UncheckedStep, tokens, doc)

\* A null becomes an array only under the token "0": the first member in the order
\* of the flattened keys decides.
CreateStep(w, token) ==
    CASE At(w) = Null -> IF token = <<Zero>> THEN index_idx(w, 0) ELSE index_key(w, token)
      [] At(w)[1] = "object" -> index_key(w, token)
      [] At(w)[1] = "array" -> ByIndex(w, token, index_idx)
      [] OTHER -> Throw(w, 313)

get_and_create(doc, tokens) == Along(CreateStep, tokens, doc)

\* The answer is yes, no, or the exception of array_index.
ContainsStep(w, token) ==
    LET Inside(u, idx) == IF idx < Len(At(u)[2]) THEN Step(u, idx + 1) ELSE [u EXCEPT !.answer = FALSE]
    IN CASE ~w.answer -> w
         [] w.answer /\ At(w)[1] = "object" ->
              IF token \in DOMAIN At(w)[2] THEN Step(w, token) ELSE [w EXCEPT !.answer = FALSE]
         [] w.answer /\ At(w)[1] = "array" ->
              IF \/ Len(token) = 1 /\ token[1] \notin Digits
                 \/ Len(token) > 1 /\ (token[1] \notin One..Nine \/ \E n \in 2..Len(token) : token[n] \notin Digits)
              THEN [w EXCEPT !.answer = FALSE]
              ELSE ByIndex(w, token, Inside)
         [] OTHER -> [w EXCEPT !.answer = FALSE]

contains(doc, tokens) ==
    FoldLeft(LAMBDA w, t : IF w.error # 0 THEN w ELSE ContainsStep(w, t),
             [doc |-> doc, ref |-> << >>, error |-> 0, answer |-> TRUE], tokens)

-----------------------------------------------------------------------------
(* Flattening.                                                             *)

\* The pairs <<pointer, primitive>> of a value; empty containers become null.
RECURSIVE Leaves(_, _)
Leaves(prefix, v) ==
    IF ~IsContainer(v) THEN {<<prefix, v>>}
    ELSE IF DOMAIN v[2] = {} THEN {<<prefix, Null>>}
    ELSE IF v[1] = "array"
         THEN UNION {Leaves(prefix \o <<Slash>> \o Decimal(n - 1), v[2][n]) : n \in DOMAIN v[2]}
         ELSE UNION {Leaves(prefix \o <<Slash>> \o escape(k), v[2][k]) : k \in DOMAIN v[2]}

flatten(v) ==
    LET leaves == Leaves(<< >>, v)
    IN Obj([p \in {l[1] : l \in leaves} |-> (CHOOSE l \in leaves : l[1] = p)[2]])

\* at: where the walk that creates has come.
Assigned(w, at, val) == IF at.error # 0 THEN Throw(w, at.error) ELSE [w EXCEPT !.doc = Put(at.doc, at.ref, val)]

\* A value the parser's callback discarded is neither primitive nor a container.
is_primitive(v) == ~IsContainer(v) /\ v[1] # "discarded"

Placing(w, pointer, val) ==
    CASE w.error # 0 -> w
      [] w.error = 0 /\ ~is_primitive(val) -> Throw(w, 315)
      [] w.error = 0 /\ is_primitive(val) /\ pointer.error # 0 -> Throw(w, pointer.error)
      [] OTHER -> Assigned(w, get_and_create(w.doc, pointer.tokens), val)

unflatten(v) ==
    LET Place(w, key) == Placing(w, split(key), v[2][key])
    IN IF v[1] # "object" THEN Throw(Walk(Null), 314)
       ELSE FoldLeft(Place, Walk(Null), Sorted(DOMAIN v[2]))
=============================================================================
