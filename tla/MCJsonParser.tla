----------------------------- MODULE MCJsonParser -----------------------------
(***************************************************************************)
(* The parser on all token sequences of a length, and the dump of what it  *)
(* has built, against the grammar of RFC 8259.                             *)
(***************************************************************************)
EXTENDS JsonParser, JsonDump

MCScalars == {<<"literal_null">>, <<"value_integer", 7>>}
MCOverflow == <<"value_float", 0>>

\* Anything in short texts; in longer ones, and for the callback, what can follow.
MCOffered(h, l, n) ==
    IF h # "callback" /\ n <= 6 THEN Tokens
    ELSE CASE l = "value" -> {<<"begin_object">>, <<"begin_array">>, <<"value_integer", 7>>}
           [] l = "first_element" -> {<<"begin_object">>, <<"end_array">>, <<"value_integer", 7>>}
           [] l = "first_key" -> {<<"end_object">>} \cup {<<"value_string", k>> : k \in Keys}
           [] l = "key" -> {<<"value_string", k>> : k \in Keys}
           [] l = "next" -> {<<"value_separator">>, <<"end_object">>, <<"end_array">>}
           [] l = "end" -> {<<"end_of_input">>}
           [] OTHER -> {<<"name_separator">>}


vars == <<parser, dumping>>

\* Binary values are in no JSON text; a program has them.
MCDocuments ==
    LET bin(bytes, has, sub) == <<"binary", [bytes |-> bytes, has_subtype |-> has, subtype |-> sub]>>
        nested == <<"array", <<bin(<<9, 8>>, TRUE, 3), bin(<< >>, FALSE, 0)>> >>
    IN {bin(<<9>>, TRUE, 3), nested, <<"array", <<nested>> >>,
        <<"array", << <<"array", <<nested>> >> >> >>}

Init ==
    /\ ParserInit
    /\ handler = "callback" => ~strict
    /\ DumpInit
    /\ pretty_print

\* A document that was parsed is dumped, or one with binary values that the program
\* has put in its place.
StartDump ==
    /\ label = "done" /\ handler = "dom" /\ strict
    /\ label' = "dumped"
    /\ root' \in {root} \cup (IF root = Null THEN Documents ELSE {})
    /\ DumpCall(root')
    /\ UNCHANGED <<handler, ordered, strict, tokens, verdicts, states, ref_stack,
                   object_element, keep_stack, key_keep_stack>>

Parse == (ParseToken \/ ParseEnds) /\ UNCHANGED dumping

Dump == dump /\ UNCHANGED parser

Next == Parse \/ StartDump \/ Dump

Spec == Init /\ [][Next]_vars

-----------------------------------------------------------------------------
(* The grammar.                                                            *)

Opens == {<<"begin_array">>, <<"begin_object">>}
Closes == {<<"end_array">>, <<"end_object">>}
Is(t, type) == t = <<type>>
Depth(s, n) == Cardinality({m \in 1..n : s[m] \in Opens}) - Cardinality({m \in 1..n : s[m] \in Closes})

\* The numbers of a set, in order.
Sorted(S) == SelectSeq([n \in 1..Max(S \cup {0}) |-> n], LAMBDA n : n \in S)

\* s without its brackets, cut at the commas that are in no inner brackets.
Commas(s) == {n \in DOMAIN s : Is(s[n], "value_separator") /\ Depth(s, n) = 1}
Cuts(s) == Sorted(Commas(s) \cup {1, Len(s)})
Parts(s) == LET cuts == Cuts(s)
            IN IF Len(s) = 2 THEN << >>
               ELSE [n \in 1..(Len(cuts) - 1) |-> SubSeq(s, cuts[n] + 1, cuts[n + 1] - 1)]

Bracketed(s, open, close) ==
    /\ Len(s) > 1
    /\ Is(s[1], open) /\ Is(Last(s), close)
    /\ \A n \in 1..(Len(s) - 1) : Depth(s, n) > 0

RECURSIVE IsValue(_)
IsValue(s) ==
    \/ Len(s) = 1 /\ (s[1] \in Scalars \/ s[1][1] = "value_string")
    \/ /\ Bracketed(s, "begin_array", "end_array")
       /\ \A p \in Range(Parts(s)) : IsValue(p)
    \/ /\ Bracketed(s, "begin_object", "end_object")
       /\ \A p \in Range(Parts(s)) :
             /\ Len(p) > 2 /\ p[1][1] = "value_string" /\ Is(p[2], "name_separator")
             /\ IsValue(SubSeq(p, 3, Len(p)))

\* The brackets that are open at the end of s, closed from the inside.
Closers(s) ==
    LET open == {n \in DOMAIN s : s[n] \in Opens /\ \A m \in n..Len(s) : Depth(s, m) >= Depth(s, n)}
        at == Reverse(Sorted(open))
    IN [n \in DOMAIN at |-> IF Is(s[at[n]], "begin_array") THEN <<"end_array">> ELSE <<"end_object">>]

AValue == <<"literal_null">>
AKey == <<"value_string", 1>>
Colon == <<"name_separator">>

\* s is, or can become, one value.
Viable(s) ==
    LET closers == Closers(s)
    IN \E t \in {<< >>, <<AValue>>, <<AKey, Colon, AValue>>, <<Colon, AValue>>} :
           IsValue(s \o t \o closers)

\* The members of an object by parts <<key, value>>: the last one of a key counts,
\* at the place of the first, or of the key.
Members(parts) ==
    LET first(n) == \A m \in 1..(n - 1) : parts[m][1] # parts[n][1]
        last(k) == parts[Max({n \in DOMAIN parts : parts[n][1] = k})]
        firsts == {n \in DOMAIN parts : first(n)}
        order == SetToSortSeq(firsts, LAMBDA a, b : IF ordered THEN a < b
                                                    ELSE parts[a][1] < parts[b][1])
    IN [n \in DOMAIN order |-> last(parts[order[n]][1])]

RECURSIVE Denote(_)
Denote(s) ==
    CASE Len(s) = 1 -> s[1]
      [] Is(s[1], "begin_array") -> <<"array", [n \in DOMAIN Parts(s) |-> Denote(Parts(s)[n])]>>
      [] OTHER -> <<"object", Members([n \in DOMAIN Parts(s) |->
                      <<Parts(s)[n][1][2], Denote(SubSeq(Parts(s)[n], 3, Len(Parts(s)[n])))>>])>>

\* What the callback leaves: for a sequence of verdicts v that goes with the
\* tokens s, nothing, or one value.  A member is there when the last of its keys
\* that were kept is, with what is left of the value after that key.
RECURSIVE Left(_, _)
Left(s, v) ==
    LET first(p) == 1 + Cuts(s)[p]
        cut(p, n) == [s |-> SubSeq(s, first(p) + n, Cuts(s)[p + 1] - 1),
                      v |-> SubSeq(v, first(p) + n, Cuts(s)[p + 1] - 1)]
        sub(p, n) == Left(cut(p, n).s, cut(p, n).v)
        parts == IF Len(s) < 3 THEN {} ELSE 1..(Len(Cuts(s)) - 1)
        seq(S) == Sorted(S)
        kept == SelectSeq(seq(parts), LAMBDA p : v[first(p)] # "discard")
        all == Members([n \in DOMAIN kept |-> <<s[first(kept[n])][2], sub(kept[n], 2)>>])
        elements == [n \in DOMAIN seq(parts) |-> sub(seq(parts)[n], 0)]
    IN CASE v[1] = "discard" \/ Last(v) = "discard" -> {}
         [] Len(s) = 1 -> {s[1]}
         [] Is(s[1], "begin_array") ->
               {<<"array", FlattenSeq([n \in DOMAIN elements |-> SetToSeq(elements[n])])>>}
         [] OTHER ->
               LET there == SelectSeq(all, LAMBDA m : m[2] # {})
               IN {<<"object", [n \in DOMAIN there |-> <<there[n][1], CHOOSE x \in there[n][2] : TRUE>>]>>}

\* v without the members that are still discarded.
RECURSIVE Strip(_)
Strip(v) ==
    CASE v[1] = "array" -> <<"array", [n \in DOMAIN v[2] |-> Strip(v[2][n])]>>
      [] v[1] = "object" ->
            LET there == SelectSeq(v[2], LAMBDA m : m[2] # Discarded)
            IN <<"object", [n \in DOMAIN there |-> <<there[n][1], Strip(there[n][2])>>]>>
      [] OTHER -> v

\* v with an object for every binary value.
RECURSIVE Plain(_)
Plain(v) ==
    CASE v[1] = "array" -> <<"array", [n \in DOMAIN v[2] |-> Plain(v[2][n])]>>
      [] v[1] = "binary" ->
            LET bytes == [n \in DOMAIN v[2].bytes |-> <<"value_unsigned", v[2].bytes[n]>>]
                subtype == IF v[2].has_subtype THEN <<"value_unsigned", v[2].subtype>> ELSE Null
            IN <<"object", << <<BytesKey, <<"array", bytes>> >>, <<SubtypeKey, subtype>> >> >>
      [] OTHER -> v

\* What was dumped, without the white space.
Written == SelectSeq(out, LAMBDA t : t[1] \notin {"newline", "indent"})

-----------------------------------------------------------------------------
(* Properties.                                                             *)

\* A text is refused at the first token after which no JSON text is possible,
\* and at no other: by all handlers, at any depth.
RefusedAtFirstError ==
    LET n == Len(tokens)
        read == IF n > 0 /\ label # "error" /\ Is(tokens[n], "end_of_input")
                THEN Front(tokens) ELSE tokens
    IN /\ label = "error" => /\ Viable(Front(tokens)) \/ n = 1
                             /\ ~Viable(tokens)
       /\ label \notin {"error", "done", "end", "dumped"} => Viable(read) /\ ~IsValue(read)
       /\ label \in {"end", "done", "dumped"} => IsValue(read)

\* The document is what the grammar says of the tokens: nesting, the order of the
\* elements, and one member for each key, with its last value.
DocumentDenotes ==
    label \in {"end", "done"} /\ handler = "dom" =>
        root = Denote(SelectSeq(tokens, LAMBDA t : ~Is(t, "end_of_input")))

\* What is left after a callback is what it kept, whatever it discarded and in which
\* order, and nothing else; a discarded primitive value leaves at most its key, with
\* a discarded value.
CallbackFilters ==
    label \in {"end", "done"} /\ handler = "callback" =>
        LET left == Left(tokens, verdicts)
        IN {Strip(root)} = IF left = {} THEN {IF label = "end" THEN root ELSE Null} ELSE left

\* The parser takes exactly the texts of the grammar, as far as they go, and builds what
\* they say, less what a callback discards (json.hpp:12348).
ParsesGrammar == RefusedAtFirstError /\ BracketsMatch /\ DocumentDenotes /\ CallbackFilters

\* A dumped document, pretty or not, is read back as the same document.
DumpDenotes ==
    label = "dumped" /\ calls = << >> => Denote(Written) = Plain(root)
=============================================================================
