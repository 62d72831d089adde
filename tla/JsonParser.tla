----------------------------- MODULE JsonParser -----------------------------
(***************************************************************************)
(* The parser of json.hpp: sax_parse_internal turns tokens into SAX events *)
(* with an explicit stack of states, and one of three handlers takes them: *)
(* json_sax_acceptor, json_sax_dom_parser, and json_sax_dom_callback_parser*)
(* whose callback may discard any part of the document.  One action is one *)
(* get_token(), with all that the parser does before it asks again.        *)
(*                                                                         *)
(* A token is <<type>> or <<type, payload>>.  A value is <<kind, content>>:*)
(* an array has a sequence of values, an object a sequence of <<key, value>>*)
(* in the order of its map, which is the order of the keys for json and of *)
(* insertion for ordered_json.  A pointer into the document is the path of *)
(* positions from the root.  Exceptions are off: where parse_error would   *)
(* throw, the result is a discarded value.                                 *)
(***************************************************************************)
EXTENDS Integers, SequencesExt

CONSTANTS
    Keys,             \* the strings that are keys, numbers in their order
    Scalars,          \* the tokens that are a value of their own, but for strings
    Overflow,         \* a value_float token that is not finite
    Offered(_, _, _), \* the tokens that may come: for a handler, at a label, as the nth
    MaxTokens         \* bound: tokens of one text

\* The token types are distinct.
ASSUME ScalarsAssumption ==
    \A t \in Scalars :
        t[1] \notin {"begin_object", "end_object", "begin_array", "end_array", "name_separator",
                    "value_separator", "end_of_input", "parse_error", "value_string"}

VARIABLES
    handler,         \* "accept", "dom" or "callback"
    ordered,         \* basic_json is ordered_json
    strict,          \* sax_parse: strict
    tokens,          \* what get_token() has returned
    verdicts,        \* for each of them, what the callback said of its event
    label,           \* where the parser is
    states,          \* sax_parse_internal: states, TRUE for an array
    root,            \* the document
    ref_stack,
    object_element,
    keep_stack,
    key_keep_stack

parser == <<handler, ordered, strict, tokens, verdicts, label, states, root, ref_stack,
            object_element, keep_stack, key_keep_stack>>

Null == <<"literal_null">>
Discarded == <<"discarded">>
NoRef == <<-1>> \* nullptr

-----------------------------------------------------------------------------
(* Values.                                                                 *)

IsArray(v) == v[1] = "array"
IsObject(v) == v[1] = "object"

Child(v, n) == IF IsArray(v) THEN v[2][n] ELSE v[2][n][2]

At(v, path) ==
    LET at[n \in 0..Len(path)] == IF n = 0 THEN v ELSE Child(at[n - 1], path[n])
    IN at[Len(path)]

\* The container v with w as its nth child.
Changed(v, n, w) == <<v[1], [v[2] EXCEPT ![n] = IF IsArray(v) THEN w ELSE <<@[1], w>>]>>

\* v with w in place of what is at path; put[n] is what is then n steps above.
Put(v, path, w) ==
    LET put[n \in 0..Len(path)] ==
          IF n = 0 THEN w
          ELSE Changed(At(v, SubSeq(path, 1, Len(path) - n)), path[Len(path) - n + 1], put[n - 1])
    IN put[Len(path)]

\* The position of key in the members of an object, and where it would go.
Holds(members, key) == \E n \in DOMAIN members : members[n][1] = key
Position(members, key) ==
    IF Holds(members, key) THEN CHOOSE n \in DOMAIN members : members[n][1] = key
    ELSE 1 + (IF ordered THEN Len(members)
              ELSE Cardinality({n \in DOMAIN members : members[n][1] < key}))

\* Faulty variant: a key that is there already gets a second member.
Member_Again(members, key) ==
    InsertAt(members, 1 + Len(members), <<key, Null>>)

\* operator[](key): the members with one for key, null when it is new.
Member(members, key) ==
    IF Holds(members, key) THEN members
    ELSE InsertAt(members, Position(members, key), <<key, Null>>)

-----------------------------------------------------------------------------
(* The handlers.                                                           *)

Back == At(root, Last(ref_stack))

\* The position of the element that is added.
BackIndex(elements) == Len(elements) + 1

\* handle_value: v is the root, the next element of an array or the member that
\* key() chose.  Where it is now, and the document with it.
handle_value(v) ==
    IF ref_stack = << >> THEN [at |-> << >>, root |-> v]
    ELSE IF IsArray(Back)
    THEN [at |-> Append(Last(ref_stack), BackIndex(Back[2])),
          root |-> Put(root, Last(ref_stack), <<"array", Append(Back[2], v)>>)]
    ELSE [at |-> object_element, root |-> Put(root, object_element, v)]

\* handle_value of the callback parser; keeps is keep_stack, and keep what the
\* callback said of v.
HandleKept(v, keeps, keep) ==
    LET nothing == [at |-> NoRef, root |-> root, keys |-> key_keep_stack]
        stored == [at |-> handle_value(v).at, root |-> handle_value(v).root,
                   keys |-> key_keep_stack]
    IN IF ~Last(keeps) \/ ~keep THEN nothing
       ELSE IF ref_stack = << >> THEN stored
       ELSE IF Last(ref_stack) = NoRef THEN nothing
       ELSE IF IsArray(Back) THEN stored
       ELSE [IF Last(key_keep_stack) THEN stored ELSE nothing
             EXCEPT !.keys = Front(key_keep_stack)]

\* A callback is called, or not.
Says(keep) == verdicts' = Append(verdicts, IF keep THEN "keep" ELSE "discard")
Silent == verdicts' = Append(verdicts, "none")

\* The acceptor builds nothing.
Accepts == Silent /\ UNCHANGED <<root, ref_stack, object_element, keep_stack, key_keep_stack>>

\* null, boolean, the numbers and string.
DomScalar(v) ==
    /\ Silent
    /\ root' = handle_value(v).root
    /\ UNCHANGED <<ref_stack, object_element, keep_stack, key_keep_stack>>

KeptScalar(v) ==
    /\ IF ~Last(keep_stack) THEN Silent /\ UNCHANGED <<root, key_keep_stack>>
       ELSE \E keep \in BOOLEAN :
               LET h == HandleKept(v, keep_stack, keep)
               IN Says(keep) /\ root' = h.root /\ key_keep_stack' = h.keys
    /\ UNCHANGED <<ref_stack, object_element, keep_stack>>

Scalar(v) ==
    CASE handler = "accept" -> Accepts
      [] handler = "dom" -> DomScalar(v)
      [] handler = "callback" -> KeptScalar(v)

\* start_object and start_array; v is the empty container.
DomStart(v) ==
    /\ Silent
    /\ root' = handle_value(v).root
    /\ ref_stack' = Append(ref_stack, handle_value(v).at)
    /\ UNCHANGED <<object_element, keep_stack, key_keep_stack>>

KeptStart(v) ==
    /\ \E keep \in BOOLEAN :
          LET h == HandleKept(v, Append(keep_stack, keep), TRUE)
          IN /\ Says(keep)
             /\ keep_stack' = Append(keep_stack, keep)
             /\ root' = h.root
             /\ ref_stack' = Append(ref_stack, h.at)
             /\ key_keep_stack' = h.keys
    /\ UNCHANGED object_element

Start(v) ==
    CASE handler = "accept" -> Accepts
      [] handler = "dom" -> DomStart(v)
      [] handler = "callback" -> KeptStart(v)

\* key: the member is there from now on, null or discarded until its value comes.
With(k) == Put(root, Last(ref_stack), <<"object", Member(Back[2], k)>>)
MemberAt(k) ==
    Append(Last(ref_stack), CHOOSE n \in DOMAIN Member(Back[2], k) : Member(Back[2], k)[n][1] = k)

DomKey(k) ==
    /\ Silent
    /\ root' = With(k)
    /\ object_element' = MemberAt(k)
    /\ UNCHANGED <<ref_stack, keep_stack, key_keep_stack>>

\* Faulty variant: the verdict on a key is remembered only if the key is kept.
KeptKey_Kept(k) ==
    /\ \E keep \in BOOLEAN :
          /\ Says(keep)
          /\ key_keep_stack' = IF keep THEN Append(key_keep_stack, keep) ELSE key_keep_stack
          /\ IF keep /\ Last(ref_stack) # NoRef
             THEN root' = Put(With(k), MemberAt(k), Discarded) /\ object_element' = MemberAt(k)
             ELSE UNCHANGED <<root, object_element>>
    /\ UNCHANGED <<ref_stack, keep_stack>>

KeptKey(k) ==
    /\ \E keep \in BOOLEAN :
          /\ Says(keep)
          /\ key_keep_stack' = Append(key_keep_stack, keep)
          /\ IF keep /\ Last(ref_stack) # NoRef
             THEN root' = Put(With(k), MemberAt(k), Discarded) /\ object_element' = MemberAt(k)
             ELSE UNCHANGED <<root, object_element>>
    /\ UNCHANGED <<ref_stack, keep_stack>>

Key(k) ==
    CASE handler = "accept" -> Accepts
      [] handler = "dom" -> DomKey(k)
      [] handler = "callback" -> KeptKey(k)

\* The first child of v that is discarded, if there is one.
FirstDiscarded(v) ==
    {n \in DOMAIN v[2] : /\ Child(v, n) = Discarded
                         /\ \A m \in 1..(n - 1) : Child(v, m) # Discarded}

\* The container above the one that ends, in the document r: end_object erases
\* the first discarded child of any container, end_array the last element of an
\* array whose last element it has just discarded.
Cleaned(r, up, array, keep) ==
    IF up = << >> \/ (up # << >> /\ Last(up) = NoRef) THEN r
    ELSE LET v == At(r, Last(up))
         IN CASE array /\ ~keep /\ IsArray(v) -> Put(r, Last(up), <<v[1], Front(v[2])>>)
              [] ~array /\ FirstDiscarded(v) # {} ->
                    Put(r, Last(up), <<v[1], RemoveAt(v[2], Max(FirstDiscarded(v)))>>)
              [] OTHER -> r

\* end_object and end_array.
DomEnd ==
    /\ Silent
    /\ ref_stack' = Front(ref_stack)
    /\ UNCHANGED <<root, object_element, keep_stack, key_keep_stack>>

KeptEnd(array) ==
    /\ \E keep \in BOOLEAN :
          LET live == Last(ref_stack) # NoRef
              left == IF live /\ ~keep THEN Put(root, Last(ref_stack), Discarded) ELSE root
          IN /\ IF live THEN Says(keep) ELSE keep /\ Silent
             /\ ref_stack' = Front(ref_stack)
             /\ keep_stack' = Front(keep_stack)
             /\ root' = Cleaned(left, ref_stack', array, keep)
    /\ UNCHANGED <<object_element, key_keep_stack>>

End(array) ==
    CASE handler = "accept" -> Accepts
      [] handler = "dom" -> DomEnd
      [] handler = "callback" -> KeptEnd(array)

-----------------------------------------------------------------------------
(* sax_parse_internal.                                                     *)

\* A value was parsed: the states tell what may follow.
Evaluate(s) == label' = IF s = << >> THEN "end" ELSE "next"

\* parse_error; result = value_t::discarded.
Error ==
    /\ label' = "error"
    /\ root' = IF handler = "accept" THEN root ELSE Discarded
    /\ Silent
    /\ UNCHANGED <<ref_stack, object_element, keep_stack, key_keep_stack>>

\* Where end_array ends an array that has not had a value since it began.
EmptyArrayAt == {"first_element"}

\* The switch on last_token.  An array that was begun remembers itself before its
\* first value.
Value(t) ==
    /\ label \in {"value", "first_element"}
    /\ ~(label \in EmptyArrayAt /\ t = <<"end_array">>)
    /\ states' = IF label = "value" THEN states ELSE Append(states, TRUE)
    /\ CASE t = <<"begin_object">> -> Start(<<"object", << >> >>) /\ label' = "first_key"
         [] t = <<"begin_array">> -> Start(<<"array", << >> >>) /\ label' = "first_element"
         [] t \in Scalars \/ t[1] = "value_string" -> Scalar(t) /\ Evaluate(states')
         [] OTHER -> Error

\* [] and {}: states never had them.
EmptyContainer(t) ==
    /\ \/ label \in EmptyArrayAt /\ t = <<"end_array">> /\ End(TRUE)
       \/ label = "first_key" /\ t = <<"end_object">> /\ End(FALSE)
    /\ Evaluate(states)
    /\ UNCHANGED states

ObjectKey(t) ==
    /\ label \in {"first_key", "key"}
    /\ label = "first_key" => t # <<"end_object">>
    /\ IF t[1] = "value_string"
       THEN /\ Key(t[2])
            /\ label' = IF label = "key" THEN "separator" ELSE "first_separator"
       ELSE Error
    /\ UNCHANGED states

\* states remembers the object once its first key and colon were read.
Separator(t) ==
    /\ label \in {"separator", "first_separator"}
    /\ IF t = <<"name_separator">>
       THEN /\ label' = "value"
            /\ states' = IF label = "separator" THEN states ELSE Append(states, FALSE)
            /\ Silent
            /\ UNCHANGED <<root, ref_stack, object_element, keep_stack, key_keep_stack>>
       ELSE Error /\ UNCHANGED states

\* states.pop_back()
Pop(s) == Front(s)

\* After a value in an array or an object.
AfterValue(t) ==
    /\ label = "next"
    /\ CASE t = <<"value_separator">> ->
               /\ label' = IF Last(states) THEN "value" ELSE "key"
               /\ Silent
               /\ UNCHANGED <<states, root, ref_stack, object_element, keep_stack, key_keep_stack>>
         [] t = (IF Last(states) THEN <<"end_array">> ELSE <<"end_object">>) ->
               /\ End(Last(states))
               /\ states' = Pop(states)
               /\ Evaluate(states')
         [] OTHER -> Error /\ UNCHANGED states

\* A document that the callback discarded becomes null.
Done ==
    /\ label' = "done"
    /\ root' = IF root = Discarded THEN Null ELSE root
    /\ UNCHANGED <<states, ref_stack, object_element, keep_stack, key_keep_stack>>

\* In strict mode the input must be completely read.
Finish(t) ==
    /\ label = "end"
    /\ strict
    /\ IF t = <<"end_of_input">> THEN Done /\ Silent ELSE Error /\ UNCHANGED states

ParseEnds ==
    /\ label = "end"
    /\ ~strict
    /\ Done
    /\ UNCHANGED <<handler, ordered, strict, tokens, verdicts>>

Tokens == {<<t>> : t \in {"begin_object", "end_object", "begin_array", "end_array",
                          "name_separator", "value_separator", "end_of_input", "parse_error"}}
          \cup {<<"value_string", k>> : k \in Keys} \cup Scalars \cup {Overflow}

Token(t) ==
    \/ Value(t) \/ EmptyContainer(t) \/ ObjectKey(t) \/ Separator(t) \/ AfterValue(t) \/ Finish(t)

ParserInit ==
    /\ handler \in {"accept", "dom", "callback"}
    /\ ordered \in BOOLEAN
    /\ strict \in BOOLEAN
    /\ tokens = << >>
    /\ verdicts = << >>
    /\ label = "value"
    /\ states = << >>
    /\ root = Null
    /\ ref_stack = << >>
    /\ object_element = NoRef
    /\ keep_stack = <<TRUE>>
    /\ key_keep_stack = << >>

ParseToken ==
    /\ Len(tokens) < MaxTokens
    /\ \E t \in Tokens \cap Offered(handler, label, Len(tokens) + 1) : tokens' = Append(tokens, t) /\ Token(t)
    /\ UNCHANGED <<handler, ordered, strict>>

ParserSpec == ParserInit /\ [][ParseToken \/ ParseEnds]_parser

-----------------------------------------------------------------------------
(* Properties.                                                             *)

Asking == {"value", "first_element", "first_key", "first_separator", "key", "separator",
           "next", "end"}

\* A bracket in the containers that are open, TRUE for an array.
Bracket(open, t) ==
    CASE t = <<"begin_array">> -> Append(open, TRUE)
      [] t = <<"begin_object">> -> Append(open, FALSE)
      [] t \in {<<"end_array">>, <<"end_object">>} -> Front(open)
      [] OTHER -> open

\* The containers that are open after the tokens s.
Opened(s) ==
    LET opened[n \in 0..Len(s)] == IF n = 0 THEN << >> ELSE Bracket(opened[n - 1], s[n])
    IN opened[Len(s)]

\* While the parser asks for more, every bracket that closed has closed the last one
\* open, of its own kind; and nothing is open any more where a text may end.
BracketsMatch ==
    label \in Asking =>
        /\ \A n \in DOMAIN tokens :
              LET before == Opened(SubSeq(tokens, 1, n - 1))
              IN /\ tokens[n] = <<"end_array">> => before # << >> /\ Last(before)
                 /\ tokens[n] = <<"end_object">> => before # << >> /\ ~Last(before)
        /\ label = "end" <=> Opened(tokens) = << >> /\ tokens # << >>

\* The paths from ref to the children of v.
Below(ref, v) == {Append(ref, n) : n \in DOMAIN v[2]}

\* The next value belongs to a key.
MemberDue ==
    \/ label \in {"first_separator", "separator"}
    \/ label = "value" /\ Opened(tokens) # << >> /\ ~Last(Opened(tokens))

\* Every pointer of ref_stack that is not null points to the container that is open
\* at its depth, of the kind the text has there, and to a child of the one that the
\* pointer before it points to, the last child of an array: a container under a
\* discarded one is never kept, and what end_array removes is the array that ended.
\* Without a callback none is null.
RefsFollow ==
    LET open == Opened(tokens)
    IN /\ Len(ref_stack) = Len(open)
       /\ handler = "dom" => NoRef \notin Range(ref_stack)
       /\ \A n \in DOMAIN ref_stack : ref_stack[n] # NoRef =>
             /\ At(root, ref_stack[n])[1] = IF open[n] THEN "array" ELSE "object"
             /\ IF n = 1 THEN ref_stack[n] = << >>
                ELSE LET up == At(root, ref_stack[n - 1])
                     IN /\ ref_stack[n - 1] # NoRef
                        /\ ref_stack[n] \in Below(ref_stack[n - 1], up)
                        /\ open[n - 1] => Last(ref_stack[n]) = Len(up[2])

\* What handle_value finds when a value comes for a key: the verdict on the key, and
\* a member of the object that is open to put it into.
MemberReady ==
    MemberDue =>
        /\ handler = "callback" => key_keep_stack # << >>
        /\ Last(ref_stack) # NoRef /\ (handler = "callback" => Last(key_keep_stack)) =>
              object_element \in Below(Last(ref_stack), Back)

\* The assertions of both handlers that build a document, for every text and whatever
\* a callback says (json.hpp:6880-6967, 7100-7264): the stacks are as deep as the
\* text, and no pointer is null or stale when it is used.
HandlersFollow ==
    label \in Asking /\ handler # "accept" =>
        /\ RefsFollow
        /\ MemberReady
        /\ handler = "callback" => Len(keep_stack) = Len(Opened(tokens)) + 1
=============================================================================
