----------------------------- MODULE JsonDocument -----------------------------
(***************************************************************************)
(* The modifiers of basic_json (src/CPlusConnectApp/json.hpp) as a program *)
(* calls them on one document: what each call makes of it, and what is     *)
(* left when the call throws.  Comparison of values is here too, patches   *)
(* are in JsonPatch.                                                       *)
(***************************************************************************)
EXTENDS JsonPointer

CONSTANTS
    WordBits,   \* width of number_integer_t and number_unsigned_t
    Documents,  \* the values a document starts as
    Values,     \* the values given to a call
    Pointers,   \* reference tokens of the pointers given to a call
    Keys,       \* object keys
    MaxCalls    \* bound on the calls of a behaviour

VARIABLES
    doc,     \* the document
    thrown,  \* id of the exception of the last call, 0 when it returned
    call,    \* that call
    calls    \* number of calls so far

document == <<doc, thrown, call, calls>>

-----------------------------------------------------------------------------
(* Comparison.                                                             *)

NaN == <<"nan">>    \* the double that is not a number
Discarded == <<"discarded">>

Numbers == {"integer", "unsigned", "float"}

\* static_cast<number_integer_t> of an unsigned number.
Signed(u) == IF u >= 2^(WordBits - 1) THEN u - 2^WordBits ELSE u

\* The two operands as one type: a double when either is, else the signed integer.
Operands(l, r) ==
    IF "float" \in {l[1], r[1]} \/ l[1] = r[1] THEN <<l[2], r[2]>>
    ELSE <<IF l[1] = "unsigned" THEN Signed(l[2]) ELSE l[2],
           IF r[1] = "unsigned" THEN Signed(r[2]) ELSE r[2]>>

RECURSIVE Equal(_, _)
Equal(l, r) ==
    CASE l[1] \in Numbers /\ r[1] \in Numbers -> Operands(l, r)[1] = Operands(l, r)[2]
      [] l[1] # r[1] -> FALSE
      [] l[1] = r[1] /\ l[1] \in {"nan", "discarded"} -> FALSE
      [] l[1] = r[1] /\ IsContainer(l) ->
           DOMAIN l[2] = DOMAIN r[2] /\ \A p \in DOMAIN l[2] : Equal(l[2][p], r[2][p])
      [] OTHER -> l = r

\* Faulty variant: arrays and objects share a rank.
Rank_Shared(v) ==
    CASE v[1] = "null" -> 0
      [] v[1] = "boolean" -> 1
      [] v[1] \in Numbers \cup {"nan"} -> 2
      [] v[1] \in {"object", "array"} -> 3
      [] v[1] = "string" -> 5
      [] v[1] = "binary" -> 6
\* The order of the types.
Rank(v) ==
    CASE v[1] = "null" -> 0
      [] v[1] = "boolean" -> 1
      [] v[1] \in Numbers \cup {"nan"} -> 2
      [] v[1] = "object" -> 3
      [] v[1] = "array" -> 4
      [] v[1] = "string" -> 5
      [] v[1] = "binary" -> 6

\* lexicographical_compare: the first place where either is less decides.
Lexicographic(s, t, Lower(_, _)) ==
    LET settled == {n \in 1..Min({Len(s), Len(t)}) : Lower(s[n], t[n]) \/ Lower(t[n], s[n])}
    IN IF settled = {} THEN Len(s) < Len(t) ELSE Lower(s[Min(settled)], t[Min(settled)])

Members(v) == [n \in DOMAIN Sorted(DOMAIN v[2]) |-> <<Sorted(DOMAIN v[2])[n], v[2][Sorted(DOMAIN v[2])[n]]>>]

RECURSIVE Less(_, _)
Less(l, r) ==
    LET Pairs(a, b) == Before(a[1], b[1]) \/ (a[1] = b[1] /\ Less(a[2], b[2]))
    IN CASE l[1] \in Numbers /\ r[1] \in Numbers -> Operands(l, r)[1] < Operands(l, r)[2]
         [] l[1] \in {"nan", "discarded"} /\ l[1] = r[1] -> FALSE
         [] l[1] # r[1] /\ {l[1], r[1]} \cap {"discarded"} # {} -> FALSE
         [] l[1] = r[1] /\ l[1] = "array" -> Lexicographic(l[2], r[2], Less)
         [] l[1] = r[1] /\ l[1] = "object" -> Lexicographic(Members(l), Members(r), Pairs)
         [] l[1] = r[1] /\ l[1] = "boolean" -> ~l[2] /\ r[2]
         [] l[1] = r[1] /\ l[1] \in {"string", "binary"} -> Before(l[2], r[2])
         [] OTHER -> Rank(l) < Rank(r)

-----------------------------------------------------------------------------
(* The modifiers: the document they leave and the exception they throw.    *)

Done(v) == [doc |-> v, error |-> 0]
Refused(v, id) == [doc |-> v, error |-> id]

\* What a null holds once it is made a container.
Content(v) == IF v = Null THEN << >> ELSE v[2]

With(f, key, val) == [k \in DOMAIN f \cup {key} |-> IF k = key THEN val ELSE f[k]]
Without(f, keys) == [k \in DOMAIN f \ keys |-> f[k]]

push_back(v, val) ==
    IF v[1] \in {"null", "array"} THEN Done(Arr(Append(Content(v), val))) ELSE Refused(v, 308)

\* std::map::insert keeps the member that is there.
push_back_member(v, key, val) ==
    IF v[1] \notin {"null", "object"} THEN Refused(v, 308)
    ELSE IF key \in DOMAIN Content(v) THEN Done(v)
    ELSE Done(Obj(With(Content(v), key, val)))

emplace_back(v, val) ==
    IF v[1] \in {"null", "array"} THEN push_back(v, val) ELSE Refused(v, 311)

emplace(v, key, val) ==
    IF v[1] \in {"null", "object"} THEN push_back_member(v, key, val) ELSE Refused(v, 311)

insert_iterator(s, pos, vals) == SubSeq(s, 1, pos) \o vals \o SubSeq(s, pos + 1, Len(s))

\* own: the iterator belongs to this document.
insert_values(v, own, pos, vals) ==
    IF v[1] # "array" THEN Refused(v, 309)
    ELSE IF ~own THEN Refused(v, 202)
    ELSE Done(Arr(insert_iterator(v[2], pos, vals)))

\* fits: the iterators belong to one value; alien: that is not this document.
insert_range(v, own, fits, alien, pos, vals) ==
    IF v[1] = "array" /\ own /\ ~fits THEN Refused(v, 210)
    ELSE IF v[1] = "array" /\ own /\ ~alien THEN Refused(v, 211)
    ELSE insert_values(v, own, pos, vals)

insert_members(v, fits, other) ==
    IF v[1] # "object" THEN Refused(v, 309)
    ELSE IF ~fits THEN Refused(v, 210)
    ELSE IF other[1] # "object" THEN Refused(v, 202)
    ELSE Done(Obj(v[2] @@ other[2]))

Primitives == Numbers \cup {"nan", "boolean", "string", "binary"}

\* From position first to before last, in the order of iteration; a primitive has
\* the one position 0 and becomes null.
erase_range(v, own, first, last) ==
    CASE ~own -> Refused(v, 203)
      [] own /\ v[1] \in Primitives ->
           IF first # 0 \/ last # 1 THEN Refused(v, 204) ELSE Done(Null)
      [] own /\ v[1] = "array" -> Done(Arr(SubSeq(v[2], 1, first) \o SubSeq(v[2], last + 1, Len(v[2]))))
      [] own /\ v[1] = "object" ->
           Done(Obj(Without(v[2], {Sorted(DOMAIN v[2])[n] : n \in (first + 1)..last})))
      [] OTHER -> Refused(v, 307)

erase_pos(v, own, pos) ==
    CASE ~own -> Refused(v, 202)
      [] own /\ v[1] \in Primitives -> IF pos # 0 THEN Refused(v, 205) ELSE Done(Null)
      [] own /\ v[1] = "array" -> Done(Arr(SubSeq(v[2], 1, pos) \o SubSeq(v[2], pos + 2, Len(v[2]))))
      [] own /\ v[1] = "object" -> Done(Obj(Without(v[2], {Sorted(DOMAIN v[2])[pos + 1]})))
      [] OTHER -> Refused(v, 307)

erase_key(v, key) == IF v[1] = "object" THEN Done(Obj(Without(v[2], {key}))) ELSE Refused(v, 307)

erase_idx(v, idx) ==
    IF v[1] # "array" THEN Refused(v, 307)
    ELSE IF idx >= Len(v[2]) THEN Refused(v, 401)
    ELSE erase_pos(v, TRUE, idx)

clear(v) ==
    CASE v[1] \in Numbers -> <<v[1], 0>>
      [] v = NaN -> <<"float", 0>>
      [] v[1] = "boolean" -> <<"boolean", FALSE>>
      [] v[1] \in {"string", "binary", "array", "object"} -> <<v[1], << >> >>
      [] OTHER -> v

Merged(old, new, merge_objects) == merge_objects /\ new[1] = "object"

\* A member that throws ends the call; those before it have been updated.
RECURSIVE update(_, _, _)
update(v, j, merge_objects) ==
    LET Member(w, key) ==
            LET there == key \in DOMAIN w.doc[2]
                sub == update(w.doc[2][key], j[2][key], TRUE)
            IN IF w.error # 0 THEN w
               ELSE IF there /\ Merged(w.doc, j[2][key], merge_objects)
                    THEN [doc |-> Obj(With(w.doc[2], key, sub.doc)), error |-> sub.error]
                    ELSE Done(Obj(With(w.doc[2], key, j[2][key])))
        made == IF v = Null THEN Obj(<< >>) ELSE v
    IN IF made[1] # "object" THEN Refused(made, 312)
       ELSE IF j[1] # "object" THEN Refused(made, 312)
       ELSE FoldLeft(Member, Done(made), Sorted(DOMAIN j[2]))

\* RFC 7396: null removes a member, an object is merged, the rest replaces.
Old_Fresh(members, key) == Null
Old(members, key) == IF key \in DOMAIN members THEN members[key] ELSE Null

RECURSIVE merge_patch(_, _)
merge_patch(v, apply_patch) ==
    LET Member(w, key) ==
            LET new == apply_patch[2][key]
            IN IF new = Null THEN Obj(Without(w[2], {key}))
               ELSE Obj(With(w[2], key, merge_patch(Old(w[2], key), new)))
    IN IF apply_patch[1] # "object" THEN apply_patch
       ELSE FoldLeft(Member, IF v[1] = "object" THEN v ELSE Obj(<< >>), Sorted(DOMAIN apply_patch[2]))

\* value(ptr, default): the default for an out_of_range exception only.
value_ptr(v, tokens, default) ==
    LET w == get_checked(v, tokens)
    IN IF v[1] # "object" THEN [error |-> 306, value |-> Null]
       ELSE IF w.error = 0 THEN [error |-> 0, value |-> At(w)]
       ELSE IF w.error \in 401..410 THEN [error |-> 0, value |-> default]
       ELSE [error |-> w.error, value |-> Null]

-----------------------------------------------------------------------------
(* The calls of a program.                                                 *)

Call(name, r) ==
    /\ calls < MaxCalls
    /\ calls' = calls + 1
    /\ doc' = r.doc
    /\ thrown' = r.error
    /\ call' = name

Size(v) == IF IsContainer(v) THEN Cardinality(DOMAIN v[2]) ELSE IF v = Null THEN 0 ELSE 1

PushBack == \E val \in Values : Call("push_back", push_back(doc, val))
EmplaceBack == \E val \in Values : Call("emplace_back", emplace_back(doc, val))
PushBackMember == \E key \in Keys, val \in Values : Call("push_back", push_back_member(doc, key, val))
Emplace == \E key \in Keys, val \in Values : Call("emplace", emplace(doc, key, val))

Positions == 0..(IF doc[1] = "array" THEN Len(doc[2]) ELSE 0)

Insert ==
    \E own \in BOOLEAN, pos \in Positions, val \in Values, cnt \in 1..2 :
        Call("insert", insert_values(doc, own, pos, [n \in 1..cnt |-> val]))
InsertRange ==
    \E own, fits, alien \in BOOLEAN, pos \in Positions, val \in Values :
        Call("insert", insert_range(doc, own, fits, alien, pos, <<val, Null>>))
InsertMembers ==
    \E fits \in BOOLEAN, other \in Values : Call("insert", insert_members(doc, fits, other))

\* Erasing at end() of a container is the caller's error.
ErasePos ==
    \E own \in BOOLEAN, pos \in 0..1 :
        (IsContainer(doc) => pos < Size(doc)) /\ Call("erase", erase_pos(doc, own, pos))
EraseRange ==
    \E own \in BOOLEAN, first, last \in 0..Size(doc) :
        first <= last /\ Call("erase", erase_range(doc, own, first, last))
EraseKey == \E key \in Keys : Call("erase", erase_key(doc, key))
EraseIdx == \E idx \in 0..2 : Call("erase", erase_idx(doc, idx))
Clear == Call("clear", Done(clear(doc)))
Update == \E j \in Values, merge \in BOOLEAN : Call("update", update(doc, j, merge))
MergePatch == \E j \in Values : Call("merge_patch", Done(merge_patch(doc, j)))
Flatten == Call("flatten", Done(flatten(doc)))

\* doc = doc.unflatten()
Outcome(r) == IF r.error = 0 THEN Done(r.doc) ELSE Refused(doc, r.error)
Unflatten == Call("unflatten", Outcome(unflatten(doc)))

\* doc[ptr]: the reference is taken and nothing assigned to it.
IndexPointer ==
    \E tokens \in Pointers :
        LET w == get_unchecked(doc, tokens) IN Call("operator[]", [doc |-> w.doc, error |-> w.error])

\* doc.at(ptr) = val
AssignAt ==
    \E tokens \in Pointers, val \in Values :
        LET w == get_checked(doc, tokens)
        IN Call("at", [doc |-> IF w.error = 0 THEN Put(doc, w.ref, val) ELSE doc, error |-> w.error])

DocumentInit ==
    /\ doc \in Documents
    /\ thrown = 0
    /\ call = "none"
    /\ calls = 0

Edit ==
    \/ PushBack \/ EmplaceBack \/ PushBackMember \/ Emplace
    \/ Insert \/ InsertRange \/ InsertMembers
    \/ ErasePos \/ EraseRange \/ EraseKey \/ EraseIdx \/ Clear
    \/ Update \/ MergePatch \/ Flatten \/ Unflatten
    \/ IndexPointer \/ AssignAt
=============================================================================
