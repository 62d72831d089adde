---------------------------- MODULE MCJsonDocument ----------------------------
(***************************************************************************)
(* The document under the calls of a program, under patches, and pairs of  *)
(* documents for diff(), update(), merge_patch() and the comparisons.      *)
(***************************************************************************)
EXTENDS JsonPatch

VARIABLES
    task,  \* "edit", "patch", "diff" or "name"
    goal   \* the other document of a "diff"

vars == <<document, patching, task, goal>>

a == <<97>>
int(n) == <<"integer", n>>
str(s) == <<"string", s>>
one(key, v) == Obj(key :> v)
two(k, v, l, w) == Obj(k :> v @@ l :> w)

MCKeys == {a, <<Slash>>, <<Zero>>}

MCLeaves == {Null, int(1), <<"float", 1>>}

MCValues == {Null, int(1), Arr(<<Null>>), one(a, int(2)), one(a, one(a, Null))}

MCDocuments ==
    MCLeaves
    \cup {<<"boolean", TRUE>>, str(a), <<"unsigned", 1>>, <<"binary", <<1>> >>, NaN, Discarded}
    \cup {Arr(<< >>), Obj(<< >>)}
    \cup {Arr(<<v>>) : v \in MCLeaves} \cup {Arr(<<v, int(2)>>) : v \in MCLeaves}
    \cup {one(a, v) : v \in MCLeaves} \cup {two(a, v, <<Slash>>, int(2)) : v \in MCLeaves}
    \cup {Arr(<<int(1), int(2), Null>>), Arr(<<one(a, Null)>>), one(<<Zero>>, int(1)),
          one(a, Arr(<<int(1), int(2)>>)), one(a, one(a, int(1))), one(a, two(<<Slash>>, int(1), a, Null)),
          two(<<Zero>>, int(1), <<Slash>>, int(2)), one(a, Arr(<< >>)), one(<<Tilde>>, Obj(<< >>)),
          two(<<Slash>>, int(3), a, one(a, int(2)))}

MCPointers ==
    {<< >>} \cup {<<t>> : t \in MCKeys \cup {<< >>, <<Hyphen>>, <<One>>, <<Zero, One>>, <<One, 97>>, SizeMax}}
    \cup {<<a, t>> : t \in {a, <<Zero>>, <<Hyphen>>, <<Slash>>}} \cup {<<<<Zero>>, a>>}

MCPaths == {to_string(p) : p \in {<< >>, <<a>>, <<<<Zero>>>>, <<<<Hyphen>>>>, <<a, a>>, <<a, <<One>> >>}}

MCOperations ==
    {Operation("remove", p) : p \in MCPaths}
    \cup {OperationValue(op, p, int(1)) : op \in {"add", "replace", "test"}, p \in MCPaths}
    \cup {OperationValue("test", to_string(<<<<Zero, One>> >>), Null), Operation("test", << >>),
          Operation("add", <<97>>), Operation("remove", <<Slash, Tilde>>), Operation("jump", << >>),
          int(3), Obj([op |-> int(1), path |-> str(<< >>)])}
    \cup {Obj([op |-> str(op), path |-> str(p), from |-> str(q)]) :
             op \in {"move", "copy"}, p \in MCPaths, q \in {<< >>, <<Slash, 97>>, <<Slash, Zero>>}}

\* Patches that fail after their first operation.
MCHalfway ==
    {Arr(<<OperationValue("add", to_string(<<a>>), int(1)), Operation("jump", << >>)>>),
     Arr(<<Operation("remove", to_string(<<a>>)), OperationValue("test", to_string(<<a>>), Null)>>)}

MCPatches == {Null} \cup {Arr(<<op>>) : op \in MCOperations} \cup MCHalfway

MCNames == UNION {[1..n -> {Tilde, Slash, Zero, One}] : n \in 0..3}

-----------------------------------------------------------------------------
Init ==
    /\ thrown = 0 /\ call = "none" /\ calls = 0
    /\ applied = 0 /\ asserted = FALSE
    /\ \/ /\ task = "edit"
          /\ doc \in Documents /\ goal = Null /\ json_patch = Arr(<< >>)
       \/ /\ task = "patch"
          /\ doc \in Documents /\ goal = Null
          /\ json_patch \in Patches \cup {Arr(p[2] \o q[2]) : p, q \in Patches \ {Null}}
       \/ /\ task = "diff"
          /\ doc \in Documents /\ goal \in Documents /\ json_patch = Arr(diff(doc, goal, << >>))
       \/ /\ task = "name"
          /\ doc \in {str(s) : s \in MCNames} /\ goal \in {str(s) : s \in MCNames}
          /\ json_patch = Arr(<< >>)
    /\ source = doc

Editing == task = "edit" /\ (Edit \/ PatchCopy) /\ UNCHANGED <<patching, task, goal>>

Patching == task \in {"patch", "diff"} /\ patch_inplace /\ UNCHANGED <<task, goal>>

Next == Editing \/ Patching

Spec == Init /\ [][Next]_vars

-----------------------------------------------------------------------------
(* Pointers.                                                               *)

\* A pointer written as a string is read back as the same tokens: escape() and
\* unescape() in their orders, split() at the slashes.
EscapeBack ==
    task = "name" =>
        split(to_string(<<doc[2], goal[2]>>)) = [error |-> 0, tokens |-> <<doc[2], goal[2]>>]

\* contains() says of a pointer what at() then does, and value() returns the element
\* or the default accordingly; contains() throws only where at() throws too.
ContainsAgrees ==
    task = "edit" => \A p \in Pointers :
        LET asked == contains(doc, p)
            got == get_checked(doc, p)
            default == <<"default">>
            valued == value_ptr(doc, p, default)
        IN /\ asked.error = 0 => (asked.answer <=> got.error = 0)
           /\ asked.error # 0 => got.error # 0
           /\ valued.error = 0 => (valued.value = default <=> got.error # 0)

\* The reference of operator[] is the element at() finds, or else a new null: never
\* an element that the pointer does not name.
ReferenceIsFresh ==
    task = "edit" => \A p \in Pointers :
        LET made == get_unchecked(doc, p)
            found == get_checked(doc, p)
        IN made.error = 0 => At(made) = (IF found.error = 0 THEN At(found) ELSE Null)

RECURSIVE Emptied(_)
Emptied(v) ==
    IF ~IsContainer(v) THEN v
    ELSE IF DOMAIN v[2] = {} THEN Null
    ELSE <<v[1], [p \in DOMAIN v[2] |-> Emptied(v[2][p])]>>

\* In flattened form some object looks like an array: its first pointer goes to "0".
RECURSIVE LooksLikeArray(_)
LooksLikeArray(v) ==
    /\ IsContainer(v) /\ DOMAIN v[2] # {}
    /\ \/ v[1] = "object" /\ split(Sorted(DOMAIN flatten(v)[2])[1]).tokens[1] = <<Zero>>
       \/ \E p \in DOMAIN v[2] : LooksLikeArray(v[2][p])

\* unflatten() undoes flatten(), but for empty containers, which come back null, and
\* for objects that flattened look like arrays.
FlattenBack ==
    ~LooksLikeArray(doc) =>
        LET w == unflatten(flatten(doc))
        IN IF \E l \in Leaves(<< >>, doc) : l[2] = Discarded THEN w.error = 315
           ELSE w.error = 0 /\ w.doc = Emptied(doc)

\* The four ways to follow a pointer, contains(), at(), value() and operator[], agree on
\* where it leads; it means the same after it was written as a string; and the
\* pointers of a flattened document build it again, unless a value of it is discarded,
\* which is not primitive (json.hpp:14227, json.hpp:14540, json.hpp:14624).
PointersAgree == EscapeBack /\ ContainsAgrees /\ ReferenceIsFresh /\ FlattenBack

-----------------------------------------------------------------------------
(* Calls.                                                                  *)

\* A call that throws leaves the document as it was, but for operator[] of a pointer
\* and update(), which have begun.
RefusedKeeps ==
    [][thrown' # 0 /\ calls' = calls + 1 /\ call' \notin {"operator[]", "update"} => doc' = doc]_vars

\* A merging update() has every leaf of its argument in place, unless it throws on a
\* member that is no object in the document and so has begun only; thrown or not, it
\* leaves every leaf of the document for which some object of the argument has no
\* member, and invents none.
UpdateCombines ==
    task = "diff" /\ applied = 0 /\ thrown = 0 =>
        LET r == update(doc, goal, TRUE)
            Kept(l) == get_checked(goal, split(l[1]).tokens).error = 403
        IN /\ r.error = 0 =>
                \A g \in Leaves(<< >>, goal) : g[2] # Null => g \in Leaves(<< >>, r.doc)
           /\ \A l \in Leaves(<< >>, doc) : Kept(l) => l \in Leaves(<< >>, r.doc)
           /\ Leaves(<< >>, r.doc) \subseteq Leaves(<< >>, doc) \cup Leaves(<< >>, goal)

\* The members that a value has along a path of keys: none is <<>>.
RECURSIVE Along7396(_, _)
Along7396(v, path) ==
    IF path = << >> THEN <<v>>
    ELSE IF v[1] = "object" /\ path[1] \in DOMAIN v[2] THEN Along7396(v[2][path[1]], Tail(path))
    ELSE << >>

KeyPaths == UNION {[1..n -> Keys] : n \in 1..3}

\* merge_patch() read path by path as RFC 7396 tells it: what the patch says of a path
\* is there, what it says null of is not, and what it is silent on stays as it was in
\* an object of the document.
MergeIsPointwise ==
    task = "diff" /\ applied = 0 /\ thrown = 0 /\ goal[1] = "object" =>
        \A path \in KeyPaths :
            LET said == Along7396(goal, path)
                \* what the patch says of the shortest part of the path that is no object
                parts == {n \in 0..Len(path) : LET s == Along7396(goal, SubSeq(path, 1, n))
                                               IN s # << >> /\ s[1][1] # "object"}
                now == Along7396(merge_patch(doc, goal), path)
            IN IF parts = {}
               THEN IF said = << >> THEN now = Along7396(doc, path) ELSE now # << >> /\ now[1][1] = "object"
               ELSE LET n == Min(parts)
                        v == Along7396(goal, SubSeq(path, 1, n))[1]
                    IN now = IF v = Null THEN << >> ELSE Along7396(v, SubSeq(path, n + 1, Len(path)))

\* Both ways to merge two documents keep what the other is silent on and take what it
\* says, at any depth (json.hpp:22710, json.hpp:24424).
MergesCombine == UpdateCombines /\ MergeIsPointwise

-----------------------------------------------------------------------------
(* Patches.                                                                *)

\* The patch that diff() writes is carried out to the end and leads to its target.
DiffLeadsThere ==
    task = "diff" =>
        /\ thrown = 0 /\ ~asserted
        /\ applied = Len(json_patch[2]) => doc = goal \/ Equal(doc, goal)

\* The operation val, carried out on v, has left w, and can be taken back: what it
\* added is at its path and removing that, or putting the old value back, gives v.
TakenBack(v, val, w) ==
    LET op == val[2].op[2]
        tokens == Path(val, "path").tokens
        old == get_checked(v, tokens)
        from == Path(val, "from").tokens
        value == IF op = "add" THEN val[2].value ELSE At(get_checked(v, from))
        between == IF op = "move" THEN operation_remove(v, from).doc ELSE v
        parent == At(get_checked(between, Front(tokens)))
        spot == IF parent[1] = "array" /\ Last(tokens) = <<Hyphen>>
                THEN Append(Front(tokens), Decimal(Len(parent[2]))) ELSE tokens
        over == get_checked(between, tokens)
    IN IF op = "test" THEN w = v
       ELSE IF op = "replace" THEN Replace(w, get_checked(w, tokens), At(old)) = Done(v)
       ELSE IF op = "remove" THEN IF old.error = 0 THEN operation_add(w, tokens, At(old)) = Done(v) ELSE w = v
       ELSE IF tokens = << >> THEN w = value
       ELSE /\ At(get_checked(w, spot)) = value
            /\ op = "move" => operation_add(between, from, value) = Done(v)
            /\ IF parent = Null THEN DOMAIN At(get_checked(w, Front(tokens)))[2] = {Last(tokens)}
               ELSE IF parent[1] = "object" /\ over.error = 0 THEN Replace(w, get_checked(w, tokens), At(over)) = Done(between)
               ELSE operation_remove(w, spot) = Done(between)

\* Every operation a patch carries out can be undone from what is left and what was there
\* before: none overwrites, shifts or drops an element it does not name (json.hpp:24001).
OperationsTakeBack ==
    [][applied' = applied + 1 /\ ~asserted' =>
         TakenBack(doc, json_patch[2][applied'], doc')]_vars

-----------------------------------------------------------------------------
(* Comparison.                                                             *)

\* Values that fit one another's type: no NaN, no discarded value, no unsigned number
\* beyond the largest signed one.
RECURSIVE Ordinary(_)
Ordinary(v) ==
    /\ v \notin {NaN, Discarded}
    /\ v[1] = "unsigned" => v[2] = Signed(v[2])
    /\ IsContainer(v) => \A p \in DOMAIN v[2] : Ordinary(v[2][p])

\* operator< orders all values of all types strictly and weakly, and operator== holds
\* of exactly those that it does not tell apart.
Ordered ==
    task = "diff" /\ applied = 0 /\ thrown = 0 /\ Ordinary(doc) /\ Ordinary(goal) =>
        /\ ~(Less(doc, goal) /\ Less(goal, doc))
        /\ Equal(doc, goal) <=> (~Less(doc, goal) /\ ~Less(goal, doc))
        /\ \A v \in Documents : Ordinary(v) /\ Less(doc, goal) => Less(doc, v) \/ Less(v, goal)
=============================================================================
