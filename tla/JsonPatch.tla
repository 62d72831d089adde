------------------------------- MODULE JsonPatch -------------------------------
(***************************************************************************)
(* JSON Patch (RFC 6902) as basic_json has it: diff() writes the patch     *)
(* that leads from one document to another, patch_inplace() carries a      *)
(* patch out, operation by operation, on the document itself, and patch()  *)
(* does so on a copy.  A patch is a JSON value; the members of its         *)
(* operations have their own names here ("op", "path", "from", "value").   *)
(***************************************************************************)
EXTENDS JsonDocument

CONSTANT Patches  \* the patches a program has got from somewhere

VARIABLES
    source,      \* the document before the patch
    json_patch,  \* the patch
    applied,     \* number of its operations carried out
    asserted     \* JSON_ASSERT(false) of operation_add was reached

patching == <<source, json_patch, applied, asserted>>

Operation(op, path) == Obj([op |-> <<"string", op>>, path |-> <<"string", path>>])
OperationValue(op, path, val) ==
    Obj([op |-> <<"string", op>>, path |-> <<"string", path>>, value |-> val])

-----------------------------------------------------------------------------
(* diff()                                                                  *)

RECURSIVE Concat(_)
Concat(seqs) == IF seqs = << >> THEN << >> ELSE Head(seqs) \o Concat(Tail(seqs))

Child(path, key) == path \o <<Slash>> \o escape(key)

\* Removed from the last element to the first, so that the indices stay true.
Removals_Forward(path, s, t) ==
    [n \in 1..(Len(s) - Len(t)) |-> Operation("remove", path \o <<Slash>> \o Decimal(Len(t) + n - 1))]
Removals(path, s, t) ==
    [n \in 1..(Len(s) - Len(t)) |-> Operation("remove", path \o <<Slash>> \o Decimal(Len(s) - n))]

Additions(path, s, t) ==
    [n \in 1..(Len(t) - Len(s)) |-> OperationValue("add", path \o <<Slash, Hyphen>>, t[Len(s) + n])]

\* The operations of the patch.
RECURSIVE diff(_, _, _)
diff(from, target, path) ==
    LET Element(n) == diff(from[2][n], target[2][n], path \o <<Slash>> \o Decimal(n - 1))
        both == Min({Len(from[2]), Len(target[2])})
        Kept(key) == IF key \in DOMAIN target[2]
                     THEN diff(from[2][key], target[2][key], Child(path, key))
                     ELSE <<Operation("remove", Child(path, key))>>
        old == Sorted(DOMAIN from[2])
        new == Sorted(DOMAIN target[2] \ DOMAIN from[2])
    IN CASE Equal(from, target) -> << >>
         [] ~Equal(from, target) /\ from[1] = target[1] /\ from[1] = "array" ->
              Concat([n \in 1..both |-> Element(n)])
              \o Removals(path, from[2], target[2]) \o Additions(path, from[2], target[2])
         [] ~Equal(from, target) /\ from[1] = target[1] /\ from[1] = "object" ->
              Concat([n \in DOMAIN old |-> Kept(old[n])])
              \o [n \in DOMAIN new |-> OperationValue("add", Child(path, new[n]), target[2][new[n]])]
         [] OTHER -> <<OperationValue("replace", path, target)>>

-----------------------------------------------------------------------------
(* The operations of patch_inplace(): the document they leave, and the id  *)
(* of the exception.                                                       *)

Assertion == 999  \* stands for JSON_ASSERT(false)

\* Insertion shifts the elements from the index on.
Placed_Over(s, idx, val) == [k \in 1..Max({Len(s), idx + 1}) |-> IF k = idx + 1 THEN val ELSE s[k]]
Placed(s, idx, val) == insert_iterator(s, idx, <<val>>)

\* parent: the walk to the container; top: the first token of a longer path is there.
AddTo(v, top, parent, last, val) ==
    LET idx == array_index(last)
        there == At(parent)
        Into(new) == Done(Put(v, parent.ref, new))
    IN IF top # 0 THEN Refused(v, top)
       ELSE IF parent.error # 0 THEN Refused(v, parent.error)
       ELSE CASE there[1] \in {"null", "object"} -> Into(Obj(With(Content(there), last, val)))
              [] there[1] = "array" ->
                   IF last = <<Hyphen>> THEN Into(push_back(there, val).doc)
                   ELSE IF idx.error # 0 THEN Refused(v, idx.error)
                   ELSE IF idx.value > Len(there[2]) THEN Refused(v, 401)
                   ELSE Into(Arr(Placed(there[2], idx.value, val)))
              [] OTHER -> Refused(v, Assertion)

operation_add(v, tokens, val) ==
    IF tokens = << >> THEN Done(val)
    ELSE AddTo(v, IF Len(tokens) > 1 THEN get_checked(v, <<tokens[1]>>).error ELSE 0,
             get_checked(v, Front(tokens)), Last(tokens), val)

\* Nothing happens below a primitive.
RemoveFrom(v, parent, last, idx) ==
    LET there == At(parent)
        r == erase_idx(there, idx.value)
    IN IF parent.error # 0 THEN Refused(v, parent.error)
       ELSE CASE there[1] = "object" ->
                   IF last \in DOMAIN there[2]
                   THEN Done(Put(v, parent.ref, erase_key(there, last).doc)) ELSE Refused(v, 403)
              [] there[1] = "array" ->
                   IF idx.error # 0 THEN Refused(v, idx.error)
                   ELSE [doc |-> Put(v, parent.ref, r.doc), error |-> r.error]
              [] OTHER -> Done(v)

operation_remove(v, tokens) ==
    IF tokens = << >> THEN Refused(v, 405)
    ELSE RemoveFrom(v, get_checked(v, Front(tokens)), Last(tokens), array_index(Last(tokens)))

\* Has(val, member, string_type): get_value() returns.
Has(val, member, string_type) ==
    member \in DOMAIN val[2] /\ (string_type => val[2][member][1] = "string")

\* From here on the members of an operation are known to be there.
Path(val, member) == split(val[2][member][2])

Added(removed, tokens, old) ==
    IF removed.error # 0 THEN removed ELSE operation_add(removed.doc, tokens, old)

\* The value there, where the walk at has come, is assigned to.
Replace(v, at, val) ==
    IF at.error # 0 THEN Refused(v, at.error) ELSE Done(Put(v, at.ref, val))

\* An out_of_range exception of the walk fails the test, any other one passes on.
Test(v, at, val) ==
    IF at.error \in {106, 109} THEN Refused(v, at.error)
    ELSE IF at.error = 0 /\ Equal(At(at), val) THEN Done(v)
    ELSE Refused(v, 501)

\* at: the walk along from.
MoveOrCopy(v, op, from, at, tokens) ==
    IF at.error # 0 THEN Refused(v, at.error)
    ELSE Added(IF op = "copy" THEN Done(v) ELSE operation_remove(v, from), tokens, At(at))

From(v, op, from, tokens) ==
    IF from.error # 0 THEN Refused(v, from.error)
    ELSE MoveOrCopy(v, op, from.tokens, get_checked(v, from.tokens), tokens)

\* When a replace or a test has no "value" and its path leads nowhere, the compiler
\* chooses which of the two is found first; the document is the same.
Named(v, tokens, val) ==
    LET op == val[2].op[2]
    IN CASE op = "remove" -> operation_remove(v, tokens)
         [] op \in {"move", "copy"} ->
              IF ~Has(val, "from", TRUE) THEN Refused(v, 105) ELSE From(v, op, Path(val, "from"), tokens)
         [] op \in {"add", "replace", "test"} /\ ~Has(val, "value", FALSE) -> Refused(v, 105)
         [] op = "add" /\ Has(val, "value", FALSE) -> operation_add(v, tokens, val[2].value)
         [] op = "replace" /\ Has(val, "value", FALSE) -> Replace(v, get_checked(v, tokens), val[2].value)
         [] op = "test" /\ Has(val, "value", FALSE) -> Test(v, get_checked(v, tokens), val[2].value)
         [] OTHER -> Refused(v, 105)

perform(v, val) ==
    IF val[1] # "object" THEN Refused(v, 104)
    ELSE IF ~Has(val, "op", TRUE) \/ ~Has(val, "path", TRUE) THEN Refused(v, 105)
    ELSE IF Path(val, "path").error # 0 THEN Refused(v, Path(val, "path").error)
    ELSE Named(v, Path(val, "path").tokens, val)

-----------------------------------------------------------------------------
(* patch_inplace(), an operation a step.                                   *)

Begun == json_patch[1] = "array"

NotAnArray ==
    /\ ~Begun /\ thrown = 0
    /\ thrown' = 104
    /\ UNCHANGED <<doc, call, calls, source, json_patch, applied, asserted>>

\* A build with assertions ends where one fails, a build without goes on.
Returns(error) == error \in {0, Assertion}

Leave(r) ==
    /\ doc' = r.doc
    /\ asserted' = (asserted \/ r.error = Assertion)
    /\ thrown' = IF Returns(r.error) THEN 0 ELSE r.error
    /\ applied' = IF Returns(r.error) THEN applied + 1 ELSE applied

Operate ==
    /\ Begun /\ thrown = 0 /\ applied < Len(json_patch[2])
    /\ Leave(perform(doc, json_patch[2][applied + 1]))
    /\ UNCHANGED <<call, calls, source, json_patch>>

patch_inplace == NotAnArray \/ Operate

\* The operations on a document until one throws.
Performed(v, operations) ==
    FoldLeft(LAMBDA w, val : IF Returns(w.error) THEN perform(w.doc, val) ELSE w, Done(v), operations)

\* doc = doc.patch(p): the copy takes the operations.
patch_InPlace(v, r) == r
patch(v, r) == IF Returns(r.error) THEN Done(r.doc) ELSE Refused(v, r.error)

PatchCopy ==
    \E p \in Patches : p[1] = "array" /\ Call("patch", patch(doc, Performed(doc, p[2])))
=============================================================================
