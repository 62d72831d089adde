------------------------------ MODULE JsonDump ------------------------------
(***************************************************************************)
(* serializer::dump of json.hpp for whole documents.  It calls itself for  *)
(* every element; `calls` is the stack of these calls.  The output is the  *)
(* sequence of the tokens written, and of <<"newline">> and <<"indent", n>>*)
(* for n characters of indent_string.  How strings and numbers look is in  *)
(* JsonSerializer.                                                         *)
(*                                                                         *)
(* A value is <<kind, content>>; an array has a sequence of values, an     *)
(* object a sequence of <<key, value>>, a binary value a record of its     *)
(* bytes and its subtype.                                                  *)
(***************************************************************************)
EXTENDS Integers, Sequences

CONSTANTS
    IndentSize,  \* the length that indent_string begins with, 512
    IndentStep,  \* the argument indent_step
    BytesKey,    \* "bytes"
    SubtypeKey,  \* "subtype"
    Documents    \* the documents of the program

\* One doubling has to make room for one more level.
ASSUME IndentAssumption == IndentSize \in Nat /\ IndentStep \in 0..IndentSize

VARIABLES
    pretty_print,
    indent_string, \* its length
    calls,         \* [val, done: how many elements were dumped, current_indent]
    out,           \* what was written
    widest         \* the most characters of indent_string that were written at once

dumping == <<pretty_print, indent_string, calls, out, widest>>

Structured(val) == val[1] \in {"array", "object"}
HasElements(val) == IF Structured(val) THEN val[2] # << >> ELSE FALSE

\* Faulty variant: the length is checked for the enclosing level.
Widened_Late(new_indent) ==
    IF indent_string < new_indent - IndentStep THEN 2 * indent_string ELSE indent_string

\* The length of indent_string once new_indent characters of it are needed.
Widened(new_indent) == IF indent_string < new_indent THEN 2 * indent_string ELSE indent_string

Wider(n) == IF pretty_print /\ widest < n THEN n ELSE widest

\* What is written only when the output is pretty.
Newline == IF pretty_print THEN << <<"newline">> >> ELSE << >>
Indent(n) == IF pretty_print THEN << <<"indent", n>> >> ELSE << >>

\* dump is called for val at an indentation.
Call(val, current_indent) == [val |-> val, done |-> 0, current_indent |-> current_indent]

Top == calls[Len(calls)]
Return == SubSeq(calls, 1, Len(calls) - 1)
NewIndent == IF pretty_print THEN Top.current_indent + IndentStep ELSE Top.current_indent
Opening == IF Top.val[1] = "array" THEN <<"begin_array">> ELSE <<"begin_object">>
Closing == IF Top.val[1] = "array" THEN <<"end_array">> ELSE <<"end_object">>

DumpInit ==
    /\ pretty_print \in BOOLEAN
    /\ indent_string = IndentSize
    /\ calls = << >>
    /\ out = << >>
    /\ widest = 0

\* basic_json::dump: a serializer of its own for every document.
DumpCall(val) ==
    /\ calls = << >>
    /\ calls' = <<Call(val, 0)>>
    /\ indent_string' = IndentSize
    /\ out' = << >>
    /\ widest' = 0
    /\ pretty_print' \in BOOLEAN

\* A value that is written at once, {} and [] too.
DumpLeaf ==
    /\ calls # << >>
    /\ Top.val[1] # "binary"
    /\ ~HasElements(Top.val)
    /\ out' = out \o IF Structured(Top.val) THEN <<Opening, Closing>> ELSE <<Top.val>>
    /\ calls' = Return
    /\ UNCHANGED <<pretty_print, indent_string, widest>>

\* A binary value is an object of its bytes and its subtype.
DumpBinary ==
    /\ calls # << >>
    /\ Top.val[1] = "binary"
    /\ LET bin == Top.val[2]
           Number(n) == <<"value_unsigned", n>>
           Comma == <<"value_separator">>
           Name(key) == << <<"value_string", key>>, <<"name_separator">> >>
           Byte(n) == IF n = 1 THEN <<Number(bin.bytes[1])>> ELSE <<Comma, Number(bin.bytes[n])>>
           Bytes[n \in 0..Len(bin.bytes)] == IF n = 0 THEN << >> ELSE Bytes[n - 1] \o Byte(n)
       IN out' = out \o << <<"begin_object">> >> \o Newline \o Indent(NewIndent) \o Name(BytesKey)
                     \o << <<"begin_array">> >> \o Bytes[Len(bin.bytes)] \o << <<"end_array">>, Comma>>
                     \o Newline \o Indent(NewIndent) \o Name(SubtypeKey)
                     \o (IF bin.has_subtype THEN <<Number(bin.subtype)>> ELSE << <<"literal_null">> >>)
                     \o Newline \o Indent(Top.current_indent) \o << <<"end_object">> >>
    /\ indent_string' = IF pretty_print THEN Widened(NewIndent) ELSE indent_string
    /\ widest' = Wider(NewIndent)
    /\ calls' = Return
    /\ UNCHANGED pretty_print

\* The bracket, and room for the indentation of the elements.
DumpOpen ==
    /\ calls # << >>
    /\ HasElements(Top.val)
    /\ Top.done = 0
    /\ out' = out \o <<Opening>> \o Newline
    /\ indent_string' = IF pretty_print THEN Widened(NewIndent) ELSE indent_string
    /\ calls' = Append(Return, [Top EXCEPT !.done = 1])
    /\ UNCHANGED <<pretty_print, widest>>

\* Faulty variant: the iterator stays at the first element.
Element_First(val, n) == val[2][1]

Element(val, n) == val[2][n]

\* The next element: it is indented and dumped by a call; `done` is one more
\* than the elements before it, and every element but the first follows a comma.
DumpElement ==
    /\ calls # << >>
    /\ HasElements(Top.val)
    /\ Top.done \in 1..Len(Top.val[2])
    /\ LET element == Element(Top.val, Top.done)
           comma == IF Top.done = 1 THEN << >> ELSE << <<"value_separator">> >> \o Newline
           name == << <<"value_string", element[1]>>, <<"name_separator">> >>
       IN /\ out' = out \o comma \o Indent(NewIndent)
                        \o IF Top.val[1] = "object" THEN name ELSE << >>
          /\ calls' = Append(Append(Return, [Top EXCEPT !.done = @ + 1]),
                             Call(IF Top.val[1] = "object" THEN element[2] ELSE element, NewIndent))
    /\ widest' = Wider(NewIndent)
    /\ UNCHANGED <<pretty_print, indent_string>>

DumpClose ==
    /\ calls # << >>
    /\ HasElements(Top.val)
    /\ Top.done > Len(Top.val[2])
    /\ out' = out \o Newline \o Indent(Top.current_indent) \o <<Closing>>
    /\ widest' = Wider(Top.current_indent)
    /\ calls' = Return
    /\ UNCHANGED <<pretty_print, indent_string>>

dump == DumpLeaf \/ DumpBinary \/ DumpOpen \/ DumpElement \/ DumpClose

DumpSpec == DumpInit /\ [][dump \/ \E val \in Documents : DumpCall(val)]_dumping

\* What is written of indent_string is there: new_indent may be twice as long as
\* it was and no longer, whatever the depth of the document.
IndentFits == widest <= indent_string
=============================================================================
