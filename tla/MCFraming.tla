----------------------------- MODULE MCFraming ------------------------------
(***************************************************************************)
(* Framing for TLC: what the first four bytes of a body can say.  Text and *)
(* base64 read as a large number (538976288 is four blanks); bytes of two  *)
(* packets may read as anything.                                           *)
(***************************************************************************)
EXTENDS Framing

MCGarbage == {-1, 1, 538976288}
=============================================================================
