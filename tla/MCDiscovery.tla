---------------------------- MODULE MCDiscovery -----------------------------
(***************************************************************************)
(* Discovery for TLC.  Peers and list objects are interchangeable model    *)
(* values; three list objects suffice, since the object a thread replaces  *)
(* may be forgotten and at most two others are held at that moment.        *)
(***************************************************************************)
EXTENDS Discovery, TLC

Symmetry == Permutations(Others) \cup Permutations(Lists)
=============================================================================
