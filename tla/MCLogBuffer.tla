----------------------------- MODULE MCLogBuffer -----------------------------
(***************************************************************************)
(* Instances of LogBuffer for TLC.                                         *)
(***************************************************************************)
EXTENDS LogBuffer, TLC

Symmetry == Permutations(Trans)
=============================================================================
