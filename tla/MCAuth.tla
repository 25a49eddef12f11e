------------------------------- MODULE MCAuth -------------------------------
(***************************************************************************)
(* Small instances of Auth.                                                *)
(***************************************************************************)
EXTENDS Auth, TLC

RequestSymmetry == Permutations(Requests)
=============================================================================
