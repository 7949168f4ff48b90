------------------------------ MODULE MCSocial ------------------------------
(***************************************************************************)
(* Instances of friends and group for TLC.                                 *)
(***************************************************************************)
EXTENDS Social, TLC

Symmetry == Permutations(Users) \cup Permutations(Calls)
=============================================================================
