------------------------------- MODULE MCPush -------------------------------
(***************************************************************************)
(* Instances of the push path for TLC.                                     *)
(***************************************************************************)
EXTENDS Push, TLC

NodeSymmetry == Permutations(Nodes)
=============================================================================
