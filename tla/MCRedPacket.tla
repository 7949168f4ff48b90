---------------------------- MODULE MCRedPacket ----------------------------
(***************************************************************************)
(* Instances of the red packets for TLC.                                   *)
(***************************************************************************)
EXTENDS RedPacket, TLC

Symmetry == Permutations(Users) \cup Permutations(Requests) \cup Permutations(Packets)
=============================================================================
