------------------------------- MODULE MCHub -------------------------------
(***************************************************************************)
(* Instances of the hub for TLC.                                           *)
(***************************************************************************)
EXTENDS Hub
=============================================================================
