------------------------------- MODULE MCGate -------------------------------
(***************************************************************************)
(* Instances of the sessions and the login limit for TLC.                  *)
(***************************************************************************)
EXTENDS Gate
=============================================================================
