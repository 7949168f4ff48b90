------------------------------ MODULE MCStartup ------------------------------
(***************************************************************************)
(* Instances of the start for TLC.                                         *)
(***************************************************************************)
EXTENDS Startup
=============================================================================
