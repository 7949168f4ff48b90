------------------------------ MODULE MCSearch ------------------------------
(***************************************************************************)
(* Instances of the search index, with the dispatchers that feed it, for   *)
(* TLC: all messages are from alice to bob.                                *)
(***************************************************************************)
EXTENDS SearchIndex

CONSTANTS alice, bob, carol

MCSender   == [m \in Messages |-> alice]
MCReceiver == [m \in Messages |-> bob]
=============================================================================
