------------------------------ MODULE MCInbox ------------------------------
(***************************************************************************)
(* Instances of the inbox and the AI friend for TLC.                       *)
(***************************************************************************)
EXTENDS Assistant, TLC

Symmetry == Permutations(Slots)

\* Bound: while the bot is answering, the page has one request under way.
Apart == Cardinality(Active) <= 1 \/ (waiting = {} /\ Answering = {})
=============================================================================
