--------------------------- MODULE MCVerdictGate ----------------------------
(***************************************************************************)
(* VerdictGate for TLC: the requests are of one actor.                     *)
(***************************************************************************)
EXTENDS VerdictGate

MCActors == {[r \in Requests |-> 1]}
=============================================================================
