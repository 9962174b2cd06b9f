--------------------------- MODULE MCCoreRuntime ---------------------------
(* Two checks, a plan()/evaluate() pair and two refreshes at most.           *)
EXTENDS CoreRuntime
=============================================================================
