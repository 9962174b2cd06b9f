-------------------------- MODULE MCSyncScheduler ---------------------------
(***************************************************************************)
(* SyncScheduler for TLC.                                                  *)
(***************************************************************************)
EXTENDS SyncScheduler
=============================================================================
