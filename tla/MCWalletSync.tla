---------------------------- MODULE MCWalletSync ----------------------------
(***************************************************************************)
(* WalletSync for TLC.                                                     *)
(***************************************************************************)
EXTENDS WalletSync, TLC

OpSymmetry == Permutations(Ops) \cup Permutations(Permits)
=============================================================================
