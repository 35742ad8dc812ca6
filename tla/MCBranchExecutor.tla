---------------------------- MODULE MCBranchExecutor ----------------------------
(***************************************************************************)
(* BranchExecutor for TLC: the times are given in the .cfg files.          *)
(***************************************************************************)
EXTENDS BranchExecutor

=============================================================================
