------------------------------- MODULE MCKvStore -------------------------------
(***************************************************************************)
(* KvStore for TLC: the constants are given in the .cfg file.              *)
(***************************************************************************)
EXTENDS KvStore

=============================================================================
