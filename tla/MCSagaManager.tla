----------------------------- MODULE MCSagaManager -----------------------------
(***************************************************************************)
(* SagaManager for TLC: the constants are given in the .cfg files.         *)
(***************************************************************************)
EXTENDS SagaRefinement, TLC

\* Handler slots and branch ids are interchangeable; used in safety runs only.
Symmetry == Permutations(Handlers) \cup Permutations(BranchIds)

=============================================================================
