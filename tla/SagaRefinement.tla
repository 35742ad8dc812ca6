----------------------------- MODULE SagaRefinement -----------------------------
(***************************************************************************)
(* SagaManager seen by its clients: the stored transaction is the one of   *)
(* SagaContract.                                                           *)
(***************************************************************************)
EXTENDS SagaManager

Contract == INSTANCE SagaContract WITH txn <- store

\* To a client that waits for each answer, every operation of SagaManager looks
\* atomic: load, change and save are one step of the contract, and a submit
\* goes through committing, results and decision of one and the same state,
\* also when the server crashes between any two of its steps.
ImplementsContract == Contract!Spec

=============================================================================
