------------------------------ MODULE SagaContract ------------------------------
(***************************************************************************)
(* What SagaManager promises a client that has one request under way per   *)
(* transaction: every operation takes effect at once on the transaction as *)
(* it is, and submit in three visible stages (committing, results,         *)
(* decision). There are no handlers, copies, tasks or saves here;          *)
(* SagaManager under Discipline "serial" implements this specification,    *)
(* and with concurrent clients it does not.                                *)
(***************************************************************************)
EXTENDS SeataDomain

CONSTANT Gids

VARIABLE txn    \* the transaction a client would read under each gid

Init == txn = [g \in Gids |-> NoTxn]

Exists(g) == txn[g] # NoTxn

Becomes(g, t) == txn' = [txn EXCEPT ![g] = t]

\* A new transaction, or a new one in the place of an old one.
Start(g) == Becomes(g, NewTxn)

AddBranch(g, b) ==
    /\ Exists(g)
    /\ ~HasBranch(txn[g], b)
    /\ Becomes(g, WithBranch(txn[g], b))

ReportBranch(g, b, s) ==
    /\ Exists(g)
    /\ HasBranch(txn[g], b)
    /\ Becomes(g, WithBranchStatus(txn[g], b, s))

Abort(g) ==
    /\ Exists(g)
    /\ Becomes(g, RolledBack(txn[g]))

BeginSubmit(g) ==
    /\ Exists(g)
    /\ Becomes(g, [txn[g] EXCEPT !.status = "Committing"])

\* The set S of the prepared branches succeeds, all the others fail.
RecordResults(g) ==
    /\ Exists(g)
    /\ txn[g].status = "Committing"
    /\ \E S \in SUBSET {i \in DOMAIN txn[g].branches : Prepared(txn[g], i)} :
          Becomes(g, [txn[g] EXCEPT !.branches =
              [i \in DOMAIN txn[g].branches |->
                  IF Prepared(txn[g], i)
                  THEN [txn[g].branches[i] EXCEPT !.status =
                           IF i \in S THEN "Succeed" ELSE "Failed"]
                  ELSE txn[g].branches[i]]])

\* Committed if every branch succeeded, aborted otherwise: never undecided.
Decide(g) ==
    /\ Exists(g)
    /\ txn[g].status = "Committing"
    /\ \A i \in DOMAIN txn[g].branches : ~Prepared(txn[g], i)
    /\ Becomes(g, [txn[g] EXCEPT !.status =
                       IF SomeFailed(txn[g]) THEN "Aborted" ELSE "Committed"])

Next ==
    \E g \in Gids :
        \/ Start(g)
        \/ \E b \in BranchIds :
              \/ AddBranch(g, b)
              \/ ReportBranch(g, b, "Succeed")
              \/ ReportBranch(g, b, "Failed")
        \/ Abort(g)
        \/ BeginSubmit(g)
        \/ RecordResults(g)
        \/ Decide(g)

Spec == Init /\ [][Next]_txn

=============================================================================
