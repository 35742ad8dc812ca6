------------------------------ MODULE SeataDomain ------------------------------
(***************************************************************************)
(* The transaction record of seata-server (src/domain.rs) and the pure     *)
(* updates SagaManager (src/saga.rs) applies to a loaded copy of it.       *)
(*                                                                         *)
(* A transaction is its global status and its branches in insertion order. *)
(* The gid is the key it is stored under; mode, payload, action URLs and   *)
(* timestamps never influence a decision and are left out.                 *)
(***************************************************************************)
EXTENDS Naturals, Sequences, FiniteSets

CONSTANTS
    BranchIds,   \* branch identifiers a client may use
    NoTxn        \* what a load returns when the key is absent (None)

\* "Aborting" is declared by the source but no statement ever assigns it.
GlobalStatus == {"Submitted", "Aborting", "Aborted", "Committing", "Committed"}
BranchStatus == {"Prepared", "Succeed", "Failed"}

BranchTxn == [branch_id : BranchIds, status : BranchStatus]
GlobalTxn == [status : GlobalStatus, branches : Seq(BranchTxn)]

ASSUME NoTxnAssumption == NoTxn \notin GlobalTxn

-----------------------------------------------------------------------------
(* Updates of a loaded copy.                                               *)

\* GlobalTxn::new: submitted, without branches.
NewTxn == [status |-> "Submitted", branches |-> <<>>]

HasBranch(t, b) == \E i \in DOMAIN t.branches : t.branches[i].branch_id = b

\* Mutant of WithBranch: the list is assigned instead of pushed to.
WithBranchOnly(t, b) ==
    [t EXCEPT !.branches = <<[branch_id |-> b, status |-> "Prepared"]>>]

\* The push of add_branch.
WithBranch(t, b) ==
    [t EXCEPT !.branches = Append(@, [branch_id |-> b, status |-> "Prepared"])]

\* i is the position iter_mut().find() stops at: the first one with that id.
IsFirst(t, b, i) ==
    /\ t.branches[i].branch_id = b
    /\ \A j \in 1..(i - 1) : t.branches[j].branch_id # b

\* branch_succeed and branch_fail: the first branch with the id gets status s,
\* whatever status it had.
WithBranchStatus(t, b, s) ==
    [t EXCEPT !.branches =
        [i \in DOMAIN t.branches |->
            IF IsFirst(t, b, i) THEN [t.branches[i] EXCEPT !.status = s]
                                ELSE t.branches[i]]]

\* Mutants of RolledBack: only the status, or only the branches, are changed.
RolledBackStatusOnly(t) == [t EXCEPT !.status = "Aborted"]
RolledBackBranchesOnly(t) ==
    [t EXCEPT !.branches =
        [i \in DOMAIN t.branches |->
            IF t.branches[i].status # "Succeed"
            THEN [t.branches[i] EXCEPT !.status = "Failed"]
            ELSE t.branches[i]]]

\* abort: every branch that has not succeeded is marked failed, and nothing
\* is compensated.
RolledBack(t) ==
    [status   |-> "Aborted",
     branches |-> [i \in DOMAIN t.branches |->
                     IF t.branches[i].status # "Succeed"
                     THEN [t.branches[i] EXCEPT !.status = "Failed"]
                     ELSE t.branches[i]]]

Prepared(t, i) == t.branches[i].status = "Prepared"

\* How many of the first i branches are still prepared. The k-th handle of a
\* submit belongs to the prepared branch of rank k.
PreparedRank(t, i) == Cardinality({j \in 1..i : Prepared(t, j)})

PreparedCount(t) == PreparedRank(t, Len(t.branches))

\* Mutant of ApplyResults: the handles are zipped with all branches.
ApplyResultsByPosition(t, handles) ==
    [t EXCEPT !.branches =
        [i \in DOMAIN t.branches |->
            IF i \in DOMAIN handles
            THEN [t.branches[i] EXCEPT !.status =
                    IF handles[i].state = "ok" THEN "Succeed" ELSE "Failed"]
            ELSE t.branches[i]]]

\* prepared_indices.zip(handles): the k-th handle's result goes to the k-th
\* prepared branch; zip stops at the shorter of the two lists.
ApplyResults(t, handles) ==
    [t EXCEPT !.branches =
        [i \in DOMAIN t.branches |->
            IF Prepared(t, i) /\ PreparedRank(t, i) \in DOMAIN handles
            THEN [t.branches[i] EXCEPT !.status =
                    IF handles[PreparedRank(t, i)].state = "ok"
                    THEN "Succeed" ELSE "Failed"]
            ELSE t.branches[i]]]

AllSucceed(t) == \A i \in DOMAIN t.branches : t.branches[i].status = "Succeed"
SomeFailed(t) == \E i \in DOMAIN t.branches : t.branches[i].status = "Failed"

\* The three-way decision at the end of submit.
FinalStatus(t) ==
    IF AllSucceed(t) THEN "Committed"
    ELSE IF SomeFailed(t) THEN "Aborted"
    ELSE "Committed"

Decided(t) == [t EXCEPT !.status = FinalStatus(t)]

=============================================================================
