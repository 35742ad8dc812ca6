--------------------------- MODULE SagaSafetyProofs ---------------------------
(***************************************************************************)
(* What SagaManager stores, for all gids, branch ids, handlers, client     *)
(* disciplines and faults: unique branch ids, sound decisions, statuses    *)
(* with a cause, submits that go on to their end, and coherence in the     *)
(* documented flow.                                                        *)
(*                                                                         *)
(* A transaction lives in the store and in the copies of the handlers, and *)
(* a stale copy may be saved at any time. Every invariant below therefore  *)
(* speaks of the store and of all copies, and is proved from two facts: a  *)
(* step stores nothing but a handler's copy (StoreStep), and changes a     *)
(* handler's copy in one of a few ways (HandlerStep).                      *)
(***************************************************************************)
EXTENDS SagaManagerProofs

-----------------------------------------------------------------------------
(* What one step does to the store and to a handler.                       *)

\* Nothing happens to the copy of h.
Stays(h) == pc'[h] = pc[h] /\ call'[h] = call[h] /\ tx'[h] = tx[h]

\* h is done or gone, or its tasks are all that is left of it.
Empties(h) ==
    /\ tx'[h] = NoTxn
    /\ \/ pc'[h] = "idle"
       \/ pc[h] = "spawn" /\ pc'[h] = "detached" /\ call'[h] = call[h]

\* h goes from its load to a save with a changed copy of what is stored.
Loads(h) ==
    /\ pc[h] = "load"
    /\ Stored(h) # NoTxn
    /\ call'[h] = call[h]
    /\ \/ /\ call[h].op = "abort" /\ pc'[h] = "save"
          /\ tx'[h] = RolledBack(Stored(h))
       \/ /\ call[h].op = "add_branch" /\ pc'[h] = "save"
          /\ ~HasBranch(Stored(h), call[h].branch)
          /\ tx'[h] = WithBranch(Stored(h), call[h].branch)
       \/ /\ call[h].op = "branch_succeed" /\ pc'[h] = "save"
          /\ tx'[h] = WithBranchStatus(Stored(h), call[h].branch, "Succeed")
       \/ /\ call[h].op = "branch_fail" /\ pc'[h] = "save"
          /\ tx'[h] = WithBranchStatus(Stored(h), call[h].branch, "Failed")
       \/ /\ call[h].op = "submit" /\ pc'[h] = "mark"
          /\ tx'[h] = [Stored(h) EXCEPT !.status = "Committing"]

\* h goes on in submit, or ends with its put outstanding, with the same copy.
Advances(h) ==
    /\ call'[h] = call[h]
    /\ tx'[h] = tx[h]
    /\ \/ pc[h] = "mark" /\ pc'[h] = "spawn"
       \/ pc[h] \in Writing /\ pc'[h] = "zombie"

\* h has the results of all its tasks.
Joins(h) ==
    /\ pc[h] = "spawn" /\ pc'[h] = "results"
    /\ call'[h] = call[h]
    /\ Len(tasks[h]) = PreparedCount(tx[h])
    /\ Running(h) = {}
    /\ tx'[h] = ApplyResults(tx[h], tasks[h])

\* h decides.
Decides(h) ==
    /\ pc[h] = "results" /\ pc'[h] = "save"
    /\ call'[h] = call[h]
    /\ tx'[h] = Decided(tx[h])

Accepts(h) == \E r \in Requests : Call(h, r)

\* A step of another handler does not touch the copy of h.
LEMMA OthersStay ==
  ASSUME ShapeInv, NEW g \in Handlers, NEW h \in Handlers, g # h,
         \/ \E r \in Requests : Call(g, r)
         \/ Operation(g)
         \/ \E k \in DOMAIN tasks[g] : BranchTask(g, k)
         \/ StorageError(g)
         \/ RequestDropped(g)
  PROVE  Stays(h)
<1> USE DEF ShapeInv, TypeOK, Stays, Proceed, Return
<1>1. CASE \E r \in Requests : Call(g, r)
  BY <1>1 DEF Call, Accept
<1>2. CASE Operation(g)
  BY <1>2 DEF Operation, LoadMissing, AbortLoad, AddBranchLoad, BranchSucceedLoad,
     BranchFailLoad, BranchReport, SubmitLoad, SubmitMark, SubmitSpawn, SubmitJoin,
     SubmitSaveResults, Save, LateWriteLands, LateWriteLost, DetachedTasksEnd
<1>3. CASE \E k \in DOMAIN tasks[g] : BranchTask(g, k)
  BY <1>3 DEF BranchTask, TaskSucceeds, TaskGivesUp, TaskEnds
<1>4. CASE StorageError(g) \/ RequestDropped(g)
  BY <1>4 DEF StorageError, RequestDropped, Abandon, Detach
<1> QED
  BY <1>1, <1>2, <1>3, <1>4

\* What the server's own steps of h do to its copy.
LEMMA OwnOperation ==
  ASSUME ShapeInv, NEW h \in Handlers, Operation(h)
  PROVE  Stays(h) \/ Empties(h) \/ Loads(h) \/ Advances(h) \/ Joins(h) \/ Decides(h)
<1> USE DEF ShapeInv, TypeOK, Proceed, Return, Loading
<1>1. CASE LoadMissing(h) \/ Save(h) \/ LateWriteLands(h) \/ LateWriteLost(h)
             \/ DetachedTasksEnd(h)
  BY <1>1 DEF LoadMissing, Save, LateWriteLands, LateWriteLost, DetachedTasksEnd, Empties
<1>2. CASE AbortLoad(h)
  BY <1>2 DEF AbortLoad, Loads
<1>3. CASE AddBranchLoad(h)
  BY <1>3 DEF AddBranchLoad, Loads, Empties
<1>4. CASE BranchSucceedLoad(h) \/ BranchFailLoad(h)
  BY <1>4 DEF BranchSucceedLoad, BranchFailLoad, BranchReport, Loads, Empties
<1>5. CASE SubmitLoad(h)
  BY <1>5 DEF SubmitLoad, Loads
<1>6. CASE SubmitMark(h)
  BY <1>6 DEF SubmitMark, Advances
<1>7. CASE SubmitSpawn(h)
  BY <1>7 DEF SubmitSpawn, Stays
<1>8. CASE SubmitJoin(h)
  BY <1>8 DEF SubmitJoin, Joins
<1>9. CASE SubmitSaveResults(h)
  BY <1>9 DEF SubmitSaveResults, Decides
<1> QED
  BY <1>1, <1>2, <1>3, <1>4, <1>5, <1>6, <1>7, <1>8, <1>9 DEF Operation

\* Whatever the step, the copy of a handler changes in one of these ways.
LEMMA HandlerStep ==
  ASSUME ShapeInv, [Next]_vars, NEW h \in Handlers
  PROVE  \/ Stays(h) \/ Empties(h) \/ Loads(h) \/ Advances(h)
         \/ Joins(h) \/ Decides(h) \/ Accepts(h)
<1>1. CASE \E g \in Handlers, r \in Requests : Call(g, r)
  BY <1>1, OthersStay DEF Accepts
<1>2. CASE \E g \in Handlers : Operation(g)
  BY <1>2, OthersStay, OwnOperation
<1>3. CASE \E g \in Handlers : \E k \in DOMAIN tasks[g] : BranchTask(g, k)
  BY <1>3 DEF BranchTask, TaskSucceeds, TaskGivesUp, TaskEnds, Stays
<1>4. CASE \E g \in Handlers : StorageError(g) \/ RequestDropped(g)
  <2>1. ASSUME StorageError(h) \/ RequestDropped(h)
        PROVE  Empties(h) \/ Advances(h)
    BY <2>1 DEF StorageError, RequestDropped, Abandon, Detach, Return, Empties,
       Advances, ShapeInv, TypeOK
  <2> QED
    BY <1>4, <2>1, OthersStay
<1>5. CASE Crash
  BY <1>5 DEF Crash, Empties
<1>6. CASE UNCHANGED vars
  BY <1>6 DEF vars, handlerVars, Stays
<1> QED
  BY <1>1, <1>2, <1>3, <1>4, <1>5, <1>6 DEF Next, Fault

\* A step stores nothing but the copy of a handler that is at a save, or was.
LEMMA StoreStep ==
  ASSUME ShapeInv, [Next]_vars, NEW g \in Gids
  PROVE  \/ store'[g] = store[g]
         \/ \E h \in Handlers : /\ pc[h] \in Writing \cup {"zombie"}
                                /\ call[h].gid = g
                                /\ store'[g] = tx[h]
<1> USE DEF ShapeInv, TypeOK, historyVars
<1>1. ASSUME NEW h \in Handlers, Operation(h), ~UNCHANGED store
      PROVE  Put(h) /\ pc[h] \in Writing \cup {"zombie"}
  BY <1>1 DEF Operation, LoadMissing, AbortLoad, AddBranchLoad, BranchSucceedLoad,
     BranchFailLoad, BranchReport, SubmitLoad, SubmitMark, SubmitSpawn, SubmitJoin,
     SubmitSaveResults, Save, LateWriteLands, LateWriteLost, DetachedTasksEnd, Writing
<1>2. CASE \E h \in Handlers : Operation(h)
  BY <1>1, <1>2 DEF Put
<1>3. CASE \E h \in Handlers, r \in Requests : Call(h, r)
  BY <1>3 DEF Call, Accept
<1>4. CASE \E h \in Handlers : \E k \in DOMAIN tasks[h] : BranchTask(h, k)
  BY <1>4 DEF BranchTask, TaskSucceeds, TaskGivesUp, TaskEnds
<1>5. CASE Fault
  BY <1>5 DEF Fault, StorageError, RequestDropped, Crash
<1>6. CASE UNCHANGED vars
  BY <1>6 DEF vars
<1> QED
  BY <1>2, <1>3, <1>4, <1>5, <1>6 DEF Next

\* What a handler that loads or saves has in hand.
LEMMA HandlerData ==
  ASSUME ShapeInv, NEW h \in Handlers
  PROVE  /\ pc[h] # "idle" => /\ call[h] \in Requests
                              /\ call[h].gid \in Gids
                              /\ call[h].op \in BranchOps => call[h].branch \in BranchIds
         /\ pc[h] # "idle" => Stored(h) \in GlobalTxn \cup {NoTxn}
         /\ pc[h] \in Writing \cup {"spawn", "zombie"} =>
               tx[h] \in GlobalTxn /\ tx[h] # NoTxn
  BY RequestType, StoredType, NoTxnAssumption DEF ShapeInv, Shape
-----------------------------------------------------------------------------
(* Branch ids are unique.                                                  *)

\* The strengthening: also no copy lists an id twice. add_branch looks the id
\* up in the copy it pushes to, so the argument needs no exclusion between
\* handlers.
UniqueInv ==
    /\ \A g \in Gids : store[g] # NoTxn => UniqueIds(store[g])
    /\ \A h \in Handlers : tx[h] # NoTxn => UniqueIds(tx[h])

\* An update that keeps the list of branches keeps their ids unique.
LEMMA SameBranchesUnique ==
  ASSUME NEW t, NEW u, SameBranches(t, u), UniqueIds(t)
  PROVE  UniqueIds(u)
  BY DEF SameBranches, UniqueIds

\* So does the push of an id that is not there.
LEMMA WithBranchUnique ==
  ASSUME NEW t \in GlobalTxn, NEW b \in BranchIds, UniqueIds(t), ~HasBranch(t, b)
  PROVE  UniqueIds(WithBranch(t, b))
<1> DEFINE u == WithBranch(t, b)
           n == Len(t.branches)
<1>1. /\ n \in Nat
      /\ DOMAIN t.branches = 1..n
      /\ DOMAIN u.branches = 1..(n + 1)
      /\ u.branches[n + 1].branch_id = b
      /\ \A i \in 1..n : u.branches[i] = t.branches[i]
  BY DEF WithBranch, GlobalTxn
<1> HIDE DEF u, n
<1>2. ASSUME NEW i \in 1..(n + 1), NEW j \in 1..(n + 1),
             u.branches[i].branch_id = u.branches[j].branch_id
      PROVE  i = j
  BY <1>1, <1>2 DEF UniqueIds, HasBranch
<1> QED
  BY <1>1, <1>2 DEF UniqueIds, u

\* A new copy has unique ids if what it was made from has.
LEMMA LoadsUnique ==
  ASSUME ShapeInv, UniqueInv, NEW h \in Handlers, Loads(h)
  PROVE  UniqueIds(tx'[h])
<1>1. /\ Stored(h) \in GlobalTxn
      /\ UniqueIds(Stored(h))
      /\ call[h].op \in BranchOps => call[h].branch \in BranchIds
  BY HandlerData DEF Loads, UniqueInv, Stored
<1>2. CASE call[h].op = "abort"
  BY <1>1, <1>2, RolledBackType, SameBranchesUnique DEF Loads
<1>3. CASE call[h].op = "add_branch"
  BY <1>1, <1>3, WithBranchUnique DEF Loads, BranchOps
<1>4. CASE call[h].op \in {"branch_succeed", "branch_fail"}
  BY <1>1, <1>4, WithBranchStatusType, SameBranchesUnique DEF Loads, BranchOps, BranchStatus
<1>5. CASE call[h].op = "submit"
  <2>1. tx'[h] = [Stored(h) EXCEPT !.status = "Committing"]
    BY <1>5 DEF Loads
  <2>2. tx'[h].branches = Stored(h).branches
    BY <1>1, <2>1, WithStatusType DEF GlobalStatus
  <2> QED
    BY <1>1, <2>2 DEF UniqueIds
<1> QED
  BY <1>2, <1>3, <1>4, <1>5 DEF Loads

LEMMA UniqueNext == ShapeInv /\ UniqueInv /\ [Next]_vars => UniqueInv'
<1> SUFFICES ASSUME ShapeInv, UniqueInv, [Next]_vars PROVE UniqueInv'
  OBVIOUS
<1>1. ASSUME NEW g \in Gids, store'[g] # NoTxn PROVE UniqueIds(store'[g])
  BY <1>1, StoreStep DEF UniqueInv
<1>2. ASSUME NEW h \in Handlers, tx'[h] # NoTxn PROVE UniqueIds(tx'[h])
  <2>1. CASE Stays(h) \/ Empties(h) \/ Advances(h)
    BY <1>2, <2>1 DEF UniqueInv, Stays, Empties, Advances
  <2>2. CASE Loads(h)
    BY <2>2, LoadsUnique
  <2>3. CASE Joins(h)
    BY <2>3, HandlerData, ApplyResultsType, SameBranchesUnique DEF Joins, UniqueInv
  <2>4. CASE Decides(h)
    BY <2>4, HandlerData, DecidedType DEF Decides, UniqueInv, UniqueIds, Writing
  <2>5. CASE Accepts(h)
    BY <1>2, <2>5 DEF Accepts, Call, Accept, ShapeInv, TypeOK, NewTxn, UniqueIds
  <2> QED
    BY <2>1, <2>2, <2>3, <2>4, <2>5, HandlerStep
<1> QED
  BY <1>1, <1>2 DEF UniqueInv

\* No interleaving, fault or late write makes a stored transaction list a
\* branch id twice.
THEOREM BranchIdsUnique == Spec => []UniqueBranchIds
<1>1. Init => UniqueInv
  BY DEF Init, UniqueInv
<1>2. UniqueInv => UniqueBranchIds
  BY DEF UniqueInv, UniqueBranchIds
<1> QED
  BY <1>1, <1>2, UniqueNext, ShapeAlways, PTL DEF Spec
-----------------------------------------------------------------------------
(* Decisions are complete and right.                                       *)

NothingPrepared(t) == \A i \in DOMAIN t.branches : ~Prepared(t, i)

\* The strengthening: no branch of the copy is prepared once all handles are
\* joined, so that the decision falls on succeeded and failed ones only.
DecisionInv ==
    /\ \A h \in Handlers : pc[h] = "results" => NothingPrepared(tx[h])
    /\ DecisionSound

\* Ranks count up to the number of prepared branches, so if there is a handle
\* for each of them, zip leaves none out.
LEMMA RankBound ==
  ASSUME NEW t \in GlobalTxn, NEW i \in DOMAIN t.branches, Prepared(t, i)
  PROVE  PreparedRank(t, i) \in 1..PreparedCount(t)
<1> DEFINE P(n) == {m \in 1..n : Prepared(t, m)}
           n == Len(t.branches)
<1>1. n \in Nat /\ i \in 1..n
  BY BranchesDomain
<1>2. \A m \in 1..n : IsFiniteSet(P(m)) /\ Cardinality(P(m)) \in Nat
  <2> SUFFICES ASSUME NEW m \in 1..n PROVE IsFiniteSet(P(m)) /\ Cardinality(P(m)) \in Nat
    OBVIOUS
  <2>1. IsFiniteSet(1..m)
    BY <1>1, FS_Interval
  <2> QED
    BY <2>1, FS_Subset, FS_CardinalityType
<1>3. P(i) \in SUBSET P(n) /\ i \in P(i) /\ n \in 1..n
  BY <1>1
<1>4. Cardinality(P(i)) <= Cardinality(P(n))
  BY <1>2, <1>3, FS_Subset
<1>5. Cardinality(P(i)) # 0
  BY <1>1, <1>2, <1>3, FS_EmptySet
<1>6. PreparedRank(t, i) = Cardinality(P(i)) /\ PreparedCount(t) = Cardinality(P(n))
  BY DEF PreparedRank, PreparedCount
<1> HIDE DEF P, n
<1> QED
  BY <1>1, <1>2, <1>3, <1>4, <1>5, <1>6

\* A copy that has joined a handle for each prepared branch has none left.
LEMMA JoinComplete ==
  ASSUME NEW t \in GlobalTxn, NEW handles \in Seq(Task), Len(handles) = PreparedCount(t)
  PROVE  NothingPrepared(ApplyResults(t, handles))
<1> DEFINE u == ApplyResults(t, handles)
<1> SUFFICES ASSUME NEW i \in DOMAIN u.branches PROVE u.branches[i].status # "Prepared"
  BY DEF NothingPrepared, Prepared
<1>1. i \in DOMAIN t.branches /\ t.branches[i] \in BranchTxn
  BY ApplyResultsType, BranchesDomain DEF SameBranches
<1>2. u.branches = [j \in DOMAIN t.branches |->
            IF Prepared(t, j) /\ PreparedRank(t, j) \in DOMAIN handles
            THEN [t.branches[j] EXCEPT !.status =
                    IF handles[PreparedRank(t, j)].state = "ok"
                    THEN "Succeed" ELSE "Failed"]
            ELSE t.branches[j]]
  BY DEF ApplyResults, GlobalTxn
<1>3. CASE Prepared(t, i)
  <2>1. PreparedRank(t, i) \in DOMAIN handles
    BY <1>1, <1>3, RankBound
  <2> QED
    BY <1>1, <1>2, <1>3, <2>1 DEF BranchTxn
<1>4. CASE ~Prepared(t, i)
  BY <1>1, <1>2, <1>4 DEF Prepared
<1> QED
  BY <1>3, <1>4

\* The three-way decision is two-way on such a copy.
LEMMA DecidedSound ==
  ASSUME NEW t \in GlobalTxn, NothingPrepared(t)
  PROVE  /\ NothingPrepared(Decided(t))
         /\ Decided(t).status = IF AllSucceed(Decided(t)) THEN "Committed" ELSE "Aborted"
<1>1. /\ Decided(t).branches = t.branches
      /\ Decided(t).status = FinalStatus(t)
  <2>1. FinalStatus(t) \in GlobalStatus
    BY DEF FinalStatus, GlobalStatus
  <2> QED
    BY <2>1, DecidedType, WithStatusType DEF Decided
<1>2. AllSucceed(Decided(t)) <=> AllSucceed(t)
  BY <1>1 DEF AllSucceed
<1>3. ~AllSucceed(t) => SomeFailed(t)
  BY BranchesDomain DEF AllSucceed, SomeFailed, NothingPrepared, Prepared, BranchTxn, BranchStatus
<1> QED
  BY <1>1, <1>2, <1>3 DEF FinalStatus, NothingPrepared, Prepared

LEMMA DecisionNext == ShapeInv /\ DecisionInv /\ [Next]_vars => DecisionInv'
<1> SUFFICES ASSUME ShapeInv, DecisionInv, [Next]_vars PROVE DecisionInv'
  OBVIOUS
<1> DEFINE Sound(l, c, t) ==
        /\ l = "results" => NothingPrepared(t)
        /\ l = "save" /\ c.op = "submit" =>
              /\ NothingPrepared(t)
              /\ t.status = IF AllSucceed(t) THEN "Committed" ELSE "Aborted"
<1>1. \A h \in Handlers : Sound(pc[h], call[h], tx[h])
  BY DEF DecisionInv, DecisionSound, NothingPrepared, Prepared
<1>2. ASSUME NEW h \in Handlers PROVE Sound(pc'[h], call'[h], tx'[h])
  <2>1. CASE Stays(h) \/ Empties(h) \/ Advances(h)
    BY <1>1, <2>1 DEF Stays, Empties, Advances
  <2>2. CASE Loads(h)
    BY <2>2 DEF Loads
  <2>3. CASE Joins(h)
    BY <2>3, HandlerData, JoinComplete DEF Joins, ShapeInv, TypeOK
  <2>4. CASE Decides(h)
    BY <1>1, <2>4, HandlerData, DecidedSound DEF Decides, Writing
  <2>5. CASE Accepts(h)
    BY <2>5 DEF Accepts, Call, Accept, ShapeInv, TypeOK
  <2> QED
    BY <2>1, <2>2, <2>3, <2>4, <2>5, HandlerStep
<1> QED
  BY <1>2 DEF DecisionInv, DecisionSound, NothingPrepared, Prepared

\* Whatever else is going on, a submit decides with the result of every branch
\* of its copy, and commits exactly when every one succeeded.
THEOREM DecisionsSound == Spec => []DecisionSound
<1>1. Init => DecisionInv
  BY DEF Init, DecisionInv, DecisionSound
<1>2. DecisionInv => DecisionSound
  BY DEF DecisionInv
<1> QED
  BY <1>1, <1>2, DecisionNext, ShapeAlways, PTL DEF Spec
-----------------------------------------------------------------------------
(* The documented flow.                                                    *)

\* What separates building from deciding, across any late write: before the
\* first decision only submitted transactions are stored or copied; branch
\* operations end before it, and what they leave behind is submitted and hence
\* coherent. After it copies are made by submit and abort alone.
FlowInv ==
    /\ \A g \in Gids : store[g] # NoTxn =>
          /\ Coherent(store[g])
          /\ phase[g] # "deciding" => store[g].status = "Submitted"
    /\ \A h \in Handlers : tx[h] # NoTxn =>
          /\ Coherent(tx[h])
          /\ pc[h] \in {"mark", "spawn", "results"} => tx[h].status = "Committing"
          /\ pc[h] # "idle" /\ call[h].op \notin Decisions => tx[h].status = "Submitted"
    /\ \A h \in Handlers : pc[h] # "idle" =>
          /\ call[h].op \in Decisions => phase[call[h].gid] = "deciding"
          /\ pc[h] \in Unanswered /\ call[h].op \notin Decisions =>
                phase[call[h].gid] # "deciding"

\* A submitted or committing transaction is coherent.
LEMMA UndecidedCoherent ==
  ASSUME NEW t, t.status \in {"Submitted", "Committing"}
  PROVE  Coherent(t)
  BY DEF Coherent

\* abort and the decision of submit make coherent transactions.
LEMMA RolledBackCoherent ==
  ASSUME NEW t \in GlobalTxn
  PROVE  Coherent(RolledBack(t))
<1>1. /\ RolledBack(t).status = "Aborted"
      /\ DOMAIN RolledBack(t).branches = DOMAIN t.branches
  BY DEF RolledBack
<1>2. ASSUME NEW i \in DOMAIN t.branches
      PROVE  RolledBack(t).branches[i].status # "Prepared"
  <2>1. t.branches[i] \in BranchTxn
    BY BranchesDomain
  <2> QED
    BY <2>1 DEF RolledBack, BranchTxn
<1> QED
  BY <1>1, <1>2 DEF Coherent, Prepared

LEMMA DecidedCoherent ==
  ASSUME NEW t \in GlobalTxn, NothingPrepared(t)
  PROVE  Coherent(Decided(t))
  BY DecidedSound DEF Coherent, NothingPrepared

\* Reports and pushes keep the status.
LEMMA StatusKept ==
  ASSUME NEW t \in GlobalTxn, NEW b, NEW s, NEW handles
  PROVE  /\ WithBranch(t, b).status = t.status
         /\ WithBranchStatus(t, b, s).status = t.status
         /\ ApplyResults(t, handles).status = t.status
  BY DEF WithBranch, WithBranchStatus, ApplyResults, GlobalTxn

\* A gid that is being decided stays so, and other steps than a call leave the
\* phase alone.
LEMMA PhaseStep ==
  ASSUME ShapeInv, [Next]_vars
  PROVE  \/ phase' = phase
         \/ \E h \in Handlers, r \in Requests : Call(h, r)
<1>1. CASE \E h \in Handlers : Operation(h)
  BY <1>1 DEF Operation, LoadMissing, AbortLoad, AddBranchLoad, BranchSucceedLoad,
     BranchFailLoad, BranchReport, SubmitLoad, SubmitMark, SubmitSpawn, SubmitJoin,
     SubmitSaveResults, Save, LateWriteLands, LateWriteLost, DetachedTasksEnd, historyVars
<1>2. CASE \E h \in Handlers : \E k \in DOMAIN tasks[h] : BranchTask(h, k)
  BY <1>2 DEF BranchTask, TaskSucceeds, TaskGivesUp, TaskEnds
<1>3. CASE Fault
  BY <1>3 DEF Fault, StorageError, RequestDropped, Crash, historyVars
<1>4. CASE UNCHANGED vars
  BY <1>4 DEF vars, historyVars
<1> QED
  BY <1>1, <1>2, <1>3, <1>4 DEF Next

\* What a call of the documented flow may find and does.
LEMMA FlowCall ==
  ASSUME ShapeInv, Discipline = "lifecycle", NEW h \in Handlers, NEW r \in Requests,
         Call(h, r)
  PROVE  /\ pc'[h] \in {"save", "load"} /\ call'[h] = r
         /\ tx'[h] = IF r.op = "start" THEN NewTxn ELSE NoTxn
         /\ store' = store
         /\ \A x \in Handlers \ {h} : Stays(x)
         /\ r.gid \in Gids /\ r.op \in AllOps
         /\ r.op \in Decisions =>
               /\ phase' = [phase EXCEPT ![r.gid] = "deciding"]
               /\ \A x \in Handlers : pc[x] \in Unanswered /\ call[x].gid = r.gid
                                         => call[x].op \in Decisions
         /\ r.op \notin Decisions =>
               /\ phase[r.gid] # "deciding"
               /\ \A g \in Gids : phase'[g] = "deciding" <=> phase[g] = "deciding"
<1>1. /\ StartedFirst(r)
      /\ r.op \in BranchOps => phase[r.gid] = "building"
      /\ \A x \in Busy(r.gid, Unanswered) : {call[x].op, r.op} \subseteq Decisions
  BY DEF Call, MayCall
<1>2. r.gid \in Gids /\ r.op \in AllOps
  BY RequestType
<1>3. /\ pc' = [pc EXCEPT ![h] = IF r.op = "start" THEN "save" ELSE "load"]
      /\ call' = [call EXCEPT ![h] = r]
      /\ tx' = [tx EXCEPT ![h] = IF r.op = "start" THEN NewTxn ELSE NoTxn]
      /\ store' = store
      /\ phase' = [phase EXCEPT ![r.gid] =
                    IF r.op \in Decisions THEN "deciding"
                    ELSE IF r.op = "start" /\ @ = "new" THEN "building" ELSE @]
  BY DEF Call, Accept
<1>4. /\ pc'[h] \in {"save", "load"} /\ call'[h] = r
      /\ tx'[h] = IF r.op = "start" THEN NewTxn ELSE NoTxn
      /\ \A x \in Handlers \ {h} : Stays(x)
  BY <1>3 DEF Stays, ShapeInv, TypeOK
<1>5. ASSUME r.op \in Decisions
      PROVE  /\ phase' = [phase EXCEPT ![r.gid] = "deciding"]
             /\ \A x \in Handlers : pc[x] \in Unanswered /\ call[x].gid = r.gid
                                       => call[x].op \in Decisions
  BY <1>1, <1>3, <1>5 DEF Busy
<1>6. ASSUME r.op \notin Decisions
      PROVE  /\ phase[r.gid] # "deciding"
             /\ \A g \in Gids : phase'[g] = "deciding" <=> phase[g] = "deciding"
  <2>1. phase[r.gid] # "deciding"
    BY <1>1, <1>2, <1>6 DEF StartedFirst, AllOps, BranchOps, Decisions
  <2> QED
    BY <1>2, <1>3, <1>6, <2>1 DEF ShapeInv, TypeOK
<1> QED
  BY <1>2, <1>3, <1>4, <1>5, <1>6

\* A handler that was working and still is works on the same request.
LEMMA FlowKeepsCall ==
  ASSUME ShapeInv, [Next]_vars, NEW h \in Handlers, pc'[h] # "idle", ~Accepts(h)
  PROVE  /\ pc[h] # "idle"
         /\ call'[h] = call[h]
         /\ pc'[h] \in Unanswered => pc[h] \in Unanswered
<1>1. Stays(h) \/ Empties(h) \/ Loads(h) \/ Advances(h) \/ Joins(h) \/ Decides(h)
  BY HandlerStep
<1> QED
  BY <1>1 DEF Stays, Empties, Loads, Advances, Joins, Decides, Unanswered, Writing

\* Loads of the documented flow make coherent copies.
LEMMA FlowLoads ==
  ASSUME ShapeInv, FlowInv, NEW h \in Handlers, Loads(h)
  PROVE  /\ Coherent(tx'[h])
         /\ pc'[h] = "mark" => tx'[h].status = "Committing"
         /\ call[h].op \notin Decisions => tx'[h].status = "Submitted"
<1>1. /\ Stored(h) \in GlobalTxn
      /\ call[h].gid \in Gids
      /\ call[h].op \notin Decisions => Stored(h).status = "Submitted"
  BY HandlerData DEF Loads, FlowInv, Stored, Unanswered
<1>2. CASE call[h].op = "abort"
  BY <1>1, <1>2, RolledBackCoherent DEF Loads, Decisions
<1>3. CASE call[h].op = "submit"
  <2>1. tx'[h] = [Stored(h) EXCEPT !.status = "Committing"]
    BY <1>3 DEF Loads
  <2>2. tx'[h].status = "Committing"
    BY <1>1, <2>1, WithStatusType DEF GlobalStatus
  <2> QED
    BY <1>3, <2>2, UndecidedCoherent DEF Decisions
<1>4. CASE call[h].op \in BranchOps
  <2>1. tx'[h].status = "Submitted" /\ pc'[h] = "save"
    BY <1>1, <1>4, StatusKept DEF Loads, BranchOps, Decisions
  <2> QED
    BY <2>1, UndecidedCoherent
<1> QED
  BY <1>2, <1>3, <1>4 DEF Loads, BranchOps

LEMMA FlowNext ==
  ASSUME Discipline = "lifecycle"
  PROVE  ShapeInv /\ DecisionInv /\ FlowInv /\ [Next]_vars => FlowInv'
<1> SUFFICES ASSUME ShapeInv, DecisionInv, FlowInv, [Next]_vars PROVE FlowInv'
  OBVIOUS
<1>1. ASSUME NEW g \in Gids, store'[g] # NoTxn
      PROVE  /\ Coherent(store'[g])
             /\ phase'[g] # "deciding" => store'[g].status = "Submitted"
  <2>1. phase'[g] # "deciding" => phase[g] # "deciding"
    BY PhaseStep, FlowCall DEF ShapeInv, TypeOK
  <2>2. CASE store'[g] = store[g]
    BY <1>1, <2>1, <2>2 DEF FlowInv
  <2>3. CASE store'[g] # store[g]
    <3>1. PICK h \in Handlers : /\ pc[h] \in Writing \cup {"zombie"}
                                /\ call[h].gid = g
                                /\ store'[g] = tx[h]
      BY <2>3, StoreStep
    <3> QED
      BY <1>1, <2>1, <3>1 DEF FlowInv, Writing
  <2> QED
    BY <2>2, <2>3
<1>2. ASSUME NEW h \in Handlers, tx'[h] # NoTxn
      PROVE  /\ Coherent(tx'[h])
             /\ pc'[h] \in {"mark", "spawn", "results"} => tx'[h].status = "Committing"
             /\ pc'[h] # "idle" /\ call'[h].op \notin Decisions
                   => tx'[h].status = "Submitted"
  <2>1. CASE Stays(h) \/ Empties(h) \/ Advances(h)
    BY <1>2, <2>1 DEF FlowInv, Stays, Empties, Advances, Writing
  <2>2. CASE Loads(h)
    BY <2>2, FlowLoads DEF Loads
  <2>3. CASE Joins(h)
    <3>1. tx[h] \in GlobalTxn /\ tx[h].status = "Committing" /\ call[h].op = "submit"
      BY <2>3, HandlerData DEF Joins, FlowInv, ShapeInv, Shape
    <3> QED
      BY <2>3, <3>1, StatusKept, UndecidedCoherent DEF Joins, Decisions
  <2>4. CASE Decides(h)
    <3>1. tx[h] \in GlobalTxn /\ NothingPrepared(tx[h]) /\ call[h].op = "submit"
      BY <2>4, HandlerData DEF Decides, DecisionInv, ShapeInv, Shape, Writing
    <3> QED
      BY <2>4, <3>1, DecidedCoherent DEF Decides, Decisions
  <2>5. CASE Accepts(h)
    <3>1. PICK r \in Requests : Call(h, r)
      BY <2>5 DEF Accepts
    <3>2. tx'[h] = NewTxn /\ pc'[h] \in {"save", "load"}
      BY <1>2, <3>1, FlowCall
    <3> QED
      BY <3>2, UndecidedCoherent DEF NewTxn
  <2> QED
    BY <2>1, <2>2, <2>3, <2>4, <2>5, HandlerStep
<1>3. ASSUME NEW h \in Handlers, pc'[h] # "idle"
      PROVE  /\ call'[h].op \in Decisions => phase'[call'[h].gid] = "deciding"
             /\ pc'[h] \in Unanswered /\ call'[h].op \notin Decisions =>
                   phase'[call'[h].gid] # "deciding"
  <2>1. CASE Accepts(h)
    <3>1. PICK r \in Requests : Call(h, r)
      BY <2>1 DEF Accepts
    <3> QED
      BY <3>1, FlowCall DEF ShapeInv, TypeOK
  <2>2. CASE ~Accepts(h)
    <3>1. /\ pc[h] # "idle"
          /\ call'[h] = call[h]
          /\ pc'[h] \in Unanswered => pc[h] \in Unanswered
      BY <1>3, <2>2, FlowKeepsCall
    <3>2. CASE phase' = phase
      BY <3>1, <3>2 DEF FlowInv
    <3>3. CASE \E x \in Handlers, r \in Requests : Call(x, r)
      <4>1. PICK x \in Handlers, r \in Requests : Call(x, r)
        BY <3>3
      <4>2. x # h /\ call[h].gid \in Gids
        BY <2>2, <3>1, <4>1, HandlerData DEF Accepts
      <4>3. CASE r.op \in Decisions
        <5>1. /\ r.gid \in Gids
              /\ phase' = [phase EXCEPT ![r.gid] = "deciding"]
              /\ pc[h] \in Unanswered /\ call[h].gid = r.gid => call[h].op \in Decisions
          BY <4>1, <4>3, FlowCall
        <5>2. phase \in [Gids -> {"new", "building", "deciding"}]
          BY DEF ShapeInv, TypeOK
        <5> QED
          BY <3>1, <4>2, <5>1, <5>2 DEF FlowInv
      <4>4. CASE r.op \notin Decisions
        BY <3>1, <4>1, <4>2, <4>4, FlowCall DEF FlowInv
      <4> QED
        BY <4>3, <4>4
    <3> QED
      BY <3>2, <3>3, PhaseStep
  <2> QED
    BY <2>1, <2>2
<1> QED
  BY <1>1, <1>2, <1>3 DEF FlowInv

\* In the documented flow no interleaving of submits and aborts, no crash and
\* no late write leaves a committed transaction with a branch that did not
\* succeed, or an aborted one with a branch still to be executed.
THEOREM LifecycleSafe ==
  ASSUME Discipline = "lifecycle"
  PROVE  Spec => []LifecycleCoherent
<1>1. Init => DecisionInv /\ FlowInv
  BY DEF Init, DecisionInv, DecisionSound, FlowInv
<1>2. FlowInv => LifecycleCoherent
  BY DEF FlowInv, LifecycleCoherent
<1> QED
  BY <1>1, <1>2, DecisionNext, FlowNext, ShapeAlways, PTL DEF Spec
-----------------------------------------------------------------------------
(* Every status has a cause of its own branch.                             *)

\* What a call puts on record before its handler loads.
Recorded(h) ==
    /\ call[h].op = "add_branch" => <<call[h].gid, call[h].branch, "Prepared">> \in evidence
    /\ call[h].op = "branch_succeed" => <<call[h].gid, call[h].branch, "Succeed">> \in evidence
    /\ call[h].op = "branch_fail" => <<call[h].gid, call[h].branch, "Failed">> \in evidence
    /\ call[h].op = "abort" => \A b \in BranchIds : <<call[h].gid, b, "Failed">> \in evidence

\* What the end of a task puts on record.
TaskRecorded(h, k) ==
    /\ tasks[h][k].state = "ok" => <<call[h].gid, tasks[h][k].branch, "Succeed">> \in evidence
    /\ tasks[h][k].state = "failed" => <<call[h].gid, tasks[h][k].branch, "Failed">> \in evidence

\* The k-th task of a submit calls the prepared branch of rank k.
Aligned(h) ==
    \A i \in DOMAIN tx[h].branches :
        Prepared(tx[h], i) /\ PreparedRank(tx[h], i) \in DOMAIN tasks[h] =>
            tasks[h][PreparedRank(tx[h], i)].branch = tx[h].branches[i].branch_id

\* The strengthening: the copies are justified as well, calls and tasks have
\* left their record, and handles and prepared branches are aligned, so that a
\* result is never applied to a branch it does not belong to.
CauseInv ==
    /\ StatusHasCause
    /\ \A h \in Handlers : pc[h] # "idle" /\ tx[h] # NoTxn => Justified(call[h].gid, tx[h])
    /\ \A h \in Handlers : pc[h] = "load" => Recorded(h)
    /\ \A h \in Handlers : \A k \in DOMAIN tasks[h] : TaskRecorded(h, k)
    /\ \A h \in Handlers : pc[h] = "spawn" => Aligned(h)

\* The record only grows.
LEMMA EvidenceGrows == [Next]_vars => evidence \subseteq evidence'
<1> SUFFICES ASSUME [Next]_vars PROVE evidence \subseteq evidence'
  OBVIOUS
<1>1. CASE \E h \in Handlers, r \in Requests : Call(h, r)
  <2>1. PICK h \in Handlers, r \in Requests : Accept(h, r)
    BY <1>1 DEF Call
  <2> DEFINE added ==
         CASE r.op = "add_branch"     -> {<<r.gid, r.branch, "Prepared">>}
           [] r.op = "branch_succeed" -> {<<r.gid, r.branch, "Succeed">>}
           [] r.op = "branch_fail"    -> {<<r.gid, r.branch, "Failed">>}
           [] r.op = "abort"          -> {r.gid} \X BranchIds \X {"Failed"}
           [] OTHER                   -> {}
  <2>2. evidence' = evidence \cup added
    BY <2>1 DEF Accept
  <2> HIDE DEF added
  <2> QED
    BY <2>2
<1>2. CASE \E h \in Handlers : Operation(h)
  BY <1>2 DEF Operation, LoadMissing, AbortLoad, AddBranchLoad, BranchSucceedLoad,
     BranchFailLoad, BranchReport, SubmitLoad, SubmitMark, SubmitSpawn, SubmitJoin,
     SubmitSaveResults, Save, LateWriteLands, LateWriteLost, DetachedTasksEnd, historyVars
<1>3. CASE \E h \in Handlers : \E k \in DOMAIN tasks[h] : BranchTask(h, k)
  BY <1>3 DEF BranchTask, TaskSucceeds, TaskGivesUp
<1>4. CASE Fault
  BY <1>4 DEF Fault, StorageError, RequestDropped, Crash, historyVars
<1>5. CASE UNCHANGED vars
  BY <1>5 DEF vars, historyVars
<1> QED
  BY <1>1, <1>2, <1>3, <1>4, <1>5 DEF Next

\* What was justified stays so.
LEMMA JustifiedGrows ==
  ASSUME evidence \subseteq evidence', NEW g, NEW t, Justified(g, t)
  PROVE  Justified(g, t)'
  BY DEF Justified

\* How a step changes the tasks of a handler.
LEMMA TasksStep ==
  ASSUME ShapeInv, [Next]_vars, NEW h \in Handlers
  PROVE  \/ tasks'[h] = tasks[h]
         \/ tasks'[h] = <<>>
         \/ SubmitSpawn(h)
         \/ \E k \in DOMAIN tasks[h] : BranchTask(h, k)
<1> USE DEF ShapeInv, TypeOK, Proceed, Return
<1>1. CASE \E g \in Handlers, r \in Requests : Call(g, r)
  BY <1>1 DEF Call, Accept
<1>2. ASSUME NEW g \in Handlers, Operation(g), ~SubmitSpawn(h)
      PROVE  tasks'[h] = tasks[h] \/ tasks'[h] = <<>>
  BY <1>2 DEF Operation, LoadMissing, AbortLoad, AddBranchLoad, BranchSucceedLoad,
     BranchFailLoad, BranchReport, SubmitLoad, SubmitMark, SubmitSpawn, SubmitJoin,
     SubmitSaveResults, Save, LateWriteLands, LateWriteLost, DetachedTasksEnd
<1>3. CASE \E g \in Handlers : \E k \in DOMAIN tasks[g] : BranchTask(g, k)
  <2>1. PICK g \in Handlers : \E k \in DOMAIN tasks[g] : BranchTask(g, k)
    BY <1>3
  <2>2. CASE g # h
    BY <2>1, <2>2 DEF BranchTask, TaskSucceeds, TaskGivesUp, TaskEnds
  <2> QED
    BY <2>1, <2>2
<1>4. CASE \E g \in Handlers : StorageError(g) \/ RequestDropped(g)
  BY <1>4 DEF StorageError, RequestDropped, Abandon, Detach
<1>5. CASE Crash
  BY <1>5 DEF Crash
<1>6. CASE UNCHANGED vars
  BY <1>6 DEF vars, handlerVars
<1> QED
  BY <1>1, <1>2, <1>3, <1>4, <1>5, <1>6 DEF Next, Fault

\* A copy made from a justified transaction by a recorded call is justified.
LEMMA LoadsJustified ==
  ASSUME ShapeInv, CauseInv, NEW h \in Handlers, Loads(h)
  PROVE  Justified(call[h].gid, tx'[h])
<1> DEFINE t == Stored(h)
           g == call[h].gid
           b == call[h].branch
           u == tx'[h]
<1>1. /\ t \in GlobalTxn
      /\ Justified(g, t)
      /\ Recorded(h)
      /\ call[h].op \in BranchOps => b \in BranchIds
      /\ \A i \in DOMAIN t.branches : t.branches[i] \in BranchTxn
  BY HandlerData, BranchesDomain DEF Loads, CauseInv, StatusHasCause, Stored
<1>2. CASE call[h].op = "abort"
  <2>1. u.branches = [i \in DOMAIN t.branches |->
                        IF t.branches[i].status # "Succeed"
                        THEN [t.branches[i] EXCEPT !.status = "Failed"]
                        ELSE t.branches[i]]
    BY <1>2 DEF Loads, RolledBack
  <2>2. \A x \in BranchIds : <<g, x, "Failed">> \in evidence
    BY <1>1, <1>2 DEF Recorded
  <2> HIDE DEF t, u, g, b
  <2>3. DOMAIN u.branches = DOMAIN t.branches
    BY <2>1
  <2>4. ASSUME NEW i \in DOMAIN t.branches
        PROVE  {<<g, u.branches[i].branch_id, "Prepared">>,
                <<g, u.branches[i].branch_id, u.branches[i].status>>} \subseteq evidence
    <3>1. /\ u.branches[i].branch_id = t.branches[i].branch_id
          /\ u.branches[i].status \in {t.branches[i].status, "Failed"}
          /\ t.branches[i].branch_id \in BranchIds
      BY <1>1, <2>1 DEF BranchTxn
    <3> QED
      BY <1>1, <2>2, <3>1 DEF Justified
  <2> QED
    BY <2>3, <2>4 DEF Justified, g, u
<1>3. CASE call[h].op = "add_branch"
  <2>1. u.branches = Append(t.branches, [branch_id |-> b, status |-> "Prepared"])
    BY <1>1, <1>3 DEF Loads, WithBranch, GlobalTxn
  <2>2. /\ DOMAIN u.branches = 1..(Len(t.branches) + 1)
        /\ DOMAIN t.branches = 1..Len(t.branches) /\ Len(t.branches) \in Nat
        /\ \A i \in DOMAIN t.branches : u.branches[i] = t.branches[i]
        /\ u.branches[Len(t.branches) + 1] = [branch_id |-> b, status |-> "Prepared"]
    BY <1>1, <2>1 DEF GlobalTxn
  <2>3. <<g, b, "Prepared">> \in evidence
    BY <1>1, <1>3 DEF Recorded
  <2> HIDE DEF t, u, g, b
  <2>4. ASSUME NEW i \in DOMAIN u.branches
        PROVE  {<<g, u.branches[i].branch_id, "Prepared">>,
                <<g, u.branches[i].branch_id, u.branches[i].status>>} \subseteq evidence
    <3>1. CASE i = Len(t.branches) + 1
      BY <2>2, <2>3, <3>1
    <3>2. CASE i \in DOMAIN t.branches
      BY <1>1, <2>2, <3>2 DEF Justified
    <3> QED
      BY <2>2, <3>1, <3>2
  <2> QED
    BY <2>4 DEF Justified, g, u
<1>4. ASSUME NEW s \in {"Succeed", "Failed"}, u = WithBranchStatus(t, b, s),
             <<g, b, s>> \in evidence
      PROVE  Justified(g, u)
  <2>1. u.branches = [i \in DOMAIN t.branches |->
            IF IsFirst(t, b, i) THEN [t.branches[i] EXCEPT !.status = s]
                                ELSE t.branches[i]]
    BY <1>1, <1>4 DEF WithBranchStatus, GlobalTxn
  <2> HIDE DEF t, u, g, b
  <2>2. DOMAIN u.branches = DOMAIN t.branches
    BY <2>1
  <2>3. ASSUME NEW i \in DOMAIN t.branches
        PROVE  {<<g, u.branches[i].branch_id, "Prepared">>,
                <<g, u.branches[i].branch_id, u.branches[i].status>>} \subseteq evidence
    <3>1. /\ u.branches[i].branch_id = t.branches[i].branch_id
          /\ \/ u.branches[i].status = t.branches[i].status
             \/ t.branches[i].branch_id = b /\ u.branches[i].status = s
      BY <1>1, <2>1 DEF BranchTxn, IsFirst
    <3> QED
      BY <1>1, <1>4, <3>1 DEF Justified
  <2> QED
    BY <2>2, <2>3 DEF Justified, g, u
<1>5. CASE call[h].op \in {"branch_succeed", "branch_fail"}
  BY <1>1, <1>4, <1>5 DEF Loads, Recorded
<1>6. CASE call[h].op = "submit"
  <2>1. u = [t EXCEPT !.status = "Committing"]
    BY <1>6 DEF Loads
  <2>2. u.branches = t.branches
    BY <1>1, <2>1, WithStatusType DEF GlobalStatus
  <2> QED
    BY <1>1, <2>2 DEF Justified
<1> QED
  BY <1>2, <1>3, <1>5, <1>6 DEF Loads

\* zip gives every branch the result of its own task.
LEMMA JoinsJustified ==
  ASSUME ShapeInv, CauseInv, NEW h \in Handlers, Joins(h)
  PROVE  Justified(call[h].gid, tx'[h])
<1> DEFINE t == tx[h]
           g == call[h].gid
           u == tx'[h]
<1>1. /\ t \in GlobalTxn
      /\ Justified(g, t)
      /\ Aligned(h)
      /\ tasks[h] \in Seq(Task)
      /\ \A i \in DOMAIN t.branches : t.branches[i] \in BranchTxn
  BY HandlerData, BranchesDomain DEF Joins, CauseInv, ShapeInv, TypeOK
<1>2. u.branches = [i \in DOMAIN t.branches |->
            IF Prepared(t, i) /\ PreparedRank(t, i) \in DOMAIN tasks[h]
            THEN [t.branches[i] EXCEPT !.status =
                    IF tasks[h][PreparedRank(t, i)].state = "ok"
                    THEN "Succeed" ELSE "Failed"]
            ELSE t.branches[i]]
  BY <1>1 DEF Joins, ApplyResults, GlobalTxn
<1>3. ASSUME NEW i \in DOMAIN t.branches
      PROVE  /\ u.branches[i].branch_id = t.branches[i].branch_id
             /\ <<g, t.branches[i].branch_id, u.branches[i].status>> \in evidence
  <2>1. CASE Prepared(t, i) /\ PreparedRank(t, i) \in DOMAIN tasks[h]
    <3> DEFINE k == PreparedRank(t, i)
    <3>1. /\ tasks[h][k] \in Task
          /\ tasks[h][k].state # "running"
          /\ tasks[h][k].branch = t.branches[i].branch_id
          /\ TaskRecorded(h, k)
      BY <1>1, <2>1 DEF Joins, Running, Aligned, CauseInv
    <3>2. /\ u.branches[i].branch_id = t.branches[i].branch_id
          /\ u.branches[i].status = IF tasks[h][k].state = "ok" THEN "Succeed" ELSE "Failed"
      <4> HIDE DEF t, u
      <4> QED
        BY <1>1, <1>2, <2>1 DEF BranchTxn
    <3> HIDE DEF k
    <3> QED
      BY <3>1, <3>2 DEF Task, TaskState, TaskRecorded
  <2>2. CASE ~(Prepared(t, i) /\ PreparedRank(t, i) \in DOMAIN tasks[h])
    BY <1>1, <1>2, <2>2 DEF Justified
  <2> QED
    BY <2>1, <2>2
<1>4. DOMAIN u.branches = DOMAIN t.branches
  BY <1>2
<1> HIDE DEF t, u, g
<1> QED
  BY <1>1, <1>3, <1>4 DEF Justified, g, u
\* A call leaves its record before its handler loads.
LEMMA AcceptRecords ==
  ASSUME ShapeInv, NEW h \in Handlers, NEW r \in Requests, Call(h, r)
  PROVE  Recorded(h)'
<1> DEFINE added ==
         CASE r.op = "add_branch"     -> {<<r.gid, r.branch, "Prepared">>}
           [] r.op = "branch_succeed" -> {<<r.gid, r.branch, "Succeed">>}
           [] r.op = "branch_fail"    -> {<<r.gid, r.branch, "Failed">>}
           [] r.op = "abort"          -> {r.gid} \X BranchIds \X {"Failed"}
           [] OTHER                   -> {}
<1>1. call'[h] = r /\ evidence' = evidence \cup added
  BY DEF Call, Accept, ShapeInv, TypeOK
<1>2. /\ r.op = "add_branch" => <<r.gid, r.branch, "Prepared">> \in added
      /\ r.op = "branch_succeed" => <<r.gid, r.branch, "Succeed">> \in added
      /\ r.op = "branch_fail" => <<r.gid, r.branch, "Failed">> \in added
      /\ r.op = "abort" => \A b \in BranchIds : <<r.gid, b, "Failed">> \in added
  OBVIOUS
<1> HIDE DEF added
<1> QED
  BY <1>1, <1>2 DEF Recorded

\* Whatever happens, a handler that is to load has left its record.
LEMMA CauseRecorded ==
  ASSUME ShapeInv, CauseInv, [Next]_vars, NEW h \in Handlers, pc'[h] = "load"
  PROVE  Recorded(h)'
<1>1. CASE Accepts(h)
  BY <1>1, AcceptRecords DEF Accepts
<1>2. CASE ~Accepts(h)
  <2>1. Stays(h)
    BY <1>2, HandlerStep DEF Empties, Loads, Advances, Joins, Decides
  <2>2. Recorded(h) /\ call'[h] = call[h]
    BY <2>1 DEF Stays, CauseInv
  <2> QED
    BY <2>2, EvidenceGrows DEF Recorded
<1> QED
  BY <1>1, <1>2

\* What the spawn loop does to the tasks, and what the end of one does.
LEMMA SpawnTasks ==
  ASSUME ShapeInv, NEW h \in Handlers, SubmitSpawn(h)
  PROVE  /\ UNCHANGED <<pc, call, tx, evidence>>
         /\ DOMAIN tasks[h] = 1..Len(tasks[h]) /\ Len(tasks[h]) \in Nat
         /\ DOMAIN tasks'[h] = 1..(Len(tasks[h]) + 1)
         /\ \A k \in DOMAIN tasks[h] : tasks'[h][k] = tasks[h][k]
         /\ \E i \in DOMAIN tx[h].branches :
               /\ Prepared(tx[h], i)
               /\ PreparedRank(tx[h], i) = Len(tasks[h]) + 1
               /\ tasks'[h][Len(tasks[h]) + 1] =
                     [branch |-> tx[h].branches[i].branch_id, state |-> "running"]
<1>1. PICK i \in DOMAIN tx[h].branches :
          /\ Prepared(tx[h], i)
          /\ PreparedRank(tx[h], i) = Len(tasks[h]) + 1
          /\ tasks' = [tasks EXCEPT ![h] =
                 Append(@, [branch |-> tx[h].branches[i].branch_id, state |-> "running"])]
  BY DEF SubmitSpawn
<1> DEFINE new == [branch |-> tx[h].branches[i].branch_id, state |-> "running"]
<1>2. tasks[h] \in Seq(Task) /\ tasks'[h] = Append(tasks[h], new)
  BY <1>1 DEF ShapeInv, TypeOK
<1> HIDE DEF new
<1>3. /\ DOMAIN tasks[h] = 1..Len(tasks[h]) /\ Len(tasks[h]) \in Nat
      /\ DOMAIN tasks'[h] = 1..(Len(tasks[h]) + 1)
      /\ \A k \in DOMAIN tasks[h] : tasks'[h][k] = tasks[h][k]
      /\ tasks'[h][Len(tasks[h]) + 1] = new
  BY <1>2
<1>4. UNCHANGED <<pc, call, tx, evidence>>
  BY DEF SubmitSpawn, historyVars
<1> QED
  BY <1>1, <1>3, <1>4 DEF new

LEMMA TaskEndTasks ==
  ASSUME ShapeInv, NEW h \in Handlers, NEW k \in DOMAIN tasks[h], BranchTask(h, k)
  PROVE  /\ UNCHANGED <<pc, call, tx>>
         /\ DOMAIN tasks'[h] = DOMAIN tasks[h]
         /\ \A j \in DOMAIN tasks[h] \ {k} : tasks'[h][j] = tasks[h][j]
         /\ tasks'[h][k].branch = tasks[h][k].branch
         /\ TaskRecorded(h, k)'
<1>1. PICK s \in {"ok", "failed"} :
          /\ TaskEnds(h, k, s)
          /\ s = "ok" => <<call[h].gid, tasks[h][k].branch, "Succeed">> \in evidence'
          /\ s = "failed" => <<call[h].gid, tasks[h][k].branch, "Failed">> \in evidence'
  BY DEF BranchTask, TaskSucceeds, TaskGivesUp
<1>2. tasks[h] \in Seq(Task) /\ tasks[h][k] \in Task
  BY DEF ShapeInv, TypeOK
<1>3. tasks'[h] = [tasks[h] EXCEPT ![k].state = s] /\ UNCHANGED <<pc, call, tx>>
  BY <1>1 DEF TaskEnds, ShapeInv, TypeOK
<1>4. /\ DOMAIN tasks'[h] = DOMAIN tasks[h]
      /\ \A j \in DOMAIN tasks[h] \ {k} : tasks'[h][j] = tasks[h][j]
      /\ tasks'[h][k].branch = tasks[h][k].branch
      /\ tasks'[h][k].state = s
  BY <1>2, <1>3 DEF Task
<1> QED
  BY <1>1, <1>3, <1>4 DEF TaskRecorded

\* The record of every ended task is there.
LEMMA CauseTasks ==
  ASSUME ShapeInv, CauseInv, [Next]_vars, NEW h \in Handlers, NEW k \in DOMAIN tasks'[h]
  PROVE  TaskRecorded(h, k)'
<1>1. CASE tasks'[h] = tasks[h]
  <2>1. pc'[h] # "idle"
    BY ShapeNext DEF ShapeInv, Shape
  <2>2. ~Accepts(h)
    BY <1>1 DEF Accepts, Call, Accept, ShapeInv, Shape
  <2>3. call'[h] = call[h] /\ TaskRecorded(h, k)
    BY <1>1, <2>1, <2>2, FlowKeepsCall DEF CauseInv
  <2> QED
    BY <1>1, <2>3, EvidenceGrows DEF TaskRecorded
<1>2. CASE SubmitSpawn(h)
  <2>1. /\ UNCHANGED <<call, evidence>>
        /\ \/ k \in DOMAIN tasks[h] /\ tasks'[h][k] = tasks[h][k] /\ TaskRecorded(h, k)
           \/ tasks'[h][k].state = "running"
    <3>1. /\ UNCHANGED <<call, evidence>>
          /\ Len(tasks[h]) \in Nat /\ DOMAIN tasks[h] = 1..Len(tasks[h])
          /\ k \in 1..(Len(tasks[h]) + 1)
      BY <1>2, SpawnTasks
    <3>2. CASE k \in DOMAIN tasks[h]
      BY <1>2, <3>1, <3>2, SpawnTasks DEF CauseInv
    <3>3. CASE k = Len(tasks[h]) + 1
      <4>1. PICK i \in DOMAIN tx[h].branches :
                 tasks'[h][Len(tasks[h]) + 1] =
                     [branch |-> tx[h].branches[i].branch_id, state |-> "running"]
        BY <1>2, SpawnTasks
      <4> QED
        BY <3>1, <3>3, <4>1
    <3> QED
      BY <3>1, <3>2, <3>3
  <2> QED
    BY <2>1 DEF TaskRecorded
<1>3. CASE \E j \in DOMAIN tasks[h] : BranchTask(h, j)
  <2>1. PICK j \in DOMAIN tasks[h] : BranchTask(h, j)
    BY <1>3
  <2>2. CASE k = j
    BY <2>1, <2>2, TaskEndTasks
  <2>3. CASE k # j
    <3>1. /\ k \in DOMAIN tasks[h] /\ tasks'[h][k] = tasks[h][k]
          /\ call'[h] = call[h] /\ TaskRecorded(h, k)
      BY <2>1, <2>3, TaskEndTasks DEF CauseInv
    <3> QED
      BY <3>1, EvidenceGrows DEF TaskRecorded
  <2> QED
    BY <2>2, <2>3
<1>4. CASE tasks'[h] = <<>>
  BY <1>4
<1> QED
  BY <1>1, <1>2, <1>3, <1>4, TasksStep

\* Handles and prepared branches stay aligned.
LEMMA CauseAligned ==
  ASSUME ShapeInv, CauseInv, [Next]_vars, NEW h \in Handlers, pc'[h] = "spawn"
  PROVE  Aligned(h)'
<1>1. CASE tasks'[h] = <<>>
  BY <1>1 DEF Aligned
<1>2. CASE Stays(h) /\ tasks'[h] # <<>>
  <2>1. tx'[h] = tx[h] /\ pc[h] = "spawn" /\ tx[h] \in GlobalTxn /\ Aligned(h)
    BY <1>2, HandlerData DEF Stays, CauseInv
  <2>2. CASE tasks'[h] = tasks[h]
    BY <2>1, <2>2 DEF Aligned, Prepared, PreparedRank
  <2>3. CASE SubmitSpawn(h)
    <3> SUFFICES ASSUME NEW i \in DOMAIN tx[h].branches, Prepared(tx[h], i),
                        PreparedRank(tx[h], i) \in DOMAIN tasks'[h]
                 PROVE  tasks'[h][PreparedRank(tx[h], i)].branch = tx[h].branches[i].branch_id
      BY <2>1 DEF Aligned, Prepared, PreparedRank
    <3>1. PICK j \in DOMAIN tx[h].branches :
               /\ Prepared(tx[h], j)
               /\ PreparedRank(tx[h], j) = Len(tasks[h]) + 1
               /\ tasks'[h][Len(tasks[h]) + 1] =
                     [branch |-> tx[h].branches[j].branch_id, state |-> "running"]
      BY <2>3, SpawnTasks
    <3>2. CASE PreparedRank(tx[h], i) \in DOMAIN tasks[h]
      BY <2>1, <2>3, <3>2, SpawnTasks DEF Aligned
    <3>3. CASE PreparedRank(tx[h], i) = Len(tasks[h]) + 1
      <4>1. i = j
        BY <2>1, <3>1, <3>3, RankInjective
      <4> QED
        BY <3>1, <3>3, <4>1
    <3> QED
      BY <2>3, <3>2, <3>3, SpawnTasks
  <2>4. CASE \E k \in DOMAIN tasks[h] : BranchTask(h, k)
    <3>1. /\ DOMAIN tasks'[h] = DOMAIN tasks[h]
          /\ \A j \in DOMAIN tasks[h] : tasks'[h][j].branch = tasks[h][j].branch
      BY <2>4, TaskEndTasks
    <3> QED
      BY <2>1, <3>1 DEF Aligned, Prepared, PreparedRank
  <2> QED
    BY <1>2, <2>2, <2>3, <2>4, TasksStep
<1>3. CASE ~Stays(h)
  <2>1. pc[h] = "mark"
    BY <1>3, HandlerStep DEF Empties, Loads, Advances, Joins, Decides, Accepts, Call,
       Accept, ShapeInv, TypeOK
  <2>2. tasks[h] = <<>>
    BY <2>1 DEF ShapeInv, Shape
  <2> QED
    BY <1>1, <2>1, <2>2, TasksStep DEF SubmitSpawn
<1> QED
  BY <1>1, <1>2, <1>3

LEMMA CauseNext == ShapeInv /\ CauseInv /\ [Next]_vars => CauseInv'
<1> SUFFICES ASSUME ShapeInv, CauseInv, [Next]_vars PROVE CauseInv'
  OBVIOUS
<1>1. ASSUME NEW g \in Gids, store'[g] # NoTxn PROVE Justified(g, store[g])'
  <2>1. Justified(g, store'[g])
    <3>1. CASE store'[g] = store[g]
      BY <1>1, <3>1 DEF CauseInv, StatusHasCause
    <3>2. CASE store'[g] # store[g]
      <4>1. PICK h \in Handlers : /\ pc[h] \in Writing \cup {"zombie"}
                                  /\ call[h].gid = g
                                  /\ store'[g] = tx[h]
        BY <3>2, StoreStep
      <4> QED
        BY <1>1, <4>1 DEF CauseInv, Writing
    <3> QED
      BY <3>1, <3>2
  <2> QED
    BY <2>1, EvidenceGrows DEF Justified
<1>2. ASSUME NEW h \in Handlers, pc'[h] # "idle", tx'[h] # NoTxn
      PROVE  Justified(call[h].gid, tx[h])'
  <2>1. CASE Accepts(h)
    <3>1. tx'[h].branches = <<>>
      BY <1>2, <2>1 DEF Accepts, Call, Accept, NewTxn, ShapeInv, TypeOK
    <3> QED
      BY <3>1 DEF Justified
  <2>2. CASE ~Accepts(h)
    <3>1. call'[h] = call[h] /\ pc[h] # "idle"
      BY <1>2, <2>2, FlowKeepsCall
    <3>2. Justified(call[h].gid, tx'[h])
      <4>1. CASE Stays(h) \/ Empties(h) \/ Advances(h)
        BY <1>2, <3>1, <4>1 DEF Stays, Empties, Advances, CauseInv
      <4>2. CASE Decides(h)
        BY <3>1, <4>2, HandlerData, DecidedType DEF Decides, CauseInv, Justified, Writing
      <4> QED
        BY <2>2, <4>1, <4>2, HandlerStep, LoadsJustified, JoinsJustified
    <3> QED
      BY <3>1, <3>2, EvidenceGrows DEF Justified
  <2> QED
    BY <2>1, <2>2
<1>3. ASSUME NEW h \in Handlers, pc'[h] = "load" PROVE Recorded(h)'
  BY <1>3, CauseRecorded
<1>4. ASSUME NEW h \in Handlers, NEW k \in DOMAIN tasks'[h] PROVE TaskRecorded(h, k)'
  BY CauseTasks
<1>5. ASSUME NEW h \in Handlers, pc'[h] = "spawn" PROVE Aligned(h)'
  BY <1>5, CauseAligned
<1> QED
  BY <1>1, <1>2, <1>3, <1>4, <1>5 DEF CauseInv, StatusHasCause

\* No race, fault or late write credits a branch with a status that is not its
\* own: every stored status was reported for that branch, or is the result of a
\* task that called it, or the mark of an abort.
THEOREM StatusesHaveCause == Spec => []StatusHasCause
<1>1. Init => CauseInv
  BY DEF Init, CauseInv, StatusHasCause
<1>2. CauseInv => StatusHasCause
  BY DEF CauseInv
<1> QED
  BY <1>1, <1>2, CauseNext, ShapeAlways, PTL DEF Spec
-----------------------------------------------------------------------------
(* The spawn loop goes on, and calls nobody twice.                         *)

\* Every rank up to the number of prepared branches is the rank of one: there
\* are as many ranks as branches, and no two branches share one. So the spawn
\* loop finds a branch for the next handle until the last.
LEMMA RankOnto ==
  ASSUME NEW t \in GlobalTxn, NEW k \in 1..PreparedCount(t)
  PROVE  \E i \in DOMAIN t.branches : Prepared(t, i) /\ PreparedRank(t, i) = k
<1> DEFINE P == {i \in 1..Len(t.branches) : Prepared(t, i)}
           n == PreparedCount(t)
           R == (1..n) \ {k}
           f == [i \in P |-> PreparedRank(t, i)]
<1>1. Len(t.branches) \in Nat /\ DOMAIN t.branches = 1..Len(t.branches)
  BY BranchesDomain
<1>2. IsFiniteSet(P) /\ Cardinality(P) = n /\ n \in Nat
  <2>1. IsFiniteSet(1..Len(t.branches))
    BY <1>1, FS_Interval
  <2>2. P \in SUBSET (1..Len(t.branches))
    OBVIOUS
  <2>3. IsFiniteSet(P)
    BY <2>1, <2>2, FS_Subset
  <2>4. Cardinality(P) = n
    BY DEF PreparedCount, PreparedRank
  <2> QED
    BY <2>3, <2>4, FS_CardinalityType
<1>3. IsFiniteSet(R) /\ Cardinality(R) < Cardinality(P)
  <2>1. IsFiniteSet(1..n) /\ Cardinality(1..n) = n /\ k \in 1..n
    <3> HIDE DEF n
    <3>1. IsFiniteSet(1..n) /\ Cardinality(1..n) = IF 1 > n THEN 0 ELSE n - 1 + 1
      BY <1>2, FS_Interval
    <3>2. k \in 1..n
      BY DEF n
    <3> QED
      BY <1>2, <3>1, <3>2
  <2> HIDE DEF n
  <2>2. IsFiniteSet(R) /\ Cardinality(R) = n - 1
    BY <2>1, FS_RemoveElement
  <2> QED
    BY <1>2, <2>2
<1> SUFFICES ASSUME \A i \in P : PreparedRank(t, i) # k PROVE FALSE
  BY <1>1
<1>4. f \in [P -> R]
  <2> SUFFICES ASSUME NEW i \in P PROVE PreparedRank(t, i) \in R
    OBVIOUS
  <2> QED
    BY <1>1, RankBound
<1> HIDE DEF R, f
<1>5. PICK i \in P, j \in P : i # j /\ f[i] = f[j]
  <2> HIDE DEF P
  <2> QED
    BY <1>2, <1>3, <1>4, FS_PigeonHole
<1> QED
  BY <1>1, <1>5, RankInjective DEF f

\* The strengthening: the loop never runs past the last prepared branch, and the
\* tasks of a submit call different branches.
LoopInv ==
    /\ \A h \in Handlers : pc[h] = "spawn" => Len(tasks[h]) <= PreparedCount(tx[h])
    /\ OneCallPerSubmit

\* The number of prepared branches of a copy is a number.
LEMMA PreparedCountType ==
  ASSUME NEW t \in GlobalTxn
  PROVE  PreparedCount(t) \in Nat
<1>1. IsFiniteSet(1..Len(t.branches))
  BY BranchesDomain, FS_Interval
<1>2. {i \in 1..Len(t.branches) : Prepared(t, i)} \in SUBSET (1..Len(t.branches))
  OBVIOUS
<1> QED
  BY <1>1, <1>2, FS_Subset, FS_CardinalityType DEF PreparedCount, PreparedRank

\* The next task calls a branch that no earlier one calls: theirs have lower
\* ranks, and ids are unique in the copy.
LEMMA NextTaskCallsAnother ==
  ASSUME ShapeInv, UniqueInv, CauseInv, LoopInv, NEW h \in Handlers, pc[h] = "spawn",
         NEW i \in DOMAIN tx[h].branches, Prepared(tx[h], i),
         PreparedRank(tx[h], i) = Len(tasks[h]) + 1,
         NEW k \in DOMAIN tasks[h]
  PROVE  tasks[h][k].branch # tx[h].branches[i].branch_id
<1>1. tx[h] \in GlobalTxn /\ UniqueIds(tx[h]) /\ Aligned(h)
  BY HandlerData DEF UniqueInv, CauseInv
<1>2. /\ Len(tasks[h]) \in Nat /\ DOMAIN tasks[h] = 1..Len(tasks[h])
      /\ Len(tasks[h]) <= PreparedCount(tx[h])
  BY DEF ShapeInv, TypeOK, LoopInv
<1>3. PICK j \in DOMAIN tx[h].branches : Prepared(tx[h], j) /\ PreparedRank(tx[h], j) = k
  BY <1>1, <1>2, RankOnto, PreparedCountType
<1>4. tasks[h][k].branch = tx[h].branches[j].branch_id /\ i # j
  BY <1>1, <1>2, <1>3 DEF Aligned
<1> QED
  BY <1>1, <1>4 DEF UniqueIds

LEMMA LoopNext ==
  ShapeInv /\ UniqueInv /\ CauseInv /\ LoopInv /\ [Next]_vars => LoopInv'
<1> SUFFICES ASSUME ShapeInv, UniqueInv, CauseInv, LoopInv, [Next]_vars PROVE LoopInv'
  OBVIOUS
<1>1. ASSUME NEW h \in Handlers
      PROVE  /\ pc'[h] = "spawn" => Len(tasks'[h]) <= PreparedCount(tx'[h])
             /\ \A j, k \in DOMAIN tasks'[h] :
                   tasks'[h][j].branch = tasks'[h][k].branch => j = k
  <2>1. CASE SubmitSpawn(h)
    <3>1. PICK i \in DOMAIN tx[h].branches :
               /\ Prepared(tx[h], i)
               /\ PreparedRank(tx[h], i) = Len(tasks[h]) + 1
               /\ tasks'[h][Len(tasks[h]) + 1] =
                     [branch |-> tx[h].branches[i].branch_id, state |-> "running"]
      BY <2>1, SpawnTasks
    <3>2. /\ pc[h] = "spawn" /\ tx'[h] = tx[h] /\ tx[h] \in GlobalTxn
          /\ Len(tasks[h]) \in Nat /\ DOMAIN tasks[h] = 1..Len(tasks[h])
          /\ DOMAIN tasks'[h] = 1..(Len(tasks[h]) + 1)
          /\ \A k \in DOMAIN tasks[h] : tasks'[h][k] = tasks[h][k]
      BY <2>1, SpawnTasks, HandlerData DEF SubmitSpawn
    <3>3. Len(tasks'[h]) = Len(tasks[h]) + 1
      BY <3>2, ShapeNext DEF ShapeInv, TypeOK
    <3>4. Len(tasks[h]) + 1 <= PreparedCount(tx[h])
      BY <3>1, <3>2, RankBound, PreparedCountType
    <3>5. \A k \in DOMAIN tasks[h] : tasks'[h][k].branch # tasks'[h][Len(tasks[h]) + 1].branch
      BY <3>1, <3>2, NextTaskCallsAnother
    <3>6. \A j, k \in DOMAIN tasks[h] : tasks'[h][j].branch = tasks'[h][k].branch => j = k
      BY <3>2 DEF LoopInv, OneCallPerSubmit
    <3>7. \A k \in DOMAIN tasks'[h] : k \in DOMAIN tasks[h] \/ k = Len(tasks[h]) + 1
      BY <3>2
    <3> QED
      BY <3>2, <3>3, <3>4, <3>5, <3>6, <3>7
  <2>2. CASE \E k \in DOMAIN tasks[h] : BranchTask(h, k)
    <3>1. /\ UNCHANGED <<pc, tx>>
          /\ DOMAIN tasks'[h] = DOMAIN tasks[h]
          /\ \A j \in DOMAIN tasks[h] : tasks'[h][j].branch = tasks[h][j].branch
      BY <2>2, TaskEndTasks
    <3>2. Len(tasks'[h]) = Len(tasks[h])
      BY <3>1, ShapeNext DEF ShapeInv, TypeOK
    <3> QED
      BY <3>1, <3>2 DEF LoopInv, OneCallPerSubmit
  <2>3. CASE tasks'[h] = tasks[h]
    <3>1. CASE pc'[h] = "spawn" /\ ~Stays(h)
      <4>1. pc[h] = "mark" /\ tx'[h] = tx[h] /\ tx[h] \in GlobalTxn
        BY <3>1, HandlerStep, HandlerData DEF Empties, Loads, Advances, Joins, Decides,
           Accepts, Call, Accept, ShapeInv, TypeOK, Writing
      <4>2. Len(tasks[h]) = 0
        BY <4>1 DEF ShapeInv, Shape
      <4> QED
        BY <2>3, <4>1, <4>2, PreparedCountType DEF LoopInv, OneCallPerSubmit
    <3> QED
      BY <2>3, <3>1 DEF Stays, LoopInv, OneCallPerSubmit
  <2>4. CASE tasks'[h] = <<>>
    <3>1. pc'[h] = "spawn" => tx'[h] \in GlobalTxn
      BY ShapeNext DEF ShapeInv, Shape
    <3>2. pc'[h] = "spawn" => PreparedCount(tx'[h]) \in Nat
      BY <3>1, PreparedCountType
    <3> QED
      BY <2>4, <3>2
  <2> QED
    BY <2>1, <2>2, <2>3, <2>4, TasksStep
<1>2. \A h \in Handlers : (pc[h] = "spawn" => Len(tasks[h]) <= PreparedCount(tx[h]))'
  BY <1>1 DEF PreparedCount, PreparedRank, Prepared
<1>3. OneCallPerSubmit'
  BY <1>1 DEF OneCallPerSubmit
<1> QED
  BY <1>2, <1>3 DEF LoopInv

LEMMA LoopAlways == Spec => [](ShapeInv /\ LoopInv)
<1>1. Init => UniqueInv /\ CauseInv /\ LoopInv
  BY DEF Init, UniqueInv, CauseInv, StatusHasCause, LoopInv, OneCallPerSubmit
<1> QED
  BY <1>1, UniqueNext, CauseNext, LoopNext, ShapeAlways, PTL DEF Spec

\* A submit whose tasks have ended has a step to take, for any number of branches
\* and any branch_parallelism, 0 included: all permits are back, and the next rank
\* is that of a branch.
THEOREM SubmitsGoOn == Spec => []SubmitGoesOn
<1>1. ASSUME ShapeInv, LoopInv PROVE SubmitGoesOn
  <2> SUFFICES ASSUME NEW h \in Handlers, pc[h] = "spawn", Running(h) = {},
                      Len(tasks[h]) # PreparedCount(tx[h])
               PROVE  /\ permits[h] > 0
                      /\ \E i \in DOMAIN tx[h].branches :
                            /\ Prepared(tx[h], i)
                            /\ PreparedRank(tx[h], i) = Len(tasks[h]) + 1
    BY DEF SubmitGoesOn
  <2>1. permits[h] > 0
    <3>1. permits[h] \in 0..SemaphoreSize
      BY <1>1 DEF ShapeInv, TypeOK
    <3>2. permits[h] + Cardinality(Running(h)) = SemaphoreSize
      BY <1>1 DEF ShapeInv, Shape
    <3> QED
      BY <3>1, <3>2, FS_EmptySet, SemaphoreSizeType
  <2>2. tx[h] \in GlobalTxn /\ PreparedCount(tx[h]) \in Nat
    BY <1>1, HandlerData, PreparedCountType
  <2>3. Len(tasks[h]) + 1 \in 1..PreparedCount(tx[h])
    BY <1>1, <2>2 DEF LoopInv, ShapeInv, TypeOK
  <2> QED
    BY <2>1, <2>2, <2>3, RankOnto
<1> QED
  BY <1>1, LoopAlways, PTL

\* A submit, attached or detached, calls no participant twice for one branch, for
\* any clients, faults and number of branches.
THEOREM SubmitsCallOnce == Spec => []OneCallPerSubmit
<1>1. LoopInv => OneCallPerSubmit
  BY DEF LoopInv
<1> QED
  BY <1>1, LoopAlways, PTL

Untouched(h) == UNCHANGED <<pc[h], call[h], tx[h], tasks[h], permits[h]>>

\* A step of another handler touches nothing of h.
LEMMA OthersUntouched ==
  ASSUME ShapeInv, NEW g \in Handlers, NEW h \in Handlers, g # h,
         \/ \E r \in Requests : Call(g, r)
         \/ Operation(g)
         \/ \E k \in DOMAIN tasks[g] : BranchTask(g, k)
         \/ StorageError(g)
         \/ RequestDropped(g)
  PROVE  Untouched(h)
<1> USE DEF ShapeInv, TypeOK, Untouched, Proceed, Return
<1>1. CASE \E r \in Requests : Call(g, r)
  BY <1>1 DEF Call, Accept
<1>2. CASE Operation(g)
  BY <1>2 DEF Operation, LoadMissing, AbortLoad, AddBranchLoad, BranchSucceedLoad,
     BranchFailLoad, BranchReport, SubmitLoad, SubmitMark, SubmitSpawn, SubmitJoin,
     SubmitSaveResults, Save, LateWriteLands, LateWriteLost, DetachedTasksEnd
<1>3. CASE \E k \in DOMAIN tasks[g] : BranchTask(g, k)
  BY <1>3 DEF BranchTask, TaskSucceeds, TaskGivesUp, TaskEnds
<1>4. CASE StorageError(g) \/ RequestDropped(g)
  BY <1>4 DEF StorageError, RequestDropped, Abandon, Detach
<1> QED
  BY <1>1, <1>2, <1>3, <1>4

\* A step in which permits are given or taken changes the number of running tasks
\* by as many.
LEMMA RunningCount ==
  ASSUME ShapeInv, ShapeInv', NEW h \in Handlers, pc[h] \in {"spawn", "detached"},
         UNCHANGED pc[h]
  PROVE  /\ Cardinality(Running(h)) \in Nat
         /\ Cardinality(Running(h))' \in Nat
         /\ Cardinality(Running(h))' - Cardinality(Running(h)) = permits[h] - permits'[h]
<1>1. Cardinality(Running(h)) \in Nat /\ Cardinality(Running(h))' \in Nat
  <2>1. Cardinality(Running(h)) \in Nat
    BY RunningFinite DEF ShapeInv
  <2>2. Running(h)' \in SUBSET (1..Len(tasks'[h])) /\ Len(tasks'[h]) \in Nat
    BY DEF ShapeInv, TypeOK, Running
  <2>3. IsFiniteSet(1..Len(tasks'[h]))
    BY <2>2, FS_Interval
  <2> QED
    BY <2>1, <2>2, <2>3, FS_Subset, FS_CardinalityType
<1>2. permits[h] \in 0..SemaphoreSize /\ permits'[h] \in 0..SemaphoreSize
  BY DEF ShapeInv, TypeOK
<1>3. /\ permits[h] + Cardinality(Running(h)) = SemaphoreSize
      /\ permits'[h] + Cardinality(Running(h))' = SemaphoreSize
  BY DEF ShapeInv, Shape
<1> QED
  BY <1>1, <1>2, <1>3, SemaphoreSizeType

\* One more task is spawned, and none beyond the prepared branches.
LEMMA SpawnCloser ==
  ASSUME ShapeInv, ShapeInv', LoopInv, LoopInv', NEW h \in Handlers, SubmitSpawn(h)
  PROVE  ComesCloser(h)
<1> DEFINE n == PreparedCount(tx[h])
<1>1. /\ pc[h] = "spawn" /\ pc'[h] = "spawn" /\ tx'[h] = tx[h] /\ tx[h] \in GlobalTxn
      /\ permits[h] \in Nat /\ permits'[h] = permits[h] - 1
  <2>1. permits[h] \in 0..SemaphoreSize
    BY DEF ShapeInv, TypeOK
  <2> QED
    BY <2>1, SemaphoreSizeType, HandlerData DEF SubmitSpawn, ShapeInv, TypeOK
<1>2. /\ Len(tasks[h]) \in Nat
      /\ Len(tasks'[h]) = Len(tasks[h]) + 1
  <2>1. /\ Len(tasks[h]) \in Nat
        /\ DOMAIN tasks'[h] = 1..(Len(tasks[h]) + 1)
    BY SpawnTasks
  <2> QED
    BY <2>1 DEF ShapeInv, TypeOK
<1>3. n \in Nat /\ Len(tasks'[h]) <= n
  BY <1>1, PreparedCountType DEF LoopInv, PreparedCount, PreparedRank, Prepared
<1>4. /\ Cardinality(Running(h)) \in Nat
      /\ Cardinality(Running(h))' = Cardinality(Running(h)) + 1
  BY <1>1, RunningCount
<1>5. /\ Left(h) = 2 * (n - Len(tasks[h])) + Cardinality(Running(h))
      /\ Left(h)' = 2 * (n - Len(tasks'[h])) + Cardinality(Running(h))'
  BY <1>1 DEF Left, PreparedCount, PreparedRank, Prepared
<1> HIDE DEF n
<1>6. Left(h)' = Left(h) - 1 /\ Left(h)' \in Nat /\ Left(h) \in Nat
  <2> DEFINE d == n - Len(tasks'[h])
             c == Cardinality(Running(h))
  <2>1. d \in Nat /\ c \in Nat /\ n - Len(tasks[h]) = d + 1
    BY <1>2, <1>3, <1>4
  <2>2. Left(h) = 2 * (d + 1) + c /\ Left(h)' = 2 * d + (c + 1)
    BY <1>4, <1>5, <2>1
  <2> HIDE DEF d, c
  <2> QED
    BY <2>1, <2>2
<1> QED
  BY <1>1, <1>6 DEF ComesCloser, Stage

\* One task fewer runs.
LEMMA TaskCloser ==
  ASSUME ShapeInv, ShapeInv', LoopInv, NEW h \in Handlers, NEW k \in DOMAIN tasks[h],
         BranchTask(h, k)
  PROVE  ComesCloser(h)
<1>1. /\ pc[h] \in {"spawn", "detached"} /\ pc'[h] = pc[h] /\ tx'[h] = tx[h]
      /\ permits[h] \in Nat /\ permits'[h] = permits[h] + 1
  <2>1. permits[h] \in 0..SemaphoreSize
    BY DEF ShapeInv, TypeOK
  <2>2. pc[h] \in {"spawn", "detached"}
    BY DEF BranchTask, TaskSucceeds, TaskGivesUp, TaskEnds, Running, ShapeInv, Shape
  <2> QED
    BY <2>1, <2>2, SemaphoreSizeType
    DEF BranchTask, TaskSucceeds, TaskGivesUp, TaskEnds, ShapeInv, TypeOK
<1>2. Len(tasks[h]) \in Nat /\ Len(tasks'[h]) = Len(tasks[h])
  <2>1. DOMAIN tasks'[h] = DOMAIN tasks[h]
    BY TaskEndTasks
  <2> QED
    BY <2>1 DEF ShapeInv, TypeOK
<1>3. /\ Cardinality(Running(h))' \in Nat
      /\ Cardinality(Running(h)) = Cardinality(Running(h))' + 1
  BY <1>1, RunningCount
<1>4. Stage(h)' = Stage(h)
  BY <1>1 DEF Stage
<1>5. CASE pc[h] = "spawn"
  <2> DEFINE n == PreparedCount(tx[h])
  <2>1. n \in Nat /\ Len(tasks[h]) <= n
    BY <1>5, HandlerData, PreparedCountType DEF LoopInv
  <2>2. /\ Left(h) = 2 * (n - Len(tasks[h])) + Cardinality(Running(h))
        /\ Left(h)' = 2 * (n - Len(tasks'[h])) + Cardinality(Running(h))'
    BY <1>1, <1>5 DEF Left, PreparedCount, PreparedRank, Prepared
  <2> HIDE DEF n
  <2>3. Left(h)' < Left(h) /\ Left(h)' \in Nat
    BY <1>2, <1>3, <2>1, <2>2
  <2> QED
    BY <1>4, <2>3 DEF ComesCloser
<1>6. CASE pc[h] = "detached"
  <2>1. Left(h) = Cardinality(Running(h)) /\ Left(h)' = Cardinality(Running(h))'
    BY <1>1, <1>6 DEF Left
  <2> QED
    BY <1>3, <1>4, <2>1 DEF ComesCloser
<1> QED
  BY <1>1, <1>5, <1>6

\* Every other step of a request brings it to a later stage.
LEMMA OperationCloser ==
  ASSUME ShapeInv, NEW h \in Handlers, pc[h] # "idle", ~SubmitSpawn(h),
         Operation(h) \/ StorageError(h) \/ RequestDropped(h)
  PROVE  ComesCloser(h)
<1> USE DEF ShapeInv, TypeOK, Proceed, Return, ComesCloser, Stage
<1>1. CASE LoadMissing(h) \/ AbortLoad(h) \/ SubmitLoad(h)
  BY <1>1 DEF LoadMissing, AbortLoad, SubmitLoad, Loading
<1>2. CASE AddBranchLoad(h) \/ BranchSucceedLoad(h) \/ BranchFailLoad(h)
  BY <1>2 DEF AddBranchLoad, BranchSucceedLoad, BranchFailLoad, BranchReport, Loading
<1>3. CASE SubmitMark(h) \/ SubmitJoin(h) \/ SubmitSaveResults(h) \/ Save(h)
  BY <1>3 DEF SubmitMark, SubmitJoin, SubmitSaveResults, Save
<1>4. CASE LateWriteLands(h) \/ LateWriteLost(h) \/ DetachedTasksEnd(h)
  BY <1>4 DEF LateWriteLands, LateWriteLost, DetachedTasksEnd
<1>5. CASE StorageError(h) \/ RequestDropped(h)
  BY <1>5 DEF StorageError, RequestDropped, Abandon, Detach, Writing
<1> QED
  BY <1>1, <1>2, <1>3, <1>4, <1>5 DEF Operation

\* Whatever the clients, handlers, faults and branches are, each step either leaves
\* a request alone or brings it closer to its end in a well-founded order. With
\* SubmitsGoOn, a submit whose tasks end is neither kept going nor kept waiting.
THEOREM RequestsOnlyAdvance == Spec => RequestsAdvance
<1>1. ASSUME ShapeInv, ShapeInv', LoopInv, LoopInv', [Next]_vars, NEW h \in Handlers,
             pc[h] # "idle"
      PROVE  Untouched(h) \/ ComesCloser(h)
  <2>1. ASSUME NEW g \in Handlers, NEW r \in Requests, Call(g, r)
        PROVE  Untouched(h)
    <3>1. g # h
      BY <1>1, <2>1 DEF Call, Accept
    <3> QED
      BY <1>1, <2>1, <3>1, OthersUntouched
  <2>2. ASSUME NEW g \in Handlers, Operation(g)
        PROVE  Untouched(h) \/ ComesCloser(h)
    BY <1>1, <2>2, OthersUntouched, SpawnCloser, OperationCloser
  <2>3. ASSUME NEW g \in Handlers, NEW k \in DOMAIN tasks[g], BranchTask(g, k)
        PROVE  Untouched(h) \/ ComesCloser(h)
    BY <1>1, <2>3, OthersUntouched, TaskCloser
  <2>4. ASSUME NEW g \in Handlers, StorageError(g) \/ RequestDropped(g)
        PROVE  Untouched(h) \/ ComesCloser(h)
    <3>1. CASE g # h
      BY <1>1, <2>4, <3>1, OthersUntouched
    <3>2. CASE g = h /\ ~SubmitSpawn(h)
      BY <1>1, <2>4, <3>2, OperationCloser
    <3>3. CASE SubmitSpawn(h)
      BY <1>1, <3>3, SpawnCloser
    <3> QED
      BY <3>1, <3>2, <3>3
  <2>5. CASE Crash
    BY <1>1, <2>5 DEF Crash, ComesCloser, Stage, ShapeInv, TypeOK, PC, Unanswered, Writing
  <2>6. CASE UNCHANGED vars
    BY <2>6 DEF vars, handlerVars, Untouched
  <2> QED
    BY <1>1, <2>1, <2>2, <2>3, <2>4, <2>5, <2>6 DEF Next, Fault
<1>2. ShapeInv /\ ShapeInv' /\ LoopInv /\ LoopInv' /\ [Next]_vars =>
         [\A h \in Handlers : pc[h] # "idle" =>
            UNCHANGED <<pc[h], call[h], tx[h], tasks[h], permits[h]>> \/ ComesCloser(h)]_vars
  BY <1>1 DEF Untouched
<1> QED
  BY <1>2, LoopAlways, PTL DEF Spec, RequestsAdvance
-----------------------------------------------------------------------------
(* The documented flow without faults: nothing is lost or left undecided.  *)

\* A client has asked to add b to g.
Asked(g, b) == <<g, b, "Prepared">> \in evidence

Adding(h, g, b) ==
    pc[h] # "idle" /\ call[h].op = "add_branch" /\ call[h].gid = g /\ call[h].branch = b

Deciding(h, g) == pc[h] # "idle" /\ call[h].op \in Decisions /\ call[h].gid = g

\* Who works on a transaction when: it is started first and alone, branch operations are
\* alone, and no handler is gone while its put or its tasks are outstanding.
OrderInv ==
    /\ \A h \in Handlers : pc[h] \notin {"zombie", "detached"}
    /\ \A h \in Handlers : pc[h] # "idle" /\ call[h].op = "start" =>
          pc[h] = "save" /\ \A b \in BranchIds : ~Asked(call[h].gid, b)
    /\ \A g \in Gids, b \in BranchIds : Asked(g, b) => phase[g] # "new"
    /\ \A h, x \in Handlers :
          pc[h] # "idle" /\ pc[x] # "idle" /\ h # x /\ call[h].gid = call[x].gid =>
              call[h].op \in Decisions /\ call[x].op \in Decisions
    /\ \A g \in Gids : phase[g] # "new" =>
          \/ store[g] # NoTxn
          \/ \E h \in Handlers : pc[h] # "idle" /\ call[h].gid = g /\ call[h].op = "start"

\* A branch that was asked for is listed in what is stored and in every copy that may be
\* stored, or its request is still being worked on.
KeptInv ==
    /\ \A g \in Gids, b \in BranchIds : Asked(g, b) =>
          \/ store[g] # NoTxn /\ HasBranch(store[g], b)
          \/ \E h \in Handlers : Adding(h, g, b)
    /\ \A h \in Handlers : pc[h] \in Writing \cup {"spawn"} /\ call[h].op # "start" =>
          \A b \in BranchIds : Asked(call[h].gid, b) => HasBranch(tx[h], b)

\* A transaction that was to be decided is, or a submit or an abort of it is under way;
\* and their last copies have a final status.
QuietInv ==
    /\ \A g \in Gids : phase[g] = "deciding" /\ store[g] # NoTxn =>
          store[g].status \in Terminal \/ \E h \in Handlers : Deciding(h, g)
    /\ \A h \in Handlers : pc[h] = "save" /\ call[h].op \in Decisions => tx[h].status \in Terminal

LEMMA Working ==
    ASSUME NEW h \in Handlers, Operation(h) PROVE pc[h] # "idle"
  BY DEF Operation, LoadMissing, AbortLoad, AddBranchLoad, BranchSucceedLoad, BranchFailLoad,
     BranchReport, SubmitLoad, SubmitMark, SubmitSpawn, SubmitJoin, SubmitSaveResults, Save,
     LateWriteLands, LateWriteLost, DetachedTasksEnd, Loading, Writing

LEMMA OtherGids ==
    ASSUME ShapeInv, NEW h \in Handlers, Operation(h), NEW g \in Gids, g # call[h].gid
    PROVE  store'[g] = store[g]
  BY DEF Operation, LoadMissing, AbortLoad, AddBranchLoad, BranchSucceedLoad, BranchFailLoad,
     BranchReport, SubmitLoad, SubmitMark, SubmitSpawn, SubmitJoin, SubmitSaveResults, Save,
     LateWriteLands, LateWriteLost, DetachedTasksEnd, Put, ShapeInv, TypeOK

\* How an operation ends or goes on when no handler is ever abandoned.
LEMMA FaultlessOperation ==
    ASSUME ShapeInv, NEW h \in Handlers, Operation(h), pc[h] \notin {"zombie", "detached"},
           call[h].op = "start" => pc[h] = "save"
    PROVE  /\ call[h].gid \in Gids /\ UNCHANGED <<phase, evidence>>
           /\ pc'[h] \notin {"zombie", "detached"}
           /\ \/ /\ pc'[h] # "idle" /\ call'[h] = call[h] /\ call[h].op # "start"
                 /\ \/ store' = store
                    \/ pc[h] \in Writing /\ store'[call[h].gid] = tx[h]
              \/ Save(h) /\ pc'[h] = "idle" /\ store'[call[h].gid] = tx[h]
              \/ pc'[h] = "idle" /\ store' = store /\ Stored(h) = NoTxn
              \/ /\ pc'[h] = "idle" /\ store' = store /\ call[h].op \in BranchOps
                 /\ call[h].op = "add_branch" => HasBranch(Stored(h), call[h].branch)
  <1> USE DEF ShapeInv, TypeOK, Proceed, Return, Loading, historyVars
  <1>1. call[h].gid \in Gids /\ Shape(h)
        BY Working, HandlerData
  <1>2. CASE LoadMissing(h) \/ AbortLoad(h) \/ AddBranchLoad(h) \/ BranchSucceedLoad(h)
             \/ BranchFailLoad(h) \/ SubmitLoad(h)
        BY <1>1, <1>2 DEF LoadMissing, AbortLoad, AddBranchLoad, BranchSucceedLoad,
           BranchFailLoad, BranchReport, SubmitLoad, BranchOps
  <1>3. CASE SubmitMark(h) \/ SubmitSpawn(h) \/ SubmitJoin(h) \/ SubmitSaveResults(h)
        BY <1>1, <1>3 DEF SubmitMark, SubmitSpawn, SubmitJoin, SubmitSaveResults, Put, Shape, Writing
  <1>4. CASE Save(h)
        BY <1>1, <1>4 DEF Save, Put
  <1>5. CASE LateWriteLands(h) \/ LateWriteLost(h) \/ DetachedTasksEnd(h)
        BY <1>5 DEF LateWriteLands, LateWriteLost, DetachedTasksEnd
  <1> QED
      BY <1>2, <1>3, <1>4, <1>5 DEF Operation

\* Only a call of add_branch asks for a branch, and it asks for its own.
LEMMA AskedStep ==
    ASSUME ShapeInv, [Next]_vars, NEW g \in Gids, NEW b \in BranchIds
    PROVE  \/ Asked(g, b)' <=> Asked(g, b)
           \/ \E h \in Handlers, r \in Requests :
                 Call(h, r) /\ r.op = "add_branch" /\ r.gid = g /\ r.branch = b
  <1>1. ASSUME NEW h \in Handlers, NEW r \in Requests, Call(h, r)
        PROVE  (Asked(g, b)' <=> Asked(g, b))
                  \/ (r.op = "add_branch" /\ r.gid = g /\ r.branch = b)
        BY <1>1 DEF Call, Accept, Asked
  <1>2. CASE \E h \in Handlers : Operation(h)
        BY <1>2 DEF Operation, LoadMissing, AbortLoad, AddBranchLoad, BranchSucceedLoad,
           BranchFailLoad, BranchReport, SubmitLoad, SubmitMark, SubmitSpawn, SubmitJoin,
           SubmitSaveResults, Save, LateWriteLands, LateWriteLost, DetachedTasksEnd,
           historyVars, Asked
  <1>3. CASE \E h \in Handlers : \E k \in DOMAIN tasks[h] : BranchTask(h, k)
        BY <1>3 DEF BranchTask, TaskSucceeds, TaskGivesUp, Asked
  <1>4. CASE Fault
        BY <1>4 DEF Fault, StorageError, RequestDropped, Crash, historyVars, Asked
  <1>5. CASE UNCHANGED vars
        BY <1>5 DEF vars, historyVars, Asked
  <1> QED
      BY <1>1, <1>2, <1>3, <1>4, <1>5 DEF Next

\* What a call of the documented flow finds when no handler was ever abandoned.
LEMMA OrderlyCall ==
    ASSUME ShapeInv, OrderInv, Discipline = "lifecycle",
           NEW h \in Handlers, NEW r \in Requests, Call(h, r)
    PROVE  /\ r.gid \in Gids /\ pc[h] = "idle" /\ store' = store
           /\ pc'[h] = (IF r.op = "start" THEN "save" ELSE "load") /\ call'[h] = r
           /\ \A x \in Handlers \ {h} : Stays(x)
           /\ phase'[r.gid] # "new" /\ \A g \in Gids \ {r.gid} : phase'[g] = phase[g]
           /\ r.op = "start" => phase[r.gid] = "new"
           /\ r.op # "start" => store[r.gid] # NoTxn
           /\ \A x \in Handlers : pc[x] # "idle" /\ call[x].gid = r.gid =>
                 /\ call[x].op # "start"
                 /\ call[x].op \in Decisions /\ r.op \in Decisions
  <1>1. /\ StartedFirst(r)
        /\ r.op \in BranchOps => phase[r.gid] = "building"
        /\ \A x \in Busy(r.gid, Unanswered) : {call[x].op, r.op} \subseteq Decisions
        BY DEF Call, MayCall
  <1>2. r.gid \in Gids /\ r.op \in AllOps
        BY RequestType
  <1>3. /\ pc' = [pc EXCEPT ![h] = IF r.op = "start" THEN "save" ELSE "load"]
        /\ call' = [call EXCEPT ![h] = r]
        /\ store' = store /\ pc[h] = "idle"
        /\ phase' = [phase EXCEPT ![r.gid] =
                        IF r.op \in Decisions THEN "deciding"
                        ELSE IF r.op = "start" /\ @ = "new" THEN "building" ELSE @]
        BY DEF Call, Accept
  <1>4. phase'[r.gid] # "new" /\ \A g \in Gids \ {r.gid} : phase'[g] = phase[g]
        BY <1>1, <1>2, <1>3 DEF StartedFirst, AllOps, BranchOps, Decisions, ShapeInv, TypeOK
  <1>5. \A x \in Handlers \ {h} : Stays(x)
        BY OthersStay
  <1>6. ASSUME NEW x \in Handlers, pc[x] # "idle", call[x].gid = r.gid
        PROVE  x \in Busy(r.gid, Unanswered)
        <2>1. pc[x] \in PC
              BY DEF ShapeInv, TypeOK
        <2> QED
            BY <1>6, <2>1 DEF OrderInv, PC, Busy
  <1>7. ASSUME NEW x \in Handlers, pc[x] # "idle", call[x].gid = r.gid
        PROVE  call[x].op # "start" /\ call[x].op \in Decisions /\ r.op \in Decisions
        BY <1>1, <1>6, <1>7 DEF Decisions
  <1>8. ASSUME r.op # "start" PROVE store[r.gid] # NoTxn
        BY <1>1, <1>2, <1>7, <1>8 DEF StartedFirst, OrderInv
  <1>9. r.op = "start" => phase[r.gid] = "new"
        BY <1>1 DEF StartedFirst
  <1>10. pc'[h] = (IF r.op = "start" THEN "save" ELSE "load") /\ call'[h] = r
        BY <1>3 DEF ShapeInv, TypeOK
  <1> QED
      BY <1>2, <1>3, <1>4, <1>5, <1>7, <1>8, <1>9, <1>10

LEMMA OrderCall ==
    ASSUME ShapeInv, OrderInv, Discipline = "lifecycle", [Next]_vars,
           NEW h \in Handlers, NEW r \in Requests, Call(h, r)
    PROVE  OrderInv'
  <1>1. /\ r.gid \in Gids /\ pc[h] = "idle" /\ store' = store
        /\ pc'[h] = (IF r.op = "start" THEN "save" ELSE "load") /\ call'[h] = r
        /\ \A x \in Handlers \ {h} : Stays(x)
        /\ phase'[r.gid] # "new" /\ \A g \in Gids \ {r.gid} : phase'[g] = phase[g]
        /\ r.op = "start" => phase[r.gid] = "new"
        /\ r.op # "start" => store[r.gid] # NoTxn
        /\ \A x \in Handlers : pc[x] # "idle" /\ call[x].gid = r.gid =>
              /\ call[x].op # "start"
              /\ call[x].op \in Decisions /\ r.op \in Decisions
        BY OrderlyCall
  <1>2. ASSUME NEW g \in Gids, NEW b \in BranchIds
        PROVE  (Asked(g, b)' <=> Asked(g, b)) \/ (r.op = "add_branch" /\ r.gid = g)
        BY DEF Call, Accept, Asked
  <1>3. \A x \in Handlers : pc'[x] \notin {"zombie", "detached"}
        BY <1>1 DEF OrderInv, Stays
  <1>4. ASSUME NEW x \in Handlers, pc'[x] # "idle", call'[x].op = "start"
        PROVE  pc'[x] = "save" /\ \A b \in BranchIds : ~Asked(call[x].gid, b)'
        <2>1. CASE x = h
              BY <1>1, <1>2, <1>4, <2>1 DEF OrderInv
        <2>2. CASE x # h
              <3>1. call[x].gid \in Gids /\ call[x].gid # r.gid
                    BY <1>1, <1>4, <2>2, HandlerData DEF Stays
              <3> QED
                  BY <1>1, <1>2, <1>4, <2>2, <3>1 DEF OrderInv, Stays
        <2> QED
            BY <2>1, <2>2
  <1>5. ASSUME NEW g \in Gids, NEW b \in BranchIds, Asked(g, b)' PROVE phase'[g] # "new"
        BY <1>1, <1>2, <1>5 DEF OrderInv
  <1>6. ASSUME NEW x \in Handlers, NEW y \in Handlers, pc'[x] # "idle", pc'[y] # "idle", x # y,
               call'[x].gid = call'[y].gid
        PROVE  call'[x].op \in Decisions /\ call'[y].op \in Decisions
        BY <1>1, <1>6 DEF OrderInv, Stays
  <1>7. ASSUME NEW g \in Gids, phase'[g] # "new", store'[g] = NoTxn
        PROVE  \E x \in Handlers : pc'[x] # "idle" /\ call'[x].gid = g /\ call'[x].op = "start"
        BY <1>1, <1>7 DEF OrderInv, Stays
  <1> QED
      BY <1>1, <1>3, <1>4, <1>5, <1>6, <1>7 DEF OrderInv, Stays

\* A handler's own step in an orderly state (see FaultlessOperation).
LEMMA OrderlyOperation ==
    ASSUME ShapeInv, OrderInv, NEW h \in Handlers, Operation(h)
    PROVE  /\ pc[h] # "idle" /\ call[h].gid \in Gids /\ UNCHANGED <<phase, evidence>>
           /\ pc'[h] \notin {"zombie", "detached"}
           /\ \A x \in Handlers \ {h} : Stays(x)
           /\ \A g \in Gids : g # call[h].gid => store'[g] = store[g]
           /\ \/ /\ pc'[h] # "idle" /\ call'[h] = call[h] /\ call[h].op # "start"
                 /\ \/ store' = store
                    \/ pc[h] \in Writing /\ store'[call[h].gid] = tx[h]
              \/ Save(h) /\ pc'[h] = "idle" /\ store'[call[h].gid] = tx[h]
              \/ pc'[h] = "idle" /\ store' = store /\ Stored(h) = NoTxn /\ call[h].op # "start"
              \/ /\ pc'[h] = "idle" /\ store' = store /\ call[h].op \in BranchOps
                 /\ call[h].op = "add_branch" => HasBranch(Stored(h), call[h].branch)
  <1>1. /\ pc[h] # "idle" /\ pc[h] \notin {"zombie", "detached"}
        /\ call[h].op = "start" => pc[h] = "save"
        BY Working DEF OrderInv
  <1>2. \A x \in Handlers \ {h} : Stays(x)
        BY OthersStay
  <1>3. \A g \in Gids : g # call[h].gid => store'[g] = store[g]
        BY OtherGids
  <1>4. pc'[h] = "idle" /\ Stored(h) = NoTxn /\ call[h].op = "start" => Save(h)
        BY <1>1 DEF Operation, LoadMissing, AbortLoad, AddBranchLoad, BranchSucceedLoad,
           BranchFailLoad, BranchReport, SubmitLoad, SubmitMark, SubmitSpawn, SubmitJoin,
           SubmitSaveResults, LateWriteLands, LateWriteLost, DetachedTasksEnd, Loading
  <1>5. /\ call[h].gid \in Gids /\ UNCHANGED <<phase, evidence>>
        /\ pc'[h] \notin {"zombie", "detached"}
        /\ \/ /\ pc'[h] # "idle" /\ call'[h] = call[h] /\ call[h].op # "start"
              /\ \/ store' = store
                 \/ pc[h] \in Writing /\ store'[call[h].gid] = tx[h]
           \/ Save(h) /\ pc'[h] = "idle" /\ store'[call[h].gid] = tx[h]
           \/ pc'[h] = "idle" /\ store' = store /\ Stored(h) = NoTxn
           \/ /\ pc'[h] = "idle" /\ store' = store /\ call[h].op \in BranchOps
              /\ call[h].op = "add_branch" => HasBranch(Stored(h), call[h].branch)
        BY <1>1, FaultlessOperation
  <1>6. Save(h) => store'[call[h].gid] = tx[h] /\ pc'[h] = "idle"
        BY <1>5 DEF Save, Put, Return, ShapeInv, TypeOK
  <1> QED
      BY <1>1, <1>2, <1>3, <1>4, <1>5, <1>6

LEMMA OrderOperation ==
    ASSUME ShapeInv, OrderInv, NEW h \in Handlers, Operation(h)
    PROVE  OrderInv'
  <1>1. /\ pc[h] # "idle" /\ call[h].gid \in Gids /\ UNCHANGED <<phase, evidence>>
        /\ pc'[h] \notin {"zombie", "detached"}
        /\ \A x \in Handlers \ {h} : Stays(x)
        /\ \A g \in Gids : g # call[h].gid => store'[g] = store[g]
        /\ pc'[h] = "idle" \/ (call'[h] = call[h] /\ call[h].op # "start")
        /\ \/ store' = store
           \/ pc[h] \in Writing /\ store'[call[h].gid] = tx[h]
        /\ call[h].op = "start" => Save(h) /\ store'[call[h].gid] = tx[h]
        BY OrderlyOperation DEF Save, Writing, BranchOps
  <1>2. pc[h] \in Writing => tx[h] # NoTxn
        BY HandlerData
  <1>3. \A x \in Handlers : pc'[x] # "idle" => pc[x] # "idle" /\ call'[x] = call[x]
        BY <1>1 DEF Stays
  <1>4. \A g, b : Asked(g, b)' <=> Asked(g, b)
        BY <1>1 DEF Asked
  <1>5. ASSUME NEW x \in Handlers, pc'[x] # "idle", call'[x].op = "start"
        PROVE  pc'[x] = "save" /\ \A b \in BranchIds : ~Asked(call[x].gid, b)'
        BY <1>1, <1>3, <1>4, <1>5 DEF OrderInv, Stays
  <1>6. ASSUME NEW g \in Gids, phase'[g] # "new", store'[g] = NoTxn
        PROVE  \E x \in Handlers : pc'[x] # "idle" /\ call'[x].gid = g /\ call'[x].op = "start"
        <2>1. store[g] = NoTxn
              BY <1>1, <1>2, <1>6
        <2>2. PICK x \in Handlers : pc[x] # "idle" /\ call[x].gid = g /\ call[x].op = "start"
              BY <1>1, <1>6, <2>1 DEF OrderInv
        <2>3. x # h
              BY <1>1, <1>2, <1>6, <2>2 DEF Save, Writing
        <2> QED
            BY <1>1, <2>2, <2>3 DEF Stays
  <1>7. \A x \in Handlers : pc'[x] \notin {"zombie", "detached"}
        BY <1>1 DEF OrderInv, Stays
  <1>8. \A g \in Gids, b \in BranchIds : Asked(g, b)' => phase'[g] # "new"
        BY <1>1, <1>4 DEF OrderInv
  <1>9. \A x, y \in Handlers :
            pc'[x] # "idle" /\ pc'[y] # "idle" /\ x # y /\ call'[x].gid = call'[y].gid =>
                call'[x].op \in Decisions /\ call'[y].op \in Decisions
        BY <1>3 DEF OrderInv
  <1> QED
      BY <1>3, <1>5, <1>6, <1>7, <1>8, <1>9 DEF OrderInv

\* The end of a task, and a step of nobody, leave all of this alone.
LEMMA NobodysStep ==
    ASSUME Faults = {}, [Next]_vars
    PROVE  \/ \E h \in Handlers, r \in Requests : Call(h, r)
           \/ \E h \in Handlers : Operation(h)
           \/ /\ UNCHANGED <<store, pc, call, tx, phase>>
              /\ \A g \in Gids, b \in BranchIds : Asked(g, b)' <=> Asked(g, b)
  <1>1. CASE \E h \in Handlers : \E k \in DOMAIN tasks[h] : BranchTask(h, k)
        BY <1>1 DEF BranchTask, TaskSucceeds, TaskGivesUp, TaskEnds, Asked
  <1>2. ~Fault
        BY DEF Fault, StorageError, RequestDropped, Crash
  <1>3. CASE UNCHANGED vars
        BY <1>3 DEF vars, handlerVars, historyVars, Asked
  <1> QED
      BY <1>1, <1>2, <1>3 DEF Next

LEMMA OrderNext ==
    ASSUME Discipline = "lifecycle", Faults = {}
    PROVE  ShapeInv /\ OrderInv /\ [Next]_vars => OrderInv'
  <1> SUFFICES ASSUME ShapeInv, OrderInv, [Next]_vars PROVE OrderInv'
      OBVIOUS
  <1>1. CASE /\ UNCHANGED <<store, pc, call, tx, phase>>
             /\ \A g \in Gids, b \in BranchIds : Asked(g, b)' <=> Asked(g, b)
        <2>1. \A h \in Handlers : pc[h] # "idle" => call[h].gid \in Gids
              BY HandlerData
        <2> QED
            BY <1>1, <2>1 DEF OrderInv
  <1> QED
      BY <1>1, NobodysStep, OrderCall, OrderOperation

\* The updates of a copy keep its branches, and add_branch lists its own.
LEMMA UpdateKeeps ==
    ASSUME NEW t \in GlobalTxn, NEW b \in BranchIds, HasBranch(t, b)
    PROVE  /\ \A c \in BranchIds : HasBranch(WithBranch(t, c), b)
           /\ \A c \in BranchIds, s \in BranchStatus : HasBranch(WithBranchStatus(t, c, s), b)
           /\ HasBranch(RolledBack(t), b)
           /\ \A s \in GlobalStatus : HasBranch([t EXCEPT !.status = s], b)
           /\ HasBranch(Decided(t), b)
           /\ \A handles : HasBranch(ApplyResults(t, handles), b)
  <1>1. ASSUME NEW u, SameBranches(t, u) PROVE HasBranch(u, b)
        BY <1>1 DEF SameBranches, HasBranch
  <1>2. ASSUME NEW c \in BranchIds PROVE HasBranch(WithBranch(t, c), b)
        <2>1. t.branches \in Seq(BranchTxn)
              BY DEF GlobalTxn
        <2>2. WithBranch(t, c).branches =
                  Append(t.branches, [branch_id |-> c, status |-> "Prepared"])
              BY DEF WithBranch, GlobalTxn
        <2>3. PICK i \in DOMAIN t.branches : t.branches[i].branch_id = b
              BY DEF HasBranch
        <2>4. i \in DOMAIN WithBranch(t, c).branches /\ WithBranch(t, c).branches[i] = t.branches[i]
              BY <2>1, <2>2
        <2> QED
            BY <2>3, <2>4 DEF HasBranch
  <1>3. ASSUME NEW u, u.branches = t.branches PROVE HasBranch(u, b)
        BY <1>3 DEF HasBranch
  <1> QED
      BY <1>1, <1>2, <1>3, WithBranchStatusType, RolledBackType, WithStatusType, DecidedType,
         ApplyResultsType

LEMMA AddedListed ==
    ASSUME NEW t \in GlobalTxn, NEW b \in BranchIds PROVE HasBranch(WithBranch(t, b), b)
  <1>1. t.branches \in Seq(BranchTxn)
        BY DEF GlobalTxn
  <1>2. WithBranch(t, b).branches = Append(t.branches, [branch_id |-> b, status |-> "Prepared"])
        BY DEF WithBranch, GlobalTxn
  <1>3. /\ Len(t.branches) + 1 \in DOMAIN WithBranch(t, b).branches
        /\ WithBranch(t, b).branches[Len(t.branches) + 1] = [branch_id |-> b, status |-> "Prepared"]
        BY <1>1, <1>2
  <1> QED
      BY <1>3 DEF HasBranch

\* A handler that is about to save a copy of a transaction has all its branches in it.
LEMMA CopyKeeps ==
    ASSUME ShapeInv, OrderInv, KeptInv, [Next]_vars,
           NEW h \in Handlers, pc'[h] \in Writing \cup {"spawn"}, call'[h].op # "start",
           ~Accepts(h), NEW b \in BranchIds, Asked(call[h].gid, b)
    PROVE  HasBranch(tx'[h], b)
  <1>1. \/ Stays(h) \/ Empties(h) \/ Loads(h) \/ Advances(h)
        \/ Joins(h) \/ Decides(h)
        BY HandlerStep
  <1>2. CASE Stays(h) \/ Advances(h)
        BY <1>2 DEF Stays, Advances, KeptInv, Writing
  <1>3. CASE Empties(h)
        BY <1>3 DEF Empties, Writing
  <1>4. CASE Loads(h)
        <2>1. /\ pc[h] # "idle" /\ Stored(h) \in GlobalTxn /\ call[h].gid \in Gids
              /\ call[h].op \in BranchOps => call[h].branch \in BranchIds
              /\ Stored(h) = store[call[h].gid]
              BY <1>4, HandlerData DEF Loads, Stored
        <2>2. HasBranch(Stored(h), b) \/ (call[h].op = "add_branch" /\ call[h].branch = b)
              <3>1. HasBranch(Stored(h), b) \/ \E x \in Handlers : Adding(x, call[h].gid, b)
                    BY <2>1 DEF KeptInv
              <3>2. ASSUME NEW x \in Handlers, Adding(x, call[h].gid, b) PROVE x = h
                    BY <2>1, <3>2 DEF Adding, OrderInv, Decisions
              <3> QED
                  BY <3>1, <3>2 DEF Adding
        <2>3. /\ "Succeed" \in BranchStatus /\ "Failed" \in BranchStatus
              /\ "Committing" \in GlobalStatus
              BY DEF BranchStatus, GlobalStatus
        <2>4. CASE call[h].op = "add_branch"
              BY <1>4, <2>1, <2>2, <2>4, UpdateKeeps, AddedListed DEF Loads, BranchOps
        <2>5. CASE call[h].op = "abort"
              BY <1>4, <2>1, <2>2, <2>5, UpdateKeeps DEF Loads
        <2>6. CASE call[h].op = "branch_succeed"
              BY <1>4, <2>1, <2>2, <2>3, <2>6, UpdateKeeps DEF Loads, BranchOps
        <2>7. CASE call[h].op = "branch_fail"
              BY <1>4, <2>1, <2>2, <2>3, <2>7, UpdateKeeps DEF Loads, BranchOps
        <2>8. CASE call[h].op = "submit"
              BY <1>4, <2>1, <2>2, <2>3, <2>8, UpdateKeeps DEF Loads
        <2> QED
            BY <1>4, <2>4, <2>5, <2>6, <2>7, <2>8 DEF Loads
  <1>5. CASE Joins(h) \/ Decides(h)
        <2>1. HasBranch(tx[h], b) /\ tx[h] \in GlobalTxn
              BY <1>5, HandlerData DEF Joins, Decides, KeptInv, Writing
        <2> QED
            BY <1>5, <2>1, UpdateKeeps DEF Joins, Decides
  <1> QED
      BY <1>1, <1>2, <1>3, <1>4, <1>5

LEMMA StoredKeeps ==
    ASSUME ShapeInv, OrderInv, KeptInv, NEW h \in Handlers, Operation(h),
           NEW g \in Gids, NEW b \in BranchIds, Asked(g, b)
    PROVE  \/ store'[g] # NoTxn /\ HasBranch(store'[g], b)
           \/ \E x \in Handlers : Adding(x, g, b)'
  <1>1. /\ pc[h] # "idle" /\ call[h].gid \in Gids
        /\ \A x \in Handlers \ {h} : Stays(x)
        /\ \A k \in Gids : k # call[h].gid => store'[k] = store[k]
        /\ \/ /\ pc'[h] # "idle" /\ call'[h] = call[h] /\ call[h].op # "start"
              /\ \/ store' = store
                 \/ pc[h] \in Writing /\ store'[call[h].gid] = tx[h]
           \/ Save(h) /\ pc'[h] = "idle" /\ store'[call[h].gid] = tx[h]
           \/ pc'[h] = "idle" /\ store' = store /\ Stored(h) = NoTxn /\ call[h].op # "start"
           \/ /\ pc'[h] = "idle" /\ store' = store /\ call[h].op \in BranchOps
              /\ call[h].op = "add_branch" => HasBranch(Stored(h), call[h].branch)
        BY OrderlyOperation
  <1>2. \/ store[g] # NoTxn /\ HasBranch(store[g], b)
        \/ \E x \in Handlers : Adding(x, g, b)
        BY DEF KeptInv
  <1>3. \A x \in Handlers \ {h} : Adding(x, g, b) => Adding(x, g, b)'
        BY <1>1 DEF Adding, Stays
  <1>4. CASE call[h].gid # g
        BY <1>1, <1>2, <1>3, <1>4 DEF Adding
  <1>5. ASSUME call[h].gid = g, pc[h] \in Writing, store'[g] = tx[h]
        PROVE  store'[g] # NoTxn /\ HasBranch(store'[g], b)
        <2>1. call[h].op # "start"
              BY <1>5 DEF OrderInv, Writing
        <2> QED
            BY <1>5, <2>1, HandlerData DEF KeptInv
  <1>6. CASE call[h].gid = g /\ store' = store
        <2>1. CASE \E x \in Handlers \ {h} : Adding(x, g, b)
              BY <1>3, <2>1
        <2>2. CASE Adding(h, g, b) /\ pc'[h] # "idle"
              BY <1>1, <2>2 DEF Adding, Save
        <2>3. CASE Adding(h, g, b) /\ pc'[h] = "idle"
              <3>1. CASE Save(h)
                    <4>1. store'[g] = tx[h] /\ pc[h] \in Writing
                          BY <1>1, <1>6, <3>1 DEF Save, Put, Writing, ShapeInv, TypeOK
                    <4> QED
                        BY <1>5, <1>6, <4>1
              <3>2. CASE Stored(h) = NoTxn /\ call[h].op # "start"
                    <4>1. PICK x \in Handlers :
                              pc[x] # "idle" /\ call[x].gid = g /\ call[x].op = "start"
                          BY <1>6, <3>2 DEF OrderInv, Stored
                    <4> QED
                        BY <1>1, <1>6, <3>2, <4>1 DEF OrderInv, Decisions
              <3>3. CASE HasBranch(Stored(h), b) /\ Stored(h) # NoTxn
                    BY <1>6, <3>3 DEF Stored
              <3> QED
                  BY <1>1, <2>3, <3>1, <3>2, <3>3 DEF Adding
        <2> QED
            BY <1>2, <1>6, <2>1, <2>2, <2>3
  <1> QED
      BY <1>1, <1>4, <1>5, <1>6 DEF Save, Writing

LEMMA KeptNext ==
    ASSUME Discipline = "lifecycle", Faults = {}
    PROVE  ShapeInv /\ OrderInv /\ KeptInv /\ [Next]_vars => KeptInv'
  <1> SUFFICES ASSUME ShapeInv, OrderInv, KeptInv, [Next]_vars PROVE KeptInv'
      OBVIOUS
  <1>1. ASSUME NEW h \in Handlers, NEW r \in Requests, Call(h, r) PROVE KeptInv'
        <2>1. /\ r.gid \in Gids /\ pc[h] = "idle" /\ store' = store
              /\ pc'[h] = (IF r.op = "start" THEN "save" ELSE "load") /\ call'[h] = r
              /\ \A x \in Handlers \ {h} : Stays(x)
              /\ \A x \in Handlers : pc[x] # "idle" /\ call[x].gid = r.gid =>
                    /\ call[x].op # "start"
                    /\ call[x].op \in Decisions /\ r.op \in Decisions
              BY <1>1, OrderlyCall
        <2>2. ASSUME NEW g \in Gids, NEW b \in BranchIds
              PROVE  \/ Asked(g, b)' <=> Asked(g, b)
                     \/ r.op = "add_branch" /\ r.gid = g /\ r.branch = b
              BY <1>1 DEF Call, Accept, Asked
        <2>3. ASSUME NEW g \in Gids, NEW b \in BranchIds, Asked(g, b)'
              PROVE  \/ store'[g] # NoTxn /\ HasBranch(store'[g], b)
                     \/ \E x \in Handlers : Adding(x, g, b)'
              <3>1. CASE Asked(g, b)
                    BY <2>1, <3>1 DEF KeptInv, Adding, Stays
              <3>2. CASE ~Asked(g, b)
                    <4>1. Adding(h, g, b)'
                          BY <2>1, <2>2, <2>3, <3>2 DEF Adding
                    <4> QED
                        BY <4>1
              <3> QED
                  BY <3>1, <3>2
        <2>4. ASSUME NEW x \in Handlers, pc'[x] \in Writing \cup {"spawn"}, call'[x].op # "start",
                     NEW b \in BranchIds, Asked(call[x].gid, b)'
              PROVE  HasBranch(tx'[x], b)
              <3>1. x # h
                    BY <2>1, <2>4 DEF Writing
              <3>2. /\ pc[x] \in Writing \cup {"spawn"} /\ pc[x] # "idle"
                    /\ call'[x] = call[x] /\ call[x].gid \in Gids
                    BY <2>1, <2>4, <3>1, HandlerData DEF Stays, Writing
              <3>3. Asked(call[x].gid, b)
                    BY <2>1, <2>2, <2>4, <3>2 DEF Decisions, Asked
              <3> QED
                  BY <2>1, <2>4, <3>1, <3>2, <3>3 DEF KeptInv, Stays
        <2> QED
            BY <2>3, <2>4 DEF KeptInv
  <1>2. ASSUME NEW h \in Handlers, Operation(h) PROVE KeptInv'
        <2>1. evidence' = evidence /\ pc[h] # "idle" /\ \A x \in Handlers \ {h} : Stays(x)
              BY <1>2, OrderlyOperation
        <2>2. \A g, b : Asked(g, b)' <=> Asked(g, b)
              BY <2>1 DEF Asked
        <2>3. ASSUME NEW x \in Handlers, pc'[x] \in Writing \cup {"spawn"}, call'[x].op # "start",
                     NEW b \in BranchIds, Asked(call[x].gid, b)'
              PROVE  HasBranch(tx'[x], b)
              <3>1. CASE x # h
                    BY <2>1, <2>2, <2>3, <3>1 DEF KeptInv, Stays, Asked
              <3>2. CASE x = h
                    <4>1. ~Accepts(h)
                          BY <2>1 DEF Accepts, Call, Accept
                    <4>2. call'[h] = call[h]
                          BY <2>3, <3>2, <4>1, FlowKeepsCall DEF Writing
                    <4>3. Asked(call[h].gid, b)
                          BY <2>1, <2>3, <3>2, <4>2 DEF Asked
                    <4> QED
                        BY <2>3, <3>2, <4>1, <4>2, <4>3, CopyKeeps
              <3> QED
                  BY <3>1, <3>2
        <2>4. ASSUME NEW g \in Gids, NEW b \in BranchIds, Asked(g, b)'
              PROVE  \/ store'[g] # NoTxn /\ HasBranch(store'[g], b)
                     \/ \E x \in Handlers : Adding(x, g, b)'
              BY <1>2, <2>2, <2>4, StoredKeeps
        <2> QED
            BY <2>3, <2>4 DEF KeptInv
  <1>3. CASE /\ UNCHANGED <<store, pc, call, tx, phase>>
             /\ \A g \in Gids, b \in BranchIds : Asked(g, b)' <=> Asked(g, b)
        <2>1. \A h \in Handlers : pc[h] \in Writing \cup {"spawn"} => call[h].gid \in Gids
              BY HandlerData DEF Writing
        <2> QED
            BY <1>3, <2>1 DEF KeptInv, Adding
  <1> QED
      BY <1>1, <1>2, <1>3, NobodysStep

LEMMA KeptAlways ==
    ASSUME Discipline = "lifecycle", Faults = {}
    PROVE  Spec => [](OrderInv /\ KeptInv)
  <1>1. Init => OrderInv /\ KeptInv
        BY DEF Init, OrderInv, KeptInv, Asked, Writing
  <1> QED
      BY <1>1, OrderNext, KeptNext, ShapeAlways, PTL DEF Spec

\* In the documented flow without faults every branch that was added is listed and stays
\* listed, for any number of gids, branches and handlers.
THEOREM AddedBranchesStay ==
    ASSUME Discipline = "lifecycle", Faults = {}
    PROVE  Spec => []AddedBranchesKept
  <1>1. ShapeInv /\ OrderInv /\ KeptInv => AddedBranchesKept
        <2> SUFFICES ASSUME ShapeInv, KeptInv, NEW g \in Gids, NEW b \in BranchIds,
                            Busy(g, PC \ {"idle"}) = {}, store[g] # NoTxn, Asked(g, b)
                     PROVE  HasBranch(store[g], b)
            BY DEF AddedBranchesKept, Asked
        <2>1. ASSUME NEW h \in Handlers, Adding(h, g, b) PROVE FALSE
              <3>1. pc[h] \in PC
                    BY DEF ShapeInv, TypeOK
              <3>2. h \in Busy(g, PC \ {"idle"})
                    BY <2>1, <3>1 DEF Adding, Busy
              <3> QED
                  BY <3>2
        <2> QED
            BY <2>1 DEF KeptInv
  <1> QED
      BY <1>1, KeptAlways, ShapeAlways, PTL

\* Who decides g and what is stored of it, after a handler's own step.
LEMMA QuietOperation ==
    ASSUME ShapeInv, DecisionInv, FlowInv, OrderInv, QuietInv, NEW h \in Handlers, Operation(h),
           NEW g \in Gids, phase[g] = "deciding", store'[g] # NoTxn
    PROVE  store'[g].status \in Terminal \/ \E x \in Handlers : Deciding(x, g)'
  <1>1. /\ pc[h] # "idle" /\ call[h].gid \in Gids
        /\ \A x \in Handlers \ {h} : Stays(x)
        /\ \A k \in Gids : k # call[h].gid => store'[k] = store[k]
        /\ \/ /\ pc'[h] # "idle" /\ call'[h] = call[h] /\ call[h].op # "start"
              /\ \/ store' = store
                 \/ pc[h] \in Writing /\ store'[call[h].gid] = tx[h]
           \/ Save(h) /\ pc'[h] = "idle" /\ store'[call[h].gid] = tx[h]
           \/ pc'[h] = "idle" /\ store' = store /\ Stored(h) = NoTxn /\ call[h].op # "start"
           \/ /\ pc'[h] = "idle" /\ store' = store /\ call[h].op \in BranchOps
              /\ call[h].op = "add_branch" => HasBranch(Stored(h), call[h].branch)
        BY OrderlyOperation
  <1>2. \A x \in Handlers \ {h} : Deciding(x, g) => Deciding(x, g)'
        BY <1>1 DEF Deciding, Stays
  <1>3. store[g] # NoTxn => store[g].status \in Terminal \/ \E x \in Handlers : Deciding(x, g)
        BY DEF QuietInv
  <1>4. CASE call[h].gid # g
        BY <1>1, <1>2, <1>3, <1>4 DEF Deciding
  <1>5. CASE call[h].gid = g
        <2>1. pc[h] \in Unanswered
              BY <1>1 DEF OrderInv, ShapeInv, TypeOK, PC
        <2>2. call[h].op \in Decisions
              BY <1>1, <1>5, <2>1 DEF FlowInv
        <2>3. CASE pc'[h] # "idle"
              BY <1>1, <1>5, <2>2, <2>3 DEF Deciding
        <2>4. CASE pc'[h] = "idle" /\ Save(h) /\ store'[g] = tx[h]
              BY <2>2, <2>4 DEF QuietInv, Save
        <2>5. Stored(h) = NoTxn /\ store' = store => FALSE
              BY <1>5 DEF Stored
        <2> QED
            BY <1>1, <1>5, <2>2, <2>3, <2>4, <2>5 DEF BranchOps, Decisions
  <1> QED
      BY <1>4, <1>5

LEMMA QuietNext ==
    ASSUME Discipline = "lifecycle", Faults = {}
    PROVE  /\ ShapeInv /\ DecisionInv /\ DecisionInv' /\ FlowInv /\ OrderInv /\ QuietInv
           /\ [Next]_vars
           => QuietInv'
  <1> SUFFICES ASSUME ShapeInv, DecisionInv, DecisionInv', FlowInv, OrderInv, QuietInv, [Next]_vars
               PROVE  QuietInv'
      OBVIOUS
  <1>1. ASSUME NEW h \in Handlers, pc'[h] = "save", call'[h].op \in Decisions
        PROVE  tx'[h].status \in Terminal
        <2>1. CASE call'[h].op = "submit"
              BY <1>1, <2>1 DEF DecisionInv, DecisionSound, Terminal
        <2>2. CASE call'[h].op = "abort"
              <3>1. \/ Stays(h) \/ Empties(h) \/ Loads(h) \/ Advances(h)
                    \/ Joins(h) \/ Decides(h) \/ Accepts(h)
                    BY HandlerStep
              <3>2. CASE Stays(h)
                    BY <1>1, <3>2 DEF Stays, QuietInv
              <3>3. CASE Loads(h)
                    BY <1>1, <2>2, <3>3 DEF Loads, RolledBack, Terminal
              <3>4. CASE Decides(h)
                    BY <2>2, <3>4 DEF Decides, ShapeInv, Shape
              <3>5. CASE Accepts(h)
                    BY <1>1, <2>2, <3>5 DEF Accepts, Call, Accept, ShapeInv, TypeOK
              <3> QED
                  BY <1>1, <3>1, <3>2, <3>3, <3>4, <3>5 DEF Empties, Advances, Joins
        <2> QED
            BY <1>1, <2>1, <2>2 DEF Decisions
  <1>2. ASSUME NEW g \in Gids, phase'[g] = "deciding", store'[g] # NoTxn
        PROVE  store'[g].status \in Terminal \/ \E h \in Handlers : Deciding(h, g)'
        <2>1. ASSUME NEW h \in Handlers, NEW r \in Requests, Call(h, r)
              PROVE  store'[g].status \in Terminal \/ \E x \in Handlers : Deciding(x, g)'
              <3>1. /\ pc'[h] \in {"save", "load"} /\ call'[h] = r /\ store' = store
                    /\ \A x \in Handlers \ {h} : Stays(x)
                    /\ r.op \in Decisions => phase' = [phase EXCEPT ![r.gid] = "deciding"]
                    /\ r.op \notin Decisions =>
                          \A k \in Gids : phase'[k] = "deciding" <=> phase[k] = "deciding"
                    BY <2>1, FlowCall
              <3>2. pc[h] = "idle"
                    BY <2>1 DEF Call, Accept
              <3>3. CASE r.op \in Decisions /\ r.gid = g
                    BY <3>1, <3>3 DEF Deciding
              <3>4. CASE phase[g] = "deciding"
                    BY <1>2, <3>1, <3>2, <3>4 DEF QuietInv, Deciding, Stays
              <3> QED
                  BY <1>2, <3>1, <3>3, <3>4 DEF ShapeInv, TypeOK
        <2>2. ASSUME NEW h \in Handlers, Operation(h)
              PROVE  store'[g].status \in Terminal \/ \E x \in Handlers : Deciding(x, g)'
              <3>1. phase' = phase
                    BY <2>2, OrderlyOperation
              <3> QED
                  BY <1>2, <2>2, <3>1, QuietOperation
        <2>3. CASE UNCHANGED <<store, pc, call, tx, phase>>
              BY <1>2, <2>3 DEF QuietInv, Deciding
        <2> QED
            BY <2>1, <2>2, <2>3, NobodysStep
  <1> QED
      BY <1>1, <1>2 DEF QuietInv

\* In the documented flow without faults, a transaction whose submits and aborts have all
\* been answered is committed or aborted, however many of them raced.
THEOREM QuietIsSettled ==
    ASSUME Discipline = "lifecycle", Faults = {}
    PROVE  Spec => []SettledWhenQuiet
  <1>1. Init => DecisionInv /\ FlowInv /\ OrderInv /\ QuietInv
        BY DEF Init, DecisionInv, DecisionSound, FlowInv, OrderInv, QuietInv, Asked
  <1>2. ShapeInv /\ QuietInv => SettledWhenQuiet
        <2> SUFFICES ASSUME ShapeInv, QuietInv, NEW g \in Gids, phase[g] = "deciding",
                            Busy(g, PC \ {"idle"}) = {}, store[g] # NoTxn
                     PROVE  store[g].status \in Terminal
            BY DEF SettledWhenQuiet
        <2>1. ASSUME NEW h \in Handlers, Deciding(h, g) PROVE FALSE
              <3>1. pc[h] \in PC
                    BY DEF ShapeInv, TypeOK
              <3>2. h \in Busy(g, PC \ {"idle"})
                    BY <2>1, <3>1 DEF Deciding, Busy
              <3> QED
                  BY <3>2
        <2> QED
            BY <2>1 DEF QuietInv
  <1> QED
      BY <1>1, <1>2, DecisionNext, FlowNext, OrderNext, QuietNext, ShapeAlways, PTL DEF Spec

=============================================================================
