-------------------------- MODULE SagaRefinementProofs --------------------------
(***************************************************************************)
(* To clients that wait for each answer, SagaManager implements            *)
(* SagaContract, and calls no participant again that has confirmed: for    *)
(* any gids, branches and handlers, with crashes at any moment.            *)
(***************************************************************************)
EXTENDS SagaRefinement, SagaSafetyProofs

\* The branches of u once the prepared ones in S have succeeded and the others failed.
WithResults(u, S) ==
    [u EXCEPT !.branches =
        [i \in DOMAIN u.branches |->
            IF Prepared(u, i)
            THEN [u.branches[i] EXCEPT !.status = IF i \in S THEN "Succeed" ELSE "Failed"]
            ELSE u.branches[i]]]

PreparedOf(u) == {i \in DOMAIN u.branches : Prepared(u, i)}

Reported(op) == IF op = "branch_succeed" THEN "Succeed" ELSE "Failed"

\* A handler at label l with request c is about to save a copy t that the contract
\* allows to follow u, which is what is stored.
Fit(l, c, t, u) ==
    /\ l \notin {"zombie", "detached"}
    /\ l \in {"mark", "spawn", "results"} => u # NoTxn
    /\ l = "mark" => t = [u EXCEPT !.status = "Committing"]
    /\ l = "spawn" => t = u /\ u.status = "Committing"
    /\ l = "results" =>
          u.status = "Committing" /\ \E S \in SUBSET PreparedOf(u) : t = WithResults(u, S)
    /\ l = "save" =>
          /\ c.op = "start" => t = NewTxn
          /\ c.op # "start" => u # NoTxn
          /\ c.op = "add_branch" => ~HasBranch(u, c.branch) /\ t = WithBranch(u, c.branch)
          /\ c.op \in {"branch_succeed", "branch_fail"} =>
                HasBranch(u, c.branch) /\ t = WithBranchStatus(u, c.branch, Reported(c.op))
          /\ c.op = "abort" => t = RolledBack(u)
          /\ c.op = "submit" =>
                u.status = "Committing" /\ NothingPrepared(u) /\ t = Decided(u)

\* One request per transaction, and its copy fits what is stored: nothing has been saved
\* since it was loaded.
SerialInv ==
    /\ \A h \in Handlers : pc[h] # "idle" => Fit(pc[h], call[h], tx[h], Stored(h))
    /\ \A h, x \in Handlers :
          pc[h] # "idle" /\ pc[x] # "idle" /\ h # x => call[h].gid # call[x].gid

LEMMA SerialInit == Init => SerialInv
  BY DEF Init, SerialInv

-----------------------------------------------------------------------------
(* Steps of one handler.                                                   *)

\* The results of all handles are those of some set of succeeded branches.
LEMMA ResultsRecorded ==
    ASSUME NEW t \in GlobalTxn, NEW handles \in Seq(Task), Len(handles) = PreparedCount(t)
    PROVE  \E S \in SUBSET PreparedOf(t) : ApplyResults(t, handles) = WithResults(t, S)
  <1> DEFINE S == {i \in PreparedOf(t) : handles[PreparedRank(t, i)].state = "ok"}
  <1>1. \A i \in DOMAIN t.branches : Prepared(t, i) => PreparedRank(t, i) \in DOMAIN handles
        BY RankBound
  <1>2. [i \in DOMAIN t.branches |->
            IF Prepared(t, i) /\ PreparedRank(t, i) \in DOMAIN handles
            THEN [t.branches[i] EXCEPT !.status =
                    IF handles[PreparedRank(t, i)].state = "ok" THEN "Succeed" ELSE "Failed"]
            ELSE t.branches[i]]
        = [i \in DOMAIN t.branches |->
            IF Prepared(t, i)
            THEN [t.branches[i] EXCEPT !.status = IF i \in S THEN "Succeed" ELSE "Failed"]
            ELSE t.branches[i]]
        BY <1>1 DEF PreparedOf
  <1>3. ApplyResults(t, handles) = WithResults(t, S)
        BY <1>2 DEF ApplyResults, WithResults
  <1>4. S \in SUBSET PreparedOf(t)
        OBVIOUS
  <1> QED
      BY <1>3, <1>4

\* What a handler's own step makes of its slot and of what is stored under its gid.
LEMMA OwnFit ==
    ASSUME ShapeInv, DecisionInv, SerialInv, NEW h \in Handlers, pc[h] # "idle", Operation(h)
    PROVE  pc'[h] = "idle" \/ (call'[h] = call[h] /\ Fit(pc'[h], call[h], tx'[h], store'[call[h].gid]))
  <1> DEFINE u == Stored(h)
             g == call[h].gid
  <1> USE DEF ShapeInv, TypeOK, Proceed, Return, Loading
  <1>1. Fit(pc[h], call[h], tx[h], u) /\ g \in Gids
        BY HandlerData DEF SerialInv
  <1>2. CASE LoadMissing(h) \/ Save(h) \/ LateWriteLands(h) \/ LateWriteLost(h)
             \/ DetachedTasksEnd(h)
        BY <1>2 DEF LoadMissing, Save, LateWriteLands, LateWriteLost, DetachedTasksEnd
  <1>3. CASE AbortLoad(h)
        BY <1>3 DEF AbortLoad, Fit, Stored
  <1>4. CASE AddBranchLoad(h)
        BY <1>4 DEF AddBranchLoad, Fit, Stored
  <1>5. CASE BranchSucceedLoad(h) \/ BranchFailLoad(h)
        BY <1>5 DEF BranchSucceedLoad, BranchFailLoad, BranchReport, Fit, Stored, Reported
  <1>6. CASE SubmitLoad(h)
        BY <1>6 DEF SubmitLoad, Fit, Stored
  <1>7. CASE SubmitMark(h)
        <2>1. tx[h] = [u EXCEPT !.status = "Committing"] /\ u \in GlobalTxn
              BY <1>1, <1>7, HandlerData DEF SubmitMark, Fit
        <2>2. tx[h].status = "Committing"
              BY <2>1 DEF GlobalTxn
        <2>3. tx[h] # NoTxn
              BY <1>7, HandlerData DEF SubmitMark, Writing
        <2>4. store'[g] = tx[h]
              BY <1>1, <1>7 DEF SubmitMark, Put
        <2> QED
            BY <1>7, <2>2, <2>3, <2>4 DEF SubmitMark, Fit
  <1>8. CASE SubmitSpawn(h)
        BY <1>1, <1>8 DEF SubmitSpawn, Stored
  <1>9. CASE SubmitJoin(h)
        <2>1. tx[h] = u /\ u.status = "Committing" /\ u \in GlobalTxn /\ u # NoTxn
              BY <1>1, <1>9, HandlerData DEF SubmitJoin, Fit
        <2>2. \E S \in SUBSET PreparedOf(u) : ApplyResults(u, tasks[h]) = WithResults(u, S)
              BY <1>9, <2>1, ResultsRecorded DEF SubmitJoin
        <2> QED
            BY <1>9, <2>1, <2>2 DEF SubmitJoin, Fit, Stored
  <1>10. CASE SubmitSaveResults(h)
        <2>1. u.status = "Committing" /\ u \in GlobalTxn
              BY <1>1, <1>10, HandlerData DEF SubmitSaveResults, Fit
        <2>2. tx[h] # NoTxn /\ tx[h].status = u.status
              BY <1>1, <1>10, <2>1, HandlerData DEF SubmitSaveResults, Fit, WithResults, Writing, GlobalTxn
        <2>3. NothingPrepared(tx[h])
              BY <1>10 DEF SubmitSaveResults, DecisionInv
        <2>4. store'[g] = tx[h] /\ call[h].op = "submit"
              BY <1>1, <1>10 DEF SubmitSaveResults, Put, Shape
        <2> QED
            BY <1>10, <2>1, <2>2, <2>3, <2>4 DEF SubmitSaveResults, Fit
  <1> QED
      BY <1>2, <1>3, <1>4, <1>5, <1>6, <1>7, <1>8, <1>9, <1>10 DEF Operation

LEMMA SerialNext ==
    ASSUME Discipline = "serial", Faults \subseteq {"crash"}
    PROVE  ShapeInv /\ DecisionInv /\ SerialInv /\ [Next]_vars => SerialInv'
  <1> SUFFICES ASSUME ShapeInv, DecisionInv, SerialInv, [Next]_vars PROVE SerialInv'
      OBVIOUS
  <1>1. ASSUME NEW h \in Handlers, NEW r \in Requests, Call(h, r) PROVE SerialInv'
        <2>1. /\ pc' = [pc EXCEPT ![h] = IF r.op = "start" THEN "save" ELSE "load"]
              /\ call' = [call EXCEPT ![h] = r]
              /\ tx' = [tx EXCEPT ![h] = IF r.op = "start" THEN NewTxn ELSE NoTxn]
              /\ store' = store
              BY <1>1 DEF Call, Accept
        <2>2. \A x \in Handlers \ {h} : Stays(x)
              BY <1>1, OthersStay
        <2>3. ASSUME NEW x \in Handlers \ {h}, pc[x] # "idle" PROVE call[x].gid # r.gid
              <3>1. Fit(pc[x], call[x], tx[x], Stored(x))
                    BY <2>3 DEF SerialInv
              <3>2. pc[x] \in Unanswered
                    BY <2>3, <3>1 DEF Fit, ShapeInv, TypeOK, PC
              <3>3. x \notin Busy(r.gid, Unanswered)
                    BY <1>1 DEF Call, MayCall
              <3> QED
                  BY <3>2, <3>3 DEF Busy
        <2>4. Fit(pc'[h], call'[h], tx'[h], Stored(h)')
              BY <2>1 DEF Fit, ShapeInv, TypeOK
        <2>5. ASSUME NEW x \in Handlers, pc'[x] # "idle"
              PROVE  Fit(pc'[x], call'[x], tx'[x], Stored(x)')
              BY <2>1, <2>2, <2>4, <2>5 DEF SerialInv, Stays, Stored
        <2>6. call'[h].gid = r.gid
              BY <2>1 DEF ShapeInv, TypeOK
        <2> QED
            BY <2>2, <2>3, <2>5, <2>6 DEF SerialInv, Stays
  <1>2. ASSUME NEW h \in Handlers, Operation(h) PROVE SerialInv'
        <2>1. pc[h] # "idle"
              BY <1>2, Working
        <2>2. \A x \in Handlers \ {h} : Stays(x)
              BY <1>2, OthersStay
        <2>3. \/ pc'[h] = "idle"
              \/ call'[h] = call[h] /\ Fit(pc'[h], call'[h], tx'[h], Stored(h)')
              BY <1>2, <2>1, OwnFit DEF Stored
        <2>4. ASSUME NEW x \in Handlers \ {h}, pc'[x] # "idle"
              PROVE  Fit(pc'[x], call'[x], tx'[x], Stored(x)')
              <3>1. Fit(pc[x], call[x], tx[x], Stored(x)) /\ call[x].gid # call[h].gid
                    BY <2>1, <2>2, <2>4 DEF SerialInv, Stays
              <3>2. call[x].gid \in Gids
                    BY <2>2, <2>4, HandlerData DEF Stays
              <3>3. Stored(x)' = Stored(x)
                    BY <1>2, <2>2, <3>1, <3>2, OtherGids DEF Stored, Stays
              <3> QED
                  BY <2>2, <3>1, <3>3 DEF Stays
        <2> QED
            BY <2>1, <2>2, <2>3, <2>4 DEF SerialInv, Stays
  <1>3. ASSUME UNCHANGED <<pc, call, tx, store>> PROVE SerialInv'
        BY <1>3 DEF SerialInv, Stored
  <1>4. ASSUME NEW h \in Handlers, NEW k \in DOMAIN tasks[h], BranchTask(h, k) PROVE SerialInv'
        BY <1>3, <1>4 DEF BranchTask, TaskSucceeds, TaskGivesUp, TaskEnds
  <1>5. CASE Fault
        <2>1. Crash
              BY <1>5 DEF Fault, StorageError, RequestDropped
        <2> QED
            BY <2>1 DEF Crash, SerialInv
  <1>6. CASE UNCHANGED vars
        BY <1>3, <1>6 DEF vars, handlerVars
  <1> QED
      BY <1>1, <1>2, <1>4, <1>5, <1>6 DEF Next

-----------------------------------------------------------------------------
(* Every step is a step of the contract, or none.                          *)

\* The contract's updates of a transaction are SagaManager's.
LEMMA SameRecord ==
    /\ Contract!NewTxn = NewTxn
    /\ \A t, b : Contract!HasBranch(t, b) <=> HasBranch(t, b)
    /\ \A t, b : Contract!WithBranch(t, b) = WithBranch(t, b)
    /\ \A t, b, s : Contract!WithBranchStatus(t, b, s) = WithBranchStatus(t, b, s)
    /\ \A t : Contract!RolledBack(t) = RolledBack(t)
    /\ \A t, i : Contract!Prepared(t, i) <=> Prepared(t, i)
    /\ \A t : Contract!SomeFailed(t) <=> SomeFailed(t)
  BY DEF Contract!NewTxn, NewTxn, Contract!HasBranch, HasBranch, Contract!WithBranch, WithBranch,
     Contract!WithBranchStatus, WithBranchStatus, Contract!IsFirst, IsFirst,
     Contract!RolledBack, RolledBack, Contract!Prepared, Prepared, Contract!SomeFailed, SomeFailed

LEMMA SaveRefines ==
    ASSUME ShapeInv, SerialInv, NEW h \in Handlers, Save(h)
    PROVE  Contract!Next
  <1> DEFINE g == call[h].gid
             u == Stored(h)
             t == tx[h]
  <1>1. /\ Fit("save", call[h], t, u) /\ g \in Gids /\ call[h] \in Requests
        /\ u \in GlobalTxn \cup {NoTxn}
        BY HandlerData DEF Save, SerialInv
  <1>2. store' = [store EXCEPT ![g] = t] /\ store[g] = u
        BY DEF Save, Put, Stored
  <1>3. CASE call[h].op = "start"
        <2>1. Contract!Start(g)
              BY <1>1, <1>2, <1>3, SameRecord DEF Fit, Contract!Start, Contract!Becomes
        <2> QED
            BY <1>1, <2>1 DEF Contract!Next
  <1>4. CASE call[h].op = "add_branch"
        <2>1. call[h].branch \in BranchIds
              BY <1>1, <1>4, RequestType DEF BranchOps
        <2>2. Contract!AddBranch(g, call[h].branch)
              BY <1>1, <1>2, <1>4, SameRecord DEF Fit, Contract!AddBranch, Contract!Exists, Contract!Becomes
        <2> QED
            BY <1>1, <2>1, <2>2 DEF Contract!Next
  <1>5. CASE call[h].op \in {"branch_succeed", "branch_fail"}
        <2>1. call[h].branch \in BranchIds
              BY <1>1, <1>5, RequestType DEF BranchOps
        <2>2. Contract!ReportBranch(g, call[h].branch, Reported(call[h].op))
              BY <1>1, <1>2, <1>5, SameRecord DEF Fit, Contract!ReportBranch, Contract!Exists, Contract!Becomes
        <2>3. Reported(call[h].op) \in {"Succeed", "Failed"}
              BY DEF Reported
        <2> QED
            BY <1>1, <2>1, <2>2, <2>3 DEF Contract!Next
  <1>6. CASE call[h].op = "abort"
        <2>1. Contract!Abort(g)
              BY <1>1, <1>2, <1>6, SameRecord DEF Fit, Contract!Abort, Contract!Exists, Contract!Becomes
        <2> QED
            BY <1>1, <2>1 DEF Contract!Next
  <1>7. CASE call[h].op = "submit"
        <2>1. /\ u # NoTxn /\ u \in GlobalTxn /\ u.status = "Committing"
              /\ NothingPrepared(u) /\ t = Decided(u)
              BY <1>1, <1>7 DEF Fit
        <2>2. FinalStatus(u) = IF SomeFailed(u) THEN "Aborted" ELSE "Committed"
              BY DEF FinalStatus, AllSucceed, SomeFailed
        <2>3. Contract!Decide(g)
              BY <1>2, <2>1, <2>2, SameRecord
              DEF Contract!Decide, Contract!Exists, Contract!Becomes, NothingPrepared, Decided
        <2> QED
            BY <1>1, <2>3 DEF Contract!Next
  <1>8. call[h].op \in AllOps
        BY <1>1, RequestType
  <1> QED
      BY <1>3, <1>4, <1>5, <1>6, <1>7, <1>8 DEF AllOps, BranchOps, Decisions

LEMMA OperationRefines ==
    ASSUME ShapeInv, SerialInv, NEW h \in Handlers, Operation(h)
    PROVE  Contract!Next \/ store' = store
  <1> DEFINE g == call[h].gid
             u == Stored(h)
  <1>1. Fit(pc[h], call[h], tx[h], u) /\ g \in Gids
        BY Working, HandlerData DEF SerialInv
  <1>2. CASE Save(h)
        BY <1>2, SaveRefines
  <1>3. CASE SubmitMark(h)
        <2>1. Contract!BeginSubmit(g)
              BY <1>1, <1>3
              DEF SubmitMark, Put, Stored, Fit, Contract!BeginSubmit, Contract!Exists, Contract!Becomes
        <2> QED
            BY <1>1, <2>1 DEF Contract!Next
  <1>4. CASE SubmitSaveResults(h)
        <2>1. u # NoTxn /\ u.status = "Committing"
              BY <1>1, <1>4 DEF SubmitSaveResults, Fit
        <2>2. PICK S \in SUBSET PreparedOf(u) : tx[h] = WithResults(u, S)
              BY <1>1, <1>4 DEF SubmitSaveResults, Fit
        <2>3. store' = [store EXCEPT ![g] = WithResults(u, S)] /\ store[g] = u
              BY <1>4, <2>2 DEF SubmitSaveResults, Put, Stored
        <2>4. S \in SUBSET {i \in DOMAIN store[g].branches : Contract!Prepared(store[g], i)}
              BY <2>3, SameRecord DEF PreparedOf
        <2>5. Contract!Becomes(g, [store[g] EXCEPT !.branches =
                  [i \in DOMAIN store[g].branches |->
                      IF Contract!Prepared(store[g], i)
                      THEN [store[g].branches[i] EXCEPT !.status =
                               IF i \in S THEN "Succeed" ELSE "Failed"]
                      ELSE store[g].branches[i]]])
              BY <2>3, SameRecord DEF WithResults, Contract!Becomes
        <2>6. Contract!Exists(g) /\ store[g].status = "Committing"
              BY <2>1, <2>3 DEF Contract!Exists
        <2>7. Contract!RecordResults(g)
              BY <2>4, <2>5, <2>6, Zenon DEF Contract!RecordResults
        <2> QED
            BY <1>1, <2>7 DEF Contract!Next
  <1>5. ~LateWriteLands(h)
        BY <1>1 DEF LateWriteLands, Fit
  <1> QED
      BY <1>2, <1>3, <1>4, <1>5
      DEF Operation, LoadMissing, AbortLoad, AddBranchLoad, BranchSucceedLoad, BranchFailLoad,
          BranchReport, SubmitLoad, SubmitSpawn, SubmitJoin, LateWriteLost, DetachedTasksEnd

LEMMA RefinementStep ==
    ShapeInv /\ SerialInv /\ [Next]_vars => [Contract!Next]_store \/ Fault
  <1> SUFFICES ASSUME ShapeInv, SerialInv, [Next]_vars PROVE Contract!Next \/ store' = store \/ Fault
      OBVIOUS
  <1>1. CASE \E h \in Handlers, r \in Requests : Call(h, r)
        BY <1>1 DEF Call, Accept
  <1>2. CASE \E h \in Handlers : Operation(h)
        BY <1>2, OperationRefines
  <1>3. CASE \E h \in Handlers : \E k \in DOMAIN tasks[h] : BranchTask(h, k)
        BY <1>3 DEF BranchTask, TaskSucceeds, TaskGivesUp, TaskEnds
  <1>4. CASE UNCHANGED vars
        BY <1>4 DEF vars
  <1> QED
      BY <1>1, <1>2, <1>3, <1>4 DEF Next

\* To clients that wait for each answer, every operation takes effect at once on the
\* transaction as it is, and a submit in three stages of one and the same transaction,
\* whenever the server crashes and for any number of gids, branches and handlers.
THEOREM SerialImplementsContract ==
    ASSUME Discipline = "serial", Faults \subseteq {"crash"}
    PROVE  Spec => ImplementsContract
  <1>1. Init => DecisionInv /\ SerialInv /\ Contract!Init
        BY SerialInit DEF Init, DecisionInv, DecisionSound, Contract!Init
  <1>2. ShapeInv /\ DecisionInv /\ SerialInv /\ [Next]_vars => DecisionInv' /\ SerialInv'
        BY DecisionNext, SerialNext
  <1>3. Fault => store' = store
        BY DEF Fault, StorageError, RequestDropped, Crash
  <1>4. ShapeInv /\ SerialInv /\ [Next]_vars => [Contract!Next]_store
        BY <1>3, RefinementStep
  <1> QED
      BY <1>1, <1>2, <1>4, ShapeAlways, PTL DEF Spec, ImplementsContract, Contract!Spec

-----------------------------------------------------------------------------
(* A participant that confirmed is not called again.                       *)

\* Branch b of t is not prepared: no submit of t calls its participant.
Closed(t, b) ==
    \E i \in DOMAIN t.branches : t.branches[i].branch_id = b /\ ~Prepared(t, i)

\* The k-th task of a submit calls a prepared branch of its copy, the one of rank k.
Backed(h) ==
    \A k \in DOMAIN tasks[h] : \E i \in DOMAIN tx[h].branches :
        /\ Prepared(tx[h], i)
        /\ PreparedRank(tx[h], i) = k
        /\ tx[h].branches[i].branch_id = tasks[h][k].branch

\* A submit knows that the participant of b confirmed and has not saved it yet.
Knows(h, b) ==
    /\ \E k \in DOMAIN tasks[h] : tasks[h][k].branch = b /\ tasks[h][k].state = "ok"
    /\ pc[h] = "spawn" \/ (pc[h] = "results" /\ Closed(tx[h], b))

\* A branch its participant confirmed is closed in what is stored, or a submit knows.
Settled(g, b) ==
    /\ store[g] # NoTxn
    /\ Closed(store[g], b) \/ \E h \in Handlers : pc[h] # "idle" /\ call[h].gid = g /\ Knows(h, b)

ConfirmInv ==
    /\ \A h \in Handlers : pc[h] = "spawn" => Backed(h)
    /\ \A g \in Gids, b \in BranchIds :
          confirmed[g][b] # 0 => confirmed[g][b] = 1 /\ Settled(g, b)

\* A closed branch stays closed under every update but a start.
LEMMA ClosedKept ==
    ASSUME NEW t \in GlobalTxn, NEW b \in BranchIds, Closed(t, b)
    PROVE  /\ \A c \in BranchIds : Closed(WithBranch(t, c), b)
           /\ \A c, s : s \in {"Succeed", "Failed"} => Closed(WithBranchStatus(t, c, s), b)
           /\ Closed(RolledBack(t), b)
           /\ \A s : Closed([t EXCEPT !.status = s], b)
           /\ \A S : Closed(WithResults(t, S), b)
  <1>1. PICK i \in DOMAIN t.branches : t.branches[i].branch_id = b /\ ~Prepared(t, i)
        BY DEF Closed
  <1>2. t.branches \in Seq(BranchTxn) /\ t.branches[i] \in BranchTxn
        BY BranchesDomain DEF GlobalTxn
  <1>3. ASSUME NEW c \in BranchIds PROVE Closed(WithBranch(t, c), b)
        <2>1. WithBranch(t, c).branches =
                  Append(t.branches, [branch_id |-> c, status |-> "Prepared"])
              BY DEF WithBranch, GlobalTxn
        <2>2. i \in DOMAIN WithBranch(t, c).branches /\ WithBranch(t, c).branches[i] = t.branches[i]
              BY <1>2, <2>1
        <2> QED
            BY <1>1, <2>2 DEF Closed, Prepared
  <1>4. ASSUME NEW c, NEW s \in {"Succeed", "Failed"} PROVE Closed(WithBranchStatus(t, c, s), b)
        BY <1>1, <1>2 DEF Closed, Prepared, WithBranchStatus, GlobalTxn, BranchTxn
  <1>5. Closed(RolledBack(t), b)
        BY <1>1, <1>2 DEF Closed, Prepared, RolledBack, BranchTxn
  <1>6. ASSUME NEW s PROVE Closed([t EXCEPT !.status = s], b)
        BY <1>1 DEF Closed, Prepared, GlobalTxn
  <1>7. ASSUME NEW S PROVE Closed(WithResults(t, S), b)
        BY <1>1, <1>2 DEF Closed, Prepared, WithResults, GlobalTxn
  <1> QED
      BY <1>3, <1>4, <1>5, <1>6, <1>7

\* The save of a request that is not a start leaves closed what is closed.
LEMMA SaveCloses ==
    ASSUME ShapeInv, SerialInv, NEW h \in Handlers, Save(h), call[h].op # "start",
           NEW b \in BranchIds, Stored(h) # NoTxn => Closed(Stored(h), b)
    PROVE  tx[h] # NoTxn /\ Closed(tx[h], b)
  <1> DEFINE u == Stored(h)
             c == call[h]
  <1>1. /\ Fit("save", c, tx[h], u) /\ c \in Requests /\ u \in GlobalTxn
        /\ Closed(u, b) /\ tx[h] # NoTxn
        BY HandlerData DEF Save, SerialInv, Fit, Writing
  <1>2. c.op \in AllOps /\ (c.op \in BranchOps => c.branch \in BranchIds)
        BY <1>1, RequestType
  <1>3. CASE c.op = "add_branch"
        BY <1>1, <1>2, <1>3, ClosedKept DEF Fit, BranchOps
  <1>4. CASE c.op \in {"branch_succeed", "branch_fail"}
        BY <1>1, <1>4, ClosedKept DEF Fit, Reported
  <1>5. CASE c.op = "abort"
        BY <1>1, <1>5, ClosedKept DEF Fit
  <1>6. CASE c.op = "submit"
        BY <1>1, <1>6, ClosedKept DEF Fit, Decided
  <1> QED
      BY <1>1, <1>2, <1>3, <1>4, <1>5, <1>6 DEF AllOps, BranchOps, Decisions

\* The results of a submit close the branches whose participants confirmed.
LEMMA JoinCloses ==
    ASSUME ShapeInv, NEW h \in Handlers, SubmitJoin(h), Backed(h), NEW b \in BranchIds, Knows(h, b)
    PROVE  Closed(tx'[h], b)
  <1>1. PICK k \in DOMAIN tasks[h] : tasks[h][k].branch = b /\ tasks[h][k].state = "ok"
        BY DEF SubmitJoin, Knows
  <1>2. PICK i \in DOMAIN tx[h].branches :
            /\ Prepared(tx[h], i)
            /\ PreparedRank(tx[h], i) = k
            /\ tx[h].branches[i].branch_id = b
        BY <1>1 DEF Backed
  <1>3. tx[h] \in GlobalTxn /\ tx[h].branches[i] \in BranchTxn
        BY <1>2, HandlerData, BranchesDomain DEF SubmitJoin
  <1>4. tx'[h] = ApplyResults(tx[h], tasks[h])
        BY DEF SubmitJoin, Proceed, ShapeInv, TypeOK
  <1>5. /\ i \in DOMAIN tx'[h].branches
        /\ tx'[h].branches[i] = [tx[h].branches[i] EXCEPT !.status = "Succeed"]
        BY <1>1, <1>2, <1>3, <1>4 DEF ApplyResults, GlobalTxn
  <1> QED
      BY <1>2, <1>3, <1>5 DEF Closed, Prepared, BranchTxn

\* No operation makes a submit forget what it has not saved, or reopens a branch.
LEMMA OwnSettled ==
    ASSUME ShapeInv, SerialInv, NEW h \in Handlers, Operation(h), pc[h] = "spawn" => Backed(h),
           NEW b \in BranchIds, Stored(h) # NoTxn, Closed(Stored(h), b) \/ Knows(h, b),
           ~(Save(h) /\ call[h].op = "start")
    PROVE  /\ store'[call[h].gid] # NoTxn
           /\ Closed(store'[call[h].gid], b) \/ (pc'[h] # "idle" /\ call'[h] = call[h] /\ Knows(h, b)')
  <1> DEFINE u == Stored(h)
             g == call[h].gid
  <1> USE DEF ShapeInv, TypeOK, Proceed, Return, Loading
  <1>1. pc[h] # "idle" /\ Fit(pc[h], call[h], tx[h], u) /\ g \in Gids /\ u \in GlobalTxn
        BY Working, HandlerData DEF SerialInv
  <1>2. u = store[g]
        BY DEF Stored
  <1>3. ASSUME UNCHANGED store, pc[h] \notin {"spawn", "results"}
        PROVE  store'[g] # NoTxn /\ Closed(store'[g], b)
        BY <1>2, <1>3 DEF Knows
  <1>4. CASE LoadMissing(h) \/ AbortLoad(h) \/ AddBranchLoad(h) \/ BranchSucceedLoad(h)
             \/ BranchFailLoad(h) \/ SubmitLoad(h) \/ LateWriteLost(h) \/ DetachedTasksEnd(h)
        BY <1>3, <1>4 DEF LoadMissing, AbortLoad, AddBranchLoad, BranchSucceedLoad,
           BranchFailLoad, BranchReport, SubmitLoad, LateWriteLost, DetachedTasksEnd
  <1>5. CASE LateWriteLands(h)
        BY <1>1, <1>5 DEF LateWriteLands, Fit
  <1>6. CASE Save(h)
        <2>1. Closed(u, b)
              BY <1>6 DEF Save, Knows
        <2>2. store'[g] = tx[h]
              BY <1>1, <1>6 DEF Save, Put
        <2> QED
            BY <1>6, <2>1, <2>2, SaveCloses
  <1>7. CASE SubmitMark(h)
        <2>1. Closed(u, b) /\ tx[h] = [u EXCEPT !.status = "Committing"]
              BY <1>1, <1>7 DEF SubmitMark, Fit, Knows
        <2>2. store'[g] = tx[h] /\ tx[h] # NoTxn
              BY <1>1, <1>7, HandlerData DEF SubmitMark, Put, Writing
        <2>3. Closed([u EXCEPT !.status = "Committing"], b)
              <3> HIDE DEF u
              <3> QED
                  BY <1>1, <2>1, ClosedKept, Zenon
        <2> QED
            BY <2>1, <2>2, <2>3
  <1>8. CASE SubmitSpawn(h)
        <2>1. UNCHANGED <<pc, call, tx, store>>
              BY <1>8 DEF SubmitSpawn
        <2>2. /\ \A k \in DOMAIN tasks[h] : tasks'[h][k] = tasks[h][k]
              /\ DOMAIN tasks[h] \subseteq DOMAIN tasks'[h]
              BY <1>8, SpawnTasks
        <2> QED
            BY <1>1, <1>2, <2>1, <2>2 DEF Knows
  <1>9. CASE SubmitJoin(h)
        <2>1. store' = store /\ pc'[h] = "results" /\ call'[h] = call[h] /\ tasks' = tasks
              BY <1>9 DEF SubmitJoin
        <2>2. CASE Closed(u, b)
              BY <1>2, <2>1, <2>2
        <2>3. CASE Knows(h, b)
              <3>1. Backed(h)
                    BY <1>9 DEF SubmitJoin
              <3>2. Closed(tx'[h], b)
                    BY <1>9, <2>3, <3>1, JoinCloses
              <3> QED
                  BY <1>2, <2>1, <3>2 DEF Knows
        <2> QED
            BY <2>2, <2>3
  <1>10. CASE SubmitSaveResults(h)
        <2>1. PICK S \in SUBSET PreparedOf(u) : tx[h] = WithResults(u, S)
              BY <1>1, <1>10 DEF SubmitSaveResults, Fit
        <2>2. Closed(u, b) \/ Closed(tx[h], b)
              BY <1>10 DEF SubmitSaveResults, Knows
        <2>3. Closed(tx[h], b)
              BY <1>1, <2>1, <2>2, ClosedKept
        <2>4. store'[g] = tx[h] /\ tx[h] # NoTxn
              BY <1>1, <1>10, HandlerData DEF SubmitSaveResults, Put, Writing
        <2> QED
            BY <2>3, <2>4
  <1> QED
      BY <1>4, <1>5, <1>6, <1>7, <1>8, <1>9, <1>10 DEF Operation

\* The tasks of a submit call the prepared branches of its copy one after the other.
LEMMA BackedNext ==
    ASSUME ShapeInv, ConfirmInv, [Next]_vars, NEW h \in Handlers, pc'[h] = "spawn"
    PROVE  Backed(h)'
  <1>1. CASE pc[h] = "spawn" /\ tx'[h] = tx[h] /\ tasks'[h] = tasks[h]
        BY <1>1 DEF ConfirmInv, Backed
  <1>2. CASE tasks'[h] = <<>>
        BY <1>2 DEF Backed
  <1>3. CASE SubmitSpawn(h)
        <2>1. pc[h] = "spawn" /\ tx' = tx
              BY <1>3 DEF SubmitSpawn
        <2>2. Backed(h)
              BY <2>1 DEF ConfirmInv
        <2>3. /\ DOMAIN tasks'[h] = DOMAIN tasks[h] \cup {Len(tasks[h]) + 1}
              /\ \A k \in DOMAIN tasks[h] : tasks'[h][k] = tasks[h][k]
              BY <1>3, SpawnTasks
        <2>4. PICK m \in DOMAIN tx[h].branches :
                  /\ Prepared(tx[h], m)
                  /\ PreparedRank(tx[h], m) = Len(tasks[h]) + 1
                  /\ tasks'[h][Len(tasks[h]) + 1] =
                        [branch |-> tx[h].branches[m].branch_id, state |-> "running"]
              BY <1>3, SpawnTasks, Zenon
        <2>5. \A k \in DOMAIN tasks'[h] : \E i \in DOMAIN tx[h].branches :
                  /\ Prepared(tx[h], i)
                  /\ PreparedRank(tx[h], i) = k
                  /\ tx[h].branches[i].branch_id = tasks'[h][k].branch
              BY <2>2, <2>3, <2>4 DEF Backed
        <2> QED
            BY <2>1, <2>5 DEF Backed, Prepared, PreparedRank
  <1>4. ASSUME NEW k \in DOMAIN tasks[h], BranchTask(h, k) PROVE Backed(h)'
        <2>1. pc[h] = "spawn" /\ tx' = tx
              BY <1>4, TaskEndTasks
        <2>2. /\ DOMAIN tasks'[h] = DOMAIN tasks[h]
              /\ \A j \in DOMAIN tasks[h] : tasks'[h][j].branch = tasks[h][j].branch
              BY <1>4, TaskEndTasks
        <2> QED
            BY <2>1, <2>2 DEF ConfirmInv, Backed
  <1>5. CASE pc[h] = "mark" /\ tasks'[h] = tasks[h]
        BY <1>5 DEF ShapeInv, Shape, Backed
  <1>6. CASE tasks'[h] = tasks[h]
        <2>1. \/ Stays(h) \/ Empties(h) \/ Loads(h) \/ Advances(h)
              \/ Joins(h) \/ Decides(h) \/ Accepts(h)
              BY HandlerStep
        <2>2. Stays(h) \/ Advances(h)
              BY <2>1 DEF Empties, Loads, Joins, Decides, Accepts, Call, Accept, ShapeInv, TypeOK
        <2> QED
            BY <1>1, <1>5, <1>6, <2>2 DEF Stays, Advances
  <1> QED
      BY <1>2, <1>3, <1>4, <1>6, TasksStep

\* What others know of another transaction, or of this one, is not touched.
LEMMA OthersKnow ==
    ASSUME ShapeInv, NEW h \in Handlers, NEW x \in Handlers \ {h},
           Operation(h) \/ \E k \in DOMAIN tasks[h] : BranchTask(h, k),
           NEW b \in BranchIds, pc[x] # "idle", Knows(x, b)
    PROVE  pc'[x] # "idle" /\ call'[x] = call[x] /\ Knows(x, b)'
  <1>1. Stays(x)
        BY OthersStay
  <1>2. tasks'[x] = tasks[x]
        BY DEF Operation, LoadMissing, AbortLoad, AddBranchLoad, BranchSucceedLoad,
           BranchFailLoad, BranchReport, SubmitLoad, SubmitMark, SubmitSpawn, SubmitJoin,
           SubmitSaveResults, Save, LateWriteLands, LateWriteLost, DetachedTasksEnd,
           Proceed, Return, ShapeInv, TypeOK, BranchTask, TaskSucceeds, TaskGivesUp, TaskEnds
  <1> QED
      BY <1>1, <1>2 DEF Stays, Knows

\* A participant is called only for a branch that it has not confirmed: the branch is
\* prepared in the copy, which is what is stored, and each branch has one task.
LEMMA OneTaskPerBranch ==
    ASSUME ShapeInv, UniqueInv, SerialInv, ConfirmInv,
           NEW h \in Handlers, NEW k \in DOMAIN tasks[h], tasks[h][k].state = "running"
    PROVE  /\ pc[h] = "spawn" /\ call[h].gid \in Gids /\ Stored(h) # NoTxn
           /\ tasks[h][k].branch \in BranchIds
           /\ confirmed[call[h].gid][tasks[h][k].branch] = 0
  <1> DEFINE g == call[h].gid
             b == tasks[h][k].branch
  <1>1. k \in Running(h)
        BY DEF Running
  <1>2. pc[h] \in {"spawn", "detached"}
        BY <1>1 DEF ShapeInv, Shape
  <1>3. /\ pc[h] = "spawn" /\ g \in Gids
        /\ Stored(h) # NoTxn /\ tx[h] = Stored(h) /\ Stored(h) = store[g]
        BY <1>2, HandlerData DEF SerialInv, Fit, Stored
  <1>4. b \in BranchIds
        <2>1. tasks[h] \in Seq(Task)
              BY DEF ShapeInv, TypeOK
        <2>2. tasks[h][k] \in Task
              BY <2>1
        <2> QED
            BY <2>2 DEF Task
  <1>5. Backed(h) /\ UniqueIds(tx[h])
        BY <1>3 DEF ConfirmInv, UniqueInv
  <1>6. PICK i \in DOMAIN tx[h].branches :
            /\ Prepared(tx[h], i)
            /\ PreparedRank(tx[h], i) = k
            /\ tx[h].branches[i].branch_id = b
        BY <1>5 DEF Backed
  <1>7. ~Closed(store[g], b)
        BY <1>3, <1>5, <1>6 DEF Closed, UniqueIds
  <1>8. ~Knows(h, b)
        <2> SUFFICES ASSUME NEW j \in DOMAIN tasks[h],
                            tasks[h][j].branch = b, tasks[h][j].state = "ok"
                     PROVE  FALSE
            BY <1>3 DEF Knows
        <2>1. PICK m \in DOMAIN tx[h].branches :
                  /\ PreparedRank(tx[h], m) = j
                  /\ tx[h].branches[m].branch_id = b
              BY <1>5 DEF Backed
        <2>2. m = i
              BY <1>5, <1>6, <2>1 DEF UniqueIds
        <2> QED
            BY <1>6, <2>1, <2>2
  <1>9. ~Settled(g, b)
        BY <1>3, <1>7, <1>8 DEF Settled, SerialInv
  <1> QED
      BY <1>3, <1>4, <1>9 DEF ConfirmInv

LEMMA OperationConfirms ==
    ASSUME ShapeInv, SerialInv, ConfirmInv, NEW h \in Handlers, Operation(h),
           NEW g \in Gids, NEW b \in BranchIds, confirmed'[g][b] # 0
    PROVE  confirmed'[g][b] = 1 /\ Settled(g, b)'
  <1>1. /\ pc[h] # "idle" /\ call[h].gid \in Gids
        /\ \A x \in Handlers \ {h} : pc[x] # "idle" => call[x].gid # call[h].gid
        BY Working, HandlerData DEF SerialInv
  <1>2. CASE Save(h) /\ call[h].op = "start" /\ call[h].gid = g
        BY <1>2 DEF Save, ShapeInv, TypeOK
  <1>3. CASE ~(Save(h) /\ call[h].op = "start" /\ call[h].gid = g)
        <2>1. confirmed'[g][b] = confirmed[g][b]
              BY <1>1, <1>3 DEF Operation, LoadMissing, AbortLoad, AddBranchLoad,
                 BranchSucceedLoad, BranchFailLoad, BranchReport, SubmitLoad, SubmitMark,
                 SubmitSpawn, SubmitJoin, SubmitSaveResults, Save, LateWriteLands,
                 LateWriteLost, DetachedTasksEnd, historyVars, ShapeInv, TypeOK
        <2>2. confirmed[g][b] = 1 /\ Settled(g, b)
              BY <2>1 DEF ConfirmInv
        <2>3. CASE call[h].gid = g
              <3>1. Stored(h) # NoTxn /\ (Closed(Stored(h), b) \/ Knows(h, b))
                    BY <1>1, <2>2, <2>3 DEF Settled, Stored
              <3>2. pc[h] = "spawn" => Backed(h)
                    BY DEF ConfirmInv
              <3>3. /\ store'[g] # NoTxn
                    /\ \/ Closed(store'[g], b)
                       \/ pc'[h] # "idle" /\ call'[h] = call[h] /\ Knows(h, b)'
                    BY <1>3, <2>3, <3>1, <3>2, OwnSettled
              <3>4. Settled(g, b)'
                    BY <2>3, <3>3 DEF Settled, Closed
              <3> QED
                  BY <2>1, <2>2, <3>4
        <2>4. CASE call[h].gid # g
              <3>1. store'[g] = store[g]
                    BY <2>4, OtherGids
              <3>2. ASSUME NEW x \in Handlers, pc[x] # "idle", call[x].gid = g, Knows(x, b)
                    PROVE  pc'[x] # "idle" /\ call'[x].gid = g /\ Knows(x, b)'
                    BY <2>4, <3>2, OthersKnow
              <3>3. Settled(g, b)'
                    BY <2>2, <3>1, <3>2 DEF Settled, Closed
              <3> QED
                  BY <2>1, <2>2, <3>3
        <2> QED
            BY <2>3, <2>4
  <1> QED
      BY <1>2, <1>3

LEMMA TaskConfirms ==
    ASSUME ShapeInv, UniqueInv, SerialInv, ConfirmInv,
           NEW h \in Handlers, NEW k \in DOMAIN tasks[h], BranchTask(h, k),
           NEW g \in Gids, NEW b \in BranchIds, confirmed'[g][b] # 0
    PROVE  confirmed'[g][b] = 1 /\ Settled(g, b)'
  <1>1. tasks[h][k].state = "running" /\ store' = store
        BY DEF BranchTask, TaskSucceeds, TaskGivesUp, TaskEnds
  <1>2. /\ UNCHANGED <<pc, call, tx>>
        /\ DOMAIN tasks'[h] = DOMAIN tasks[h]
        /\ \A j \in DOMAIN tasks[h] \ {k} : tasks'[h][j] = tasks[h][j]
        /\ tasks'[h][k].branch = tasks[h][k].branch
        BY TaskEndTasks
  <1>3. /\ pc[h] = "spawn" /\ call[h].gid \in Gids /\ Stored(h) # NoTxn
        /\ tasks[h][k].branch \in BranchIds
        /\ confirmed[call[h].gid][tasks[h][k].branch] = 0
        BY <1>1, OneTaskPerBranch
  <1>4. ASSUME Settled(g, b) PROVE Settled(g, b)'
        <2>1. CASE Closed(store[g], b)
              BY <1>1, <1>4, <2>1 DEF Settled, Closed
        <2>2. ASSUME NEW x \in Handlers, pc[x] # "idle", call[x].gid = g, Knows(x, b)
              PROVE  Knows(x, b)'
              <3>1. CASE x = h
                    BY <1>1, <1>2, <1>3, <2>2, <3>1 DEF Knows
              <3>2. CASE x # h
                    BY <2>2, <3>2, OthersKnow
              <3> QED
                  BY <3>1, <3>2
        <2> QED
            BY <1>1, <1>2, <1>4, <2>1, <2>2 DEF Settled
  <1>5. CASE confirmed'[g][b] = confirmed[g][b]
        BY <1>4, <1>5 DEF ConfirmInv
  <1>6. CASE confirmed'[g][b] # confirmed[g][b]
        <2>1. /\ TaskEnds(h, k, "ok")
              /\ confirmed' = [confirmed EXCEPT ![call[h].gid][tasks[h][k].branch] =
                                  AtMost(@ + 1, ConfirmCap)]
              BY <1>6 DEF BranchTask, TaskSucceeds, TaskGivesUp
        <2>2. g = call[h].gid /\ b = tasks[h][k].branch
              BY <1>3, <1>6, <2>1 DEF ShapeInv, TypeOK
        <2>3. confirmed'[g][b] = AtMost(1, ConfirmCap)
              BY <1>3, <2>1, <2>2 DEF ShapeInv, TypeOK
        <2>4. confirmed'[g][b] = 1
              BY <2>3, ParamAssumption DEF AtMost
        <2>5. tasks'[h][k].state = "ok"
              BY <2>1 DEF TaskEnds, ShapeInv, TypeOK, Task
        <2>6. Knows(h, b)' /\ pc'[h] # "idle" /\ call'[h].gid = g
              BY <1>2, <1>3, <2>2, <2>5 DEF Knows
        <2>7. store'[g] # NoTxn
              BY <1>1, <1>3, <2>2 DEF Stored
        <2> QED
            BY <2>4, <2>6, <2>7 DEF Settled
  <1> QED
      BY <1>5, <1>6

LEMMA ConfirmNext ==
    ASSUME Faults \subseteq {"crash"}
    PROVE  ShapeInv /\ UniqueInv /\ SerialInv /\ ConfirmInv /\ [Next]_vars => ConfirmInv'
  <1> SUFFICES ASSUME ShapeInv, UniqueInv, SerialInv, ConfirmInv, [Next]_vars,
                      NEW g \in Gids, NEW b \in BranchIds, confirmed'[g][b] # 0
               PROVE  confirmed'[g][b] = 1 /\ Settled(g, b)'
      BY BackedNext DEF ConfirmInv
  <1>1. ASSUME NEW h \in Handlers, NEW r \in Requests, Call(h, r)
        PROVE  confirmed'[g][b] = 1 /\ Settled(g, b)'
        <2>1. UNCHANGED <<store, tasks, confirmed>> /\ pc[h] = "idle"
              BY <1>1 DEF Call, Accept
        <2>2. \A x \in Handlers \ {h} : Stays(x)
              BY <1>1, OthersStay
        <2> QED
            BY <2>1, <2>2 DEF ConfirmInv, Settled, Knows, Closed, Stays
  <1>2. ASSUME NEW h \in Handlers, Operation(h) PROVE confirmed'[g][b] = 1 /\ Settled(g, b)'
        BY <1>2, OperationConfirms
  <1>3. ASSUME NEW h \in Handlers, NEW k \in DOMAIN tasks[h], BranchTask(h, k)
        PROVE  confirmed'[g][b] = 1 /\ Settled(g, b)'
        BY <1>3, TaskConfirms
  <1>4. CASE Fault
        <2>1. store' = store /\ ~Unstored(g, b) /\ confirmed'[g][b] = confirmed[g][b]
              BY <1>4 DEF Fault, StorageError, RequestDropped, Crash
        <2>2. confirmed[g][b] = 1 /\ Settled(g, b)
              BY <2>1 DEF ConfirmInv
        <2>3. \A h \in Handlers : call[h].gid = g => ~Knows(h, b)
              BY <2>1 DEF Unstored, Busy, Knows
        <2> QED
            BY <2>1, <2>2, <2>3 DEF Settled, Closed
  <1>5. CASE UNCHANGED vars
        BY <1>5 DEF vars, handlerVars, historyVars, ConfirmInv, Settled, Knows, Closed
  <1> QED
      BY <1>1, <1>2, <1>3, <1>4, <1>5 DEF Next

\* For one client at a time, a participant that confirmed a branch is not called for it
\* again until the transaction is started anew: neither by a second submit, nor after an
\* abort, a report or a restart, for any number of branches and handlers. The only answers
\* a crash makes the server forget, and that do not count, are those of a submit that has
\* not saved its results.
THEOREM SerialConfirmsOnce ==
    ASSUME Discipline = "serial", Faults \subseteq {"crash"}
    PROVE  Spec => []ConfirmedOnce
  <1>1. Init => DecisionInv /\ SerialInv /\ UniqueInv /\ ConfirmInv
        BY SerialInit DEF Init, DecisionInv, DecisionSound, UniqueInv, ConfirmInv
  <1>2. ShapeInv /\ DecisionInv /\ SerialInv /\ UniqueInv /\ ConfirmInv /\ [Next]_vars =>
            DecisionInv' /\ SerialInv' /\ UniqueInv' /\ ConfirmInv'
        BY DecisionNext, SerialNext, UniqueNext, ConfirmNext
  <1>3. ConfirmInv => ConfirmedOnce
        <2> SUFFICES ASSUME ConfirmInv, NEW g \in Gids, NEW b \in BranchIds
                     PROVE  confirmed[g][b] <= 1
            BY DEF ConfirmedOnce
        <2>1. confirmed[g][b] \in {0, 1}
              BY DEF ConfirmInv
        <2> QED
            BY <2>1
  <1> QED
      BY <1>1, <1>2, <1>3, ShapeAlways, PTL DEF Spec

=============================================================================
