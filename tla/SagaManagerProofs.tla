--------------------------- MODULE SagaManagerProofs ---------------------------
(***************************************************************************)
(* Invariants of SagaManager for all gids, branch ids, handlers, client    *)
(* disciplines and faults; before them, what the updates of SeataDomain    *)
(* return and preserve for every transaction.                              *)
(***************************************************************************)
EXTENDS SagaManager, FiniteSetTheorems, TLAPS

\* u lists the branches of t, in the same order, with whatever statuses.
SameBranches(t, u) ==
    /\ DOMAIN u.branches = DOMAIN t.branches
    /\ \A i \in DOMAIN t.branches :
          u.branches[i].branch_id = t.branches[i].branch_id

-----------------------------------------------------------------------------
(* Types. Every update of a transaction is a transaction, and every one    *)
(* except the push of add_branch keeps the list of branch ids.             *)

\* GlobalTxn::new returns a transaction.
LEMMA NewTxnType == NewTxn \in GlobalTxn
  BY DEF NewTxn, GlobalTxn, GlobalStatus

\* A transaction's branches are a sequence over 1..Len.
LEMMA BranchesDomain ==
  ASSUME NEW t \in GlobalTxn
  PROVE  /\ Len(t.branches) \in Nat
         /\ DOMAIN t.branches = 1..Len(t.branches)
         /\ \A i \in DOMAIN t.branches : t.branches[i] \in BranchTxn
  BY DEF GlobalTxn

\* A function on the positions of t with branches as values is a sequence.
LEMMA BranchSequence ==
  ASSUME NEW t \in GlobalTxn, NEW f,
         f = [i \in DOMAIN t.branches |-> f[i]],
         \A i \in DOMAIN t.branches : f[i] \in BranchTxn
  PROVE  f \in Seq(BranchTxn) /\ DOMAIN f = DOMAIN t.branches
<1>1. PICK n \in Nat : DOMAIN t.branches = 1..n
  BY BranchesDomain
<1>2. f \in [1..n -> BranchTxn]
  BY <1>1
<1> QED
  BY <1>1, <1>2

\* The push of add_branch returns a transaction.
LEMMA WithBranchType ==
  ASSUME NEW t \in GlobalTxn, NEW b \in BranchIds
  PROVE  WithBranch(t, b) \in GlobalTxn
<1>1. [branch_id |-> b, status |-> "Prepared"] \in BranchTxn
  BY DEF BranchTxn, BranchStatus
<1>2. Append(t.branches, [branch_id |-> b, status |-> "Prepared"]) \in Seq(BranchTxn)
  BY <1>1 DEF GlobalTxn
<1> QED
  BY <1>2 DEF WithBranch, GlobalTxn

\* A new global status leaves a transaction with the same branches: the marks
\* submit sets before and after it runs the branches.
LEMMA WithStatusType ==
  ASSUME NEW t \in GlobalTxn, NEW s \in GlobalStatus
  PROVE  /\ [t EXCEPT !.status = s] \in GlobalTxn
         /\ [t EXCEPT !.status = s].branches = t.branches
         /\ [t EXCEPT !.status = s].status = s
  BY DEF GlobalTxn

\* The decision of submit is a global status.
LEMMA DecidedType ==
  ASSUME NEW t \in GlobalTxn
  PROVE  /\ Decided(t) \in GlobalTxn
         /\ Decided(t).branches = t.branches
<1>1. FinalStatus(t) \in GlobalStatus
  BY DEF FinalStatus, GlobalStatus
<1> QED
  BY <1>1, WithStatusType DEF Decided

\* A report changes statuses only.
LEMMA WithBranchStatusType ==
  ASSUME NEW t \in GlobalTxn, NEW b \in BranchIds, NEW s \in BranchStatus
  PROVE  /\ WithBranchStatus(t, b, s) \in GlobalTxn
         /\ SameBranches(t, WithBranchStatus(t, b, s))
<1> DEFINE f == [i \in DOMAIN t.branches |->
                   IF IsFirst(t, b, i) THEN [t.branches[i] EXCEPT !.status = s]
                                       ELSE t.branches[i]]
<1>1. \A i \in DOMAIN t.branches : /\ f[i] \in BranchTxn
                                   /\ f[i].branch_id = t.branches[i].branch_id
  BY BranchesDomain DEF BranchTxn
<1>2. f = [i \in DOMAIN t.branches |-> f[i]]
  OBVIOUS
<1>3. /\ f \in Seq(BranchTxn)
      /\ DOMAIN f = DOMAIN t.branches
  <2> HIDE DEF f
  <2> QED
    BY <1>1, <1>2, BranchSequence
<1>4. /\ WithBranchStatus(t, b, s) = [t EXCEPT !.branches = f]
      /\ WithBranchStatus(t, b, s).branches = f
  BY DEF WithBranchStatus, GlobalTxn
<1> HIDE DEF f
<1> QED
  BY <1>1, <1>3, <1>4 DEF GlobalTxn, SameBranches

\* So does the rollback of abort.
LEMMA RolledBackType ==
  ASSUME NEW t \in GlobalTxn
  PROVE  /\ RolledBack(t) \in GlobalTxn
         /\ SameBranches(t, RolledBack(t))
<1> DEFINE f == RolledBack(t).branches
<1>1. \A i \in DOMAIN t.branches : /\ f[i] \in BranchTxn
                                   /\ f[i].branch_id = t.branches[i].branch_id
  BY BranchesDomain DEF BranchTxn, BranchStatus, RolledBack
<1>2. f = [i \in DOMAIN t.branches |-> f[i]]
  BY DEF RolledBack
<1>3. /\ f \in Seq(BranchTxn)
      /\ DOMAIN f = DOMAIN t.branches
  <2> HIDE DEF f
  <2> QED
    BY <1>1, <1>2, BranchSequence
<1> QED
  BY <1>1, <1>3 DEF RolledBack, GlobalTxn, GlobalStatus, SameBranches

\* And the results of the branch tasks, however many handles there are.
LEMMA ApplyResultsType ==
  ASSUME NEW t \in GlobalTxn, NEW handles
  PROVE  /\ ApplyResults(t, handles) \in GlobalTxn
         /\ SameBranches(t, ApplyResults(t, handles))
<1> DEFINE f == [i \in DOMAIN t.branches |->
                   IF Prepared(t, i) /\ PreparedRank(t, i) \in DOMAIN handles
                   THEN [t.branches[i] EXCEPT !.status =
                           IF handles[PreparedRank(t, i)].state = "ok"
                           THEN "Succeed" ELSE "Failed"]
                   ELSE t.branches[i]]
<1>1. \A i \in DOMAIN t.branches : /\ f[i] \in BranchTxn
                                   /\ f[i].branch_id = t.branches[i].branch_id
  BY BranchesDomain DEF BranchTxn, BranchStatus
<1>2. f = [i \in DOMAIN t.branches |-> f[i]]
  OBVIOUS
<1>3. /\ f \in Seq(BranchTxn)
      /\ DOMAIN f = DOMAIN t.branches
  <2> HIDE DEF f
  <2> QED
    BY <1>1, <1>2, BranchSequence
<1>4. /\ ApplyResults(t, handles) = [t EXCEPT !.branches = f]
      /\ ApplyResults(t, handles).branches = f
  BY DEF ApplyResults, GlobalTxn
<1> HIDE DEF f
<1> QED
  BY <1>1, <1>3, <1>4 DEF GlobalTxn, SameBranches

-----------------------------------------------------------------------------
(* Ranks. The handle of rank k belongs to one prepared branch only.        *)

\* Two prepared branches never have the same rank, so zip never gives one
\* handle's result to two branches.
LEMMA RankInjective ==
  ASSUME NEW t \in GlobalTxn, NEW i \in DOMAIN t.branches, NEW j \in DOMAIN t.branches,
         Prepared(t, i), Prepared(t, j), PreparedRank(t, i) = PreparedRank(t, j)
  PROVE  i = j
<1> DEFINE P(n) == {m \in 1..n : Prepared(t, m)}
<1>1. i \in Nat \ {0} /\ j \in Nat \ {0}
  BY BranchesDomain
<1>2. ASSUME NEW m \in Nat, NEW n \in Nat, n # 0, m < n, Prepared(t, n)
      PROVE  Cardinality(P(m)) # Cardinality(P(n))
  <2>1. IsFiniteSet(P(n))
    <3>1. IsFiniteSet(1..n)
      BY FS_Interval
    <3> QED
      BY <3>1, FS_Subset
  <2>2. P(m) \in SUBSET P(n) /\ n \in P(n) /\ n \notin P(m)
    BY <1>2
  <2> QED
    BY <2>1, <2>2, FS_Subset
<1> HIDE DEF P
<1>3. Cardinality(P(i)) = Cardinality(P(j))
  BY DEF P, PreparedRank
<1> QED
  BY <1>1, <1>2, <1>3

-----------------------------------------------------------------------------
(* Requests and the semaphore.                                             *)

\* A request names a gid, and a branch if its operation takes one.
LEMMA RequestType ==
  ASSUME NEW r \in Requests
  PROVE  /\ r.gid \in Gids
         /\ r.op \in AllOps
         /\ r.op \in BranchOps => r.branch \in BranchIds
  BY ParamAssumption DEF Requests, BranchOps, AllOps, Decisions

\* The semaphore always has a permit to give.
LEMMA SemaphoreSizeType == SemaphoreSize \in Nat \ {0}
  BY ParamAssumption DEF SemaphoreSize

-----------------------------------------------------------------------------
(* Types and the shape of a handler.                                       *)

\* What a handler holds at each label: a request while it is not idle, a copy
\* wherever it may save one, tasks and permits only inside submit, and as many
\* permits taken as tasks running.
Shape(h) ==
    /\ pc[h] # "idle" => call[h] \in Requests
    /\ pc[h] \in Writing \cup {"spawn", "zombie"} => tx[h] \in GlobalTxn
    /\ pc[h] \in {"mark", "spawn", "results", "detached"} => call[h].op = "submit"
    /\ pc[h] \in {"idle", "load", "mark", "zombie"} => tasks[h] = <<>> /\ permits[h] = 0
    /\ pc[h] \notin {"spawn", "detached"} => Running(h) = {}
    /\ pc[h] \in {"spawn", "detached"} =>
          permits[h] + Cardinality(Running(h)) = SemaphoreSize

ShapeInv == TypeOK /\ \A h \in Handlers : Shape(h)

\* The running tasks of a submit can be counted.
LEMMA RunningFinite ==
  ASSUME TypeOK, NEW h \in Handlers
  PROVE  /\ IsFiniteSet(Running(h))
         /\ Cardinality(Running(h)) \in Nat
<1>1. Running(h) \in SUBSET (1..Len(tasks[h])) /\ Len(tasks[h]) \in Nat
  BY DEF TypeOK, Running
<1>2. IsFiniteSet(1..Len(tasks[h]))
  BY <1>1, FS_Interval
<1> QED
  BY <1>1, <1>2, FS_Subset, FS_CardinalityType

LEMMA ShapeInit == Init => ShapeInv
<1> SUFFICES ASSUME Init PROVE ShapeInv
  OBVIOUS
<1>1. TypeOK
  BY ParamAssumption, SemaphoreSizeType DEF Init, TypeOK, PC
<1>2. ASSUME NEW h \in Handlers PROVE Shape(h)
  BY DEF Init, Shape, Running, Writing
<1> QED
  BY <1>1, <1>2 DEF ShapeInv

\* A handler that returns is idle and holds nothing.
LEMMA ReturnShape ==
  ASSUME ShapeInv, NEW h \in Handlers, Return(h)
  PROVE  /\ pc' \in [Handlers -> PC]
         /\ call' \in [Handlers -> Requests \cup {NoRequest}]
         /\ tx' \in [Handlers -> GlobalTxn \cup {NoTxn}]
         /\ tasks' \in [Handlers -> Seq(Task)]
         /\ permits' \in [Handlers -> 0..SemaphoreSize]
         /\ \A x \in Handlers : Shape(x)'
<1>1. /\ pc' \in [Handlers -> PC]
      /\ call' \in [Handlers -> Requests \cup {NoRequest}]
      /\ tx' \in [Handlers -> GlobalTxn \cup {NoTxn}]
      /\ tasks' \in [Handlers -> Seq(Task)]
      /\ permits' \in [Handlers -> 0..SemaphoreSize]
  BY SemaphoreSizeType DEF ShapeInv, TypeOK, Return, PC
<1>2. ASSUME NEW x \in Handlers, x # h PROVE Shape(x)'
  BY <1>2 DEF ShapeInv, TypeOK, Shape, Return, Running
<1>3. Shape(h)'
  BY DEF ShapeInv, TypeOK, Shape, Return, Running, Writing
<1> QED
  BY <1>1, <1>2, <1>3

\* A handler that goes on at a label it may be at, with a transaction as its
\* copy and without running tasks, keeps the shape.
LEMMA ProceedShape ==
  ASSUME ShapeInv, NEW h \in Handlers, NEW l \in {"mark", "save", "results"},
         NEW t \in GlobalTxn, pc[h] \in {"load", "spawn", "results"}, Running(h) = {},
         l = "mark" => pc[h] = "load",
         l \in {"mark", "results"} => call[h].op = "submit",
         Proceed(h, l, t)
  PROVE  /\ pc' \in [Handlers -> PC]
         /\ call' \in [Handlers -> Requests \cup {NoRequest}]
         /\ tx' \in [Handlers -> GlobalTxn \cup {NoTxn}]
         /\ tasks' \in [Handlers -> Seq(Task)]
         /\ permits' \in [Handlers -> 0..SemaphoreSize]
         /\ \A x \in Handlers : Shape(x)'
<1>1. /\ pc' \in [Handlers -> PC]
      /\ call' \in [Handlers -> Requests \cup {NoRequest}]
      /\ tx' \in [Handlers -> GlobalTxn \cup {NoTxn}]
      /\ tasks' \in [Handlers -> Seq(Task)]
      /\ permits' \in [Handlers -> 0..SemaphoreSize]
  BY DEF ShapeInv, TypeOK, Proceed, PC, Unanswered, Writing
<1>2. ASSUME NEW x \in Handlers, x # h PROVE Shape(x)'
  BY <1>2 DEF ShapeInv, TypeOK, Shape, Proceed, Running
<1>3. Shape(h)'
  BY DEF ShapeInv, TypeOK, Shape, Proceed, Running, Writing
<1> QED
  BY <1>1, <1>2, <1>3

\* A stored transaction that a handler loads is one.
LEMMA StoredType ==
  ASSUME ShapeInv, NEW h \in Handlers, pc[h] # "idle"
  PROVE  /\ call[h] \in Requests
         /\ Stored(h) \in GlobalTxn \cup {NoTxn}
  BY RequestType DEF ShapeInv, TypeOK, Shape, Stored

\* A save puts a transaction into the store.
LEMMA PutType ==
  ASSUME ShapeInv, NEW h \in Handlers, pc[h] \in Writing \cup {"zombie"}, Put(h)
  PROVE  store' \in [Gids -> GlobalTxn \cup {NoTxn}]
<1>1. tx[h] \in GlobalTxn /\ call[h] \in Requests
  BY DEF ShapeInv, Shape, Writing
<1> QED
  BY <1>1, RequestType DEF ShapeInv, TypeOK, Put

LEMMA ShapeAccept ==
  ASSUME ShapeInv, NEW h \in Handlers, NEW r \in Requests, Accept(h, r)
  PROVE  ShapeInv'
<1>1. /\ pc' \in [Handlers -> PC]
      /\ call' \in [Handlers -> Requests \cup {NoRequest}]
      /\ tx' \in [Handlers -> GlobalTxn \cup {NoTxn}]
  BY NewTxnType DEF ShapeInv, TypeOK, Accept, PC, Unanswered, Writing
<1>2. phase' \in [Gids -> {"new", "building", "deciding"}]
  BY RequestType DEF ShapeInv, TypeOK, Accept
<1>3. evidence' \subseteq Gids \X BranchIds \X BranchStatus
  <2> DEFINE added ==
         CASE r.op = "add_branch"     -> {<<r.gid, r.branch, "Prepared">>}
           [] r.op = "branch_succeed" -> {<<r.gid, r.branch, "Succeed">>}
           [] r.op = "branch_fail"    -> {<<r.gid, r.branch, "Failed">>}
           [] r.op = "abort"          -> {r.gid} \X BranchIds \X {"Failed"}
           [] OTHER                   -> {}
  <2>1. added \subseteq Gids \X BranchIds \X BranchStatus
    BY RequestType DEF BranchOps, BranchStatus
  <2>2. evidence' = evidence \cup added
    BY DEF Accept
  <2> HIDE DEF added
  <2> QED
    BY <2>1, <2>2 DEF ShapeInv, TypeOK
<1>4. ASSUME NEW x \in Handlers, x # h PROVE Shape(x)'
  BY <1>4 DEF ShapeInv, TypeOK, Shape, Accept, Running
<1>5. Shape(h)'
  BY NewTxnType DEF ShapeInv, TypeOK, Shape, Accept, Running, Writing
<1> QED
  BY <1>1, <1>2, <1>3, <1>4, <1>5 DEF ShapeInv, TypeOK, Accept

\* The steps of one request keep the shape.
LEMMA ShapeLoad ==
  ASSUME ShapeInv, NEW h \in Handlers,
         LoadMissing(h) \/ AbortLoad(h) \/ AddBranchLoad(h)
           \/ BranchSucceedLoad(h) \/ BranchFailLoad(h) \/ SubmitLoad(h)
  PROVE  ShapeInv'
<1> USE DEF Loading
<1>1. pc[h] = "load" /\ Running(h) = {}
  BY DEF LoadMissing, AbortLoad, AddBranchLoad, BranchSucceedLoad, BranchFailLoad,
         BranchReport, SubmitLoad, ShapeInv, Shape
<1>2. /\ UNCHANGED <<store, historyVars>>
      /\ \/ Return(h)
         \/ \E t \in GlobalTxn : Proceed(h, "save", t)
         \/ \E t \in GlobalTxn : Proceed(h, "mark", t) /\ call[h].op = "submit"
  <2>1. /\ call[h] \in Requests
        /\ Stored(h) \in GlobalTxn \cup {NoTxn}
    BY <1>1, StoredType
  <2>2. CASE LoadMissing(h)
    BY <2>2 DEF LoadMissing
  <2>3. CASE AbortLoad(h)
    BY <2>1, <2>3, RolledBackType DEF AbortLoad
  <2>4. CASE AddBranchLoad(h)
    BY <2>1, <2>4, RequestType, WithBranchType DEF AddBranchLoad, BranchOps
  <2>5. CASE BranchSucceedLoad(h)
    BY <2>1, <2>5, RequestType, WithBranchStatusType
       DEF BranchSucceedLoad, BranchReport, BranchOps, BranchStatus
  <2>6. CASE BranchFailLoad(h)
    BY <2>1, <2>6, RequestType, WithBranchStatusType
       DEF BranchFailLoad, BranchReport, BranchOps, BranchStatus
  <2>7. CASE SubmitLoad(h)
    BY <2>1, <2>7, WithStatusType DEF SubmitLoad, GlobalStatus
  <2> QED
    BY <2>2, <2>3, <2>4, <2>5, <2>6, <2>7
<1>3. CASE Return(h)
  BY <1>2, <1>3, ReturnShape DEF ShapeInv, TypeOK, historyVars
<1>4. CASE \E t \in GlobalTxn : Proceed(h, "save", t)
  BY <1>1, <1>2, <1>4, ProceedShape DEF ShapeInv, TypeOK, historyVars
<1>5. CASE \E t \in GlobalTxn : Proceed(h, "mark", t) /\ call[h].op = "submit"
  BY <1>1, <1>2, <1>5, ProceedShape DEF ShapeInv, TypeOK, historyVars
<1> QED
  BY <1>2, <1>3, <1>4, <1>5

LEMMA ShapeSave ==
  ASSUME ShapeInv, NEW h \in Handlers, Save(h)
  PROVE  ShapeInv'
<1>1. store' \in [Gids -> GlobalTxn \cup {NoTxn}]
  BY PutType DEF Save, Writing
<1>2. confirmed' \in [Gids -> [BranchIds -> 0..ConfirmCap]]
  <2>1. [b \in BranchIds |-> 0] \in [BranchIds -> 0..ConfirmCap]
    BY ParamAssumption
  <2> QED
    BY <2>1 DEF ShapeInv, TypeOK, Save
<1> QED
  BY <1>1, <1>2, ReturnShape DEF ShapeInv, TypeOK, Save

LEMMA ShapeMark ==
  ASSUME ShapeInv, NEW h \in Handlers, SubmitMark(h)
  PROVE  ShapeInv'
<1>1. store' \in [Gids -> GlobalTxn \cup {NoTxn}]
  BY PutType DEF SubmitMark, Writing
<1>2. /\ pc' \in [Handlers -> PC]
      /\ permits' \in [Handlers -> 0..SemaphoreSize]
  BY SemaphoreSizeType DEF ShapeInv, TypeOK, SubmitMark, PC, Unanswered
<1>3. ASSUME NEW x \in Handlers, x # h PROVE Shape(x)'
  BY <1>3 DEF ShapeInv, TypeOK, Shape, SubmitMark, Running
<1>4. Shape(h)'
  <2>1. Running(h) = {} /\ Running(h)' = {}
    BY DEF ShapeInv, Shape, SubmitMark, Running
  <2>2. Cardinality(Running(h)') = 0
    BY <2>1, FS_EmptySet
  <2> QED
    BY <2>1, <2>2, SemaphoreSizeType DEF ShapeInv, TypeOK, Shape, SubmitMark, Writing
<1> QED
  BY <1>1, <1>2, <1>3, <1>4 DEF ShapeInv, TypeOK, SubmitMark, historyVars

LEMMA ShapeSpawn ==
  ASSUME ShapeInv, NEW h \in Handlers, SubmitSpawn(h)
  PROVE  ShapeInv'
<1> USE DEF ShapeInv, TypeOK
<1>1. PICK i \in DOMAIN tx[h].branches :
          tasks' = [tasks EXCEPT ![h] =
             Append(@, [branch |-> tx[h].branches[i].branch_id, state |-> "running"])]
  BY DEF SubmitSpawn
<1> DEFINE new == [branch |-> tx[h].branches[i].branch_id, state |-> "running"]
           n == Len(tasks[h])
<1>2. new \in Task /\ new.state = "running"
  <2>1. tx[h] \in GlobalTxn
    BY DEF SubmitSpawn, Shape
  <2>2. tx[h].branches[i].branch_id \in BranchIds
    BY <2>1, BranchesDomain DEF BranchTxn
  <2> QED
    BY <2>2 DEF Task, TaskState
<1> HIDE DEF new
<1>3. /\ tasks[h] \in Seq(Task)
      /\ n \in Nat
      /\ tasks'[h] = Append(tasks[h], new)
      /\ tasks'[h] \in Seq(Task)
      /\ DOMAIN tasks'[h] = 1..(n + 1)
      /\ tasks'[h][n + 1] = new
      /\ \A k \in 1..n : tasks'[h][k] = tasks[h][k]
      /\ DOMAIN tasks[h] = 1..n
  BY <1>1, <1>2 DEF new
<1>4. Running(h)' = Running(h) \cup {n + 1} /\ n + 1 \notin Running(h)
  BY <1>2, <1>3 DEF Running
<1>5. /\ Cardinality(Running(h)') = Cardinality(Running(h)) + 1
      /\ Cardinality(Running(h)) \in Nat
  BY <1>4, RunningFinite, FS_AddElement
<1>6. /\ tasks' \in [Handlers -> Seq(Task)]
      /\ permits' \in [Handlers -> 0..SemaphoreSize]
      /\ permits'[h] = permits[h] - 1
  <2>1. tasks' = [tasks EXCEPT ![h] = tasks'[h]]
    BY <1>1
  <2>2. tasks' \in [Handlers -> Seq(Task)]
    BY <1>3, <2>1
  <2>3. permits' = [permits EXCEPT ![h] = @ - 1] /\ permits[h] > 0
    BY DEF SubmitSpawn
  <2> QED
    BY <2>2, <2>3, SemaphoreSizeType
<1>7. ASSUME NEW x \in Handlers, x # h PROVE Shape(x)'
  <2>1. /\ UNCHANGED <<pc, call, tx>>
        /\ tasks'[x] = tasks[x]
        /\ permits'[x] = permits[x]
    BY <1>1, <1>7 DEF SubmitSpawn
  <2> QED
    BY <2>1 DEF Shape, Running
<1>8. Shape(h)'
  BY <1>5, <1>6, SemaphoreSizeType DEF Shape, SubmitSpawn, Writing
<1> QED
  BY <1>6, <1>7, <1>8 DEF SubmitSpawn, historyVars

LEMMA ShapeTaskEnds ==
  ASSUME ShapeInv, NEW h \in Handlers, NEW k \in DOMAIN tasks[h],
         NEW s \in {"ok", "failed"}, TaskEnds(h, k, s)
  PROVE  /\ tasks' \in [Handlers -> Seq(Task)]
         /\ permits' \in [Handlers -> 0..SemaphoreSize]
         /\ \A x \in Handlers : Shape(x)'
<1> USE DEF ShapeInv, TypeOK
<1>1. /\ tasks[h] \in Seq(Task)
      /\ k \in Running(h)
      /\ tasks'[h] = [tasks[h] EXCEPT ![k].state = s]
  BY DEF TaskEnds, Running
<1>2. /\ tasks'[h] \in Seq(Task)
      /\ DOMAIN tasks'[h] = DOMAIN tasks[h]
      /\ tasks'[h][k].state = s
      /\ \A m \in DOMAIN tasks[h] : m # k => tasks'[h][m] = tasks[h][m]
  <2>0. tasks[h][k] \in Task
    BY <1>1
  <2>1. [tasks[h][k] EXCEPT !.state = s] \in Task
    BY <2>0 DEF Task, TaskState
  <2>2. tasks'[h] = [tasks[h] EXCEPT ![k] = [tasks[h][k] EXCEPT !.state = s]]
    BY <1>1
  <2>3. [tasks[h][k] EXCEPT !.state = s].state = s
    BY <2>0 DEF Task
  <2> QED
    BY <1>1, <2>1, <2>2, <2>3
<1>3. Running(h)' = Running(h) \ {k}
  BY <1>1, <1>2 DEF Running
<1>4. /\ Cardinality(Running(h)') = Cardinality(Running(h)) - 1
      /\ Cardinality(Running(h)) \in Nat
      /\ Cardinality(Running(h)') \in Nat
  BY <1>1, <1>3, RunningFinite, FS_RemoveElement, FS_CardinalityType, FS_Subset
<1>5. pc[h] \in {"spawn", "detached"}
  BY <1>1 DEF Shape
<1>6. /\ tasks' \in [Handlers -> Seq(Task)]
      /\ permits' \in [Handlers -> 0..SemaphoreSize]
      /\ permits'[h] = permits[h] + 1
  <2>1. tasks' = [tasks EXCEPT ![h] = tasks'[h]]
    BY DEF TaskEnds
  <2>2. tasks' \in [Handlers -> Seq(Task)]
    BY <1>2, <2>1
  <2>3. permits' = [permits EXCEPT ![h] = @ + 1]
    BY DEF TaskEnds
  <2>4. permits[h] + Cardinality(Running(h)) = SemaphoreSize
    BY <1>5 DEF Shape
  <2> QED
    BY <1>4, <2>2, <2>3, <2>4, SemaphoreSizeType
<1>7. ASSUME NEW x \in Handlers, x # h PROVE Shape(x)'
  BY <1>7 DEF Shape, TaskEnds, Running
<1>8. Shape(h)'
  <2>1. UNCHANGED <<pc, call, tx>>
    BY DEF TaskEnds
  <2>2. permits'[h] + Cardinality(Running(h)') = SemaphoreSize
    <3>1. permits[h] + Cardinality(Running(h)) = SemaphoreSize
      BY <1>5 DEF Shape
    <3>2. permits[h] \in Nat
      BY SemaphoreSizeType
    <3> QED
      BY <1>4, <1>6, <3>1, <3>2, SemaphoreSizeType
  <2> QED
    BY <1>5, <2>1, <2>2 DEF Shape, Writing
<1> QED
  BY <1>6, <1>7, <1>8

\* An answer or a deadline ends a task and is put on record.
LEMMA ShapeBranchTask ==
  ASSUME ShapeInv, NEW h \in Handlers, NEW k \in DOMAIN tasks[h], BranchTask(h, k)
  PROVE  ShapeInv'
<1> DEFINE g == call[h].gid
           b == tasks[h][k].branch
<1>1. g \in Gids /\ b \in BranchIds
  <2>1. k \in Running(h)
    BY DEF BranchTask, TaskSucceeds, TaskGivesUp, TaskEnds, Running
  <2>2. call[h] \in Requests
    BY <2>1 DEF ShapeInv, Shape
  <2>3. tasks[h][k] \in Task
    BY DEF ShapeInv, TypeOK
  <2> QED
    BY <2>2, <2>3, RequestType DEF Task
<1> HIDE DEF g, b
<1>2. CASE TaskSucceeds(h, k)
  <2>1. TaskEnds(h, k, "ok")
    BY <1>2 DEF TaskSucceeds
  <2>2. /\ tasks' \in [Handlers -> Seq(Task)]
        /\ permits' \in [Handlers -> 0..SemaphoreSize]
        /\ \A x \in Handlers : Shape(x)'
    BY <2>1, ShapeTaskEnds
  <2>3. confirmed' \in [Gids -> [BranchIds -> 0..ConfirmCap]]
    <3>1. /\ confirmed' = [confirmed EXCEPT ![g][b] = AtMost(@ + 1, ConfirmCap)]
          /\ confirmed[g][b] \in 0..ConfirmCap
      BY <1>1, <1>2 DEF TaskSucceeds, ShapeInv, TypeOK, g, b
    <3>2. AtMost(confirmed[g][b] + 1, ConfirmCap) \in 0..ConfirmCap
      BY <3>1, ParamAssumption DEF AtMost
    <3> QED
      BY <1>1, <3>1, <3>2 DEF ShapeInv, TypeOK
  <2>4. evidence' \subseteq Gids \X BranchIds \X BranchStatus
    BY <1>1, <1>2 DEF TaskSucceeds, ShapeInv, TypeOK, BranchStatus, g, b
  <2> QED
    BY <2>1, <2>2, <2>3, <2>4 DEF ShapeInv, TypeOK, TaskEnds
<1>3. CASE TaskGivesUp(h, k)
  <2>1. TaskEnds(h, k, "failed") /\ UNCHANGED confirmed
    BY <1>3 DEF TaskGivesUp
  <2>2. /\ tasks' \in [Handlers -> Seq(Task)]
        /\ permits' \in [Handlers -> 0..SemaphoreSize]
        /\ \A x \in Handlers : Shape(x)'
    BY <2>1, ShapeTaskEnds
  <2>3. evidence' \subseteq Gids \X BranchIds \X BranchStatus
    BY <1>1, <1>3 DEF TaskGivesUp, ShapeInv, TypeOK, BranchStatus, g, b
  <2> QED
    BY <2>1, <2>2, <2>3 DEF ShapeInv, TypeOK, TaskEnds
<1> QED
  BY <1>2, <1>3 DEF BranchTask

LEMMA ShapeJoin ==
  ASSUME ShapeInv, NEW h \in Handlers, SubmitJoin(h)
  PROVE  ShapeInv'
<1>1. /\ pc[h] = "spawn" /\ Running(h) = {}
      /\ call[h].op = "submit"
      /\ ApplyResults(tx[h], tasks[h]) \in GlobalTxn
  BY ApplyResultsType DEF SubmitJoin, ShapeInv, Shape
<1>2. Proceed(h, "results", ApplyResults(tx[h], tasks[h]))
  BY DEF SubmitJoin
<1> QED
  BY <1>1, <1>2, ProceedShape DEF ShapeInv, TypeOK, SubmitJoin, historyVars

LEMMA ShapeResults ==
  ASSUME ShapeInv, NEW h \in Handlers, SubmitSaveResults(h)
  PROVE  ShapeInv'
<1>1. pc[h] = "results" /\ Running(h) = {} /\ tx[h] \in GlobalTxn
  BY DEF SubmitSaveResults, ShapeInv, Shape, Writing
<1>2. store' \in [Gids -> GlobalTxn \cup {NoTxn}]
  BY <1>1, PutType DEF SubmitSaveResults, Writing
<1>3. Proceed(h, "save", Decided(tx[h])) /\ Decided(tx[h]) \in GlobalTxn
  BY <1>1, DecidedType DEF SubmitSaveResults
<1> QED
  BY <1>1, <1>2, <1>3, ProceedShape DEF ShapeInv, TypeOK, SubmitSaveResults, historyVars

\* A handler that ends at an await keeps the shape, whatever it leaves behind.
LEMMA ShapeAbandon ==
  ASSUME ShapeInv, NEW h \in Handlers, Abandon(h) \/ Detach(h),
         UNCHANGED <<store, historyVars>>
  PROVE  ShapeInv'
<1>1. CASE Return(h)
  BY <1>1, ReturnShape DEF ShapeInv, TypeOK, historyVars
<1>2. CASE Abandon(h) /\ ~Return(h)
  <2>1. /\ pc[h] \in Writing
        /\ pc' = [pc EXCEPT ![h] = "zombie"]
        /\ tasks' = [tasks EXCEPT ![h] = <<>>]
        /\ permits' = [permits EXCEPT ![h] = 0]
        /\ UNCHANGED <<call, tx>>
    BY <1>2 DEF Abandon
  <2>2. ASSUME NEW x \in Handlers, x # h PROVE Shape(x)'
    BY <2>1, <2>2 DEF ShapeInv, TypeOK, Shape, Running
  <2>3. Shape(h)'
    <3>1. call[h] \in Requests /\ tx[h] \in GlobalTxn
      BY <2>1 DEF ShapeInv, Shape, Writing
    <3>2. /\ pc'[h] = "zombie"
          /\ tasks'[h] = <<>>
          /\ permits'[h] = 0
      BY <2>1 DEF ShapeInv, TypeOK
    <3>3. Running(h)' = {}
      BY <3>2 DEF Running
    <3> QED
      BY <2>1, <3>1, <3>2, <3>3 DEF Shape
  <2>4. TypeOK'
    BY <2>1, SemaphoreSizeType DEF ShapeInv, TypeOK, PC, historyVars
  <2> QED
    BY <2>2, <2>3, <2>4 DEF ShapeInv
<1>3. CASE Detach(h)
  <2>1. ASSUME NEW x \in Handlers, x # h PROVE Shape(x)'
    BY <1>3, <2>1 DEF ShapeInv, TypeOK, Shape, Running, Detach
  <2>2. Shape(h)'
    BY <1>3 DEF ShapeInv, TypeOK, Shape, Running, Writing, Detach
  <2>3. TypeOK'
    BY <1>3 DEF ShapeInv, TypeOK, PC, historyVars, Detach
  <2> QED
    BY <2>1, <2>2, <2>3 DEF ShapeInv
<1> QED
  BY <1>1, <1>2, <1>3

\* So do the ends of what an abandoned request left behind.
LEMMA ShapeLeftovers ==
  ASSUME ShapeInv, NEW h \in Handlers,
         LateWriteLands(h) \/ LateWriteLost(h) \/ DetachedTasksEnd(h)
  PROVE  ShapeInv'
<1>1. Return(h) /\ UNCHANGED historyVars
  BY DEF LateWriteLands, LateWriteLost, DetachedTasksEnd
<1>2. store' \in [Gids -> GlobalTxn \cup {NoTxn}]
  BY PutType DEF LateWriteLands, LateWriteLost, DetachedTasksEnd, ShapeInv, TypeOK
<1> QED
  BY <1>1, <1>2, ReturnShape DEF ShapeInv, TypeOK, historyVars

LEMMA ShapeCrash == ShapeInv /\ Crash => ShapeInv'
<1> SUFFICES ASSUME ShapeInv, Crash PROVE ShapeInv'
  OBVIOUS
<1>1. TypeOK'
  <2>1. confirmed' \in [Gids -> [BranchIds -> 0..ConfirmCap]]
    BY ParamAssumption DEF Crash, ShapeInv, TypeOK
  <2> QED
    BY <2>1, SemaphoreSizeType DEF ShapeInv, TypeOK, Crash, PC
<1>2. ASSUME NEW h \in Handlers PROVE Shape(h)'
  BY DEF Crash, Shape, Running, Writing
<1> QED
  BY <1>1, <1>2 DEF ShapeInv

LEMMA ShapeNext == ShapeInv /\ [Next]_vars => ShapeInv'
<1> SUFFICES ASSUME ShapeInv, [Next]_vars PROVE ShapeInv'
  OBVIOUS
<1>1. CASE \E h \in Handlers, r \in Requests : Call(h, r)
  BY <1>1, ShapeAccept DEF Call
<1>2. CASE \E h \in Handlers : Operation(h)
  BY <1>2, ShapeLoad, ShapeMark, ShapeSpawn, ShapeJoin, ShapeResults, ShapeSave,
     ShapeLeftovers DEF Operation
<1>3. CASE \E h \in Handlers : \E k \in DOMAIN tasks[h] : BranchTask(h, k)
  BY <1>3, ShapeBranchTask
<1>4. CASE Fault
  BY <1>4, ShapeAbandon, ShapeCrash DEF Fault, StorageError, RequestDropped
<1>5. CASE UNCHANGED vars
  BY <1>5 DEF vars, handlerVars, historyVars, ShapeInv, TypeOK, Shape, Running
<1> QED
  BY <1>1, <1>2, <1>3, <1>4, <1>5 DEF Next

LEMMA ShapeAlways == Spec => []ShapeInv
  BY ShapeInit, ShapeNext, PTL DEF Spec

\* Every reachable state of the saga manager is well typed.
THEOREM TypeCorrect == Spec => []TypeOK
<1>1. ShapeInv => TypeOK
  BY DEF ShapeInv
<1> QED
  BY <1>1, ShapeAlways, PTL

\* A submit, dropped or not, never has more participant calls under way than
\* its semaphore admits: the permits taken are the tasks running.
THEOREM ParallelismSafe == Spec => []ParallelismBounded
<1>1. ShapeInv => ParallelismBounded
  <2> SUFFICES ASSUME ShapeInv, NEW h \in Handlers
               PROVE  Cardinality(Running(h)) <= SemaphoreSize
    BY DEF ParallelismBounded
  <2>1. CASE Running(h) = {}
    BY <2>1, FS_EmptySet, SemaphoreSizeType
  <2>2. CASE Running(h) # {}
    <3>1. permits[h] + Cardinality(Running(h)) = SemaphoreSize
      BY <2>2 DEF ShapeInv, Shape
    <3>2. permits[h] \in Nat /\ Cardinality(Running(h)) \in Nat
      BY RunningFinite, SemaphoreSizeType DEF ShapeInv, TypeOK
    <3> QED
      BY <3>1, <3>2
  <2> QED
    BY <2>1, <2>2
<1> QED
  BY <1>1, ShapeAlways, PTL

=============================================================================
