------------------------------ MODULE SagaManager ------------------------------
(***************************************************************************)
(* SagaManager (src/saga.rs) over its transaction repository (src/repo.rs).*)
(*                                                                         *)
(* Every operation is a request handled by its own task: it loads a copy   *)
(* of the transaction, changes the copy, and saves the whole copy back.    *)
(* There is no lock and no version check, so the steps of different        *)
(* handlers interleave at every await. A step of this module is one access *)
(* of the key-value store (load = get, save = put) together with the       *)
(* synchronous code that follows it, or one event of a spawned branch task.*)
(*                                                                         *)
(* submit calls the participants: it spawns one task per prepared branch,  *)
(* at most BranchParallelism at a time. A task retries until the           *)
(* participant answers 2xx or its deadline has passed. Attempts that       *)
(* change nothing in the server are not steps here.                        *)
(*                                                                         *)
(* Faults: "storage", a failing get or put; "drop", the handler future is  *)
(* dropped at an await (HTTP TimeoutLayer, client disconnect); "crash",    *)
(* the process dies and restarts with what the store holds.                *)
(***************************************************************************)
EXTENDS SeataDomain

CONSTANTS
    Gids,               \* global transaction ids
    Handlers,           \* slots for requests the server works on at once
    Ops,                \* the operations clients use
    BranchParallelism,  \* ExecConfig::branch_parallelism, 0 included
    Discipline,         \* what clients do, see MayCall
    Faults,             \* subset of {"crash", "drop", "storage"}
    ConfirmCap,         \* bound of the confirmed counter, which saturates
    NoRequest           \* content of an idle slot

BranchOps == {"add_branch", "branch_succeed", "branch_fail"}
Decisions == {"submit", "abort"}
AllOps    == {"start"} \cup Decisions \cup BranchOps

Requests == [op : Ops \ BranchOps, gid : Gids]
              \cup [op : Ops \cap BranchOps, gid : Gids, branch : BranchIds]

ASSUME ParamAssumption ==
    /\ Ops \subseteq AllOps
    /\ Discipline \in {"any", "serial", "started", "lifecycle"}
    /\ BranchParallelism \in Nat
    /\ ConfirmCap \in Nat
    /\ NoRequest \notin Requests

VARIABLES
    store,      \* what the repository holds under each gid
    pc,         \* where each handler is
    call,       \* the request each handler works on
    tx,         \* each handler's copy of the transaction
    tasks,      \* the branch tasks a submit has spawned, in handle order
    permits,    \* free permits of a submit's semaphore
    phase,      \* what the clients have asked of a gid: "new" (nothing yet),
                \*   "building" (start), "deciding" (submit or abort)
    confirmed,  \* 2xx answers received for a branch since the transaction was
                \*   started, those not counted that a crash made the server forget
    evidence    \* why a branch may be listed ("Prepared") and have its status

handlerVars == <<pc, call, tx, tasks, permits>>
historyVars == <<phase, confirmed, evidence>>
vars == <<store, handlerVars, historyVars>>

TaskState == {"running", "ok", "failed"}
Task      == [branch : BranchIds, state : TaskState]

\* States in which a handler has issued, or is about to issue, a put.
Writing == {"save", "mark", "results"}
\* States of a request whose client has no answer yet. A "zombie" is a handler
\* that failed or was dropped while its put was outstanding; "detached" are the
\* branch tasks of a dropped submit, which go on running.
Unanswered == {"load", "spawn"} \cup Writing
PC == {"idle", "zombie", "detached"} \cup Unanswered

\* Mutant of SemaphoreSize: without max(1).
SemaphoreSizeAsConfigured == BranchParallelism

\* Semaphore::new(branch_parallelism.max(1))
SemaphoreSize == IF BranchParallelism = 0 THEN 1 ELSE BranchParallelism

Init ==
    /\ store = [g \in Gids |-> NoTxn]
    /\ pc = [h \in Handlers |-> "idle"]
    /\ call = [h \in Handlers |-> NoRequest]
    /\ tx = [h \in Handlers |-> NoTxn]
    /\ tasks = [h \in Handlers |-> <<>>]
    /\ permits = [h \in Handlers |-> 0]
    /\ phase = [g \in Gids |-> "new"]
    /\ confirmed = [g \in Gids |-> [b \in BranchIds |-> 0]]
    /\ evidence = {}

-----------------------------------------------------------------------------
(* Building blocks.                                                        *)

\* The handler is done, or gone; its slot is free for another request.
Return(h) ==
    /\ pc' = [pc EXCEPT ![h] = "idle"]
    /\ call' = [call EXCEPT ![h] = NoRequest]
    /\ tx' = [tx EXCEPT ![h] = NoTxn]
    /\ tasks' = [tasks EXCEPT ![h] = <<>>]
    /\ permits' = [permits EXCEPT ![h] = 0]

\* The handler goes on at label l with the copy t.
Proceed(h, l, t) ==
    /\ pc' = [pc EXCEPT ![h] = l]
    /\ tx' = [tx EXCEPT ![h] = t]
    /\ UNCHANGED <<call, tasks, permits>>

\* TxnRepo::save: the whole copy replaces what is stored.
Put(h) == store' = [store EXCEPT ![call[h].gid] = tx[h]]

\* TxnRepo::load by a handler of operation op.
Loading(h, op) == pc[h] = "load" /\ call[h].op = op
Stored(h) == store[call[h].gid]

Busy(g, S) == {h \in Handlers : pc[h] \in S /\ call[h].gid = g}

\* start is called once, and answered before anything else is asked.
StartedFirst(r) ==
    \/ r.op = "start" /\ phase[r.gid] = "new"
    \/ /\ r.op # "start"
       /\ phase[r.gid] # "new"
       /\ \A h \in Busy(r.gid, Unanswered) : call[h].op # "start"

\* What clients do with one gid. "any": whatever they like. "serial": a request
\* only when no other is unanswered. "started": start first, then anything at
\* any time. "lifecycle": the documented flow, where branches are added and
\* reported one request at a time and after that only submit and abort are
\* called, concurrently if need be.
MayCall(r) ==
    \/ Discipline = "any"
    \/ Discipline = "serial" /\ Busy(r.gid, Unanswered) = {}
    \/ Discipline = "started" /\ StartedFirst(r)
    \/ /\ Discipline = "lifecycle"
       /\ StartedFirst(r)
       /\ r.op \in BranchOps => phase[r.gid] = "building"
       /\ \A h \in Busy(r.gid, Unanswered) : {call[h].op, r.op} \subseteq Decisions

\* The operation starts. start needs no load; it saves a new transaction over
\* whatever the gid holds. (An empty gid is replaced by a fresh uuid: a gid with
\* no transaction.)
Accept(h, r) ==
    /\ pc[h] = "idle"
    /\ call' = [call EXCEPT ![h] = r]
    /\ pc' = [pc EXCEPT ![h] = IF r.op = "start" THEN "save" ELSE "load"]
    /\ tx' = [tx EXCEPT ![h] = IF r.op = "start" THEN NewTxn ELSE NoTxn]
    /\ phase' = [phase EXCEPT ![r.gid] =
                    IF r.op \in Decisions THEN "deciding"
                    ELSE IF r.op = "start" /\ @ = "new" THEN "building" ELSE @]
    /\ evidence' = evidence \cup
         CASE r.op = "add_branch"     -> {<<r.gid, r.branch, "Prepared">>}
           [] r.op = "branch_succeed" -> {<<r.gid, r.branch, "Succeed">>}
           [] r.op = "branch_fail"    -> {<<r.gid, r.branch, "Failed">>}
           [] r.op = "abort"          -> {r.gid} \X BranchIds \X {"Failed"}
           [] OTHER                   -> {}
    /\ UNCHANGED <<store, tasks, permits, confirmed>>

\* A client asks for it.
Call(h, r) ==
    /\ MayCall(r)
    /\ Accept(h, r)

-----------------------------------------------------------------------------
(* One request: load, change the copy, save.                               *)

\* No such transaction: every operation but start returns Ok.
LoadMissing(h) ==
    /\ pc[h] = "load"
    /\ Stored(h) = NoTxn
    /\ Return(h)
    /\ UNCHANGED <<store, historyVars>>

AbortLoad(h) ==
    /\ Loading(h, "abort")
    /\ Stored(h) # NoTxn
    /\ Proceed(h, "save", RolledBack(Stored(h)))
    /\ UNCHANGED <<store, historyVars>>

\* Mutant of AddBranchLoad: the id is not looked up in the loaded copy.
AddBranchLoadUnchecked(h) ==
    /\ Loading(h, "add_branch")
    /\ Stored(h) # NoTxn
    /\ Proceed(h, "save", WithBranch(Stored(h), call[h].branch))
    /\ UNCHANGED <<store, historyVars>>

\* A branch id already in the loaded copy is not added again.
AddBranchLoad(h) ==
    /\ Loading(h, "add_branch")
    /\ Stored(h) # NoTxn
    /\ IF HasBranch(Stored(h), call[h].branch)
       THEN Return(h)
       ELSE Proceed(h, "save", WithBranch(Stored(h), call[h].branch))
    /\ UNCHANGED <<store, historyVars>>

BranchReport(h, op, status) ==
    /\ Loading(h, op)
    /\ Stored(h) # NoTxn
    /\ IF HasBranch(Stored(h), call[h].branch)
       THEN Proceed(h, "save", WithBranchStatus(Stored(h), call[h].branch, status))
       ELSE Return(h)
    /\ UNCHANGED <<store, historyVars>>

BranchSucceedLoad(h) == BranchReport(h, "branch_succeed", "Succeed")
BranchFailLoad(h) == BranchReport(h, "branch_fail", "Failed")

\* The last save of every operation. A start also begins a new account of what
\* the participants confirmed.
Save(h) ==
    /\ pc[h] = "save"
    /\ Put(h)
    /\ Return(h)
    /\ confirmed' = IF call[h].op = "start"
                    THEN [confirmed EXCEPT ![call[h].gid] = [b \in BranchIds |-> 0]]
                    ELSE confirmed
    /\ UNCHANGED <<phase, evidence>>

-----------------------------------------------------------------------------
(* submit.                                                                 *)

\* The copy is marked committing, whatever its status was.
SubmitLoad(h) ==
    /\ Loading(h, "submit")
    /\ Stored(h) # NoTxn
    /\ Proceed(h, "mark", [Stored(h) EXCEPT !.status = "Committing"])
    /\ UNCHANGED <<store, historyVars>>

SubmitMark(h) ==
    /\ pc[h] = "mark"
    /\ Put(h)
    /\ pc' = [pc EXCEPT ![h] = "spawn"]
    /\ permits' = [permits EXCEPT ![h] = SemaphoreSize]
    /\ UNCHANGED <<call, tx, tasks, historyVars>>

\* Mutants of SubmitSpawn: the permit is taken inside the task, after the spawn;
\* branches that are not prepared are spawned as well.
SubmitSpawnAhead(h) ==
    /\ pc[h] = "spawn"
    /\ \E i \in DOMAIN tx[h].branches :
          /\ Prepared(tx[h], i)
          /\ PreparedRank(tx[h], i) = Len(tasks[h]) + 1
          /\ tasks' = [tasks EXCEPT ![h] =
                 Append(@, [branch |-> tx[h].branches[i].branch_id, state |-> "running"])]
    /\ permits' = [permits EXCEPT ![h] = IF @ > 0 THEN @ - 1 ELSE 0]
    /\ UNCHANGED <<store, pc, call, tx, historyVars>>

SubmitSpawnAll(h) ==
    /\ pc[h] = "spawn"
    /\ permits[h] > 0
    /\ Len(tasks[h]) + 1 \in DOMAIN tx[h].branches
    /\ tasks' = [tasks EXCEPT ![h] =
           Append(@, [branch |-> tx[h].branches[Len(@) + 1].branch_id, state |-> "running"])]
    /\ permits' = [permits EXCEPT ![h] = @ - 1]
    /\ UNCHANGED <<store, pc, call, tx, historyVars>>

\* The spawn loop: it passes over branches that are not prepared and waits for
\* a permit before each task it spawns.
SubmitSpawn(h) ==
    /\ pc[h] = "spawn"
    /\ permits[h] > 0
    /\ \E i \in DOMAIN tx[h].branches :
          /\ Prepared(tx[h], i)
          /\ PreparedRank(tx[h], i) = Len(tasks[h]) + 1
          /\ tasks' = [tasks EXCEPT ![h] =
                 Append(@, [branch |-> tx[h].branches[i].branch_id, state |-> "running"])]
    /\ permits' = [permits EXCEPT ![h] = @ - 1]
    /\ UNCHANGED <<store, pc, call, tx, historyVars>>

\* Mutants of TaskEnds: the permit is released by hand and again when dropped;
\* it is forgotten.
TaskEndsReleasingTwice(h, k, state) ==
    /\ k \in DOMAIN tasks[h]
    /\ tasks[h][k].state = "running"
    /\ tasks' = [tasks EXCEPT ![h][k].state = state]
    /\ permits' = [permits EXCEPT ![h] = @ + 2]
    /\ UNCHANGED <<store, pc, call, tx, phase>>

TaskEndsKeepingPermit(h, k, state) ==
    /\ k \in DOMAIN tasks[h]
    /\ tasks[h][k].state = "running"
    /\ tasks' = [tasks EXCEPT ![h][k].state = state]
    /\ UNCHANGED <<store, pc, call, tx, permits, phase>>

\* A task returns, and gives its permit back.
TaskEnds(h, k, state) ==
    /\ k \in DOMAIN tasks[h]
    /\ tasks[h][k].state = "running"
    /\ tasks' = [tasks EXCEPT ![h][k].state = state]
    /\ permits' = [permits EXCEPT ![h] = @ + 1]
    /\ UNCHANGED <<store, pc, call, tx, phase>>

AtMost(n, cap) == IF n < cap THEN n ELSE cap

\* The participant executed the branch and the server got its 2xx.
TaskSucceeds(h, k) ==
    /\ TaskEnds(h, k, "ok")
    /\ LET g == call[h].gid
           b == tasks[h][k].branch
       IN /\ confirmed' = [confirmed EXCEPT ![g][b] = AtMost(@ + 1, ConfirmCap)]
          /\ evidence' = evidence \cup {<<g, b, "Succeed">>}

\* An attempt failed and timeout_to_fail has passed, or the task panicked.
TaskGivesUp(h, k) ==
    /\ TaskEnds(h, k, "failed")
    /\ evidence' = evidence \cup {<<call[h].gid, tasks[h][k].branch, "Failed">>}
    /\ UNCHANGED confirmed

Running(h) == {k \in DOMAIN tasks[h] : tasks[h][k].state = "running"}

\* Mutants of SubmitJoin: does not wait until every branch has its handle; spawns
\* everything again if a task failed.
SubmitJoinEarly(h) ==
    /\ pc[h] = "spawn"
    /\ Running(h) = {}
    /\ Proceed(h, "results", ApplyResults(tx[h], tasks[h]))
    /\ UNCHANGED <<store, historyVars>>

SubmitJoinRespawning(h) ==
    /\ pc[h] = "spawn"
    /\ Len(tasks[h]) = PreparedCount(tx[h])
    /\ Running(h) = {}
    /\ IF \E k \in DOMAIN tasks[h] : tasks[h][k].state = "failed"
       THEN tasks' = [tasks EXCEPT ![h] = <<>>] /\ UNCHANGED <<pc, call, tx, permits>>
       ELSE Proceed(h, "results", ApplyResults(tx[h], tasks[h]))
    /\ UNCHANGED <<store, historyVars>>

\* All handles are spawned and awaited; their results go into the copy.
SubmitJoin(h) ==
    /\ pc[h] = "spawn"
    /\ Len(tasks[h]) = PreparedCount(tx[h])
    /\ Running(h) = {}
    /\ Proceed(h, "results", ApplyResults(tx[h], tasks[h]))
    /\ UNCHANGED <<store, historyVars>>

\* Mutants of SubmitSaveResults: no decision is taken; the results are not saved
\* before the decision.
SubmitSaveResultsUndecided(h) ==
    /\ pc[h] = "results"
    /\ Put(h)
    /\ Proceed(h, "save", tx[h])
    /\ UNCHANGED historyVars

SubmitDecideAtOnce(h) ==
    /\ pc[h] = "results"
    /\ Proceed(h, "save", Decided(tx[h]))
    /\ UNCHANGED <<store, historyVars>>

\* The results are saved with the status still committing; the copy then gets
\* its final status, which Save stores.
SubmitSaveResults(h) ==
    /\ pc[h] = "results"
    /\ Put(h)
    /\ Proceed(h, "save", Decided(tx[h]))
    /\ UNCHANGED historyVars

-----------------------------------------------------------------------------
(* Faults.                                                                 *)

\* The handler ends at an await. A get leaves nothing behind. A put that was
\* outstanding may still take effect (a sled put runs on in spawn_blocking, a
\* timed-out redis SET may have reached the server), or not.
Abandon(h) ==
    \/ /\ pc[h] = "load"
       /\ Return(h)
    \/ /\ pc[h] \in Writing
       /\ pc' = [pc EXCEPT ![h] = "zombie"]
       /\ tasks' = [tasks EXCEPT ![h] = <<>>]
       /\ permits' = [permits EXCEPT ![h] = 0]
       /\ UNCHANGED <<call, tx>>

\* A get or put returns an error, and ? passes it on.
StorageError(h) ==
    /\ "storage" \in Faults
    /\ Abandon(h)
    /\ UNCHANGED <<store, historyVars>>

\* A submit dropped while it waits for a permit or a handle never spawns the
\* rest of its branches; dropping a JoinHandle does not stop its task.
Detach(h) ==
    /\ pc[h] = "spawn"
    /\ pc' = [pc EXCEPT ![h] = "detached"]
    /\ tx' = [tx EXCEPT ![h] = NoTxn]
    /\ UNCHANGED <<call, tasks, permits>>

RequestDropped(h) ==
    /\ "drop" \in Faults
    /\ Abandon(h) \/ Detach(h)
    /\ UNCHANGED <<store, historyVars>>

LateWriteLands(h) ==
    /\ pc[h] = "zombie"
    /\ Put(h)
    /\ Return(h)
    /\ UNCHANGED historyVars

LateWriteLost(h) ==
    /\ pc[h] = "zombie"
    /\ Return(h)
    /\ UNCHANGED <<store, historyVars>>

DetachedTasksEnd(h) ==
    /\ pc[h] = "detached"
    /\ Running(h) = {}
    /\ Return(h)
    /\ UNCHANGED <<store, historyVars>>

\* A submit has a 2xx for branch b of g that it has not stored yet.
Unstored(g, b) ==
    \E h \in Busy(g, {"spawn", "results", "detached"}) :
        \E k \in DOMAIN tasks[h] : tasks[h][k].branch = b /\ tasks[h][k].state = "ok"

\* Everything in memory is lost. A put that took effect just before is a Save,
\* SubmitMark, SubmitSaveResults or LateWriteLands followed by the crash.
\* Nothing looks for unfinished transactions after a restart, and nothing tells
\* which participants had answered a submit that had not saved its results.
Crash ==
    /\ "crash" \in Faults
    /\ pc' = [h \in Handlers |-> "idle"]
    /\ call' = [h \in Handlers |-> NoRequest]
    /\ tx' = [h \in Handlers |-> NoTxn]
    /\ tasks' = [h \in Handlers |-> <<>>]
    /\ permits' = [h \in Handlers |-> 0]
    /\ confirmed' = [g \in Gids |-> [b \in BranchIds |->
                        IF Unstored(g, b) THEN 0 ELSE confirmed[g][b]]]
    /\ UNCHANGED <<store, phase, evidence>>

-----------------------------------------------------------------------------
(* Specification.                                                          *)

\* What the server does of its own accord with the request in slot h.
Operation(h) ==
    \/ LoadMissing(h)
    \/ AbortLoad(h)
    \/ AddBranchLoad(h)
    \/ BranchSucceedLoad(h)
    \/ BranchFailLoad(h)
    \/ SubmitLoad(h)
    \/ SubmitMark(h)
    \/ SubmitSpawn(h)
    \/ SubmitJoin(h)
    \/ SubmitSaveResults(h)
    \/ Save(h)
    \/ LateWriteLands(h)
    \/ LateWriteLost(h)
    \/ DetachedTasksEnd(h)

BranchTask(h, k) == TaskSucceeds(h, k) \/ TaskGivesUp(h, k)

Fault ==
    \/ \E h \in Handlers : StorageError(h) \/ RequestDropped(h)
    \/ Crash

Next ==
    \/ \E h \in Handlers, r \in Requests : Call(h, r)
    \/ \E h \in Handlers : Operation(h)
    \/ \E h \in Handlers : \E k \in DOMAIN tasks[h] : BranchTask(h, k)
    \/ Fault

Spec == Init /\ [][Next]_vars

-----------------------------------------------------------------------------
(* Properties.                                                             *)

\* Every variable holds a value of its type.
TypeOK ==
    /\ store \in [Gids -> GlobalTxn \cup {NoTxn}]
    /\ pc \in [Handlers -> PC]
    /\ call \in [Handlers -> Requests \cup {NoRequest}]
    /\ tx \in [Handlers -> GlobalTxn \cup {NoTxn}]
    /\ tasks \in [Handlers -> Seq(Task)]
    /\ permits \in [Handlers -> 0..SemaphoreSize]
    /\ phase \in [Gids -> {"new", "building", "deciding"}]
    /\ confirmed \in [Gids -> [BranchIds -> 0..ConfirmCap]]
    /\ evidence \subseteq Gids \X BranchIds \X BranchStatus

UniqueIds(t) ==
    \A i, j \in DOMAIN t.branches :
        t.branches[i].branch_id = t.branches[j].branch_id => i = j

\* However add_branch calls race with each other and with the other operations,
\* crash or land late, no stored transaction lists a branch id twice: a retried
\* or concurrent add never makes submit call a participant twice in one run.
UniqueBranchIds == \A g \in Gids : store[g] # NoTxn => UniqueIds(store[g])

\* A stored branch was asked for, and is Succeed or Failed only for a reason:
\* its participant answered 2xx to a submit, its task gave up, a client reported
\* it, or, for Failed, a client asked for abort. No race, late write or
\* misaligned list of handles ever credits a branch with another one's result.
Justified(g, t) ==
    \A i \in DOMAIN t.branches :
        LET b == t.branches[i] IN
        {<<g, b.branch_id, "Prepared">>, <<g, b.branch_id, b.status>>} \subseteq evidence

StatusHasCause == \A g \in Gids : store[g] # NoTxn => Justified(g, store[g])

\* When a submit decides, no branch of its copy is left undecided, and it
\* commits exactly when every branch succeeded.
DecisionSound ==
    \A h \in Handlers : pc[h] = "save" /\ call[h].op = "submit" =>
        /\ \A i \in DOMAIN tx[h].branches : tx[h].branches[i].status # "Prepared"
        /\ tx[h].status = IF AllSucceed(tx[h]) THEN "Committed" ELSE "Aborted"

\* A submit never has more participant calls under way than its semaphore
\* admits, dropped or not.
ParallelismBounded ==
    \A h \in Handlers : Cardinality(Running(h)) <= SemaphoreSize

\* A submit never waits for what nobody brings: once its tasks have ended, either
\* every prepared branch has its handle and the submit joins them, or a permit is
\* free and the branch of the next rank is there to be spawned.
SubmitGoesOn ==
    \A h \in Handlers : pc[h] = "spawn" /\ Running(h) = {} =>
        \/ Len(tasks[h]) = PreparedCount(tx[h])
        \/ /\ permits[h] > 0
           /\ \E i \in DOMAIN tx[h].branches :
                 Prepared(tx[h], i) /\ PreparedRank(tx[h], i) = Len(tasks[h]) + 1

\* How far a request is from its end: its stage, and within the spawn loop the
\* tasks it has yet to spawn and to see end.
Stage(h) == CASE pc[h] = "idle" -> 0
              [] pc[h] \in {"zombie", "detached"} -> 1
              [] pc[h] = "save" -> 2
              [] pc[h] = "results" -> 3
              [] pc[h] = "spawn" -> 4
              [] pc[h] = "mark" -> 5
              [] pc[h] = "load" -> 6

Left(h) ==
    IF pc[h] = "spawn"
    THEN 2 * (PreparedCount(tx[h]) - Len(tasks[h])) + Cardinality(Running(h))
    ELSE Cardinality(Running(h))

ComesCloser(h) ==
    \/ Stage(h)' < Stage(h)
    \/ Stage(h)' = Stage(h) /\ Left(h)' < Left(h) /\ Left(h)' \in Nat

\* A request only ever comes closer to its end, in stages that get fewer and with
\* tasks that get fewer: no other request, late write or added branch gives it
\* more to do or takes it back, so no request goes on for ever.
RequestsAdvance ==
    [][\A h \in Handlers : pc[h] # "idle" =>
          UNCHANGED <<pc[h], call[h], tx[h], tasks[h], permits[h]>> \/ ComesCloser(h)]_vars

\* One submit calls a participant for a branch at most once, also when the client
\* that asked for it is gone: whatever adds raced before it loaded its copy, no
\* two of its tasks call the same branch.
OneCallPerSubmit ==
    \A h \in Handlers : \A j, k \in DOMAIN tasks[h] :
        tasks[h][j].branch = tasks[h][k].branch => j = k

\* In the documented flow a committed transaction has only succeeded branches
\* and an aborted one has no branch still to be executed, whatever submits,
\* aborts, crashes and late writes interleave.
Coherent(t) ==
    /\ t.status = "Committed" => AllSucceed(t)
    /\ t.status = "Aborted" => \A i \in DOMAIN t.branches : ~Prepared(t, i)

LifecycleCoherent == \A g \in Gids : store[g] # NoTxn => Coherent(store[g])

Terminal == {"Committed", "Aborted"}

\* In the documented flow without faults, once every submit and abort of a
\* transaction has been answered, its status is final.
SettledWhenQuiet ==
    \A g \in Gids :
        /\ phase[g] = "deciding"
        /\ Busy(g, PC \ {"idle"}) = {}
        /\ store[g] # NoTxn
        => store[g].status \in Terminal

\* In the documented flow without faults, every branch a client added is listed
\* once its request is answered, and stays listed.
AddedBranchesKept ==
    \A g \in Gids, b \in BranchIds :
        /\ Busy(g, PC \ {"idle"}) = {}
        /\ store[g] # NoTxn
        /\ <<g, b, "Prepared">> \in evidence
        => HasBranch(store[g], b)

\* A branch that is listed stays listed: no operation takes a branch away, a start
\* that is asked for again included.
ListedBranchesStay ==
    [][\A g \in Gids, b \in BranchIds :
          store[g] # NoTxn /\ HasBranch(store[g], b) => HasBranch(store'[g], b)]_vars

\* A participant's report is about its branch: the status that a submit or an abort
\* has decided on stays as it is.
ReportsKeepDecision ==
    [][\A h \in Handlers :
          LET g == call[h].gid IN
          /\ pc[h] = "save" /\ pc'[h] = "idle"
          /\ call[h].op \in {"branch_succeed", "branch_fail"}
          /\ store[g].status \in Terminal
          => store'[g].status = store[g].status]_vars

\* For one client that waits for each answer: a participant that confirmed a
\* branch is not called for it again until the transaction is started anew, by
\* whatever sequence of submits, aborts and reports, also after a restart; except
\* that the server forgets what a participant confirmed when it crashes between
\* that answer and the save of the submit's results.
ConfirmedOnce == \A g \in Gids, b \in BranchIds : confirmed[g][b] <= 1

\* A transaction that is marked committing is decided in the end.
CommittingEnds ==
    \A g \in Gids :
        (store[g] # NoTxn /\ store[g].status = "Committing")
            ~> (store[g] # NoTxn /\ store[g].status # "Committing")

=============================================================================
