---------------------------- MODULE ApiServerProofs ----------------------------
(***************************************************************************)
(* The handlers drive SagaManager only by its own steps, for any client    *)
(* discipline; what is proved of SagaManager thereby holds behind the API. *)
(* And the barrier admits a key once to clients that wait for answers.     *)
(***************************************************************************)
EXTENDS ApiServer, SagaRefinementProofs

At(h) == step[h] \in {"get", "put"}

\* The client of a request that is at the barrier for g could as well ask now.
Open(g) ==
    /\ Discipline \in {"serial", "lifecycle"} =>
          \A x \in Handlers : pc[x] \in Unanswered => call[x].gid # g
    /\ Discipline = "lifecycle" => phase[g] = "building"
    /\ Discipline = "started" =>
          /\ phase[g] # "new"
          /\ \A x \in Handlers : pc[x] \in Unanswered /\ call[x].gid = g => call[x].op # "start"

\* A handler is at the barrier or in the saga manager; what it goes on with may
\* still be asked; and clients that wait have one request at the barrier.
BarrierInv ==
    /\ B!TypeOK
    /\ \A h \in Handlers :
          /\ step[h] # "idle" => pc[h] = "idle" /\ key[h] \in Keys
          /\ At(h) => Open(key[h].gid)
    /\ Discipline \in {"serial", "lifecycle"} =>
          \A h, x \in Handlers : At(h) /\ At(x) /\ h # x => key[h].gid # key[x].gid

\* What the server does of its own accord begins no request.
Quiet ==
    /\ phase' = phase
    /\ \A x \in Handlers :
          /\ pc[x] = "idle" => pc'[x] = "idle"
          /\ pc'[x] \in Unanswered => pc[x] \in Unanswered /\ call'[x] = call[x]

-----------------------------------------------------------------------------
(* Requests.                                                               *)

LEMMA KeyType ==
    ASSUME NEW k \in Keys
    PROVE  /\ Guarded(k) \in Requests
           /\ Guarded(k).gid = k.gid
           /\ Guarded(k).op \in BranchOps
           /\ k.gid \in Gids
  BY DEF Keys, Phases, Guarded, GuardedOp, Requests, BranchOps

LEMMA OpenMeansMay ==
    ASSUME NEW r \in Requests, r.op \in BranchOps
    PROVE  Open(r.gid) <=> MayCall(r)
  <1>1. r.op # "start" /\ r.op \notin Decisions
        BY DEF BranchOps, Decisions
  <1> QED
      BY <1>1, ParamAssumption DEF Open, MayCall, StartedFirst, Busy

LEMMA DirectRequest ==
    ASSUME NEW op \in Ops \ BranchOps, NEW g \in Gids
    PROVE  [op |-> op, gid |-> g] \in Requests
  BY DEF Requests

\* A JSON-RPC request changes nothing or is one a client may send.
LEMMA JsonRpcAsks ==
    ASSUME NEW h \in Handlers, NEW method \in Ops \ BranchOps, NEW p \in JsonRpcParams,
           AskJsonRpc(h, method, p)
    PROVE  UNCHANGED vars \/ \E r \in Requests : MayAsk(r) /\ Accept(h, r)
  <1>1. CASE \E g \in JsonRpcGid(method, p) :
                MayAsk([op |-> method, gid |-> g]) /\ Accept(h, [op |-> method, gid |-> g])
        <2>1. JsonRpcGid(method, p) \subseteq Gids
              BY DEF JsonRpcGid, JsonRpcParams
        <2> QED
            BY <1>1, <2>1, DirectRequest
  <1>2. ASSUME method = "start", NEW g \in Gids, phase[g] = "new", ~AtBarrier(g),
               Busy(g, PC \ {"idle"}) = {}, Accept(h, [op |-> "start", gid |-> g])
        PROVE  \E r \in Requests : MayAsk(r) /\ Accept(h, r)
        <2> DEFINE r == [op |-> "start", gid |-> g]
        <2>1. r \in Requests /\ r.op = "start" /\ r.gid = g
              BY <1>2, DirectRequest
        <2>2. Busy(g, Unanswered) = {}
              BY <1>2 DEF Busy, PC, Unanswered, Writing
        <2>3. MayCall(r)
              BY <1>2, <2>1, <2>2, ParamAssumption DEF MayCall, StartedFirst, BranchOps
        <2> QED
            BY <1>2, <2>1, <2>3 DEF MayAsk
  <1> QED
      BY <1>1, <1>2 DEF AskJsonRpc

-----------------------------------------------------------------------------
(* Steps.                                                                  *)

LEMMA OwnStepsQuiet ==
    ASSUME ShapeInv, NEW h \in Handlers,
           \/ Operation(h)
           \/ \E k \in DOMAIN tasks[h] : BranchTask(h, k)
           \/ StorageError(h)
           \/ RequestDropped(h)
    PROVE  Quiet
  <1>1. ASSUME NEW x \in Handlers \ {h} PROVE Stays(x)
        BY OthersStay
  <1>2. phase' = phase
        BY DEF Operation, LoadMissing, AbortLoad, AddBranchLoad, BranchSucceedLoad,
           BranchFailLoad, BranchReport, SubmitLoad, SubmitMark, SubmitSpawn, SubmitJoin,
           SubmitSaveResults, Save, LateWriteLands, LateWriteLost, DetachedTasksEnd,
           BranchTask, TaskSucceeds, TaskGivesUp, TaskEnds, StorageError, RequestDropped,
           historyVars
  <1>3. Stays(h) \/ Empties(h) \/ Loads(h) \/ Advances(h) \/ Joins(h) \/ Decides(h)
        <2>1. CASE Operation(h)
              BY <2>1, OwnOperation
        <2>2. CASE \E k \in DOMAIN tasks[h] : BranchTask(h, k)
              BY <2>2 DEF BranchTask, TaskSucceeds, TaskGivesUp, TaskEnds, Stays
        <2>3. CASE StorageError(h) \/ RequestDropped(h)
              BY <2>3 DEF StorageError, RequestDropped, Abandon, Detach, Return, Empties,
                 Advances, ShapeInv, TypeOK
        <2> QED
            BY <2>1, <2>2, <2>3
  <1>4. /\ pc[h] = "idle" => pc'[h] = "idle"
        /\ pc'[h] \in Unanswered => pc[h] \in Unanswered /\ call'[h] = call[h]
        BY <1>3 DEF Stays, Empties, Loads, Advances, Joins, Decides, Unanswered, Writing
  <1> QED
      BY <1>1, <1>2, <1>4 DEF Quiet, Stays

LEMMA CrashQuiet == Crash => Quiet
  BY DEF Crash, Quiet, Unanswered, Writing

LEMMA QuietKeepsOpen ==
    ASSUME Quiet, NEW g \in Gids, Open(g) PROVE Open(g)'
  BY DEF Quiet, Open

\* A request that is accepted for another gid, or from clients that do not wait.
LEMMA AcceptKeepsOpen ==
    ASSUME ShapeInv, NEW h \in Handlers, NEW r \in Requests, MayCall(r), Accept(h, r),
           NEW g \in Gids, Open(g),
           Discipline \in {"serial", "lifecycle"} => r.gid # g
    PROVE  Open(g)'
  <1>1. /\ pc' = [pc EXCEPT ![h] = IF r.op = "start" THEN "save" ELSE "load"]
        /\ call' = [call EXCEPT ![h] = r]
        /\ phase' = [phase EXCEPT ![r.gid] =
                        IF r.op \in Decisions THEN "deciding"
                        ELSE IF r.op = "start" /\ @ = "new" THEN "building" ELSE @]
        BY DEF Accept
  <1>2. r.gid \in Gids
        BY RequestType
  <1>3. Discipline \in {"serial", "lifecycle"} =>
           \A x \in Handlers : pc'[x] \in Unanswered => call'[x].gid # g
        BY <1>1 DEF Open, ShapeInv, TypeOK
  <1>4. Discipline = "lifecycle" => phase'[g] = "building"
        BY <1>1, <1>2 DEF Open, ShapeInv, TypeOK
  <1>5. ASSUME Discipline = "started"
        PROVE  /\ phase'[g] # "new"
               /\ \A x \in Handlers :
                     pc'[x] \in Unanswered /\ call'[x].gid = g => call'[x].op # "start"
        <2>1. phase[g] # "new" /\ StartedFirst(r)
              BY <1>5 DEF Open, MayCall
        <2>2. phase'[g] # "new"
              BY <1>1, <1>2, <2>1 DEF ShapeInv, TypeOK
        <2>3. r.gid = g => r.op # "start"
              BY <2>1 DEF StartedFirst
        <2> QED
            BY <1>1, <1>5, <2>2, <2>3 DEF Open, ShapeInv, TypeOK
  <1> QED
      BY <1>3, <1>4, <1>5 DEF Open

-----------------------------------------------------------------------------
(* The invariant.                                                          *)

LEMMA BarrierInit == ApiInit => BarrierInv
  <1> SUFFICES ASSUME ApiInit PROVE BarrierInv
      OBVIOUS
  <1>1. B!TypeOK
        BY ApiAssumption DEF ApiInit, B!Init, B!TypeOK, B!Step
  <1>2. \A h \in Handlers : step[h] = "idle"
        BY DEF ApiInit, B!Init
  <1> QED
      BY <1>1, <1>2 DEF BarrierInv, At

\* Steps of the saga manager that accept a request from a handler that is not at
\* the barrier.
LEMMA AskKeeps ==
    ASSUME ShapeInv, BarrierInv, NEW h \in Handlers, NEW r \in Requests,
           step[h] = "idle", MayAsk(r), Accept(h, r), UNCHANGED barrierVars
    PROVE  BarrierInv'
  <1> USE DEF barrierVars
  <1>1. B!TypeOK'
        BY DEF BarrierInv, B!TypeOK
  <1>2. MayCall(r)
        BY DEF MayAsk
  <1>3. ASSUME NEW x \in Handlers, step'[x] # "idle" PROVE pc'[x] = "idle" /\ key'[x] \in Keys
        BY <1>3 DEF BarrierInv, Accept
  <1>4. ASSUME NEW x \in Handlers, At(x) PROVE Open(key[x].gid)'
        <2>1. PICK g \in Gids : g = key[x].gid
              BY <1>4, KeyType DEF BarrierInv, At
        <2>2. Open(g) /\ (Discipline \in {"serial", "lifecycle"} => r.gid # g)
              BY <1>4, <2>1, ParamAssumption DEF BarrierInv, MayAsk, AtBarrier, At
        <2>3. Open(g)'
              BY <1>2, <2>2, AcceptKeepsOpen
        <2> QED
            BY <2>1, <2>3 DEF Open
  <1> QED
      BY <1>1, <1>3, <1>4 DEF BarrierInv, At

\* The steps of the saga manager that accept nothing.
LEMMA QuietKeeps ==
    ASSUME BarrierInv, Quiet, UNCHANGED barrierVars
    PROVE  BarrierInv'
  <1> USE DEF barrierVars
  <1>1. B!TypeOK'
        BY DEF BarrierInv, B!TypeOK
  <1>2. ASSUME NEW x \in Handlers, step'[x] # "idle" PROVE pc'[x] = "idle" /\ key'[x] \in Keys
        BY <1>2 DEF BarrierInv, Quiet
  <1>3. ASSUME NEW x \in Handlers, At(x) PROVE Open(key[x].gid)'
        <2>1. PICK g \in Gids : g = key[x].gid
              BY <1>3, KeyType DEF BarrierInv, At
        <2>2. Open(g)'
              BY <1>3, <2>1, QuietKeepsOpen DEF BarrierInv
        <2> QED
            BY <2>1, <2>2 DEF Open
  <1> QED
      BY <1>1, <1>2, <1>3 DEF BarrierInv, At

\* A request arrives at the barrier.
LEMMA ArrivalKeeps ==
    ASSUME ShapeInv, BarrierInv, NEW h \in Handlers, NEW k \in Keys, AskAtBarrier(h, k)
    PROVE  BarrierInv'
  <1>1. /\ step' = [step EXCEPT ![h] = "get"] /\ key' = [key EXCEPT ![h] = k]
        /\ step[h] = "idle" /\ pc[h] = "idle"
        /\ MayAsk(Guarded(k))
        /\ UNCHANGED <<vars, barriers, admitted>>
        BY DEF AskAtBarrier, B!Insert
  <1>2. B!TypeOK'
        BY <1>1 DEF BarrierInv, B!TypeOK, B!Step
  <1>3. \A x \in Handlers \ {h} : step'[x] = step[x] /\ key'[x] = key[x]
        BY <1>1 DEF BarrierInv, B!TypeOK
  <1>4. step'[h] = "get" /\ key'[h] = k
        BY <1>1 DEF BarrierInv, B!TypeOK
  <1>5. ASSUME NEW x \in Handlers, Open(key'[x].gid) PROVE Open(key[x].gid)'
        BY <1>1, <1>5 DEF Open, vars, handlerVars, historyVars
  <1>6. Open(k.gid)
        BY <1>1, KeyType, OpenMeansMay DEF MayAsk
  <1>7. ASSUME NEW x \in Handlers
        PROVE  /\ step'[x] # "idle" => pc'[x] = "idle" /\ key'[x] \in Keys
               /\ At(x)' => Open(key[x].gid)'
        <2>1. CASE x = h
              BY <1>1, <1>4, <1>5, <1>6, <2>1 DEF vars, handlerVars
        <2>2. CASE x # h
              BY <1>1, <1>3, <1>5, <2>2 DEF BarrierInv, At, vars, handlerVars
        <2> QED
            BY <2>1, <2>2
  <1>8. ASSUME Discipline \in {"serial", "lifecycle"}, NEW x \in Handlers \ {h}, At(x)'
        PROVE  key'[x].gid # k.gid
        BY <1>1, <1>3, <1>8, KeyType DEF MayAsk, AtBarrier, At
  <1> QED
      BY <1>2, <1>3, <1>4, <1>7, <1>8 DEF BarrierInv, At

\* A handler goes on at the barrier or leaves it, and the saga manager rests.
LEMMA MovesKeep ==
    ASSUME BarrierInv, NEW h \in Handlers, UNCHANGED vars,
           B!InsertFound(h) \/ B!InsertAbsent(h) \/ B!InsertAbandoned(h) \/ B!LatePutEnds(h)
    PROVE  BarrierInv'
  <1> USE DEF B!InsertFound, B!InsertAbsent, B!InsertAbandoned, B!LatePutEnds, B!Leave
  <1>1. B!TypeOK'
        <2>1. step[h] # "idle" => key[h] \in Keys
              BY DEF BarrierInv
        <2> QED
            BY <2>1 DEF BarrierInv, B!TypeOK, B!Step
  <1>2. \A x \in Handlers \ {h} : step'[x] = step[x] /\ key'[x] = key[x]
        BY DEF BarrierInv, B!TypeOK
  <1>3. step'[h] # "idle" => step[h] # "idle" /\ key'[h] = key[h] /\ (At(h)' => At(h))
        BY DEF BarrierInv, B!TypeOK, At
  <1>4. \A x \in Handlers : Open(key'[x].gid) => Open(key[x].gid)'
        BY DEF Open, vars, handlerVars, historyVars
  <1>5. ASSUME NEW x \in Handlers
        PROVE  /\ step'[x] # "idle" => step[x] # "idle" /\ key'[x] = key[x]
               /\ At(x)' => At(x)
        BY <1>2, <1>3 DEF At
  <1>6. pc' = pc
        BY DEF vars, handlerVars
  <1>7. ASSUME NEW x \in Handlers
        PROVE  /\ step'[x] # "idle" => pc'[x] = "idle" /\ key'[x] \in Keys
               /\ At(x)' => Open(key[x].gid)'
        BY <1>4, <1>5, <1>6 DEF BarrierInv, At
  <1> QED
      BY <1>1, <1>5, <1>7 DEF BarrierInv, At

\* An admitted request is one the saga manager may be asked.
LEMMA AdmittedMay ==
    ASSUME BarrierInv, NEW h \in Handlers, Admitted(h)
    PROVE  Guarded(key[h]) \in Requests /\ MayCall(Guarded(key[h]))
  <1>1. key[h] \in Keys /\ Open(key[h].gid)
        BY DEF BarrierInv, Admitted, B!InsertPut, At
  <1> QED
      BY <1>1, KeyType, OpenMeansMay

LEMMA AdmittedKeeps ==
    ASSUME ShapeInv, BarrierInv, NEW h \in Handlers, Admitted(h)
    PROVE  BarrierInv'
  <1>1. /\ step[h] = "put" /\ step' = [step EXCEPT ![h] = "idle"]
        /\ key' = [key EXCEPT ![h] = NoKey]
        /\ barriers' = barriers \cup {key[h]}
        /\ admitted' = [admitted EXCEPT ![key[h]] = IF @ < AdmitCap THEN @ + 1 ELSE @]
        /\ Accept(h, Guarded(key[h]))
        BY DEF Admitted, B!InsertPut, B!Leave
  <1>2. key[h] \in Keys
        BY <1>1 DEF BarrierInv
  <1>3. PICK r \in Requests : r = Guarded(key[h]) /\ MayCall(r)
        BY AdmittedMay
  <1>4. r.gid = key[h].gid
        BY <1>2, <1>3, KeyType
  <1>5. B!TypeOK'
        BY <1>1, <1>2, ApiAssumption DEF BarrierInv, B!TypeOK, B!Step
  <1>6. \A x \in Handlers \ {h} : step'[x] = step[x] /\ key'[x] = key[x]
        BY <1>1 DEF BarrierInv, B!TypeOK
  <1>7. step'[h] = "idle"
        BY <1>1 DEF BarrierInv, B!TypeOK
  <1>8. ASSUME NEW x \in Handlers, step'[x] # "idle" PROVE pc'[x] = "idle" /\ key'[x] \in Keys
        BY <1>1, <1>6, <1>7, <1>8 DEF BarrierInv, Accept
  <1>9. ASSUME NEW x \in Handlers, At(x)' PROVE Open(key[x].gid)'
        <2>1. x # h /\ At(x) /\ key'[x] = key[x]
              BY <1>6, <1>7, <1>9 DEF At
        <2>2. PICK g \in Gids : g = key[x].gid
              BY <2>1, KeyType DEF BarrierInv, At
        <2>3. Open(g) /\ (Discipline \in {"serial", "lifecycle"} => r.gid # g)
              BY <1>1, <1>4, <2>1, <2>2 DEF BarrierInv, At
        <2>4. Accept(h, r)
              BY <1>1, <1>3
        <2>5. Open(g)'
              BY <1>3, <2>3, <2>4, AcceptKeepsOpen
        <2> QED
            BY <2>1, <2>2, <2>5 DEF Open
  <1> QED
      BY <1>5, <1>6, <1>7, <1>8, <1>9 DEF BarrierInv, At

-----------------------------------------------------------------------------
(* The refinement.                                                         *)

LEMMA ApiStep == BarrierInv /\ [ApiNext]_apiVars => [Next]_vars
  <1> SUFFICES ASSUME BarrierInv, [ApiNext]_apiVars PROVE [Next]_vars
      OBVIOUS
  <1>1. ASSUME NEW h \in Handlers, NEW r \in Requests, AskDirectly(h, r) PROVE Next
        BY <1>1 DEF AskDirectly, MayAsk, Call, Next
  <1>2. ASSUME NEW h \in Handlers, NEW method \in Ops \ BranchOps, NEW p \in JsonRpcParams,
               AskJsonRpc(h, method, p)
        PROVE  Next \/ UNCHANGED vars
        BY <1>2, JsonRpcAsks DEF MayAsk, Call, Next
  <1>3. ASSUME NEW h \in Handlers, NEW k \in Keys, AskAtBarrier(h, k) PROVE UNCHANGED vars
        BY <1>3 DEF AskAtBarrier
  <1>4. ASSUME NEW h \in Handlers, TurnedAway(h) \/ LookedUp(h) \/ LatePut(h) \/ BarrierFault(h)
        PROVE  UNCHANGED vars
        BY <1>4 DEF TurnedAway, LookedUp, LatePut, BarrierFault
  <1>5. ASSUME NEW h \in Handlers, Admitted(h) PROVE Next
        <2>1. PICK r \in Requests : r = Guarded(key[h]) /\ MayCall(r)
              BY <1>5, AdmittedMay
        <2>2. Accept(h, r)
              BY <1>5, <2>1 DEF Admitted
        <2> QED
            BY <2>1, <2>2 DEF Call, Next
  <1>6. ASSUME NEW h \in Handlers, SagaStep(h) PROVE Next
        BY <1>6 DEF SagaStep, Next
  <1>7. ASSUME NEW h \in Handlers, NEW k \in DOMAIN tasks[h], BranchTask(h, k) PROVE Next
        BY <1>7 DEF Next
  <1>8. ASSUME NEW h \in Handlers, StorageError(h) \/ RequestDropped(h) PROVE Next
        BY <1>8 DEF Next, Fault
  <1>9. CASE ApiCrash
        BY <1>9 DEF ApiCrash, Next, Fault
  <1>10. CASE UNCHANGED apiVars
        BY <1>10 DEF apiVars
  <1> QED
      BY <1>1, <1>2, <1>3, <1>4, <1>5, <1>6, <1>7, <1>8, <1>9, <1>10 DEF ApiNext, Handling

LEMMA BarrierStep == ShapeInv /\ BarrierInv /\ [ApiNext]_apiVars => BarrierInv'
  <1> SUFFICES ASSUME ShapeInv, BarrierInv, [ApiNext]_apiVars PROVE BarrierInv'
      OBVIOUS
  <1>1. ASSUME UNCHANGED vars, UNCHANGED barrierVars PROVE BarrierInv'
        <2>1. Quiet
              BY <1>1 DEF Quiet, vars, handlerVars, historyVars, Unanswered, Writing
        <2> QED
            BY <1>1, <2>1, QuietKeeps
  <1>2. ASSUME NEW h \in Handlers, NEW r \in Requests, AskDirectly(h, r) PROVE BarrierInv'
        BY <1>2, AskKeeps DEF AskDirectly
  <1>3. ASSUME NEW h \in Handlers, NEW method \in Ops \ BranchOps, NEW p \in JsonRpcParams,
               AskJsonRpc(h, method, p)
        PROVE  BarrierInv'
        <2>1. step[h] = "idle" /\ UNCHANGED barrierVars
              BY <1>3 DEF AskJsonRpc
        <2>2. UNCHANGED vars \/ \E r \in Requests : MayAsk(r) /\ Accept(h, r)
              BY <1>3, JsonRpcAsks
        <2> QED
            BY <1>1, <2>1, <2>2, AskKeeps
  <1>4. ASSUME NEW h \in Handlers, NEW k \in Keys, AskAtBarrier(h, k) PROVE BarrierInv'
        BY <1>4, ArrivalKeeps
  <1>5. ASSUME NEW h \in Handlers, TurnedAway(h) \/ LookedUp(h) \/ LatePut(h) \/ BarrierFault(h)
        PROVE  BarrierInv'
        BY <1>5, MovesKeep DEF TurnedAway, LookedUp, LatePut, BarrierFault
  <1>6. ASSUME NEW h \in Handlers, Admitted(h) PROVE BarrierInv'
        BY <1>6, AdmittedKeeps
  <1>7. ASSUME NEW h \in Handlers, UNCHANGED barrierVars,
               \/ Operation(h)
               \/ \E k \in DOMAIN tasks[h] : BranchTask(h, k)
               \/ StorageError(h)
               \/ RequestDropped(h)
        PROVE  BarrierInv'
        BY <1>7, OwnStepsQuiet, QuietKeeps
  <1>8. CASE ApiCrash
        <2>1. /\ barriers' = barriers /\ admitted' = admitted
              /\ step' = [c \in Handlers |-> "idle"] /\ key' = [c \in Handlers |-> NoKey]
              BY <1>8 DEF ApiCrash, B!Restart
        <2>2. B!TypeOK'
              BY <2>1 DEF BarrierInv, B!TypeOK, B!Step
        <2> QED
            BY <2>1, <2>2 DEF BarrierInv, At
  <1>9. CASE UNCHANGED apiVars
        BY <1>1, <1>9 DEF apiVars
  <1> QED
      BY <1>2, <1>3, <1>4, <1>5, <1>6, <1>7, <1>8, <1>9 DEF ApiNext, Handling, SagaStep

LEMMA ApiInvAlways == ApiSpec => [](ShapeInv /\ BarrierInv)
  <1>1. ApiInit => ShapeInv /\ BarrierInv
        BY ShapeInit, BarrierInit DEF ApiInit
  <1>2. ShapeInv /\ BarrierInv /\ [ApiNext]_apiVars => ShapeInv' /\ BarrierInv'
        BY ApiStep, BarrierStep, ShapeNext
  <1> QED
      BY <1>1, <1>2, PTL DEF ApiSpec

\* For any discipline of the clients, faults, gids and handlers: whatever arrives over
\* HTTP, gRPC or JSON-RPC, passes the barrier or is turned away there, is a step of
\* SagaManager with clients of that discipline, or none.
THEOREM ApiImplementsSaga == ApiSpec => ImplementsSaga
  <1>1. ApiInit => Init
        BY DEF ApiInit
  <1> QED
      BY <1>1, ApiInvAlways, ApiStep, PTL DEF ApiSpec, ImplementsSaga, Spec

\* What is proved of every stored transaction, decision and submit of SagaManager holds
\* behind the API, for any clients and faults.
THEOREM SafeBehindApi ==
    ApiSpec => []( /\ UniqueBranchIds /\ StatusHasCause /\ DecisionSound
                   /\ ParallelismBounded /\ SubmitGoesOn /\ OneCallPerSubmit )
                /\ RequestsAdvance
  BY ApiImplementsSaga, BranchIdsUnique, StatusesHaveCause, DecisionsSound, ParallelismSafe,
     SubmitsGoOn, SubmitsCallOnce, RequestsOnlyAdvance, PTL
  DEF ImplementsSaga

\* In the documented flow a committed transaction has only succeeded branches and an
\* aborted one none still to be executed, behind the API too, whatever requests are dropped
\* at the barrier or in the saga manager, and whatever is stored late or never.
THEOREM LifecycleBehindApi ==
    ASSUME Discipline = "lifecycle"
    PROVE  ApiSpec => []LifecycleCoherent
  BY ApiImplementsSaga, LifecycleSafe, PTL DEF ImplementsSaga

\* To clients of the documented flow, and without faults, the whole server loses no branch
\* and leaves no transaction undecided or half decided.
THEOREM FlowBehindApi ==
    ASSUME Discipline = "lifecycle", Faults = {}
    PROVE  ApiSpec => [](LifecycleCoherent /\ SettledWhenQuiet /\ AddedBranchesKept)
  BY ApiImplementsSaga, LifecycleSafe, QuietIsSettled, AddedBranchesStay, PTL DEF ImplementsSaga

\* To clients that wait for each answer, every operation of the whole server is atomic:
\* barrier, JSON-RPC and saga manager together do to the stored transactions what
\* SagaContract allows, also when the server crashes between a barrier key and the
\* operation it guards.
THEOREM ApiImplementsContract ==
    ASSUME Discipline = "serial", Faults \subseteq {"crash"}
    PROVE  ApiSpec => ImplementsContract
  BY ApiImplementsSaga, SerialImplementsContract, PTL DEF ImplementsSaga

\* Nor does the whole server call a participant again that has confirmed to it, before
\* or after a restart, unless it crashed before it had saved that confirmation.
THEOREM ApiConfirmsOnce ==
    ASSUME Discipline = "serial", Faults \subseteq {"crash"}
    PROVE  ApiSpec => []ConfirmedOnce
  BY ApiImplementsSaga, SerialConfirmsOnce, PTL DEF ImplementsSaga

-----------------------------------------------------------------------------
(* Types.                                                                  *)

AnsweredType == answered \subseteq Gids \X BranchIds

LEMMA AnsweredStep ==
    ShapeInv /\ BarrierInv /\ AnsweredType /\ [ApiNext]_apiVars => AnsweredType'
  <1> SUFFICES ASSUME ShapeInv, BarrierInv, AnsweredType, [ApiNext]_apiVars
               PROVE  AnsweredType'
      OBVIOUS
  <1>1. ASSUME NEW h \in Handlers, TurnedAway(h) PROVE AnsweredType'
        <2>1. key[h] \in Keys
              BY <1>1 DEF TurnedAway, B!InsertFound, BarrierInv
        <2> QED
            BY <1>1, <2>1 DEF TurnedAway, AnsweredType, Keys
  <1>2. ASSUME NEW h \in Handlers, SagaStep(h) PROVE AnsweredType'
        <2>1. ASSUME pc[h] \in Unanswered, call[h].op = "add_branch"
              PROVE  call[h].gid \in Gids /\ call[h].branch \in BranchIds
              BY <2>1, HandlerData DEF Unanswered, Writing, BranchOps
        <2> QED
            BY <1>2, <2>1 DEF SagaStep, AnsweredType
  <1>3. CASE answered' = answered
        BY <1>3 DEF AnsweredType
  <1> QED
      BY <1>1, <1>2, <1>3
      DEF ApiNext, Handling, AskDirectly, AskJsonRpc, AskAtBarrier, LookedUp, Admitted,
          LatePut, BarrierFault, ApiCrash, apiVars

\* Every reachable state of the handlers, the barrier and the saga manager behind them is
\* well typed.
THEOREM ApiTypeCorrect == ApiSpec => []ApiTypeOK
  <1>1. ApiInit => AnsweredType
        BY DEF ApiInit, AnsweredType
  <1>2. ShapeInv /\ BarrierInv /\ AnsweredType => ApiTypeOK
        BY DEF ShapeInv, BarrierInv, AnsweredType, ApiTypeOK
  <1> QED
      BY <1>1, <1>2, ApiInvAlways, AnsweredStep, PTL DEF ApiSpec

-----------------------------------------------------------------------------
(* The barrier.                                                            *)

\* An admitted key is stored, and no handler that missed it is about to put it: its
\* client would have had to ask beside another one.
AdmitInv ==
    /\ \A k \in Keys : admitted[k] \in {0, 1} /\ (admitted[k] # 0 => k \in barriers)
    /\ \A h \in Handlers : step[h] = "put" => admitted[key[h]] = 0

LEMMA AdmitStep ==
    ASSUME Discipline \in {"serial", "lifecycle"}
    PROVE  BarrierInv /\ AdmitInv /\ [ApiNext]_apiVars => AdmitInv'
  <1> SUFFICES ASSUME BarrierInv, AdmitInv, [ApiNext]_apiVars PROVE AdmitInv'
      OBVIOUS
  <1>1. CASE UNCHANGED barrierVars
        BY <1>1 DEF barrierVars, AdmitInv
  <1>2. ASSUME NEW h \in Handlers, NEW k \in Keys, AskAtBarrier(h, k) PROVE AdmitInv'
        BY <1>2 DEF AskAtBarrier, B!Insert, AdmitInv, BarrierInv, B!TypeOK
  <1>3. ASSUME NEW h \in Handlers, TurnedAway(h) \/ BarrierFault(h) PROVE AdmitInv'
        BY <1>3 DEF TurnedAway, BarrierFault, B!InsertFound, B!InsertAbandoned, B!Leave,
           AdmitInv, BarrierInv, B!TypeOK
  <1>4. ASSUME NEW h \in Handlers, LookedUp(h) PROVE AdmitInv'
        <2>1. key[h] \in Keys /\ key[h] \notin barriers
              BY <1>4 DEF LookedUp, B!InsertAbsent, BarrierInv
        <2> QED
            BY <1>4, <2>1 DEF LookedUp, B!InsertAbsent, AdmitInv, BarrierInv, B!TypeOK
  <1>5. ASSUME NEW h \in Handlers, LatePut(h) PROVE AdmitInv'
        BY <1>5 DEF LatePut, B!LatePutEnds, B!Leave, AdmitInv, BarrierInv, B!TypeOK
  <1>6. ASSUME NEW h \in Handlers, Admitted(h) PROVE AdmitInv'
        <2>1. /\ step[h] = "put" /\ step' = [step EXCEPT ![h] = "idle"]
              /\ key' = [key EXCEPT ![h] = NoKey]
              /\ barriers' = barriers \cup {key[h]}
              /\ admitted' = [admitted EXCEPT ![key[h]] = IF @ < AdmitCap THEN @ + 1 ELSE @]
              BY <1>6 DEF Admitted, B!InsertPut, B!Leave
        <2>2. key[h] \in Keys /\ admitted[key[h]] = 0
              BY <2>1 DEF BarrierInv, AdmitInv
        <2>3. ASSUME NEW x \in Handlers, step'[x] = "put"
              PROVE  step[x] = "put" /\ key'[x] = key[x] /\ key[x] # key[h] /\ key[x] \in Keys
              BY <2>1, <2>3 DEF BarrierInv, B!TypeOK, At
        <2>4. admitted'[key[h]] \in {0, 1}
              BY <2>1, <2>2, ApiAssumption DEF BarrierInv, B!TypeOK
        <2>5. \A k \in Keys \ {key[h]} : admitted'[k] = admitted[k]
              BY <2>1 DEF BarrierInv, B!TypeOK
        <2> QED
            BY <2>1, <2>2, <2>3, <2>4, <2>5 DEF AdmitInv
  <1>7. CASE ApiCrash
        BY <1>7 DEF ApiCrash, B!Restart, AdmitInv
  <1> QED
      BY <1>1, <1>2, <1>3, <1>4, <1>5, <1>6, <1>7
      DEF ApiNext, Handling, AskDirectly, AskJsonRpc, SagaStep, apiVars

\* To clients that wait for each answer a barrier opens once, for any number of gids,
\* branches and handlers and under every fault.
THEOREM BarrierAdmitsOnce ==
    ASSUME Discipline \in {"serial", "lifecycle"}
    PROVE  ApiSpec => []AdmittedOnce
  <1>1. ApiInit => AdmitInv
        BY DEF ApiInit, B!Init, AdmitInv
  <1>2. BarrierInv /\ AdmitInv => AdmittedOnce
        BY DEF AdmitInv, AdmittedOnce
  <1> QED
      BY <1>1, <1>2, ApiInvAlways, AdmitStep, PTL DEF ApiSpec

-----------------------------------------------------------------------------
(* An add that was answered is listed.                                     *)

\* Whoever adds a branch has asked for it, and so has whoever left a key of phase Try;
\* no put of a key is outstanding; an answered add is on record and listed.
AnsweredInv ==
    /\ \A h \in Handlers : pc[h] # "idle" /\ call[h].op = "add_branch" =>
          Asked(call[h].gid, call[h].branch)
    /\ \A k \in barriers : k.phase = "Try" => Asked(k.gid, k.branch)
    /\ \A h \in Handlers : step[h] # "late"
    /\ \A g \in Gids, b \in BranchIds : <<g, b>> \in answered =>
          Asked(g, b) /\ store[g] # NoTxn /\ HasBranch(store[g], b)

\* What is listed on record stays listed.
LEMMA ListedStays ==
    ASSUME ShapeInv, OrderInv, KeptInv, [Next]_vars, NEW g \in Gids, NEW b \in BranchIds,
           Asked(g, b), store[g] # NoTxn, HasBranch(store[g], b)
    PROVE  Asked(g, b)' /\ store'[g] # NoTxn /\ HasBranch(store'[g], b)
  <1>1. Asked(g, b)'
        BY EvidenceGrows DEF Asked
  <1>2. ASSUME NEW h \in Handlers, pc[h] \in Writing \cup {"zombie"}, call[h].gid = g,
               store'[g] = tx[h]
        PROVE  store'[g] # NoTxn /\ HasBranch(store'[g], b)
        <2>1. pc[h] \in Writing /\ call[h].op # "start"
              BY <1>2 DEF OrderInv, Writing
        <2> QED
            BY <1>2, <2>1, HandlerData DEF KeptInv
  <1>3. CASE \E r \in Handlers : /\ pc[r] \in Writing \cup {"zombie"}
                                 /\ call[r].gid = g
                                 /\ store'[g] = tx[r]
        BY <1>1, <1>2, <1>3
  <1>4. CASE store'[g] = store[g]
        BY <1>1, <1>4
  <1> QED
      BY <1>3, <1>4, StoreStep

\* The answer to an add comes when the branch is listed.
LEMMA AnswersListed ==
    ASSUME ShapeInv, OrderInv, KeptInv, NEW h \in Handlers, Operation(h), pc'[h] = "idle",
           call[h].op = "add_branch",
           NEW g \in Gids, NEW b \in BranchIds, call[h].gid = g, call[h].branch = b, Asked(g, b)
    PROVE  store'[g] # NoTxn /\ HasBranch(store'[g], b)
  <1>1. pc[h] # "idle" /\ \A x \in Handlers \ {h} : Stays(x)
        BY OrderlyOperation
  <1>2. ASSUME NEW x \in Handlers, Adding(x, g, b)' PROVE FALSE
        <2>1. x # h
              BY <1>2 DEF Adding
        <2>2. pc[x] # "idle" /\ call[x].gid = g
              BY <1>1, <1>2, <2>1 DEF Adding, Stays
        <2> QED
            BY <1>1, <2>1, <2>2 DEF OrderInv, Decisions
  <1>3. \/ store'[g] # NoTxn /\ HasBranch(store'[g], b)
        \/ \E x \in Handlers : Adding(x, g, b)'
        BY StoredKeeps
  <1> QED
      BY <1>2, <1>3

\* A request that the barrier turns away finds its branch listed.
LEMMA TurnedAwayListed ==
    ASSUME ShapeInv, BarrierInv, OrderInv, KeptInv, AnsweredInv, Discipline = "lifecycle",
           NEW h \in Handlers, TurnedAway(h), key[h].phase = "Try"
    PROVE  /\ key[h].gid \in Gids /\ key[h].branch \in BranchIds
           /\ Asked(key[h].gid, key[h].branch)
           /\ store[key[h].gid] # NoTxn /\ HasBranch(store[key[h].gid], key[h].branch)
  <1> DEFINE g == key[h].gid
             b == key[h].branch
  <1>1. step[h] = "get" /\ key[h] \in barriers /\ key[h] \in Keys
        BY DEF TurnedAway, B!InsertFound, BarrierInv
  <1>2. g \in Gids /\ b \in BranchIds
        BY <1>1 DEF Keys
  <1>3. Asked(g, b)
        BY <1>1 DEF AnsweredInv
  <1>4. \A x \in Handlers : pc[x] \in Unanswered => call[x].gid # g
        BY <1>1 DEF BarrierInv, At, Open
  <1>5. \A x \in Handlers : pc[x] # "idle" => pc[x] \in Unanswered
        BY DEF OrderInv, ShapeInv, TypeOK, PC
  <1> QED
      BY <1>2, <1>3, <1>4, <1>5 DEF KeptInv, Adding

LEMMA AnsweredNext ==
    ASSUME Discipline = "lifecycle", Faults = {}
    PROVE  /\ ShapeInv /\ BarrierInv /\ OrderInv /\ KeptInv /\ AnsweredType /\ AnsweredInv
           /\ [ApiNext]_apiVars
           => AnsweredInv'
  <1> SUFFICES ASSUME ShapeInv, BarrierInv, OrderInv, KeptInv, AnsweredType, AnsweredInv,
                      [ApiNext]_apiVars
               PROVE  AnsweredInv'
      OBVIOUS
  <1>1. [Next]_vars
        BY ApiStep
  <1>2. \A g, b : Asked(g, b) => Asked(g, b)'
        BY <1>1, EvidenceGrows DEF Asked
  <1>3. ASSUME NEW h \in Handlers, pc'[h] # "idle", call'[h].op = "add_branch"
        PROVE  Asked(call[h].gid, call[h].branch)'
        <2>1. CASE pc[h] # "idle" /\ call'[h] = call[h]
              BY <1>2, <1>3, <2>1 DEF AnsweredInv, Asked
        <2>2. CASE Accepts(h)
              BY <1>3, <2>2 DEF Accepts, Call, Accept, ShapeInv, TypeOK, Asked
        <2> QED
            BY <1>1, <1>3, <2>1, <2>2, FlowKeepsCall
  <1>4. ASSUME NEW k \in barriers', k.phase = "Try" PROVE Asked(k.gid, k.branch)'
        <2>1. CASE k \in barriers
              BY <1>2, <1>4, <2>1 DEF AnsweredInv
        <2>2. ASSUME NEW h \in Handlers, Admitted(h), k = key[h]
              PROVE  Asked(k.gid, k.branch)'
              <3>1. Guarded(k).op = "add_branch" /\ Guarded(k).gid = k.gid /\ Guarded(k).branch = k.branch
                    BY <1>4 DEF Guarded, GuardedOp
              <3> QED
                  BY <2>2, <3>1 DEF Admitted, Accept, Asked
        <2>3. barriers' = barriers \/ \E h \in Handlers : Admitted(h) /\ barriers' = barriers \cup {key[h]}
              BY DEF ApiNext, Handling, AskDirectly, AskJsonRpc, AskAtBarrier, TurnedAway, LookedUp,
                 Admitted, SagaStep, LatePut, BarrierFault, ApiCrash, apiVars, barrierVars,
                 B!Insert, B!InsertFound, B!InsertAbsent, B!InsertPut, B!LatePutEnds,
                 B!InsertAbandoned, B!Restart, AnsweredInv
        <2> QED
            BY <2>1, <2>2, <2>3
  <1>5. ASSUME NEW h \in Handlers PROVE step'[h] # "late"
        <2>1. step[h] # "late" /\ step \in [Handlers -> {"idle", "get", "put", "late"}]
              BY DEF AnsweredInv, BarrierInv, B!TypeOK, B!Step
        <2> QED
            BY <2>1 DEF ApiNext, Handling, AskDirectly, AskJsonRpc, AskAtBarrier, TurnedAway, LookedUp,
               Admitted, SagaStep, LatePut, BarrierFault, ApiCrash, apiVars, barrierVars,
               B!Insert, B!InsertFound, B!InsertAbsent, B!InsertPut, B!LatePutEnds,
               B!Leave, B!Restart, AnsweredInv
  <1>6. ASSUME NEW g \in Gids, NEW b \in BranchIds, <<g, b>> \in answered'
        PROVE  Asked(g, b)' /\ store'[g] # NoTxn /\ HasBranch(store'[g], b)
        <2>1. CASE <<g, b>> \in answered
              BY <1>1, <2>1, ListedStays DEF AnsweredInv
        <2>2. ASSUME NEW h \in Handlers, TurnedAway(h), key[h].phase = "Try",
                     key[h].gid = g, key[h].branch = b
              PROVE  Asked(g, b)' /\ store'[g] # NoTxn /\ HasBranch(store'[g], b)
              <3>1. Asked(g, b) /\ store[g] # NoTxn /\ HasBranch(store[g], b)
                    BY <2>2, TurnedAwayListed
              <3> QED
                  BY <1>1, <3>1, ListedStays
        <2>3. ASSUME NEW h \in Handlers, SagaStep(h), pc[h] \in Unanswered,
                     call[h].op = "add_branch", pc'[h] = "idle",
                     call[h].gid = g, call[h].branch = b
              PROVE  Asked(g, b)' /\ store'[g] # NoTxn /\ HasBranch(store'[g], b)
              <3>1. Operation(h) /\ Asked(g, b)
                    BY <2>3 DEF SagaStep, AnsweredInv, Unanswered, Writing
              <3> QED
                  BY <1>2, <2>3, <3>1, AnswersListed
        <2>4. CASE answered' # answered
              <3>1. \E h \in Handlers : TurnedAway(h) \/ SagaStep(h)
                    BY <2>4 DEF ApiNext, Handling, AskDirectly, AskJsonRpc, AskAtBarrier, LookedUp,
                       Admitted, LatePut, BarrierFault, ApiCrash, apiVars
              <3> QED
                  BY <1>6, <2>1, <2>2, <2>3, <3>1 DEF TurnedAway, SagaStep
        <2> QED
            BY <1>6, <2>1, <2>4
  <1> QED
      BY <1>3, <1>4, <1>5, <1>6 DEF AnsweredInv

\* In the documented flow without faults a branch whose add or try was answered Ok is
\* listed, for any number of branches and handlers and by either route.
THEOREM AnsweredAddsListed ==
    ASSUME Discipline = "lifecycle", Faults = {}
    PROVE  ApiSpec => []AnsweredAddListed
  <1>1. ApiInit => AnsweredType /\ AnsweredInv
        BY DEF ApiInit, Init, B!Init, AnsweredType, AnsweredInv
  <1>2. AnsweredInv => AnsweredAddListed
        BY DEF AnsweredInv, AnsweredAddListed
  <1>3. ApiSpec => [](OrderInv /\ KeptInv)
        BY ApiImplementsSaga, KeptAlways DEF ImplementsSaga
  <1> QED
      BY <1>1, <1>2, <1>3, ApiInvAlways, AnsweredStep, AnsweredNext, PTL DEF ApiSpec

=============================================================================
