------------------------------- MODULE ApiServer -------------------------------
(***************************************************************************)
(* The request handlers of seata-server (src/main.rs), the same over HTTP  *)
(* and over gRPC, in front of SagaManager. start, submit, abort and        *)
(* branch/add go straight to the saga manager. branch/try, branch/succeed  *)
(* and branch/fail first insert a barrier key, of phase Try, Confirm or    *)
(* Cancel; if it was there already they answer Ok and do nothing. JSON-RPC *)
(* knows start, submit and abort.                                          *)
(* The barrier key and the transaction are two records of the store,       *)
(* written one after the other.                                            *)
(***************************************************************************)
EXTENDS SagaManager

CONSTANTS
    AdmitCap,   \* see Barrier
    NoKey

VARIABLES
    barriers, step, key, admitted,  \* see Barrier
    answered                        \* branches whose add was answered Ok

barrierVars == <<barriers, step, key, admitted>>
apiVars == <<vars, barrierVars, answered>>

\* Which phase guards which operation on its way to the saga manager.
GuardedOp(p) ==
    CASE p = "Try"     -> "add_branch"
      [] p = "Confirm" -> "branch_succeed"
      [] p = "Cancel"  -> "branch_fail"

Phases == {p \in {"Try", "Confirm", "Cancel"} : GuardedOp(p) \in Ops}
Keys == [gid : Gids, branch : BranchIds, phase : Phases]

ASSUME ApiAssumption == AdmitCap \in Nat

B == INSTANCE Barrier WITH Callers <- Handlers

\* The operation a handler goes on with once its key is inserted.
Guarded(k) == [op |-> GuardedOp(k.phase), gid |-> k.gid, branch |-> k.branch]

ApiInit == Init /\ B!Init /\ answered = {}

\* Clients that wait for an answer also wait for one that is at the barrier.
AtBarrier(g) == \E h \in Handlers : step[h] \in {"get", "put"} /\ key[h].gid = g
MayAsk(r) == MayCall(r) /\ (Discipline \in {"any", "started"} \/ ~AtBarrier(r.gid))

-----------------------------------------------------------------------------

\* start, submit, abort and branch/add.
AskDirectly(h, r) ==
    /\ step[h] = "idle"
    /\ r.op \notin {"branch_succeed", "branch_fail"}
    /\ MayAsk(r)
    /\ Accept(h, r)
    /\ UNCHANGED <<barrierVars, answered>>

\* The parameters of a JSON-RPC request: the gid among them, if any, and whether
\* every other one has the type a start gives it.
JsonRpcParams == [gid : {{}} \cup {{g} : g \in Gids}, typed : BOOLEAN]

\* The untagged enum is tried in order. All fields of Start are optional, so it
\* takes whatever is well typed, {gid} included; Gid is left with the rest. No
\* parameters at all are like a Start without fields.
Variant(p) ==
    CASE p.typed -> "Start"
      [] ~p.typed /\ p.gid # {} -> "Gid"
      [] OTHER -> "refused"

\* The gid the dispatcher takes out of the parameters: start looks for it in
\* Start, submit and abort in Gid.
JsonRpcGid(method, p) ==
    IF Variant(p) = (IF method = "start" THEN "Start" ELSE "Gid") THEN p.gid ELSE {}

\* /jsonrpc. Without a gid a start takes a fresh one, whatever the request named;
\* submit and abort load the gid "", which no transaction has, and answer that
\* they are done.
AskJsonRpc(h, method, p) ==
    /\ step[h] = "idle"
    /\ Variant(p) # "refused"
    /\ \/ \E g \in JsonRpcGid(method, p) :
             MayAsk([op |-> method, gid |-> g]) /\ Accept(h, [op |-> method, gid |-> g])
       \/ /\ JsonRpcGid(method, p) = {}
          /\ method = "start"
          /\ \E g \in Gids :
                /\ phase[g] = "new" /\ store[g] = NoTxn
                /\ Busy(g, PC \ {"idle"}) = {} /\ ~AtBarrier(g)
                /\ Accept(h, [op |-> "start", gid |-> g])
       \/ /\ JsonRpcGid(method, p) = {}
          /\ method \in Decisions
          /\ pc[h] = "idle"
          /\ UNCHANGED vars
    /\ UNCHANGED <<barrierVars, answered>>

\* branch/try, branch/succeed and branch/fail.
AskAtBarrier(h, k) ==
    /\ pc[h] = "idle"
    /\ MayAsk(Guarded(k))
    /\ B!Insert(h, k)
    /\ UNCHANGED <<vars, answered>>

\* Ok(false): the handler answers Ok without touching the transaction.
TurnedAway(h) ==
    /\ B!InsertFound(h)
    /\ answered' = IF key[h].phase = "Try"
                   THEN answered \cup {<<key[h].gid, key[h].branch>>} ELSE answered
    /\ UNCHANGED vars

LookedUp(h) == B!InsertAbsent(h) /\ UNCHANGED <<vars, answered>>

\* Mutants of Admitted: the handler answers as if the key had been there; it
\* pushes the branch itself, in one step with the key.
AdmittedWithoutSaga(h) ==
    /\ B!InsertPut(h)
    /\ answered' = IF key[h].phase = "Try"
                   THEN answered \cup {<<key[h].gid, key[h].branch>>} ELSE answered
    /\ UNCHANGED vars

AdmittedInPlace(h) ==
    /\ B!InsertPut(h)
    /\ store[key[h].gid] # NoTxn
    /\ store' = [store EXCEPT ![key[h].gid] = WithBranch(@, key[h].branch)]
    /\ UNCHANGED <<handlerVars, historyVars, answered>>

\* Ok(true): the handler calls the saga manager.
Admitted(h) ==
    /\ B!InsertPut(h)
    /\ Accept(h, Guarded(key[h]))
    /\ UNCHANGED answered

\* The saga operation goes on; its last step answers the client.
SagaStep(h) ==
    /\ Operation(h)
    /\ answered' = IF /\ pc[h] \in Unanswered
                      /\ call[h].op = "add_branch"
                      /\ pc'[h] = "idle"
                   THEN answered \cup {<<call[h].gid, call[h].branch>>} ELSE answered
    /\ UNCHANGED barrierVars

\* Errors of the barrier's store accesses, and handlers dropped at them.
BarrierFault(h) ==
    /\ Faults \cap {"drop", "storage"} # {}
    /\ B!InsertAbandoned(h)
    /\ UNCHANGED <<vars, answered>>

LatePut(h) == B!LatePutEnds(h) /\ UNCHANGED <<vars, answered>>

ApiCrash == Crash /\ B!Restart /\ UNCHANGED answered

Handling(h) == TurnedAway(h) \/ LookedUp(h) \/ Admitted(h) \/ SagaStep(h) \/ LatePut(h)

ApiNext ==
    \/ \E h \in Handlers, r \in Requests : AskDirectly(h, r)
    \/ \E h \in Handlers, method \in Ops \ BranchOps, p \in JsonRpcParams :
          AskJsonRpc(h, method, p)
    \/ \E h \in Handlers, k \in Keys : AskAtBarrier(h, k)
    \/ \E h \in Handlers : Handling(h)
    \/ /\ \E h \in Handlers : \E k \in DOMAIN tasks[h] : BranchTask(h, k)
       /\ UNCHANGED <<barrierVars, answered>>
    \/ /\ \E h \in Handlers : StorageError(h) \/ RequestDropped(h)
       /\ UNCHANGED <<barrierVars, answered>>
    \/ \E h \in Handlers : BarrierFault(h)
    \/ ApiCrash

ApiSpec == ApiInit /\ [][ApiNext]_apiVars

\* Longest list of tasks a submit can spawn, for TLC's sake.
MaxTasks == Cardinality(BranchIds)

\* tokio polls every ready handler, every store access returns, and a task's loop
\* ends at the latest one attempt after timeout_to_fail. Nobody is obliged to send
\* requests, and no fault has to happen.
ApiFairness ==
    /\ \A h \in Handlers : WF_apiVars(Handling(h))
    /\ \A h \in Handlers, k \in 1..MaxTasks :
          WF_apiVars(BranchTask(h, k) /\ UNCHANGED <<barrierVars, answered>>)

ApiFairSpec == ApiSpec /\ ApiFairness

-----------------------------------------------------------------------------
(* Properties.                                                             *)

\* Every variable holds a value of its type.
ApiTypeOK ==
    /\ TypeOK
    /\ B!TypeOK
    /\ answered \subseteq Gids \X BranchIds

\* To clients that wait for each answer, a barrier opens at most once: however
\* often a try, confirm or cancel is sent again after an error, a timeout or a
\* restart, it reaches the transaction once, also when the put of an abandoned
\* request lands late.
AdmittedOnce == \A k \in Keys : admitted[k] <= 1

\* In the documented flow without faults, a branch whose add or try was answered
\* Ok is a branch of the transaction, whichever of the two routes and however
\* many retries the client used.
AnsweredAddListed ==
    \A g \in Gids, b \in BranchIds :
        <<g, b>> \in answered /\ store[g] # NoTxn => HasBranch(store[g], b)

\* Every request is answered, at the barrier or behind it: no submit waits for a
\* permit or a handle for ever, even with branch_parallelism 0.
ApiRequestsEnd ==
    \A h \in Handlers : <<pc[h], step[h]>> # <<"idle", "idle">>
                            ~> <<pc[h], step[h]>> = <<"idle", "idle">>

Idle(h) == pc[h] = "idle" /\ step[h] = "idle"

\* Once there are no more drops and crashes and clients ask for nothing else, a
\* transaction that is marked committing is decided in the end: whatever was dropped,
\* lost or saved over before is found and taken up again.
CommittingEndsAfterFaults ==
    <>[][~Fault /\ \A h \in Handlers : Idle(h) => Idle(h)']_apiVars => CommittingEnds

\* The handlers use the saga manager only by its operations, one per slot at a
\* time, at the barrier or in the manager: what holds of SagaManager with
\* clients of any discipline holds behind the API.
ImplementsSaga == Spec

=============================================================================
