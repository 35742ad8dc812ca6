-------------------------- MODULE ServerProcessProofs --------------------------
(***************************************************************************)
(* ServerProcess for any servers, instance ids, leases and deployments.    *)
(***************************************************************************)
EXTENDS ServerProcess, TLAPS

\* ServerTypeOK, and a registration that is under way has an instance id.
TypeInv ==
    /\ ServerTypeOK
    /\ \A s \in Servers : task[s] # "none" => id[s] \in Ids

\* A server past its first opening has opened the store it selected, and holds
\* the lock if that is the embedded one; so it gets past its second opening only
\* with another one.
StoreInv ==
    \A s \in Servers :
        /\ main[s] = "open_barrier" =>
              /\ repo[s] = RepoStore(config[s])
              /\ repo[s] = Embedded => dir = s
        /\ main[s] \in {"bind", "serving"} =>
              /\ repo[s] = RepoStore(config[s])
              /\ barrier[s] = BarrierStore(config[s])
              /\ repo[s] # Embedded

-----------------------------------------------------------------------------
(* The selection of the store.                                             *)

LEMMA SelectedStore ==
    ASSUME NEW env \in Networked \cup {"unset", "sled", "typo"}, NEW driver \in Drivers
    PROVE  Selected(env, driver) \in Store
  BY DEF Selected, Store, Networked, Drivers

LEMMA SettingsDriver ==
    ASSUME NEW c \in Config
    PROVE  Settings(c).driver \in Drivers
  BY DEF Settings, Default, Config, Drivers

LEMMA BothInStore ==
    ASSUME NEW c \in Config
    PROVE  RepoStore(c) \in Store /\ BarrierStore(c) \in Store
  BY SelectedStore, SettingsDriver DEF RepoStore, BarrierStore, Config

LEMMA TheSameStore ==
    ASSUME NEW c PROVE BarrierStore(c) = RepoStore(c)
  BY DEF BarrierStore, RepoStore

-----------------------------------------------------------------------------
(* Types. One lemma per group of steps; each step of etcd and of the       *)
(* registrations leaves startVars alone.                                   *)

LEMMA TypeInit == ServerInit => TypeInv
  BY ServerAssumption
  DEF ServerInit, Init, TypeInv, ServerTypeOK, TypeOK, Main, Task, Registering, Starting, Running

LEMMA TypeEnds ==
    ASSUME TypeInv, NEW s \in Servers, Ends(s) PROVE TypeInv'
  <1> USE DEF TypeInv, ServerTypeOK, TypeOK, Ends, Over, Goes
  <1>1. TypeOK'
        BY DEF Task
  <1>2. main' \in [Servers -> Main] /\ config' \in Deployments
        BY DEF Main
  <1>3. repo' \in [Servers -> Store \cup {NoStore}] /\ barrier' \in [Servers -> Store \cup {NoStore}]
        OBVIOUS
  <1>4. dir' \in {t \in Servers : Running(t)'} \cup {Nobody}
        BY DEF Running
  <1>5. \A t \in Servers : task'[t] # "none" => id'[t] \in Ids
        OBVIOUS
  <1> QED
      BY <1>1, <1>2, <1>3, <1>4, <1>5

LEMMA ConfigOf ==
    ASSUME TypeInv, NEW s \in Servers
    PROVE  config[s] \in Config
  BY ServerAssumption DEF TypeInv, ServerTypeOK

\* Moving main of one server on, without ending it.
LEMMA TypeMoves ==
    ASSUME TypeInv, NEW s \in Servers, NEW to \in Main \ {"off"},
           main' = [main EXCEPT ![s] = to], config' = config,
           repo' \in [Servers -> Store \cup {NoStore}],
           barrier' \in [Servers -> Store \cup {NoStore}],
           dir' \in {dir, s},
           TypeOK', \A t \in Servers : task'[t] # "none" => id'[t] \in Ids
    PROVE  TypeInv'
  <1> USE DEF TypeInv, ServerTypeOK
  <1>1. main' \in [Servers -> Main]
        OBVIOUS
  <1>2. dir' \in {t \in Servers : Running(t)'} \cup {Nobody}
        BY DEF Running
  <1> QED
      BY <1>1, <1>2

LEMMA TypeRegister ==
    ASSUME TypeInv, NEW s \in Servers, NEW i \in Ids, Register(s, i)
    PROVE  TypeOK' /\ \A t \in Servers : task'[t] # "none" => id'[t] \in Ids
  BY DEF TypeInv, ServerTypeOK, TypeOK, Register, Goes, Task, Registering

LEMMA TypeStart ==
    ASSUME TypeInv, NEW s \in Servers,
           Start(s) \/ OpenRepo(s) \/ OpenBarrier(s) \/ Bind(s) \/ Shutdown(s)
    PROVE  TypeInv'
  <1>1. config[s] \in Config
        BY ConfigOf
  <1>2. CASE Start(s) \/ Shutdown(s)
        BY <1>2, TypeMoves
        DEF Start, Shutdown, At, regVars, Main, Starting, TypeInv, ServerTypeOK, TypeOK
  <1>3. CASE OpenRepo(s)
        <2>1. repo' \in [Servers -> Store \cup {NoStore}]
              BY <1>1, <1>3, BothInStore DEF OpenRepo, TypeInv, ServerTypeOK
        <2> QED
            BY <1>3, <2>1, TypeMoves
            DEF OpenRepo, Opens, At, regVars, Main, Starting, TypeInv, ServerTypeOK, TypeOK
  <1>4. CASE OpenBarrier(s)
        <2>1. barrier' \in [Servers -> Store \cup {NoStore}]
              BY <1>1, <1>4, BothInStore DEF OpenBarrier, TypeInv, ServerTypeOK
        <2> QED
            BY <1>4, <2>1, TypeMoves
            DEF OpenBarrier, Opens, At, regVars, Main, Starting, TypeInv, ServerTypeOK, TypeOK
  <1>5. CASE Bind(s)
        <2>1. TypeOK' /\ \A t \in Servers : task'[t] # "none" => id'[t] \in Ids
              <3>1. CASE Registers(config[s])
                    <4>1. PICK i \in Ids : Register(s, i)
                          BY <1>1, <1>5, <3>1 DEF Bind, Identify, Config, FreshIds
                    <4> QED
                        BY <4>1, TypeRegister
              <3>2. CASE ~Registers(config[s])
                    BY <1>5, <3>2 DEF Bind, regVars, TypeInv, ServerTypeOK, TypeOK
              <3> QED
                  BY <3>1, <3>2
        <2> QED
            BY <1>5, <2>1, TypeMoves DEF Bind, At, Main, Starting, TypeInv, ServerTypeOK
  <1> QED
      BY <1>2, <1>3, <1>4, <1>5

\* A step that leaves startVars alone needs its types checked in Registry only.
LEMMA TypeRegistry ==
    ASSUME TypeInv, UNCHANGED startVars,
           TypeOK', \A t \in Servers : task'[t] # "none" => id'[t] \in Ids
    PROVE  TypeInv'
  BY DEF TypeInv, ServerTypeOK, startVars, Running

LEMMA KeyTyped ==
    ASSUME TypeInv, NEW s \in Servers, task[s] # "none", NEW p \in Protocols
    PROVE  Key(s, p) \in Keys
  BY DEF TypeInv, Key, Keys

LEMMA TypeRegistering ==
    ASSUME TypeInv, NEW s \in Servers, UNCHANGED startVars,
           \/ Grant(s) \/ PutKeys(s) \/ KeepAlive(s) \/ RegisterFails(s)
           \/ StopsWatching(s) \/ CleansUp(s) \/ CleanupFails(s)
    PROVE  TypeInv'
  <1> USE DEF TypeInv, ServerTypeOK, TypeOK, Goes, Task, Registering, CleaningUp
  <1> SUFFICES TypeOK' /\ \A t \in Servers : task'[t] # "none" => id'[t] \in Ids
      BY TypeRegistry
  <1>1. CASE Grant(s)
        <2> DEFINE l == CHOOSE l \in NewLeases : TRUE
        <2>1. l \in Leases
              BY <1>1 DEF Grant, NewLeases
        <2> HIDE DEF l
        <2>2. /\ lease' = [lease EXCEPT ![s] = l] /\ live' = live \cup {l}
              /\ task' = [task EXCEPT ![s] = "put_http"] /\ UNCHANGED <<id, entries>>
              /\ task[s] = "grant"
              BY <1>1 DEF Grant, l
        <2> QED
            BY <2>1, <2>2
  <1>2. CASE PutKeys(s)
        BY <1>2 DEF PutKeys, PutKey
  <1>3. CASE KeepAlive(s) \/ StopsWatching(s)
        BY <1>3 DEF KeepAlive, StopsWatching
  <1>4. CASE RegisterFails(s) \/ CleanupFails(s)
        BY <1>4 DEF RegisterFails, CleanupFails, Over
  <1>5. CASE CleansUp(s)
        BY <1>5 DEF CleansUp, DeleteKey, Without, Over
  <1> QED
      BY <1>1, <1>2, <1>3, <1>4, <1>5

LEMMA TypeExpires ==
    ASSUME TypeInv, NEW l \in Leases, LeaseExpires(l), UNCHANGED startVars
    PROVE  TypeInv'
  BY TypeRegistry DEF TypeInv, ServerTypeOK, TypeOK, LeaseExpires, Without

LEMMA TypeStep == TypeInv /\ [Next]_vars => TypeInv'
  <1> SUFFICES ASSUME TypeInv, [Next]_vars PROVE TypeInv'
      OBVIOUS
  <1>1. ASSUME NEW s \in Servers,
               Start(s) \/ OpenRepo(s) \/ OpenBarrier(s) \/ Bind(s) \/ Shutdown(s) \/ GrpcEnds(s)
        PROVE  TypeInv'
        BY <1>1, TypeStart DEF GrpcEnds
  <1>2. ASSUME NEW s \in Servers, LockedOut(s) \/ Exit(s) \/ StartFails(s) \/ Crash(s)
        PROVE  TypeInv'
        BY <1>2, TypeEnds DEF LockedOut, Exit, StartFails, Crash
  <1>3. ASSUME NEW s \in Servers,
               StreamEnds(s) \/ ToldToStop(s) \/ RegistrationStep(s) \/ EtcdFault(s)
        PROVE  TypeInv'
        BY <1>3, TypeRegistering
        DEF StreamEnds, ToldToStop, RegistrationStep, EtcdFault, LeaseTooLate
  <1>4. ASSUME NEW l \in Leases, LeaseExpires(l), UNCHANGED startVars PROVE TypeInv'
        BY <1>4, TypeExpires
  <1>5. CASE UNCHANGED vars
        BY <1>5 DEF vars, startVars, regVars, TypeInv, ServerTypeOK, TypeOK, Running
  <1> QED
      BY <1>1, <1>2, <1>3, <1>4, <1>5 DEF Next, StartStep

\* No registration writes a key under a lease that etcd has revoked, and no process
\* that is gone keeps the embedded store locked.
THEOREM ServerTypeCorrect == Spec => []ServerTypeOK
  <1>1. TypeInv => ServerTypeOK
        BY DEF TypeInv
  <1> QED
      BY <1>1, TypeInit, TypeStep, PTL DEF Spec

-----------------------------------------------------------------------------
(* The stores of a server that serves.                                     *)

LEMMA StoreInit == ServerInit => StoreInv
  BY DEF ServerInit, StoreInv

LEMMA StoreEnds ==
    ASSUME TypeInv, StoreInv, NEW s \in Servers, Ends(s) PROVE StoreInv'
  <1> USE DEF TypeInv, ServerTypeOK
  <1> SUFFICES ASSUME NEW t \in Servers, main'[t] \in {"open_barrier", "bind", "serving"}
               PROVE  main'[t] = main[t] /\ repo'[t] = repo[t] /\ barrier'[t] = barrier[t]
                      /\ config' = config /\ (dir = t => dir' = t)
      BY DEF StoreInv, RepoStore, BarrierStore
  <1>1. t # s
        BY DEF Ends
  <1> QED
      BY <1>1 DEF Ends

LEMMA StoreStart ==
    ASSUME TypeInv, StoreInv, NEW s \in Servers,
           Start(s) \/ OpenRepo(s) \/ OpenBarrier(s) \/ Bind(s) \/ Shutdown(s)
    PROVE  StoreInv'
  <1> USE DEF TypeInv, ServerTypeOK, At
  <1>1. config' = config
        BY DEF Start, OpenRepo, OpenBarrier, Bind, Shutdown
  <1>2. CASE Start(s) \/ Bind(s) \/ Shutdown(s)
        BY <1>1, <1>2 DEF StoreInv, Start, Bind, Shutdown
  <1>3. CASE OpenRepo(s)
        <2>1. \A t \in Servers : dir = t => dir' = t
              BY <1>3, ServerAssumption DEF OpenRepo, Opens
        <2>2. RepoStore(config[s]) = Embedded => dir' = s
              BY <1>3 DEF OpenRepo, Opens
        <2> QED
            BY <1>1, <1>3, <2>1, <2>2 DEF StoreInv, OpenRepo
  <1>4. CASE OpenBarrier(s)
        <2>1. \A t \in Servers : dir = t => dir' = t
              BY <1>4, ServerAssumption DEF OpenBarrier, Opens
        <2>2. repo[s] # Embedded
              <3> SUFFICES ASSUME repo[s] = Embedded PROVE FALSE
                  OBVIOUS
              <3>1. dir = s /\ BarrierStore(config[s]) = Embedded
                    BY <1>4, TheSameStore DEF OpenBarrier, StoreInv
              <3> QED
                  BY <1>4, <3>1, ServerAssumption DEF OpenBarrier, Opens
        <2> QED
            BY <1>1, <1>4, <2>1, <2>2 DEF StoreInv, OpenBarrier
  <1> QED
      BY <1>2, <1>3, <1>4

LEMMA StoreStep == TypeInv /\ StoreInv /\ [Next]_vars => StoreInv'
  <1> SUFFICES ASSUME TypeInv, StoreInv, [Next]_vars PROVE StoreInv'
      OBVIOUS
  <1>1. ASSUME NEW s \in Servers,
               Start(s) \/ OpenRepo(s) \/ OpenBarrier(s) \/ Bind(s) \/ Shutdown(s) \/ GrpcEnds(s)
        PROVE  StoreInv'
        BY <1>1, StoreStart DEF GrpcEnds
  <1>2. ASSUME NEW s \in Servers, LockedOut(s) \/ Exit(s) \/ StartFails(s) \/ Crash(s)
        PROVE  StoreInv'
        BY <1>2, StoreEnds DEF LockedOut, Exit, StartFails, Crash
  <1>3. CASE UNCHANGED startVars
        BY <1>3 DEF startVars, StoreInv
  <1> QED
      BY <1>1, <1>2, <1>3
      DEF Next, StartStep, StreamEnds, ToldToStop, RegistrationStep, EtcdFault, vars

\* Whatever the other servers do, and with any number of them, no server ever serves
\* from the embedded store: it opens its directory for the transactions and cannot
\* open it again for the barrier.
THEOREM EmbeddedNeverServes == Spec => []EmbeddedLocksOut
  <1>1. StoreInv => EmbeddedLocksOut
        BY DEF StoreInv, EmbeddedLocksOut
  <1> QED
      BY <1>1, TypeInit, TypeStep, StoreInit, StoreStep, PTL DEF Spec

-----------------------------------------------------------------------------
(* The keys of a registered server.                                        *)

\* What a step of another server may do to the keys of s, if it has another id.
LEMMA OthersKeysKept ==
    ASSUME TypeInv, NEW s \in Servers, NEW t \in Servers \ {s}, NEW p \in Protocols,
           Own(s, p), id[t] # id[s], lease[s] \in live',
           \/ Grant(t) \/ PutKeys(t) \/ KeepAlive(t) \/ RegisterFails(t)
           \/ StopsWatching(t) \/ CleansUp(t) \/ CleanupFails(t)
    PROVE  Own(s, p)'
  <1> USE DEF TypeInv, ServerTypeOK, TypeOK, Goes, Over
  <1>1. Key(s, p) \in Keys /\ task[s] = "watch" /\ entries[Key(s, p)] = lease[s]
        BY KeyTyped DEF Own
  <1>2. \A q \in Protocols : Key(t, q) # Key(s, p)
        BY DEF Key
  <1>3. task'[s] = task[s] /\ id'[s] = id[s] /\ lease'[s] = lease[s]
        BY DEF Grant, PutKeys, KeepAlive, RegisterFails, StopsWatching, CleansUp, CleanupFails
  <1>4. entries'[Key(s, p)] = entries[Key(s, p)]
        <2>1. CASE PutKeys(t)
              BY <1>1, <1>2, <2>1 DEF PutKeys, PutKey, Protocols
        <2>2. CASE CleansUp(t)
              BY <1>1, <1>2, <2>2 DEF CleansUp, DeleteKey, Without, Protocols
        <2>3. CASE Grant(t) \/ KeepAlive(t) \/ RegisterFails(t) \/ StopsWatching(t) \/ CleanupFails(t)
              BY <2>3 DEF Grant, KeepAlive, RegisterFails, StopsWatching, CleanupFails
        <2> QED
            BY <2>1, <2>2, <2>3
  <1> QED
      BY <1>1, <1>3, <1>4 DEF Own, Key

\* A step of s itself leaves it registered only if it is not one of these.
LEMMA OwnStepsEnd ==
    ASSUME TypeInv, NEW s \in Servers, task[s] = "watch",
           \/ Grant(s) \/ PutKeys(s) \/ KeepAlive(s) \/ RegisterFails(s)
           \/ StopsWatching(s) \/ CleansUp(s) \/ CleanupFails(s)
           \/ Ends(s) \/ Identify(s)
    PROVE  task'[s] # "watch"
  BY DEF TypeInv, ServerTypeOK, TypeOK, Grant, PutKeys, KeepAlive, RegisterFails,
         StopsWatching, CleansUp, CleanupFails, Ends, Identify, Register, Over, Goes, Registering

LEMMA OwnKept ==
    ASSUME TypeInv, [Next]_vars, NEW s \in Servers, NEW p \in Protocols,
           Own(s, p), ~SharesId(s), task'[s] = "watch", lease[s] \in live'
    PROVE  Own(s, p)'
  <1>1. Key(s, p) \in Keys /\ task[s] = "watch" /\ entries[Key(s, p)] = lease[s]
        BY KeyTyped DEF Own
  <1>2. CASE UNCHANGED regVars
        BY <1>2 DEF regVars, Own, Key
  <1>3. ASSUME NEW t \in Servers, Identify(t) PROVE Own(s, p)'
        <2>1. t # s
              BY <1>1, <1>3, OwnStepsEnd
        <2>2. UNCHANGED <<lease, live, entries>> /\ id'[s] = id[s]
              BY <1>3, <2>1 DEF Identify, Register, TypeInv, ServerTypeOK, TypeOK
        <2> QED
            BY <1>1, <2>2 DEF Own, Key
  <1>4. ASSUME NEW t \in Servers, Ends(t) PROVE Own(s, p)'
        <2>1. t # s
              BY <1>1, <1>4, OwnStepsEnd
        <2>2. entries' = entries /\ id'[s] = id[s] /\ lease'[s] = lease[s]
              BY <1>4, <2>1 DEF Ends, Over, TypeInv, ServerTypeOK, TypeOK
        <2> QED
            BY <1>1, <2>2 DEF Own, Key
  <1>5. ASSUME NEW t \in Servers,
               \/ Grant(t) \/ PutKeys(t) \/ KeepAlive(t) \/ RegisterFails(t)
               \/ StopsWatching(t) \/ CleansUp(t) \/ CleanupFails(t)
        PROVE  Own(s, p)'
        <2>1. t \in Servers \ {s}
              BY <1>1, <1>5, OwnStepsEnd
        <2>2. id[t] # id[s]
              BY <2>1 DEF SharesId
        <2> QED
            BY <1>5, <2>1, <2>2, OthersKeysKept
  <1>6. ASSUME NEW l \in Leases, LeaseExpires(l) PROVE Own(s, p)'
        <2>1. lease[s] # l
              BY <1>6 DEF LeaseExpires
        <2>2. entries'[Key(s, p)] = entries[Key(s, p)]
              BY <1>1, <1>6, <2>1 DEF LeaseExpires, Without
        <2> QED
            BY <1>1, <1>6, <2>2 DEF LeaseExpires, Own, Key
  <1>7. ASSUME NEW t \in Servers, StartStep(t) \/ Start(t) \/ Shutdown(t)
        PROVE  UNCHANGED regVars \/ Identify(t) \/ Ends(t)
        BY <1>7 DEF StartStep, Start, Shutdown, OpenRepo, OpenBarrier, LockedOut, Bind
  <1> QED
      BY <1>2, <1>3, <1>4, <1>5, <1>6, <1>7
      DEF Next, GrpcEnds, Exit, StartFails, Crash, StreamEnds, ToldToStop, RegistrationStep,
          LeaseTooLate, EtcdFault, vars, regVars

\* For any number of servers and leases: a registered server loses a key only by
\* its own cleanup, the end of its lease, or a server with its instance id.
THEOREM RegisteredKeysKept == Spec => OwnEntriesKept
  <1>1. ASSUME TypeInv, [Next]_vars
        PROVE  [\A s \in Servers, p \in Protocols :
                  /\ Own(s, p) /\ ~SharesId(s)
                  /\ task'[s] = "watch" /\ lease[s] \in live'
                  => Own(s, p)']_vars
        BY <1>1, OwnKept
  <1> QED
      BY <1>1, TypeInit, TypeStep, PTL DEF Spec, OwnEntriesKept

=============================================================================
