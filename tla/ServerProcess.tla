------------------------------ MODULE ServerProcess ------------------------------
(***************************************************************************)
(* The life of seata-server processes (main in src/main.rs): read the      *)
(* settings, open the store once for the transactions and once more for    *)
(* the barrier, bind, register with etcd (Registry) and serve until a      *)
(* signal, or until one of the two listeners ends.                         *)
(*                                                                         *)
(* The servers run in one working directory, whose embedded store          *)
(* ./data/seata-sled is locked by whoever has it open.                     *)
(***************************************************************************)
EXTENDS Registry

CONSTANTS
    Deployments,    \* what the servers may be started with, see Config
    NoStore,        \* what a server that has not opened a store has
    Nobody,         \* the holder of a free lock
    Faults          \* subset of {"crash", "etcd", "grpc", "start"}

Networked == {"redis", "mysql", "postgres"}
Drivers == Networked \cup {"boltdb"}

\* env: SEATA_STORE; loads: whether settings::load succeeds; driver: the store of
\* the file; registry: where etcd is configured; instance: the instance id given,
\* NoId for a random one.
Config == [env : Networked \cup {"unset", "sled", "typo"}, loads : BOOLEAN,
           driver : Drivers, registry : {"none", "env", "file"}, instance : Ids \cup {NoId}]

Embedded == [kind |-> "sled", given |-> "path"]
Store == {Embedded} \cup [kind : Networked, given : {"env", "file"}]

ASSUME ServerAssumption ==
    /\ Deployments \subseteq [Servers -> Config]
    /\ NoStore \notin Store
    /\ Nobody \notin Servers
    /\ NoId \notin Ids
    /\ NoLease \notin Leases
    /\ Faults \subseteq {"crash", "etcd", "grpc", "start"}

VARIABLES
    config,     \* what each server was started with
    main,       \* where main of each server is
    repo,       \* the store opened for the transactions
    barrier,    \* the store opened for the barrier
    dir         \* who holds the lock of the embedded store's directory

startVars == <<config, main, repo, barrier, dir>>
vars == <<startVars, regVars>>

\* "stopping": main has returned, the runtime is being shut down.
Starting == {"open_repo", "open_barrier", "bind"}
Main == {"off", "serving", "stopping"} \cup Starting
Running(s) == main[s] # "off"

Default == [driver |-> "boltdb", registered |-> FALSE]

\* settings::load().unwrap_or_default(): what cannot be read is as if not there.
Settings(c) == IF c.loads THEN [driver |-> c.driver, registered |-> c.registry = "file"]
                          ELSE Default

Selected(env, driver) ==
    IF env # "unset"
    THEN IF env \in Networked THEN [kind |-> env, given |-> "env"] ELSE Embedded
    ELSE IF driver \in Networked THEN [kind |-> driver, given |-> "file"] ELSE Embedded

RepoStore(c) == Selected(c.env, Settings(c).driver)

\* The selection is written out a second time for the barrier.
BarrierStore(c) == Selected(c.env, Settings(c).driver)

Registers(c) == c.registry = "env" \/ Settings(c).registered

ServerInit ==
    /\ config \in Deployments
    /\ main = [s \in Servers |-> "off"]
    /\ repo = [s \in Servers |-> NoStore]
    /\ barrier = [s \in Servers |-> NoStore]
    /\ dir = Nobody
    /\ Init

-----------------------------------------------------------------------------
(* Start.                                                                  *)

At(s, from, to) == main[s] = from /\ main' = [main EXCEPT ![s] = to]

Start(s) ==
    /\ At(s, "off", "open_repo")
    /\ UNCHANGED <<config, repo, barrier, dir, regVars>>

\* Mutant of Opens: a process may open the directory it has locked itself.
OpensShared(s, store) ==
    /\ store = Embedded => dir \in {Nobody, s}
    /\ dir' = IF store = Embedded THEN s ELSE dir

\* A networked store is connected to, or, for redis, only its URL is parsed; the
\* embedded one needs the lock of its directory.
Opens(s, store) ==
    /\ store = Embedded => dir = Nobody
    /\ dir' = IF store = Embedded THEN s ELSE dir

OpenRepo(s) ==
    /\ At(s, "open_repo", "open_barrier")
    /\ Opens(s, RepoStore(config[s]))
    /\ repo' = [repo EXCEPT ![s] = RepoStore(config[s])]
    /\ UNCHANGED <<config, barrier, regVars>>

OpenBarrier(s) ==
    /\ At(s, "open_barrier", "bind")
    /\ Opens(s, BarrierStore(config[s]))
    /\ barrier' = [barrier EXCEPT ![s] = BarrierStore(config[s])]
    /\ UNCHANGED <<config, repo, regVars>>

\* Candidates for a random uuid: nobody uses or is given it, and no key is left of it.
FreshIds ==
    {i \in Ids :
        /\ \A t \in Servers : id[t] # i /\ config[t].instance # i
        /\ \A p \in Protocols : entries[[id |-> i, protocol |-> p]] = NoLease}

\* The instance id of a server that registers.
Identify(s) ==
    IF config[s].instance = NoId
    THEN FreshIds # {} /\ Register(s, CHOOSE i \in FreshIds : TRUE)
    ELSE Register(s, config[s].instance)

Bind(s) ==
    /\ At(s, "bind", "serving")
    /\ IF Registers(config[s]) THEN Identify(s) ELSE UNCHANGED regVars
    /\ UNCHANGED <<config, repo, barrier, dir>>

\* Mutant of Ends: the lock stays.
EndsLocked(s) ==
    /\ main' = [main EXCEPT ![s] = "off"]
    /\ repo' = [repo EXCEPT ![s] = NoStore]
    /\ barrier' = [barrier EXCEPT ![s] = NoStore]
    /\ Over(s)
    /\ UNCHANGED <<config, dir, live, entries>>

\* main returns an error, or the process is gone: everything it holds is released.
Ends(s) ==
    /\ main' = [main EXCEPT ![s] = "off"]
    /\ repo' = [repo EXCEPT ![s] = NoStore]
    /\ barrier' = [barrier EXCEPT ![s] = NoStore]
    /\ dir' = IF dir = s THEN Nobody ELSE dir
    /\ Over(s)
    /\ UNCHANGED <<config, live, entries>>

\* Mutant of LockedOut: sled waits for the lock.
LockedOutWaiting(s) == FALSE

\* The directory of the embedded store is locked, by this process or another one:
\* sled does not wait, and ? ends main.
LockedOut(s) ==
    /\ dir # Nobody
    /\ \/ main[s] = "open_repo" /\ RepoStore(config[s]) = Embedded
       \/ main[s] = "open_barrier" /\ BarrierStore(config[s]) = Embedded
    /\ Ends(s)

-----------------------------------------------------------------------------
(* Service and shutdown.                                                   *)

\* The signal ends main. So does the end of the gRPC server, for instance when
\* its port is taken, with Ok(()). Either way the sender of the shutdown channel
\* is used or dropped.
Shutdown(s) ==
    /\ At(s, "serving", "stopping")
    /\ UNCHANGED <<config, repo, barrier, dir, regVars>>

GrpcEnds(s) == "grpc" \in Faults /\ Shutdown(s)

\* The runtime is shut down; it does not wait for the registration's task.
Exit(s) == main[s] = "stopping" /\ Ends(s)

\* A store that cannot be reached, a port that is taken.
StartFails(s) == "start" \in Faults /\ main[s] \in Starting /\ Ends(s)

Crash(s) == "crash" \in Faults /\ Running(s) /\ Ends(s)

\* The keep-alive stream has ended, which it does at once.
StreamEnds(s) == StopsWatching(s) /\ UNCHANGED startVars

\* The shutdown channel has fired.
ToldToStop(s) == main[s] = "stopping" /\ StopsWatching(s) /\ UNCHANGED startVars

RegistrationStep(s) ==
    /\ Grant(s) \/ PutKeys(s) \/ KeepAlive(s) \/ LeaseTooLate(s) \/ CleansUp(s)
    /\ UNCHANGED startVars

EtcdFault(s) ==
    /\ "etcd" \in Faults
    /\ RegisterFails(s) \/ CleanupFails(s)
    /\ UNCHANGED startVars

-----------------------------------------------------------------------------

StartStep(s) == OpenRepo(s) \/ OpenBarrier(s) \/ LockedOut(s) \/ Bind(s)

Next ==
    \/ \E s \in Servers :
          \/ Start(s)
          \/ StartStep(s)
          \/ Shutdown(s)
          \/ GrpcEnds(s)
          \/ Exit(s)
          \/ StartFails(s)
          \/ Crash(s)
          \/ StreamEnds(s)
          \/ ToldToStop(s)
          \/ RegistrationStep(s)
          \/ EtcdFault(s)
    \/ \E l \in Leases : LeaseExpires(l) /\ UNCHANGED startVars

Spec == ServerInit /\ [][Next]_vars

\* A started process is run, and etcd's clock goes on. Nobody has to start or to
\* stop a server, and the registration's task may never be polled again.
FairSpec ==
    /\ Spec
    /\ \A s \in Servers : WF_vars(StartStep(s)) /\ WF_vars(Exit(s))
    /\ \A l \in Leases : WF_vars(LeaseExpires(l) /\ UNCHANGED startVars)

-----------------------------------------------------------------------------
(* Properties.                                                             *)

\* Every variable holds a value of its type; a lease that is not live holds no key;
\* and the embedded store is locked only by a process that runs.
ServerTypeOK ==
    /\ TypeOK
    /\ config \in Deployments
    /\ main \in [Servers -> Main]
    /\ repo \in [Servers -> Store \cup {NoStore}]
    /\ barrier \in [Servers -> Store \cup {NoStore}]
    /\ dir \in {s \in Servers : Running(s)} \cup {Nobody}

\* No server waits for ever for a lock when it starts, not even for the one it
\* holds itself: it serves or ends.
StartEnds == \A s \in Servers : main[s] \in Starting ~> main[s] \notin Starting

\* Whatever the settings select the embedded store by, its name, its default, or a
\* fallback, no server serves from it: main opens its directory for the transactions,
\* and sled does not let it open that again for the barrier.
EmbeddedLocksOut ==
    \A s \in Servers : RepoStore(config[s]) = Embedded => main[s] \notin {"bind", "serving"}

Own(s, p) == task[s] = "watch" /\ entries[Key(s, p)] = lease[s]
SharesId(s) == \E t \in Servers \ {s} : id[t] = id[s]

\* As long as no other server has the same instance id, what another server does
\* in its registration or cleanup, and what is left of an earlier process with
\* that id, never takes a registered server's keys away: only its own cleanup and
\* the end of its own lease do.
OwnEntriesKept ==
    [][\A s \in Servers, p \in Protocols :
          /\ Own(s, p) /\ ~SharesId(s)
          /\ task'[s] = "watch" /\ lease[s] \in live'
          => Own(s, p)']_vars

\* Whatever instance ids servers are started with, a server that is registered keeps
\* its keys as long as it is and its lease is live: those that are given no id, or
\* the empty one of conf.yaml, get one that no other has.
EntriesKept ==
    [][\A s \in Servers, p \in Protocols :
          Own(s, p) /\ task'[s] = "watch" /\ lease[s] \in live' => Own(s, p)']_vars

\* The server an entry leads to, if it is still at it.
Tended(k) == \E s \in Servers : id[s] = k.id

\* Whatever a registration that failed half-way, a cleanup that failed, a crash or
\* a shutdown leaves in etcd goes away without anybody's help.
EntriesVanish ==
    \A k \in Keys : entries[k] # NoLease /\ ~Tended(k) ~> entries[k] = NoLease \/ Tended(k)

\* The embedded store is one of those a server can be started with.
StartsUp == \A s \in Servers : main[s] = "open_repo" ~> main[s] = "serving"

\* A server that has registered is listed with both its keys while it serves.
ListedWhileServing ==
    \A s \in Servers : main[s] = "serving" /\ task[s] \in {"watch"} \cup CleaningUp =>
        \A p \in Protocols : entries[Key(s, p)] # NoLease

=============================================================================
