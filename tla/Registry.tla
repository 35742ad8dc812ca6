-------------------------------- MODULE Registry --------------------------------
(***************************************************************************)
(* register_to_etcd (src/main.rs) and the etcd it talks to. A server       *)
(* grants a lease of 15 seconds, puts one key for HTTP and one for gRPC    *)
(* with it, opens a keep-alive stream, and leaves a task behind that waits *)
(* for the end of the stream or for shutdown and then deletes the keys and *)
(* revokes the lease.                                                      *)
(*                                                                         *)
(* _keeper, the sending half of the keep-alive stream, is dropped when     *)
(* register_to_etcd returns, right after it spawned that task: the lease   *)
(* is never renewed, and etcd answers the closed stream by ending it.      *)
(***************************************************************************)
CONSTANTS
    Servers,
    Ids,        \* instance ids
    NoId,
    Leases,
    NoLease     \* what an absent key has

Protocols == {"http", "grpc"}

VARIABLES
    task,       \* where the registration of each server is, "none" when it is over
    id,         \* the instance id each server registers with
    lease,      \* the lease of each server
    live,       \* leases etcd has not revoked and that have not run out
    entries     \* the keys in etcd, each with the lease it was put with

regVars == <<task, id, lease, live, entries>>

Registering == {"grant", "put_http", "put_grpc", "keep_alive"}
CleaningUp == {"delete_http", "delete_grpc", "revoke"}
Task == {"none", "watch"} \cup Registering \cup CleaningUp

\* Mutant of Key: the instance id is not part of it.
KeyOfAll(s, p) == [id |-> CHOOSE i \in Ids : TRUE, protocol |-> p]

\* <namespace>/endpoints/<protocol>/<instance id>
Key(s, p) == [id |-> id[s], protocol |-> p]

Keys == [id : Ids, protocol : Protocols]

\* What etcd holds of a key that was put without a lease.
Unleased == "unleased"

Init ==
    /\ task = [s \in Servers |-> "none"]
    /\ id = [s \in Servers |-> NoId]
    /\ lease = [s \in Servers |-> NoLease]
    /\ live = {}
    /\ entries = [k \in Keys |-> NoLease]

TypeOK ==
    /\ task \in [Servers -> Task]
    /\ id \in [Servers -> Ids \cup {NoId}]
    /\ lease \in [Servers -> Leases \cup {NoLease}]
    /\ live \subseteq Leases
    /\ entries \in [Keys -> live \cup {NoLease, Unleased}]

-----------------------------------------------------------------------------
(* The registration of server s. connect, the first await, changes nothing *)
(* and is part of grant.                                                   *)

Goes(s, l) == task' = [task EXCEPT ![s] = l]

\* The registration of s is over: it has failed or cleaned up, or its process is
\* gone.
Over(s) ==
    /\ Goes(s, "none")
    /\ id' = [id EXCEPT ![s] = NoId]
    /\ lease' = [lease EXCEPT ![s] = NoLease]

Register(s, i) ==
    /\ Goes(s, "grant")
    /\ id' = [id EXCEPT ![s] = i]
    /\ UNCHANGED <<lease, live, entries>>

\* Leases that neither etcd nor a server knows; which of them is granted does not
\* matter.
NewLeases == {l \in Leases \ live : \A s \in Servers : lease[s] # l}

Grant(s) ==
    /\ task[s] = "grant"
    /\ NewLeases # {}
    /\ LET l == CHOOSE l \in NewLeases : TRUE
       IN /\ lease' = [lease EXCEPT ![s] = l]
          /\ live' = live \cup {l}
    /\ Goes(s, "put_http")
    /\ UNCHANGED <<id, entries>>

\* Mutant of PutKey: without the lease.
PutKeyUnleased(s, p) == entries' = [entries EXCEPT ![Key(s, p)] = Unleased]

\* A put takes a key over, whoever put it before.
PutKey(s, p) ==
    /\ lease[s] \in live
    /\ entries' = [entries EXCEPT ![Key(s, p)] = lease[s]]

PutKeys(s) ==
    /\ \/ task[s] = "put_http" /\ PutKey(s, "http") /\ Goes(s, "put_grpc")
       \/ task[s] = "put_grpc" /\ PutKey(s, "grpc") /\ Goes(s, "keep_alive")
    /\ UNCHANGED <<id, lease, live>>

KeepAlive(s) ==
    /\ task[s] = "keep_alive"
    /\ lease[s] \in live
    /\ Goes(s, "watch")
    /\ UNCHANGED <<id, lease, live, entries>>

\* An error ends the registration where it is; what it has put stays. It may
\* also come when etcd has done what it was asked: that is an error at the next
\* request.
RegisterFails(s) ==
    /\ task[s] \in Registering
    /\ Over(s)
    /\ UNCHANGED <<live, entries>>

\* The lease ran out before the registration was complete: etcd refuses the rest.
LeaseTooLate(s) == lease[s] \notin live /\ task[s] # "grant" /\ RegisterFails(s)

-----------------------------------------------------------------------------
(* The task left behind.                                                   *)

StopsWatching(s) ==
    /\ task[s] = "watch"
    /\ Goes(s, "delete_http")
    /\ UNCHANGED <<id, lease, live, entries>>

Without(l) == [k \in Keys |-> IF entries[k] = l THEN NoLease ELSE entries[k]]

\* delete asks for the key alone, whoever put it last.
DeleteKey(s, p) == entries' = [entries EXCEPT ![Key(s, p)] = NoLease]

CleansUp(s) ==
    \/ /\ \/ task[s] = "delete_http" /\ DeleteKey(s, "http") /\ Goes(s, "delete_grpc")
          \/ task[s] = "delete_grpc" /\ DeleteKey(s, "grpc") /\ Goes(s, "revoke")
       /\ UNCHANGED <<id, lease, live>>
    \/ /\ task[s] = "revoke"
       /\ live' = live \ {lease[s]}
       /\ entries' = Without(lease[s])
       /\ Over(s)

\* Errors of the cleanup are ignored; it goes on.
CleanupFails(s) ==
    /\ \/ task[s] = "delete_http" /\ Goes(s, "delete_grpc") /\ UNCHANGED <<id, lease>>
       \/ task[s] = "delete_grpc" /\ Goes(s, "revoke") /\ UNCHANGED <<id, lease>>
       \/ task[s] = "revoke" /\ Over(s)
    /\ UNCHANGED <<live, entries>>

-----------------------------------------------------------------------------
(* etcd.                                                                   *)

LeaseExpires(l) ==
    /\ l \in live
    /\ live' = live \ {l}
    /\ entries' = Without(l)
    /\ UNCHANGED <<task, id, lease>>

=============================================================================
