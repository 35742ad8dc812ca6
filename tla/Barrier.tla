-------------------------------- MODULE Barrier --------------------------------
(***************************************************************************)
(* Barrier::insert (src/barrier.rs), the idempotency barrier: it looks for *)
(* a key and, if the key is absent, puts it and answers true; if the key   *)
(* is present it answers false. The get and the put are two accesses of    *)
(* the store, and other callers run between them.                          *)
(***************************************************************************)
EXTENDS Naturals

CONSTANTS
    Keys,       \* barrier keys: a gid, a branch id and a phase
    Callers,    \* request handlers
    AdmitCap,   \* bound of the admitted counter, which saturates
    NoKey       \* what a caller holds when it is not in insert

VARIABLES
    barriers,   \* the keys the store holds
    step,       \* where each caller is
    key,        \* the key each caller inserts
    admitted    \* how often insert answered true for a key

callerVars == <<step, key>>
vars == <<barriers, callerVars, admitted>>

\* "late" is a caller that failed or was dropped with its put outstanding.
Step == {"idle", "get", "put", "late"}

TypeOK ==
    /\ barriers \subseteq Keys
    /\ step \in [Callers -> Step]
    /\ key \in [Callers -> Keys \cup {NoKey}]
    /\ admitted \in [Keys -> 0..AdmitCap]

Init ==
    /\ barriers = {}
    /\ step = [c \in Callers |-> "idle"]
    /\ key = [c \in Callers |-> NoKey]
    /\ admitted = [k \in Keys |-> 0]

Leave(c) ==
    /\ step' = [step EXCEPT ![c] = "idle"]
    /\ key' = [key EXCEPT ![c] = NoKey]

Insert(c, k) ==
    /\ step[c] = "idle"
    /\ step' = [step EXCEPT ![c] = "get"]
    /\ key' = [key EXCEPT ![c] = k]
    /\ UNCHANGED <<barriers, admitted>>

\* The key is there: Ok(false).
InsertFound(c) ==
    /\ step[c] = "get"
    /\ key[c] \in barriers
    /\ Leave(c)
    /\ UNCHANGED <<barriers, admitted>>

\* Mutant of InsertAbsent: the key is not looked up.
InsertBlindly(c) ==
    /\ step[c] = "get"
    /\ step' = [step EXCEPT ![c] = "put"]
    /\ UNCHANGED <<barriers, key, admitted>>

InsertAbsent(c) ==
    /\ step[c] = "get"
    /\ key[c] \notin barriers
    /\ step' = [step EXCEPT ![c] = "put"]
    /\ UNCHANGED <<barriers, key, admitted>>

\* The put overwrites a key that has appeared meanwhile: Ok(true) all the same.
InsertPut(c) ==
    /\ step[c] = "put"
    /\ barriers' = barriers \cup {key[c]}
    /\ admitted' = [admitted EXCEPT ![key[c]] = IF @ < AdmitCap THEN @ + 1 ELSE @]
    /\ Leave(c)

\* Mutant of InsertAbandoned: the key of an outstanding put is forgotten.
InsertAbandonedKeyless(c) ==
    /\ step[c] = "put"
    /\ step' = [step EXCEPT ![c] = "late"]
    /\ key' = [key EXCEPT ![c] = NoKey]
    /\ UNCHANGED <<barriers, admitted>>

\* The get or the put fails, or the caller is dropped there. An outstanding put
\* may still take effect.
InsertAbandoned(c) ==
    /\ \/ step[c] = "get" /\ Leave(c)
       \/ /\ step[c] = "put"
          /\ step' = [step EXCEPT ![c] = "late"]
          /\ UNCHANGED key
    /\ UNCHANGED <<barriers, admitted>>

LatePutEnds(c) ==
    /\ step[c] = "late"
    /\ barriers' \in {barriers, barriers \cup {key[c]}}
    /\ Leave(c)
    /\ UNCHANGED admitted

\* The process dies; the stored keys stay.
Restart ==
    /\ step' = [c \in Callers |-> "idle"]
    /\ key' = [c \in Callers |-> NoKey]
    /\ UNCHANGED <<barriers, admitted>>

=============================================================================
