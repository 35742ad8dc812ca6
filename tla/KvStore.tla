-------------------------------- MODULE KvStore --------------------------------
(***************************************************************************)
(* get and put of the three stores (src/storage) on one key, down to the   *)
(* commands each sends.                                                    *)
(*                                                                         *)
(* sled runs a call as one closure in spawn_blocking, which goes on when   *)
(* the caller is dropped. redis opens a connection, for as long as that    *)
(* takes, and then waits at most two seconds for the answer to a GET or    *)
(* SET. The SQL stores answer a get by one SELECT, and a put by a SELECT   *)
(* followed by an UPDATE of the row found, or else by an INSERT, which     *)
(* fails if the row has appeared since; no transaction holds the two       *)
(* together.                                                               *)
(***************************************************************************)
EXTENDS Naturals

CONSTANTS
    Callers,    \* slots for calls under way, from all requests
    Values,
    NoValue,    \* what an absent key holds
    Backends,   \* the stores the server may have been started with
    RefusalCap  \* bound of the refusals counter, which saturates

ASSUME KvAssumption ==
    /\ NoValue \notin Values
    /\ Backends \subseteq {"sled", "redis", "sql"}
    /\ RefusalCap \in Nat

VARIABLES
    backend,    \* the store this server uses
    row,        \* what the store holds under the key
    pc,         \* where each call is
    arg,        \* the value a call puts, or has got
    refusals    \* how often each caller's put was refused as a duplicate

callVars == <<pc, arg>>
vars == <<backend, row, callVars, refusals>>

\* States of a put that has handed its write to the store.
Writing == {"set", "update", "insert"}
\* States of a redis call that waits for its connection.
Connecting == {"connect_get", "connect_put"}
\* States of a call whose caller waits.
Waiting == {"get", "got", "find", "stored"} \cup Connecting \cup Writing
\* A write whose caller is gone is "late"; an INSERT can still be refused.
Late == {"late", "late_insert"}

Init ==
    /\ backend \in Backends
    /\ row = NoValue
    /\ pc = [c \in Callers |-> "idle"]
    /\ arg = [c \in Callers |-> NoValue]
    /\ refusals = [c \in Callers |-> 0]

-----------------------------------------------------------------------------

Goes(c, l) == pc' = [pc EXCEPT ![c] = l] /\ UNCHANGED arg

Leave(c) ==
    /\ pc' = [pc EXCEPT ![c] = "idle"]
    /\ arg' = [arg EXCEPT ![c] = NoValue]

Get(c) ==
    /\ pc[c] = "idle"
    /\ Goes(c, IF backend = "redis" THEN "connect_get" ELSE "get")
    /\ UNCHANGED <<backend, row, refusals>>

\* The first await of a put.
FirstStep == CASE backend = "sled"  -> "set"
               [] backend = "redis" -> "connect_put"
               [] backend = "sql"   -> "find"

Put(c, v) ==
    /\ pc[c] = "idle"
    /\ pc' = [pc EXCEPT ![c] = FirstStep]
    /\ arg' = [arg EXCEPT ![c] = v]
    /\ UNCHANGED <<backend, row, refusals>>

\* The store executes the read of a get.
Read(c) ==
    /\ pc[c] = "get"
    /\ pc' = [pc EXCEPT ![c] = "got"]
    /\ arg' = [arg EXCEPT ![c] = row]
    /\ UNCHANGED <<backend, row, refusals>>

\* get_multiplexed_tokio_connection answers; no timeout is around it.
Connect(c) ==
    /\ pc[c] \in Connecting
    /\ Goes(c, IF pc[c] = "connect_get" THEN "get" ELSE "set")
    /\ UNCHANGED <<backend, row, refusals>>

\* The store writes the value of call c.
Writes(c) == row' = arg[c] /\ UNCHANGED <<backend, refusals>>

\* sled insert and redis SET: one write, whatever the key holds.
WriteSet(c) ==
    /\ pc[c] = "set"
    /\ Writes(c)
    /\ Goes(c, "stored")

\* Mutants of Find: the two branches are swapped; the row is not looked up.
FindSwapped(c) ==
    /\ pc[c] = "find"
    /\ Goes(c, IF row = NoValue THEN "update" ELSE "insert")
    /\ UNCHANGED <<backend, row, refusals>>

FindSkipped(c) ==
    /\ pc[c] = "find"
    /\ Goes(c, "insert")
    /\ UNCHANGED <<backend, row, refusals>>

\* The SELECT of a SQL put.
Find(c) ==
    /\ pc[c] = "find"
    /\ Goes(c, IF row = NoValue THEN "insert" ELSE "update")
    /\ UNCHANGED <<backend, row, refusals>>

Update(c) ==
    /\ pc[c] = "update"
    /\ Writes(c)
    /\ Goes(c, "stored")

\* Mutant of Insert: an INSERT that ignores a row that is there, and reports Ok.
InsertIgnored(c) ==
    /\ pc[c] = "insert"
    /\ row' = IF row = NoValue THEN arg[c] ELSE row
    /\ UNCHANGED <<backend, refusals>>
    /\ Goes(c, "stored")

Insert(c) ==
    /\ pc[c] = "insert"
    /\ row = NoValue
    /\ Writes(c)
    /\ Goes(c, "stored")

\* Mutant of InsertRefused: the duplicate is waited out.
InsertWaits(c) ==
    /\ pc[c] = "insert"
    /\ row # NoValue
    /\ UNCHANGED vars

\* The primary key is taken by now: put returns the error of the INSERT.
InsertRefused(c) ==
    /\ pc[c] = "insert"
    /\ row # NoValue
    /\ refusals' = [refusals EXCEPT ![c] = IF @ < RefusalCap THEN @ + 1 ELSE @]
    /\ Leave(c)
    /\ UNCHANGED <<backend, row>>

Return(c) ==
    /\ pc[c] \in {"got", "stored"}
    /\ Leave(c)
    /\ UNCHANGED <<backend, row, refusals>>

-----------------------------------------------------------------------------
(* Faults.                                                                 *)

\* The write a put was waiting for is left to itself.
LeftAlone(c) == Goes(c, IF pc[c] = "insert" THEN "late_insert" ELSE "late")

\* Errors reach the caller through ?. When sled reports one, nothing is
\* written. When redis has not answered in two seconds, or a connection breaks,
\* the command may still arrive.
Error(c) ==
    /\ \/ /\ pc[c] \in Waiting \ Writing
          /\ Leave(c)
       \/ /\ pc[c] \in Writing
          /\ IF backend = "sled" THEN Leave(c) ELSE LeftAlone(c)
    /\ UNCHANGED <<backend, row, refusals>>

\* The future of the caller is dropped; a closure or a command under way is not.
Dropped(c) ==
    /\ \/ /\ pc[c] \in Waiting \ Writing
          /\ Leave(c)
       \/ /\ pc[c] \in Writing
          /\ LeftAlone(c)
    /\ UNCHANGED <<backend, row, refusals>>

LateRuns(c) ==
    /\ \/ pc[c] = "late"
       \/ pc[c] = "late_insert" /\ row = NoValue
    /\ Writes(c)
    /\ Leave(c)

\* It never arrives, fails, or is a refused INSERT.
LateLost(c) ==
    /\ pc[c] \in Late
    /\ Leave(c)
    /\ UNCHANGED <<backend, row, refusals>>

\* The server process dies. A command on its way arrives, if it does, before the
\* process that is started next asks for anything: it is one that ran just before.
Crash ==
    /\ pc' = [c \in Callers |-> "idle"]
    /\ arg' = [c \in Callers |-> NoValue]
    /\ UNCHANGED <<backend, row, refusals>>

-----------------------------------------------------------------------------

Executes(c) ==
    \/ Read(c)
    \/ Connect(c)
    \/ WriteSet(c)
    \/ Find(c)
    \/ Update(c)
    \/ Insert(c)
    \/ InsertRefused(c)
    \/ Return(c)

Next ==
    \/ \E c \in Callers :
          \/ Get(c)
          \/ \E v \in Values : Put(c, v)
          \/ Executes(c)
          \/ Error(c)
          \/ Dropped(c)
          \/ LateRuns(c)
          \/ LateLost(c)
    \/ Crash

Spec == Init /\ [][Next]_vars

\* What must go on: a store that is up executes the command it was sent, and
\* redis does or the timeout around GET and SET ends the call.
Proceeds(c) ==
    /\ pc[c] \notin Connecting
    /\ Executes(c) \/ (backend = "redis" /\ Error(c))

\* Nothing makes a connection to redis come about or fail, and no other error has
\* to happen.
FairSpec ==
    /\ Spec
    /\ \A c \in Callers : WF_vars(Proceeds(c))

-----------------------------------------------------------------------------
(* Properties.                                                             *)

\* Every variable holds a value of its type, and no UPDATE is sent without a row
\* for it, so that none fails for the lack of one.
TypeOK ==
    /\ backend \in Backends
    /\ row \in Values \cup {NoValue}
    /\ pc \in [Callers -> {"idle"} \cup Waiting \cup Late]
    /\ arg \in [Callers -> Values \cup {NoValue}]
    /\ refusals \in [Callers -> 0..RefusalCap]
    /\ \A c \in Callers : pc[c] = "update" => row # NoValue

\* A call of KvStore as the contract sees it. The two commands of a SQL put are
\* one: only the second can take effect.
Abstract(c) ==
    CASE pc[c] = "idle"   -> [state |-> "idle"]
      [] pc[c] \in {"connect_get", "get"} -> [state |-> "getting"]
      [] pc[c] = "got"    -> [state |-> "got", value |-> arg[c]]
      [] pc[c] = "stored" -> [state |-> "stored"]
      [] pc[c] \in Late   -> [state |-> "orphan", value |-> arg[c]]
      [] OTHER            -> [state |-> "putting", value |-> arg[c]]

Contract == INSTANCE KvContract
                WITH value <- row, slot <- [c \in Callers |-> Abstract(c)]

\* However calls overlap, fail, are dropped or outlive their caller, each of the
\* stores is the atomic store the rest of the server counts on: a put that
\* returned Ok has taken effect, once, and an UPDATE or INSERT never acts on what
\* the SELECT before it saw of the value.
ImplementsKvContract == Contract!Spec

\* A put that a SQL store refuses because another one inserted the row first is
\* not refused again when it is retried: its SELECT then finds the row.
RefusedAtMostOnce == \A c \in Callers : refusals[c] <= 1

\* Every call that does not wait for a connection is answered, after a refused
\* INSERT and by a redis that has fallen silent too. A redis that accepts no
\* connection and refuses none may hold a get or a put for ever.
CallsReturn ==
    \A c \in Callers : pc[c] \in Waiting \ Connecting ~> pc[c] \notin Waiting

=============================================================================
