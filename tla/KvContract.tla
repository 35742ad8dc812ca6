------------------------------- MODULE KvContract -------------------------------
(***************************************************************************)
(* What SagaManager and Barrier take for granted of the KV trait           *)
(* (src/storage/mod.rs), for one key; keys are independent.                *)
(*                                                                         *)
(* A put takes effect at one moment between its call and its answer. A     *)
(* call that fails, or whose caller is dropped, may have had its effect;   *)
(* a put may also leave an orphan, which takes effect once at a later      *)
(* moment, or never. A get answers what the key holds at one moment        *)
(* between its call and its answer.                                        *)
(***************************************************************************)
CONSTANTS
    Callers,    \* slots for calls under way
    Values,
    NoValue     \* what an absent key holds

VARIABLES
    value,      \* what the key holds
    slot        \* what each caller is doing

vars == <<value, slot>>

Idle   == [state |-> "idle"]
Getting == [state |-> "getting"]
Got(v) == [state |-> "got", value |-> v]
Putting(v) == [state |-> "putting", value |-> v]
Stored == [state |-> "stored"]
Orphan(v) == [state |-> "orphan", value |-> v]

Init ==
    /\ value = NoValue
    /\ slot = [c \in Callers |-> Idle]

Becomes(c, s) == slot' = [slot EXCEPT ![c] = s]

Begins(c) ==
    /\ slot[c] = Idle
    /\ \/ Becomes(c, Getting)
       \/ \E v \in Values : Becomes(c, Putting(v))
    /\ UNCHANGED value

Reads(c) ==
    /\ slot[c] = Getting
    /\ Becomes(c, Got(value))
    /\ UNCHANGED value

Stores(c) ==
    /\ slot[c].state = "putting"
    /\ value' = slot[c].value
    /\ Becomes(c, Stored)

\* The call returns Ok.
Answers(c) ==
    /\ slot[c].state \in {"got", "stored"}
    /\ Becomes(c, Idle)
    /\ UNCHANGED value

\* The call returns an error, or its caller is gone.
Fails(c) ==
    /\ slot[c].state \in {"getting", "got", "putting", "stored"}
    /\ \/ Becomes(c, Idle)
       \/ slot[c].state = "putting" /\ Becomes(c, Orphan(slot[c].value))
    /\ UNCHANGED value

OrphanEnds(c) ==
    /\ slot[c].state = "orphan"
    /\ value' \in {value, slot[c].value}
    /\ Becomes(c, Idle)

\* The server dies; its calls are forgotten, the key keeps its value.
Crash ==
    /\ slot' = [c \in Callers |-> Idle]
    /\ UNCHANGED value

Next ==
    \/ \E c \in Callers :
          Begins(c) \/ Reads(c) \/ Stores(c) \/ Answers(c) \/ Fails(c) \/ OrphanEnds(c)
    \/ Crash

Spec == Init /\ [][Next]_vars

=============================================================================
