----------------------------- MODULE KvStoreProofs -----------------------------
(***************************************************************************)
(* KvStore implements KvContract, for any number of callers and values and *)
(* each backend; a SQL put is refused once at most.                        *)
(***************************************************************************)
EXTENDS KvStore, TLAPS

\* States of a put that still has its value to write.
Holding == {"connect_put", "find"} \cup Writing \cup Late

\* TypeOK, and what a put that has something to write holds is a value.
KvInv ==
    /\ TypeOK
    /\ \A c \in Callers : pc[c] \in Holding => arg[c] \in Values

\* A caller that was refused once has a row to find, and is not past a SELECT
\* that missed it.
RefusalInv ==
    \A c \in Callers :
        /\ refusals[c] <= 1
        /\ refusals[c] # 0 => row # NoValue /\ pc[c] # "insert"

LEMMA KvInit == Init => KvInv /\ RefusalInv
  BY KvAssumption DEF Init, KvInv, RefusalInv, TypeOK, Holding, Writing, Connecting, Late, Waiting

LEMMA KvInvStep == KvInv /\ [Next]_vars => KvInv'
  <1> SUFFICES ASSUME KvInv, [Next]_vars PROVE KvInv'
      OBVIOUS
  <1> USE KvAssumption DEF KvInv, TypeOK, Holding, Writing, Connecting, Late, Waiting, Goes, Leave
  <1>1. ASSUME NEW c \in Callers, Get(c) PROVE KvInv'
        BY <1>1 DEF Get
  <1>2. ASSUME NEW c \in Callers, NEW v \in Values, Put(c, v) PROVE KvInv'
        <2>1. FirstStep \in {"set", "connect_put", "find"}
              BY DEF FirstStep
        <2>2. QED
              BY <1>2, <2>1 DEF Put
  <1>3. ASSUME NEW c \in Callers, Read(c) PROVE KvInv'
        BY <1>3 DEF Read
  <1>4. ASSUME NEW c \in Callers, Connect(c) \/ Find(c) \/ Return(c) PROVE KvInv'
        BY <1>4 DEF Connect, Find, Return
  <1>5. ASSUME NEW c \in Callers, WriteSet(c) \/ Update(c) \/ Insert(c) PROVE KvInv'
        BY <1>5 DEF WriteSet, Update, Insert, Writes
  <1>6. ASSUME NEW c \in Callers, InsertRefused(c) PROVE KvInv'
        BY <1>6 DEF InsertRefused
  <1>7. ASSUME NEW c \in Callers, Error(c) \/ Dropped(c) PROVE KvInv'
        BY <1>7 DEF Error, Dropped, LeftAlone
  <1>8. ASSUME NEW c \in Callers, LateRuns(c) PROVE KvInv'
        BY <1>8 DEF LateRuns, Writes
  <1>9. ASSUME NEW c \in Callers, LateLost(c) PROVE KvInv'
        BY <1>9 DEF LateLost
  <1>10. CASE Crash
        BY <1>10 DEF Crash
  <1>11. CASE UNCHANGED vars
        BY <1>11 DEF vars, callVars
  <1> QED
      BY <1>1, <1>2, <1>3, <1>4, <1>5, <1>6, <1>7, <1>8, <1>9, <1>10, <1>11
      DEF Next, Executes

LEMMA RefusalInvStep == KvInv /\ RefusalInv /\ [Next]_vars => RefusalInv'
  <1> SUFFICES ASSUME KvInv, RefusalInv, [Next]_vars PROVE RefusalInv'
      OBVIOUS
  <1> USE KvAssumption DEF KvInv, TypeOK, RefusalInv, Holding, Writing, Connecting, Late, Waiting, Goes, Leave
  <1>1. ASSUME NEW c \in Callers, Get(c) \/ Read(c) \/ Connect(c) \/ Find(c) \/ Return(c)
        PROVE RefusalInv'
        BY <1>1 DEF Get, Read, Connect, Find, Return
  <1>2. ASSUME NEW c \in Callers, NEW v \in Values, Put(c, v) PROVE RefusalInv'
        <2>1. FirstStep \in {"set", "connect_put", "find"}
              BY DEF FirstStep
        <2>2. QED
              BY <1>2, <2>1 DEF Put
  <1>3. ASSUME NEW c \in Callers, WriteSet(c) \/ Update(c) \/ Insert(c) \/ LateRuns(c)
        PROVE RefusalInv'
        BY <1>3 DEF WriteSet, Update, Insert, LateRuns, Writes
  <1>4. ASSUME NEW c \in Callers, InsertRefused(c) PROVE RefusalInv'
        <2>1. refusals[c] = 0
              BY <1>4 DEF InsertRefused
        <2>2. QED
              BY <1>4, <2>1 DEF InsertRefused
  <1>5. ASSUME NEW c \in Callers, Error(c) \/ Dropped(c) \/ LateLost(c) PROVE RefusalInv'
        BY <1>5 DEF Error, Dropped, LateLost, LeftAlone
  <1>6. CASE Crash
        BY <1>6 DEF Crash
  <1>7. CASE UNCHANGED vars
        BY <1>7 DEF vars, callVars
  <1> QED
      BY <1>1, <1>2, <1>3, <1>4, <1>5, <1>6, <1>7 DEF Next, Executes

\* No call ever goes through a state its store does not have, and no UPDATE is
\* without its row.
THEOREM KvTypeCorrect == Spec => []TypeOK
  <1>1. Init => KvInv
        BY KvInit
  <1>2. KvInv => TypeOK
        BY DEF KvInv
  <1> QED
      BY <1>1, <1>2, KvInvStep, PTL DEF Spec

\* However many callers there are, none has a SQL put refused twice.
THEOREM RefusalsBounded == Spec => []RefusedAtMostOnce
  <1>1. RefusalInv => RefusedAtMostOnce
        BY DEF RefusalInv, RefusedAtMostOnce
  <1> QED
      BY <1>1, KvInit, KvInvStep, RefusalInvStep, PTL DEF Spec

-----------------------------------------------------------------------------
(* The refinement.                                                         *)

Slots == [c \in Callers |-> Abstract(c)]

\* A step of one call changes that call's slot only.
LEMMA OneSlot ==
    ASSUME NEW c \in Callers,
           \A x \in Callers \ {c} : pc'[x] = pc[x] /\ arg'[x] = arg[x]
    PROVE  Slots' = [Slots EXCEPT ![c] = Abstract(c)']
  <1>1. \A x \in Callers \ {c} : Abstract(x)' = Abstract(x)
        BY DEF Abstract
  <1> QED
      BY <1>1 DEF Slots

LEMMA RefinesInit == Init => Contract!Init
  <1> SUFFICES ASSUME Init PROVE Contract!Init
      OBVIOUS
  <1>1. ASSUME NEW c \in Callers PROVE Abstract(c) = Contract!Idle
        <2>1. pc[c] = "idle"
              BY DEF Init
        <2> QED
            BY <2>1 DEF Contract!Idle, Abstract, Late
  <1> QED
      BY <1>1 DEF Init, Contract!Init

LEMMA RefinesStep == KvInv /\ [Next]_vars => [Contract!Next]_(Contract!vars)
  <1> SUFFICES ASSUME KvInv, [Next]_vars PROVE [Contract!Next]_(Contract!vars)
      OBVIOUS
  <1> USE DEF KvInv, TypeOK, Holding, Writing, Connecting, Late, Waiting, Slots
  <1> DEFINE Step(c) == \/ Contract!Begins(c) \/ Contract!Reads(c) \/ Contract!Stores(c)
                        \/ Contract!Answers(c) \/ Contract!Fails(c) \/ Contract!OrphanEnds(c)
  <1> SUFFICES \/ \E c \in Callers : Step(c)
               \/ Contract!Crash
               \/ Slots' = Slots /\ row' = row
      BY DEF Contract!Next, Contract!vars
  <1> HIDE DEF Step
  <1>1. ASSUME NEW c \in Callers, Get(c) PROVE Step(c)
        <2>1. Abstract(c) = [state |-> "idle"] /\ Abstract(c)' = [state |-> "getting"]
              BY <1>1 DEF Get, Goes, Abstract
        <2>2. Slots' = [Slots EXCEPT ![c] = Abstract(c)']
              BY <1>1, OneSlot DEF Get, Goes
        <2>3. Contract!Begins(c)
              BY <1>1, <2>1, <2>2 DEF Get, Contract!Begins, Contract!Idle, Contract!Getting, Contract!Becomes
        <2> QED
            BY <2>3 DEF Step
  <1>2. ASSUME NEW c \in Callers, NEW v \in Values, Put(c, v) PROVE Step(c)
        <2>1. FirstStep \in {"set", "connect_put", "find"}
              BY KvAssumption DEF FirstStep
        <2>2. /\ Abstract(c) = [state |-> "idle"]
              /\ Abstract(c)' = [state |-> "putting", value |-> v]
              BY <1>2, <2>1 DEF Put, Abstract
        <2>3. Slots' = [Slots EXCEPT ![c] = Abstract(c)']
              BY <1>2, OneSlot DEF Put
        <2>4. Contract!Begins(c)
              BY <1>2, <2>2, <2>3 DEF Put, Contract!Begins, Contract!Idle, Contract!Putting, Contract!Becomes
        <2> QED
            BY <2>4 DEF Step
  <1>3. ASSUME NEW c \in Callers, Read(c) PROVE Step(c)
        <2>1. /\ Abstract(c) = [state |-> "getting"]
              /\ Abstract(c)' = [state |-> "got", value |-> row]
              BY <1>3 DEF Read, Abstract
        <2>2. Slots' = [Slots EXCEPT ![c] = Abstract(c)']
              BY <1>3, OneSlot DEF Read
        <2>3. Contract!Reads(c)
              BY <1>3, <2>1, <2>2 DEF Read, Contract!Reads, Contract!Getting, Contract!Got, Contract!Becomes
        <2> QED
            BY <2>3 DEF Step
  <1>4. ASSUME NEW c \in Callers, Connect(c) \/ Find(c) PROVE Slots' = Slots /\ row' = row
        <2>1. Abstract(c)' = Abstract(c)
              BY <1>4 DEF Connect, Find, Goes, Abstract
        <2>2. Slots' = [Slots EXCEPT ![c] = Abstract(c)']
              BY <1>4, OneSlot DEF Connect, Find, Goes
        <2> QED
            BY <1>4, <2>1, <2>2 DEF Connect, Find
  <1>5. ASSUME NEW c \in Callers, WriteSet(c) \/ Update(c) \/ Insert(c) PROVE Step(c)
        <2>1. /\ Abstract(c) = [state |-> "putting", value |-> arg[c]]
              /\ Abstract(c)' = [state |-> "stored"]
              BY <1>5 DEF WriteSet, Update, Insert, Goes, Abstract
        <2>2. Slots' = [Slots EXCEPT ![c] = Abstract(c)']
              BY <1>5, OneSlot DEF WriteSet, Update, Insert, Goes
        <2>3. row' = arg[c]
              BY <1>5 DEF WriteSet, Update, Insert, Writes
        <2>4. Contract!Stores(c)
              BY <2>1, <2>2, <2>3 DEF Contract!Stores, Contract!Stored, Contract!Becomes
        <2> QED
            BY <2>4 DEF Step
  <1>6. ASSUME NEW c \in Callers, Return(c) PROVE Step(c)
        <2>1. /\ Abstract(c).state \in {"got", "stored"}
              /\ Abstract(c)' = [state |-> "idle"]
              BY <1>6 DEF Return, Leave, Abstract
        <2>2. Slots' = [Slots EXCEPT ![c] = Abstract(c)']
              BY <1>6, OneSlot DEF Return, Leave
        <2>3. Contract!Answers(c)
              BY <1>6, <2>1, <2>2 DEF Return, Contract!Answers, Contract!Idle, Contract!Becomes
        <2> QED
            BY <2>3 DEF Step
  <1>7. ASSUME NEW c \in Callers, InsertRefused(c) \/ Error(c) \/ Dropped(c) PROVE Step(c)
        <2>1. pc[c] \in Waiting
              BY <1>7 DEF InsertRefused, Error, Dropped
        <2>2. Abstract(c).state \in {"getting", "got", "putting", "stored"}
              BY <2>1 DEF Abstract
        <2>3. Leave(c) \/ (pc[c] \in Writing /\ LeftAlone(c))
              BY <1>7 DEF InsertRefused, Error, Dropped
        <2>4. Slots' = [Slots EXCEPT ![c] = Abstract(c)']
              BY <2>3, OneSlot DEF Leave, LeftAlone, Goes
        <2>5. row' = row
              BY <1>7 DEF InsertRefused, Error, Dropped
        <2>6. CASE Leave(c)
              <3>1. Abstract(c)' = [state |-> "idle"]
                    BY <2>6 DEF Leave, Abstract
              <3> QED
                  BY <2>2, <2>4, <2>5, <3>1
                  DEF Contract!Fails, Contract!Idle, Contract!Becomes, Step
        <2>7. CASE pc[c] \in Writing /\ LeftAlone(c)
              <3>1. /\ Abstract(c) = [state |-> "putting", value |-> arg[c]]
                    /\ Abstract(c)' = [state |-> "orphan", value |-> arg[c]]
                    BY <2>7 DEF LeftAlone, Goes, Abstract
              <3>2. Slots[c].state = "putting" /\ Slots[c].value = arg[c]
                    BY <3>1
              <3>3. Contract!Becomes(c, Contract!Orphan(Slots[c].value))
                    BY <2>4, <3>1, <3>2 DEF Contract!Orphan, Contract!Becomes
              <3>4. Contract!Fails(c)
                    BY <2>5, <3>2, <3>3 DEF Contract!Fails
              <3> QED
                  BY <3>4 DEF Step
        <2> QED
            BY <2>3, <2>6, <2>7
  <1>8. ASSUME NEW c \in Callers, LateRuns(c) \/ LateLost(c) PROVE Step(c)
        <2>1. /\ Abstract(c) = [state |-> "orphan", value |-> arg[c]]
              /\ Abstract(c)' = [state |-> "idle"]
              BY <1>8 DEF LateRuns, LateLost, Leave, Abstract
        <2>2. Slots' = [Slots EXCEPT ![c] = Abstract(c)']
              BY <1>8, OneSlot DEF LateRuns, LateLost, Leave
        <2>3. row' \in {row, arg[c]}
              BY <1>8 DEF LateRuns, LateLost, Writes
        <2>4. Contract!OrphanEnds(c)
              BY <2>1, <2>2, <2>3 DEF Contract!OrphanEnds, Contract!Idle, Contract!Becomes
        <2> QED
            BY <2>4 DEF Step
  <1>9. ASSUME Crash PROVE Contract!Crash
        BY <1>9 DEF Crash, Contract!Crash, Contract!Idle, Abstract
  <1>10. ASSUME UNCHANGED vars PROVE Slots' = Slots /\ row' = row
        BY <1>10 DEF vars, callVars, Abstract
  <1> QED
      BY <1>1, <1>2, <1>3, <1>4, <1>5, <1>6, <1>7, <1>8, <1>9, <1>10 DEF Next, Executes

\* Each of the three stores is the atomic store the rest of the server counts on,
\* for any number of calls at once and any values.
THEOREM KvImplements == Spec => ImplementsKvContract
  <1>1. Init => KvInv
        BY KvInit
  <1> QED
      BY <1>1, KvInvStep, RefinesInit, RefinesStep, PTL
      DEF Spec, ImplementsKvContract, Contract!Spec

=============================================================================
