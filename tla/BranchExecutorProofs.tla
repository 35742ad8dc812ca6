-------------------------- MODULE BranchExecutorProofs --------------------------
(***************************************************************************)
(* The time bounds of BranchExecutor for all settings and jitters.         *)
(***************************************************************************)
EXTENDS BranchExecutor, TLAPS

\* The length of a pause, and a time before which every call begins.
Pause     == RetryInterval + jitter
CallBegin == TimeoutToFail + Pause + Slack

\* The strengthening: what is known of the current call or sleep from the time it
\* began. A sleep begins before timeout_to_fail, which bounds the call after it;
\* the pauses so far fit in the time before it.
TimingInv ==
    /\ TypeOK
    /\ pc = "calling" =>
          /\ elapsed <= since + RequestTimeout + Slack
          /\ IF attempts = 1 THEN since = 0 ELSE since < CallBegin
    /\ pc = "sleeping" =>
          /\ since < TimeoutToFail
          /\ elapsed <= WakeUp + Slack
    /\ pc = "failed" => elapsed >= TimeoutToFail
    /\ handler = "joined" => Ended
    /\ UnderDeadline => elapsed <= deadline + Slack
    /\ DurationBounded
    /\ (attempts - 1) * Pause <= since
    /\ attempts >= 2 => (attempts - 2) * Pause < TimeoutToFail
    /\ HttpHearsOneTimeout

\* One more pause.
LEMMA OneMore ==
  ASSUME NEW n \in Nat, NEW d \in Nat
  PROVE  (n + 1) * d = n * d + d
  OBVIOUS

LEMMA TimingInit == Init => TimingInv
<1> SUFFICES ASSUME Init PROVE TimingInv
  OBVIOUS
<1> USE TimingAssumption DEF Init
<1>1. TypeOK
  BY DEF TypeOK
<1>2. (attempts - 1) * Pause = 0
  BY DEF Pause
<1> QED
  BY <1>1, <1>2 DEF TimingInv, Ended, DurationBounded, HttpHearsOneTimeout, UnderDeadline

LEMMA TimingNext == TimingInv /\ [Next]_vars => TimingInv'
<1> SUFFICES ASSUME TimingInv, [Next]_vars PROVE TimingInv'
  OBVIOUS
<1> USE TimingAssumption
<1>1. CASE Tick
  BY <1>1 DEF TimingInv, TypeOK, Tick, Ended, UnderDeadline, DurationBounded,
     HttpHearsOneTimeout, WakeUp, Pause, CallBegin
<1>2. CASE CallSucceeds
  BY <1>2 DEF TimingInv, TypeOK, CallSucceeds, Ended, UnderDeadline, DurationBounded,
     HttpHearsOneTimeout, Pause
<1>3. CASE GivesUp
  BY <1>3 DEF TimingInv, TypeOK, GivesUp, Ended, UnderDeadline, DurationBounded,
     HttpHearsOneTimeout, Pause
<1>4. CASE Retries
  BY <1>4 DEF TimingInv, TypeOK, Retries, Ended, UnderDeadline, DurationBounded,
     HttpHearsOneTimeout, WakeUp, Pause
<1>5. CASE CallsAgain
  <2>1. /\ attempts \in Nat \ {0} /\ Pause \in Nat /\ Pause' = Pause
        /\ pc = "sleeping" /\ pc' = "calling"
        /\ attempts' = attempts + 1
        /\ since + Pause <= elapsed /\ since' = elapsed /\ elapsed' = elapsed
        /\ UNCHANGED <<jitter, handler, deadline>>
    BY <1>5 DEF TimingInv, TypeOK, CallsAgain, WakeUp, Pause
  <2>2. /\ (attempts - 1) * Pause <= since
        /\ since < TimeoutToFail
        /\ elapsed <= since + Pause + Slack
    BY <2>1 DEF TimingInv, TypeOK, WakeUp, Pause
  <2>3. (attempts' - 1) * Pause' <= since'
    <3>1. attempts * Pause = (attempts - 1) * Pause + Pause
      BY <2>1, OneMore
    <3>2. (attempts' - 1) * Pause' = attempts * Pause
      BY <2>1
    <3>3. /\ (attempts - 1) * Pause \in Nat /\ attempts * Pause \in Nat
          /\ since \in Nat /\ elapsed \in Nat
      BY <2>1 DEF TimingInv, TypeOK
    <3> QED
      BY <2>1, <2>2, <3>1, <3>2, <3>3
  <2>4. (attempts' - 2) * Pause' < TimeoutToFail
    <3>1. (attempts' - 2) * Pause' = (attempts - 1) * Pause
      BY <2>1
    <3>2. (attempts - 1) * Pause \in Nat /\ since \in Nat
      BY <2>1 DEF TimingInv, TypeOK
    <3> QED
      BY <2>2, <3>1, <3>2
  <2>5. DurationBounded' /\ since' < CallBegin' /\ HttpHearsOneTimeout' /\ TypeOK'
    BY <2>1, <2>2 DEF TimingInv, TypeOK, DurationBounded, CallBegin, Pause,
       HttpHearsOneTimeout, Ended
  <2> QED
    BY <2>1, <2>3, <2>4, <2>5 DEF TimingInv, TypeOK, Ended, UnderDeadline
<1>6. CASE Joins
  BY <1>6 DEF TimingInv, TypeOK, Joins, Ended, UnderDeadline, DurationBounded,
     HttpHearsOneTimeout, Pause
<1>7. CASE DropsSubmit
  BY <1>7 DEF TimingInv, TypeOK, DropsSubmit, Ended, UnderDeadline, DurationBounded,
     HttpHearsOneTimeout, WakeUp, Pause, CallBegin
<1>8. CASE UNCHANGED vars
  BY <1>8 DEF vars, TimingInv, TypeOK, Ended, UnderDeadline, DurationBounded,
     HttpHearsOneTimeout, WakeUp, Pause, CallBegin
<1> QED
  BY <1>1, <1>2, <1>3, <1>4, <1>5, <1>6, <1>7, <1>8 DEF Next, Task

\* Every variable of a task keeps its type, whatever the settings: no
\* call or sleep is taken to begin in the future, and the jitter stays in range.
THEOREM TimingTypeCorrect == Spec => []TypeOK
<1>1. TimingInv => TypeOK
  BY DEF TimingInv
<1> QED
  BY <1>1, TimingInit, TimingNext, PTL DEF Spec

\* A task ends within timeout_to_fail, one pause, one call and two late timers,
\* whatever the settings.
THEOREM DurationSafe == Spec => []DurationBounded
<1>1. TimingInv => DurationBounded
  BY DEF TimingInv
<1> QED
  BY <1>1, TimingInit, TimingNext, PTL DEF Spec

\* The number of calls is bounded by the time and by timeout_to_fail, whatever the
\* settings.
THEOREM AttemptsSafe == Spec => []AttemptsBounded
<1>1. TimingInv => AttemptsBounded
  <2> SUFFICES ASSUME TimingInv PROVE (attempts - 1) * Pause <= elapsed
    BY DEF TimingInv, AttemptsBounded, Pause
  <2>1. (attempts - 1) * Pause \in Nat /\ since \in Nat /\ elapsed \in Nat /\ since <= elapsed
    BY TimingAssumption DEF TimingInv, TypeOK, Pause
  <2> QED
    BY <2>1 DEF TimingInv
<1> QED
  BY <1>1, TimingInit, TimingNext, PTL DEF Spec

\* Over HTTP no submit learns of a retry or a failure that one request timeout
\* does not leave time for, whatever the settings.
THEOREM HttpSafe == Spec => []HttpHearsOneTimeout
<1>1. TimingInv => HttpHearsOneTimeout
  BY DEF TimingInv
<1> QED
  BY <1>1, TimingInit, TimingNext, PTL DEF Spec

=============================================================================
