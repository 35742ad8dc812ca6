----------------------------- MODULE BranchExecutor -----------------------------
(***************************************************************************)
(* The task submit spawns for one branch (src/saga.rs 78-103), in time,    *)
(* next to the handler that waits for its result (main.rs 221).            *)
(*                                                                         *)
(* The task calls the participant with a request timeout. If the call      *)
(* fails it returns false once timeout_to_fail has passed since its start, *)
(* and otherwise sleeps for the retry interval plus a jitter that depends  *)
(* on the branch id only. Over HTTP the whole submit is under a            *)
(* TimeoutLayer of the same request_timeout_secs; over gRPC under none.    *)
(*                                                                         *)
(* Time is counted in units from the start of the task. A timer fires at   *)
(* its due time or, if the runtime is busy, up to Slack units later.       *)
(***************************************************************************)
EXTENDS Naturals

CONSTANTS
    RequestTimeout,  \* request_timeout_secs, of a call and of an HTTP request
    RetryInterval,   \* retry_interval_secs
    TimeoutToFail,   \* timeout_to_fail_secs
    MaxJitter,       \* longest jitter
    Slack,           \* how late the runtime resumes a task at most
    Transport        \* what the submit came over: "http" or "grpc"

ASSUME TimingAssumption ==
    /\ RequestTimeout \in Nat
    /\ RetryInterval \in Nat
    /\ TimeoutToFail \in Nat
    /\ MaxJitter \in Nat
    /\ Slack \in Nat
    /\ Transport \in {"http", "grpc"}

VARIABLES
    elapsed,   \* start.elapsed()
    pc,        \* the task: "calling", "sleeping", "succeeded" or "failed"
    since,     \* when the current call or sleep began
    attempts,  \* calls made
    jitter,    \* jitter of this branch
    handler,   \* the submit: "waiting", "joined" (has the result), "dropped"
    deadline   \* when the TimeoutLayer drops the submit

vars == <<elapsed, pc, since, attempts, jitter, handler, deadline>>

\* The submit has used up some of its time before it spawns the task.
Init ==
    /\ elapsed = 0
    /\ pc = "calling"
    /\ since = 0
    /\ attempts = 1
    /\ jitter \in 0..MaxJitter
    /\ handler = "waiting"
    /\ deadline \in 0..RequestTimeout

Ended == pc \in {"succeeded", "failed"}

\* When the sleep is over.
WakeUp == since + RetryInterval + jitter

\* When the TimeoutLayer can still let the submit wait.
UnderDeadline == handler = "waiting" /\ Transport = "http"

\* Time passes, unless a timer is overdue or nothing is timed any more.
Tick ==
    /\ ~Ended \/ UnderDeadline
    /\ pc = "calling" => elapsed < since + RequestTimeout + Slack
    /\ pc = "sleeping" => elapsed < WakeUp + Slack
    /\ UnderDeadline => elapsed < deadline + Slack
    /\ elapsed' = elapsed + 1
    /\ UNCHANGED <<pc, since, attempts, jitter, handler, deadline>>

\* A 2xx arrives before the call times out.
CallSucceeds ==
    /\ pc = "calling"
    /\ pc' = "succeeded"
    /\ UNCHANGED <<elapsed, since, attempts, jitter, handler, deadline>>

\* Mutants of GivesUp: a call that timed out is not a failed one; the deadline
\* is moved up so that another call could not overrun it.
GivesUpOnAnswer ==
    /\ pc = "calling"
    /\ elapsed < since + RequestTimeout
    /\ elapsed >= TimeoutToFail
    /\ pc' = "failed"
    /\ UNCHANGED <<elapsed, since, attempts, jitter, handler, deadline>>

GivesUpEarly ==
    /\ pc = "calling"
    /\ elapsed + RequestTimeout >= TimeoutToFail
    /\ pc' = "failed"
    /\ UNCHANGED <<elapsed, since, attempts, jitter, handler, deadline>>

\* The call failed, with an error, another status or a timeout, and it is late.
GivesUp ==
    /\ pc = "calling"
    /\ elapsed >= TimeoutToFail
    /\ pc' = "failed"
    /\ UNCHANGED <<elapsed, since, attempts, jitter, handler, deadline>>

\* Mutants of Retries: the due time is noted instead of the time; the time limit
\* is checked against the start of the call.
RetriesFromDueTime ==
    /\ pc = "calling"
    /\ elapsed < TimeoutToFail
    /\ pc' = "sleeping"
    /\ since' = elapsed + RetryInterval
    /\ UNCHANGED <<elapsed, attempts, jitter, handler, deadline>>

RetriesByCallStart ==
    /\ pc = "calling"
    /\ since < TimeoutToFail
    /\ pc' = "sleeping"
    /\ since' = elapsed
    /\ UNCHANGED <<elapsed, attempts, jitter, handler, deadline>>

\* The call failed and there is time for another one.
Retries ==
    /\ pc = "calling"
    /\ elapsed < TimeoutToFail
    /\ pc' = "sleeping"
    /\ since' = elapsed
    /\ UNCHANGED <<elapsed, attempts, jitter, handler, deadline>>

\* Mutant of CallsAgain: the jitter is not slept.
CallsAgainUnjittered ==
    /\ pc = "sleeping"
    /\ elapsed >= since + RetryInterval
    /\ pc' = "calling"
    /\ since' = elapsed
    /\ attempts' = attempts + 1
    /\ UNCHANGED <<elapsed, jitter, handler, deadline>>

CallsAgain ==
    /\ pc = "sleeping"
    /\ elapsed >= WakeUp
    /\ pc' = "calling"
    /\ since' = elapsed
    /\ attempts' = attempts + 1
    /\ UNCHANGED <<elapsed, jitter, handler, deadline>>

\* The submit gets the result of this task (it may be busy with others first).
Joins ==
    /\ handler = "waiting"
    /\ Ended
    /\ handler' = "joined"
    /\ UNCHANGED <<elapsed, pc, since, attempts, jitter, deadline>>

\* The TimeoutLayer answers 408 and drops the submit. The task runs on.
DropsSubmit ==
    /\ UnderDeadline
    /\ elapsed >= deadline
    /\ handler' = "dropped"
    /\ UNCHANGED <<elapsed, pc, since, attempts, jitter, deadline>>

\* What the task does of its own accord; only the participant can make a call
\* succeed, but its timeout makes it fail.
Task == GivesUp \/ Retries \/ CallsAgain

Next == Tick \/ CallSucceeds \/ Task \/ Joins \/ DropsSubmit

Spec == Init /\ [][Next]_vars

\* Time goes on, a task whose call ended or whose sleep is over is polled, and
\* so is the submit.
FairSpec ==
    /\ Spec
    /\ WF_vars(Tick)
    /\ WF_vars(Task)
    /\ WF_vars(Joins)
    /\ WF_vars(DropsSubmit)

-----------------------------------------------------------------------------
(* Properties.                                                             *)

\* Every variable holds a value of its type, and nothing began in the future.
TypeOK ==
    /\ elapsed \in Nat
    /\ pc \in {"calling", "sleeping", "succeeded", "failed"}
    /\ since \in 0..elapsed
    /\ attempts \in Nat \ {0}
    /\ jitter \in 0..MaxJitter
    /\ handler \in {"waiting", "joined", "dropped"}
    /\ deadline \in 0..RequestTimeout

\* A submit never waits for a task longer than one call, if there is no retry, and
\* otherwise than timeout_to_fail, one sleep and one call: the task may overrun
\* timeout_to_fail, but not by more than its last round.
DurationBounded ==
    IF attempts = 1 /\ pc # "sleeping"
    THEN elapsed <= RequestTimeout + Slack
    ELSE elapsed < TimeoutToFail + RetryInterval + jitter + RequestTimeout + 2 * Slack

\* A participant that does not answer is not called more often than the pauses
\* between the calls allow, and no pause begins after timeout_to_fail. (With a
\* retry interval and a jitter of 0 this bounds nothing.)
AttemptsBounded ==
    /\ (attempts - 1) * (RetryInterval + jitter) <= elapsed
    /\ attempts >= 2 => (attempts - 2) * (RetryInterval + jitter) < TimeoutToFail

\* Over HTTP submit is under the same timeout as each single call, so what it
\* learns of a task is the outcome of calls made within one request timeout: a
\* retry is waited for only if the retry interval is shorter than that, and a
\* failure is heard of only if timeout_to_fail is.
HttpHearsOneTimeout ==
    Transport = "http" /\ handler = "joined" =>
        /\ (attempts - 1) * (RetryInterval + jitter) <= RequestTimeout + Slack
        /\ pc = "failed" => TimeoutToFail <= RequestTimeout + Slack

\* Every task ends, whatever its participant does, also after its submit is gone.
TaskEnds == <>Ended

=============================================================================
