# A TLA+ model of seata-server

`seata-server` is a coordinator of distributed transactions (saga and TCC). A client
starts a global transaction, adds branches (a branch is an id and the URL of a
participant), and submits it: the server calls every participant and then marks the
transaction committed or aborted. Transactions and idempotency keys live in a
key-value store (sled, redis, MySQL or PostgreSQL); nothing else is persistent.

Two facts about the code shape everything here:

* **Every operation is load, change, save.** `SagaManager` (src/seata-server/src/saga.rs)
  loads a copy of the transaction, changes it and writes the whole copy back. There is no
  lock, no version check and no store transaction, and every handler is a task of its own.
* **A handler may end at any await.** The HTTP `TimeoutLayer` and a client that goes away
  drop the future; a failing store access ends it through `?`; the process may die. The
  tasks a `submit` has spawned, and a sled `put` in `spawn_blocking`, do not end with it.

## 1. Inventory

| Component | State | Operations | Interaction | What makes it correct |
|---|---|---|---|---|
| Transaction record (`domain.rs`) | status, branches with status | pure updates | data of all others | results go to the right branch; the decision is complete |
| `SagaManager` (`saga.rs`) | none of its own; a copy per request, a semaphore and tasks per submit | start, add_branch, branch_succeed, branch_fail, submit, abort, get, list | store; participants over HTTP | branch ids unique, statuses have a cause, decisions final, no branch lost, no branch executed twice, bounded parallelism, every submit ends |
| Repository (`repo.rs`) | records under `gid:` | save, load, list | KV store | what was saved is loaded; pages are complete |
| Barrier (`barrier.rs`) | keys under `barrier:` | insert, exists | KV store | a key admits once |
| HTTP and gRPC handlers (`main.rs`) | none | one per operation | barrier, then SagaManager | a retried request has the effect of one |
| JSON-RPC (`main.rs`) | none | start, submit, abort | SagaManager | the operation gets the gid of the request |
| Branch task (`saga.rs` 78-103) | attempts, clock | call, retry, give up | participant | gives up in bounded time |
| KV stores (`storage/`) | records; calls under way | get, put, delete, scan_prefix | sled, redis, SQL | put is atomic, a refused put succeeds when retried, scan is complete |
| Startup (`main.rs` 110-236, `settings.rs`) | open stores, the lock of the embedded one | load settings, select and open twice, bind | KV stores, file system | a server that starts comes to serve; nobody waits for a lock |
| Shutdown (`main.rs` 278-288) | none | signal, end of a listener, exit | registration task | locks and keys do not outlive the process for ever |
| etcd registration (`main.rs` 238-321) | lease, two keys | register, keep alive, clean up | etcd, other servers | registered exactly while alive; servers keep off each other's keys |
| Scheduler (`scheduler.rs`) | none | a tick that logs; never started | none | would resume unfinished transactions |
| Settings (`settings.rs`) | none | load, or defaults | startup | what cannot be read is replaced by the defaults, also for the store |
| Metrics, admin proxy, wire format | none | | | |

Hard behaviours: handlers of one gid interleave at every store access; a submit holds its
copy for as long as its participants take; dropped requests leave detached tasks and late
writes; clients retry what may already have happened; the process dies between the saves
of one operation; the barrier key and the transaction are two records; servers that share
etcd start, stop and die at any point of their registration.
`PROJECT.json` lists them one by one under `hazards`, with the properties that watch them.

## 2. Modules

| Module | Models |
|---|---|
| `SeataDomain` | the record and the pure updates of a loaded copy |
| `SagaManager` | the operations over the repository, one step per store access or task event, with faults |
| `SagaContract` | the abstract specification: each operation atomic, submit in three visible stages |
| `SagaRefinement` | the mapping of SagaManager onto SagaContract |
| `Barrier` | `insert` as a get and a put |
| `ApiServer` | the handlers over HTTP, gRPC and JSON-RPC: barrier, then saga manager (composes `Barrier` and `SagaManager`) |
| `BranchExecutor` | one branch task over discrete time, next to the deadline of the submit that waits for it |
| `Listing` | a walk through the pages of the list while the store changes, over sled and SQL |
| `KvContract` | the abstract specification of a store: atomic get and put of one key, with failed calls and orphans |
| `KvStore` | get and put of sled, redis and SQL command by command, mapped onto `KvContract` |
| `Registry` | etcd leases and keys, the registration and cleanup of each server |
| `ServerProcess` | the life of server processes: settings, stores, lock, bind, serve, end (composes `Registry`) |
| `MC...` | the modules TLC runs, with the symmetry definitions |
| `SagaManagerProofs`, `SagaSafetyProofs`, `SagaRefinementProofs`, `ApiServerProofs`, `BranchExecutorProofs`, `ListingProofs`, `KvStoreProofs`, `ServerProcessProofs` | lemmas and theorems |

### State and code

* `store[gid]` is the record under `gid:<gid>`, `NoTxn` for an absent one.
* `pc[h]`, `call[h]`, `tx[h]` are the await a request handler is at, its arguments and its
  local variable `tx`. `tasks[h]` and `permits[h]` are the vector of join handles and the
  semaphore of a submit. A branch that is not prepared has no handle, so the k-th handle
  belongs to the prepared branch of rank k; `ApplyResults` is the `zip` of the code.
* pc values: `load` (at `repo.load`), `save` (at the last `repo.save` of an operation),
  `mark`, `spawn`, `results` (submit: first save, loop and joins, second save), `zombie` (a
  handler that is gone while its put is outstanding), `detached` (a dropped submit whose
  tasks run on).
* `phase`, `confirmed` and `evidence` are history variables; no action but `Call`, which
  models what clients do, reads them.
* `Barrier` has the same shape: `step[c]` is `get` or `put`, `late` an abandoned put.
* In `ApiServer` a handler is either at the barrier or in the saga manager. HTTP and gRPC
  run the same code paths and are one. JSON-RPC has an action of its own: the parameters name
  a gid or none and fit the fields of `Start` or not, `Variant` is the first variant of
  the untagged enum that takes them, and `JsonRpcGid` the gid the method reads from that variant.
  A request that reaches the empty gid, or only the error reply, changes nothing.
* In `BranchExecutor`, `elapsed` is `start.elapsed()` and `since` the begin of the current call
  or sleep. `deadline` is what is left of the `TimeoutLayer` when the task is spawned; over
  gRPC there is none. `Tick` stops at a due timer for at most `Slack` units.
* In `Listing` a sled scan is one read per step, as sled iterates without a snapshot; a SQL scan
  is one query. Both return values in key order, each key once, so `vals` and `page` are sets of
  values and the index of a value is its `Rank`. `offset + limit` is a `usize` addition of a release build, `% UsizeSize`.
  `matching` is a history variable: what was there and asked for since the walk began.
* `KvStore` has one key. `pc[c]` is the command a call is at: `set` for the one write of sled and
  redis, `find`, `update` and `insert` for SQL, `got` and `stored` for a call whose answer is on its way.
  `connect_get` and `connect_put` are redis calls that wait for their connection.
  `late` and `late_insert` are writes whose caller is gone. `SagaManager` and `Barrier` stand on
  `KvContract`: their put takes effect and answers in one step, which only they can tell apart when the
  caller is dropped in between, and that is their fault step.
* In `ServerProcess`, `main[s]` is the await or `?` that main of server `s` is at, `repo` and
  `barrier` what it has opened, `dir` the holder of the lock on `./data/seata-sled`. In `Registry`,
  `task[s]` is the request to etcd the registration is at, `watch` its `select!`; `entries` maps a key
  to the lease it was put with. There is no clock: since nothing renews a lease, it may run out at
  any time after its grant. A random instance id and a new lease are any unused one; which does
  not matter, so `CHOOSE` takes it. An id stands for namespace and instance id together.

A load and the synchronous code that follows it up to the next await are one step, since
nothing else can see the difference; a put takes effect in one step. Attempts of a branch
task that fail before its deadline change nothing in the server and are no steps.

### Client disciplines

What holds depends on how clients behave, so `Discipline` is a constant:

* `any`: every request at any time;
* `serial`: a request for a gid only when no other is unanswered. A timed-out or dropped
  request counts as answered, so its late write and detached tasks overlap with the retry;
* `started`: `start` once and first, then anything at any time;
* `lifecycle`: the documented flow. After `start`, branch operations one at a time; then only
  `submit` and `abort`, concurrently if need be.

## 3. Runs

The runs of `SagaManager` and `ApiServer` take one gid: operations on different gids share no
state but the handler slots. Two handler slots are enough to have any pair of operations
interleave at every step, and with faults a slot holds a late write or detached tasks while
the other one is used again. Two branches make the order of handles, the semaphore and lost
updates matter; `api_serial`, where a client only meets itself, has one. `ConfirmCap` and
`AdmitCap` bound counters that are only compared with 1; where no property of a run looks at
the counter the bound is 0. `Symmetry` (handlers and branch ids) is used in safety runs only.

| Run | Clients, faults | Shows |
|---|---|---|
| `saga_races` | any; all faults; parallelism 1 | `TypeOK`, `UniqueBranchIds`, `StatusHasCause`, `DecisionSound`, `ParallelismBounded`, `SubmitGoesOn`, `OneCallPerSubmit`, `RequestsAdvance` |
| `saga_serial` | serial; crashes | `ConfirmedOnce`, `ImplementsContract` |
| `api_serial` | serial; all faults | `ApiTypeOK`, `AdmittedOnce`, `ImplementsSaga` |
| `api_live` | lifecycle; no faults; fair; parallelism 0 | `SettledWhenQuiet`, `LifecycleCoherent`, `AddedBranchesKept`, `AnsweredAddListed`, `ApiRequestsEnd`, `CommittingEnds` |
| `branch_executor` | a participant that answers or not; HTTP; fair | `TypeOK`, `DurationBounded`, `AttemptsBounded`, `HttpHearsOneTimeout`, `TaskEnds` |
| `listing` | a walk with any page sizes; sled and SQL | `TypeOK`, `PageFits`, `WalkComplete` |
| `kv` | three calls on one key; sled, redis, SQL; all faults; fair | `TypeOK`, `RefusedAtMostOnce`, `ImplementsKvContract`, `CallsReturn` |
| `server` | two servers, one etcd; all faults; fair | `ServerTypeOK`, `EmbeddedLocksOut`, `OwnEntriesKept`, `StartEnds`, `EntriesVanish` |

These hold. `SettledWhenQuiet` is what the test `error_tests.rs` 297-316 samples: after a
concurrent submit and abort the status is final. `LifecycleCoherent` also holds under every
fault, which is proved (section 4). `ConfirmedOnce` counts across
restarts, with one exception: a crash between a participant's answer and the save of the submit's results
(`Unstored`) makes the server forget the answer, and the code does call that participant again. Parallelism 0 is
a value the configuration admits; the code makes it 1.

`SubmitGoesOn` and `RequestsAdvance` are what a liveness property rests on, stated as safety, so
that they are checked and proved for every client and fault: a submit whose tasks have ended has a step
to take, and the steps of a request count down in a well-founded order that no other request can turn
back. `OneCallPerSubmit` holds of one submit only; two submits call twice (`saga_retried_submit`).

`branch_executor` has the times in the order retry interval < request timeout < timeout to
fail, so that a submit can be dropped in any state of the task and can see a retry; the unit is
arbitrary, and a task goes through up to four calls. `listing` has three transactions, pages of
one and two, two statuses, and a `usize` that holds 0 to 3: a walk has up to three pages, its
end wraps, and transactions appear in front of, at and behind every offset. Three keys are
enough for one already seen, one being inserted and one that might be missed. `WalkComplete` is
about any status filter: a page may be shorter than its limit, even empty, with more to
come, so a client must not stop there.

`kv` has three callers and two values: two puts race while a third call reads, or is
the late write of a caller that is gone, and the two values tell whose put a key holds. `RefusalCap`
is 2, one more than the property admits.

`server` has two servers in one working directory, started in one of three ways: with one instance
id given to both; with an id and without one; misspelt and unreadable. Two leases are enough,
since a server holds at most one and what a third lease could add is what a crash and a restart
show. Four ids leave a random one unused at any time: one is given, one server at most draws, and
the keys of two leases are all that is left of earlier draws. All faults: crash at any point, failing requests to etcd, a start that
fails, a gRPC listener that ends.

Where a doc or a test of the repository promises more than the code does, a run shows the
counterexample:

| Run | Setting | Property | What happens |
|---|---|---|---|
| `saga_lost_branch` | clients `started`; no faults | `AddedBranchesKept` | two adds load the same copy; the later save drops the other branch |
| `saga_retried_submit` | clients `serial`; drop | `ConfirmedOnce` | the retry runs beside the detached tasks of the first submit |
| `api_stuck` | clients `started`; crash, drop; fair | `CommittingEndsAfterFaults` | a submit is dropped; its transaction is committing for ever |
| `server_unlisted` | two servers with the `conf.yaml` of the repository, an etcd that works | `ListedWhileServing` | the lease is not renewed; the keys go while the server serves |

These four are runs of the project. Each admits more than the one trace TLC prints: `saga_lost_branch` also has
branches added beside a submit, `api_stuck` crashes between the saves of a submit and reports that put committing back
over a decision, `server_unlisted` two servers with one and the same (empty) instance id. The following configurations
single out those cases, and further ones; `tlc -config X.cfg M` prints each trace in a few seconds:

| Configuration | Setting | Property | What happens |
|---|---|---|---|
| `MCSagaSubmitOverAdd` | `started`; one branch | `AddedBranchesKept` | a submit's last save drops the branch added while it was under way |
| `MCSagaUndoneReport` | `started` | `ReportsKeepDecision` | a report that loaded before a submit's last save puts committing back over the decision |
| `MCSagaStartedTwice` | `serial` | `ListedBranchesStay` | a start that is sent again wipes out the branches (API_USAGE.md 370: operations are idempotent) |
| `MCApiBarrierRace` | `any` | `AdmittedOnce` | two tries both look for the key before either puts it (barrier.rs 241: only one should succeed) |
| `MCApiRetriedTry` | `lifecycle`; crash | `AnsweredAddListed` | the key is put, the branch is not; the retry is answered Ok and does nothing (API_USAGE.md 370) |
| `MCListingBarriers` | SQL with barrier rows | `NothingMissed` | a barrier row takes a transaction's place in the scan |
| `MCServerEmbedded` | one server, no configuration; fair | `StartsUp` | the embedded store is opened a second time and is locked (README.md 19: the default is sled) |
| `MCServerReplicas` | two servers with the `instance_id: ""` of `conf.yaml` | `EntriesKept` | they share their keys; the second takes them over (conf.yaml 67: if empty, a random one is used) |

The passing and the violated runs together say where the line runs:

* Without faults, a branch is never lost while branch operations do not overlap with each other or with a submit, and
  the transaction is not started again.
* A participant that confirmed is not called again unless a submit was dropped, or the server
  restarted before it had saved the results.
* A barrier admits one request at most of clients that wait for an answer, also when they retry; of
  concurrent ones it may admit each. What it admitted once is not done again, and may never be done.
* A submitted transaction is decided unless its submit was dropped or died. `CommittingEnds` holds without
  faults; `CommittingEndsAfterFaults` states it of behaviours in which faults and requests come to an end, so that
  a counterexample is not one fault after the other. `HttpHearsOneTimeout` says how little an HTTP submit
  can learn before it is dropped.
* A walk through the list is complete over sled, and over SQL while no branch has passed a barrier.
  `WalkComplete` is `NothingMissed` under that condition.
* A registered server keeps its keys from servers with other instance ids (`OwnEntriesKept`), not from
  those that have the same (`EntriesKept`): put and cleanup go by name.

What has no run is what the repository makes no statement about: a misspelt `SEATA_STORE` is documented to
mean the embedded store; a configuration file that cannot be read means the defaults, and so the embedded store, too.
No such server serves (`EmbeddedLocksOut`). If the second opening were
repaired, the latter would serve from another store than its file names.

### Fairness

`ApiFairSpec` has weak fairness of `Handling(h)` (tokio polls a ready handler again and again,
and store accesses return) and of `BranchTask(h, k)` (each attempt has a request timeout and
the task returns after the first failed attempt past `timeout_to_fail`, which is `TaskEnds` of
`BranchExecutor`). Nothing is assumed of clients or faults. No handler disables another one's
step, except that a `SubmitSpawn` waits for a permit, which only its own tasks give back, and a
running task always ends; weak fairness is enough.

`FairSpec` of `BranchExecutor` has weak fairness of `Tick` (time goes on), `Task` (a call that
timed out and a sleep that is over are polled), `Joins` and `DropsSubmit`. A participant need not
answer: `CallSucceeds` is not fair.

`FairSpec` of `KvStore` has weak fairness of `Proceeds(c)`: a store that is up executes its commands.
redis need not: there the step may also be `Error`, as GET and SET are under a timeout of two
seconds. The connection that each redis call awaits first (`redis_kv.rs` 22 and 29) is outside of that timeout,
so neither `Connect` nor an error there is fair, and `CallsReturn` is about calls past it: a redis that
neither accepts nor refuses holds a call until its request is dropped. The fairness of `ApiServer` assumes that store
accesses return, so its liveness is that of a server whose redis can be reached. `FairSpec` of `ServerProcess` has weak fairness of the steps of a start, of the exit of a process
whose main has returned, and of the end of a lease. Requests to etcd have no timeout, and the
registration task is dropped with the runtime, so nothing is assumed of it: `EntriesVanish` rests on
leases alone.

## 4. Proofs

The theorems hold for every set of gids, branches and handlers, every `BranchParallelism`,
discipline and set of faults, unless one is named below. They assume `NoTxnAssumption` and
`ParamAssumption` (the markers are not values of the data; the bounds are natural numbers; the
discipline is one of the four).

* `TypeCorrect == Spec => []TypeOK` and `ParallelismSafe == Spec => []ParallelismBounded`
  (`SagaManagerProofs`). `TypeOK` is not inductive: that `permits[h]` stays within the
  semaphore when a task ends needs the conservation law that free permits and running tasks
  together are at most the semaphore's size, that handlers outside of `spawn` and `detached`
  hold no tasks, and that a handler past its load holds a copy. `ShapeInv` is that
  strengthening. The parallelism bound follows from the same law. The module opens with lemmas about
  the record: the updates map transactions to transactions and keep the list of branch ids, and the
  rank of a prepared branch is injective, which is what makes the `zip` of submit hit the right branch.
* `SagaSafetyProofs` rests on two factorings. `StoreStep`: a step stores nothing but a copy
  some handler holds, or a new transaction. `HandlerStep` and `HandlerData`: a step changes the
  `pc`, copy and tasks of one handler, in one of a few ways. Each property then has an
  inductive invariant of its own next to `ShapeInv`:
  * `BranchIdsUnique`, by `UniqueInv`: also every copy has unique ids. `add_branch` looks its
    id up in the very copy it pushes to, so lost updates and late writes cannot break it.
  * `DecisionsSound`, by `DecisionInv`: once all handles are joined no branch of the copy is
    prepared. The ranks of the prepared branches count up to their number, so `zip` leaves
    none out.
  * `LifecycleSafe`, by `FlowInv`: before the first decision only submitted transactions are
    stored or copied; afterwards copies are made by submit and abort alone, and each leaves a
    coherent one, however stale. It holds for every set of faults and assumes
    `Discipline = "lifecycle"`.
  * `StatusesHaveCause`, by `CauseInv`: the k-th handle is always of the prepared branch of rank
    k of the submit's own copy, and every call and task has left its record.
  * `SubmitsCallOnce` and `SubmitsGoOn`, by `LoopInv`: the loop never runs past the last prepared branch,
    and tasks of one submit call different branches. Both rest on `RankOnto`: every number up to the
    count of prepared branches is the rank of one, by the pigeonhole principle. So each earlier task
    belongs to another prepared branch of the same copy, whose ids are unique; and when all permits are
    back, the next rank belongs to a branch.
  * `RequestsOnlyAdvance == Spec => RequestsAdvance`, from the same invariant: what is left of a submit's
    loop is a natural number, and a spawn or the end of a task makes it smaller.
  * `AddedBranchesStay`, by `OrderInv` and `KeptInv`, for `lifecycle` without faults: the start of a
    transaction has ended before any branch is added, and branch operations on it run one at
    a time. So every copy that may be stored lists all branches asked for, or their add is still
    worked on.
  * `QuietIsSettled`, by `QuietInv`, for `lifecycle` without faults: once a submit or an abort was
    asked for, what is stored has a final status, or a submit or an abort is still under way.
* `SagaRefinementProofs`: `SerialImplementsContract == Spec => ImplementsContract` for
  `Discipline = "serial"` and no faults but crashes, by `SerialInv`: there is one request per gid, and what
  its handler is about to save is what the contract allows to follow what is stored (`Fit`). So a save is
  a step of `SagaContract` and every other step none. With `drop`, late writes break `Fit`, and
  `saga_retried_submit` shows what comes of it. From the same invariant `SerialConfirmsOnce ==
  Spec => []ConfirmedOnce`, with the exception of answers a crash made the server forget, by `ConfirmInv`: a branch that confirmed is no longer prepared in what
  is stored, or the submit under way knows the result; and a submit has one task for each
  prepared branch, since ranks are injective.
* `ApiServerProofs`, which also assumes `ApiAssumption` (`AdmitCap` is a natural number):
  * `ApiImplementsSaga == ApiSpec => ImplementsSaga`, by `BarrierInv`. A handler is at the barrier
    or in the saga manager, and a request that got through the barrier may still be asked of the
    manager (`Open`): the discipline, which held when the client asked, holds when the
    handler goes on. It is what makes each step of `ApiServer` a step of `SagaManager` or none.
  * `SafeBehindApi`: so `UniqueBranchIds`, `StatusHasCause`, `DecisionSound`, `ParallelismBounded`,
    `SubmitGoesOn`, `OneCallPerSubmit` and `RequestsAdvance` hold of the whole server, and for
    `lifecycle` clients, under every fault, `LifecycleCoherent` (`LifecycleBehindApi`).
  * `ApiImplementsContract` and `ApiConfirmsOnce`, for `serial` clients and no faults but crashes: the two
    refinements put together, from the handlers through the saga manager to `SagaContract`.
  * `ApiTypeCorrect`, and `BarrierAdmitsOnce` for `serial` and `lifecycle` clients, by `AdmitInv`: a
    handler about to put a key is the only one at it, and nobody has been admitted with it before.
  * `FlowBehindApi`: for `lifecycle` without faults, `LifecycleCoherent`, `SettledWhenQuiet` and
    `AddedBranchesKept` hold of the whole server. `AnsweredAddsListed`, by `AnsweredInv`, under the
    same assumptions: an add is answered Ok only once its branch is listed, and it stays listed.
* `BranchExecutorProofs`: `TimingTypeCorrect`, `DurationSafe`, `AttemptsSafe` and `HttpSafe`, for all times, from
  `TimingAssumption`, by `TimingInv`: when the current call or sleep began at the latest, given
  that a sleep begins before `timeout_to_fail`, and that the pauses so far fit in before it.
* `KvStoreProofs`, from `KvAssumption`: `KvTypeCorrect`, by `KvInv`: a put that has yet to write holds a
  value. `RefusalsBounded`, by `RefusalInv`: rows are never deleted, so once a caller was refused there is a
  row, and no later SELECT of it misses that. `KvImplements`: under `KvInv` each step of one call changes
  that call's slot only (`OneSlot`), and maps to one step of `KvContract`, or to none for `Connect` and
  `Find`.
* `ServerProcessProofs`, from `ServerAssumption`, for any servers and deployments: `ServerTypeCorrect`;
  `EmbeddedNeverServes`, by `StoreInv`: a server past its first opening holds the lock if its
  store is the embedded one, so the second opening, of the same store, cannot succeed;
  `RegisteredKeysKept`, step by step from the
  types: keys of servers with different ids differ, and a lease that ends takes only its own keys.
* `ListingProofs`, from `ListingAssumption`, for any transactions, page sizes, filter and `usize`: `ListingTypeCorrect`,
  `PagesFit` and `WalksComplete` (over SQL for tables without barrier rows), by `ListingInv`. `ScanInv` says what a scan under way has read: keys up to
  the cursor, no more than `offset + limit` of them, each once. `WalkInv` places every transaction that
  matched all along: seen, on this page, to be read behind the offset, or with so many keys in front that a later
  page begins at or before it. Transactions only join a store, so ranks only grow (`RankGrows`), and a
  window of n ranks holds n keys at most (`RankWindow`).

Left to TLC: liveness (`ApiRequestsEnd`, `CommittingEnds`, `TaskEnds`, `CallsReturn`, `StartEnds`,
`EntriesVanish`), which the prover cannot treat under fairness. What is proved of it is its safe part:
`SubmitGoesOn` and `RequestsAdvance` for the requests, `DurationBounded` for a branch task,
`RefusedAtMostOnce` for a put, and `EmbeddedNeverServes` for the lock a start may meet. `ConfirmedOnce`, `SettledWhenQuiet`,
`AddedBranchesKept`, `AdmittedOnce` and `AnsweredAddListed` are false in general: their theorems assume the discipline
and the faults of the passing runs that check them.

## 5. Not modelled

* Payload, mode, action URLs, timestamps and metrics: no decision depends on them.
* `get` reads one record and changes nothing.
* The scan of the redis store: `SCAN` promises neither an order nor that a key comes once, so
  a page of `list` is not defined across calls. Besides, it reads an `MGET` through a pipeline of
  one command, whose reply is one array in an array.
* A store in which transactions move in the scan: PostgreSQL returns rows without an `ORDER BY`
  in any order. `Listing` takes the order of the primary key, as MySQL's clustered table has it.
* `delete` of the stores and `exists` of the barrier: nothing calls them.
* Writes that sled answered Ok and had not flushed when the machine went down: the model keeps
  every write that was executed.
* Barrier keys of ids that contain colons, which can collide: keys are records in the model.
* How the `config` crate layers file and environment: a constant says whether the load succeeds
  and what it yields.
* A JSON-RPC submit or abort with only a gid never reaches the transaction it names. `ApiServer` has it
  do nothing, as the code does; no doc of the repository shows such a request, so there is no
  statement for a run to refute.
* Two server processes on one store: they behave like more handlers, except that a crash
  ends only one process's handlers, which `drop` and `storage` faults also do.
* The scheduler: a ticker that logs, and main never starts it. That is why nothing resumes a
  submit that was dropped or lost in a crash.
* Metrics (nothing reads them back), the admin proxy (stateless), message types (generated).

## 6. Plan

1. Done: `SeataDomain`, `SagaManager`, `SagaContract`, `Barrier`, `ApiServer` with JSON-RPC,
   `BranchExecutor`, `Listing`, `KvContract` and `KvStore`, `Registry` and `ServerProcess`, their runs, and the theorems of
   section 4.
2. Proofs: every invariant and action property of the passing runs has its theorem. What is left is
   liveness, see section 4.
3. Left, models: the redis scan, once its order and repetitions are settled.
