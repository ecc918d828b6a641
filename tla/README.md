# Verification of the Roze DTM coordinator

TLA+ models of the transaction coordinator in `src/lib.rs`, of its stores there and in
`src/redis_store.rs`, of the XA resource managers in `src/xa.rs`, of topics in `src/kv.rs` and of the
operations that the control plane in `service/src/main.rs` starts, the TLC runs that check them on small
instances, and TLAPS proofs of the central properties for every instance. Paths are
relative to the repository root; `lib.rs` is `src/lib.rs`, `main.rs` is `service/src/main.rs`.

## 1. Inventory

| Component | State it keeps | Operations | Interacts with | What makes it correct |
|---|---|---|---|---|
| Coordinator core (`Dtm`) | one stored record per global transaction: status, branches with status and attempts, revision, timeout | `submit`, `register_branch`, `force_stop`, `reset_retry`, `recover`, `tick_recover_once` | stores, branch services, API, recovery worker | one decision, stable ends, registered branches kept |
| TCC | the record | `prepare_tcc`, `confirm_tcc`, `cancel_tcc` | barrier table | complete ends, Confirm and Cancel exclude each other, no hanging Try |
| Saga | the record | `start_saga`, `abort_saga` | barrier table | actions in order, compensation complete and in reverse |
| Concurrent Saga | the record, dependency graph | `start_concurrent_saga`, `abort_concurrent_saga`, `validate_dependency_graph` | barrier table, one task per branch of a layer | a layer only after the layers below it, undone in the opposite order, every accepted graph ends |
| Static Workflow | the record, dependency graph | `prepare_workflow`, `start_workflow`, `abort_workflow` | barrier table | dependencies first, rollback complete |
| Callback Workflow | progress records, retry schedule in metadata | `record_workflow_progress`, `finish_workflow`, `recover_callback_workflow`, `defer_workflow_recovery` | QueryPrepared endpoint, caller, recovery worker | one terminal result, recorded progress kept, timeout enforced |
| Two-phase Message | the record, delivery time | `prepare_message`, `dispatch_message`, `abort_message` | barrier table, topics | nothing before the decision and the delay, nothing lost |
| XA coordinator | the record | `prepare_xa`, `commit_xa`, `rollback_xa` | resource managers | commit and rollback exclude each other, every resource reached |
| XA resource manager (`src/xa.rs`) | prepared database transactions, barrier rows, heuristic decisions | `prepare_branch`, `resolve`, `recover_prepared`, `reconcile`, `resolve_heuristically` | MySQL, PostgreSQL, coordinator | idempotent phase 2, no prepared transaction lost |
| Branch barrier | keys `gid:branch:op` | `barrier`, `release_barrier` | every handler | an operation runs at most once at a time, never after it was accepted |
| Stores | transactions, barriers, leases, KV | memory, SQLite, PostgreSQL, MySQL, Redis | all of the above | atomic registration and barrier; Redis: compare-and-set |
| Recovery worker and lease | lease owner, expiry, epoch | `tick_recover_once_with_lease`, `record_branch_failure` | all handlers | writes follow the order of the leases, one worker at a time, no transaction starved, delays grow to a limit |
| Retention | none | `purge_expired_transactions` | stores | only unchanged expired records deleted, and not written again |
| Topics and KV | versioned entries | subscribe, unsubscribe, expand | Message submit | no lost update |
| Control plane | audit ring, metrics | HTTP, JSON-RPC, gRPC endpoints | coordinator | which handler an endpoint starts |

The hard behaviours: API requests and recovery ticks run the same handlers on the same record
with an await point at every store and branch call; a handler reads once and writes its own copy
back; only Redis compares revisions; a branch call may fail after taking effect; a process may die
while it holds a barrier; the timeout races explicit decisions. `PROJECT.json` lists the hazards
at their lines.

## 2. Modules

| Module | Models |
|---|---|
| `TransactionLifecycle` | abstract specification: the phase of one transaction; one decision, stable ends, stop is permanent |
| `Coordinator` | what all kinds share: record, barrier table, drivers, store updates, admin operations, crashes |
| `Tcc`, `Saga`, `Workflow`, `Message`, `Xa` | the handlers of one kind, the API operations that start them or store a decision, the recovery tick |
| `RecoveryLease` | the recovery lease: owner, epoch, renewal, take-over, leases that run out, the fence of a write |
| `CallbackWorkflow` | the callback Workflow with its workers (through `RecoveryLease`), callers, administrators, and the answers of QueryPrepared by protocol |
| `Layers` | a layer of branches: barriers claimed one by one, one task per branch, the mixed result; on top of `Coordinator` |
| `ConcurrentSaga` | concurrent Sagas over a dependency graph; extends `Layers`, and `Saga` for what both variants share. `Message` uses `Layers` for concurrent delivery |
| `Stores` | the five stores statement by statement: row, barrier keys, retention, and the fenced operations of Redis |
| `Topics` | the versioned KV entry of a topic, its subscribers and the Messages expanded from it |
| `XaResource` | business processes, their database and operators, composed with the coordinator of `Xa` |
| `RecoveryTick` | the recovery workers over several transactions, the two statements of the SQL lease, backoff; on top of `RecoveryLease` |
| `MC...`, one for every run | instances for TLC: branch sequences, dependency graphs, sets of endpoints, callback contracts, symmetries |
| `CoordinatorProofs` | facts about records, copies and drivers, the shapes of a driver's step, and ownership of barrier keys for every kind |
| `TccProofs`, `WorkflowProofs` | the theorems about one kind |
| `SagaProofs` | the theorems about sequential and about concurrent Sagas |
| `MessageProofs` | the theorems about Messages and about the topics they are expanded from |
| `XaProofs` | the theorems about the XA coordinator and about `XaResource` |
| `StoresProofs` | the theorems about the five stores |
| `RecoveryProofs` | the theorems about the lease, the callback Workflow, the recovery tick and backoff |

### State and steps

`tx` is the stored record, `barriers` the barrier table, `expired` says whether `timeout_millis`
has elapsed, `drv` holds the drivers. A driver is one execution of a handler: `pc` says between
which two awaits it is, `op` which handler it runs, `pos` the loop position, `tx` its private copy.
`acked` and `effects` are history: the branch operations whose call returned Ok to the coordinator,
and those that took effect at the branch (a failed call may be in `effects` but not in `acked`).
`budget` holds what is left of the bounds on requests, calls, failures and crashes.

A handler becomes these steps: read the record and set the status on the copy (`Call`,
`StartChosen`), optionally store it (`StoreMark`), per branch take the barrier (`PrepareBranch`,
`ActionBranch`, ...), call the branch (`BranchOk`, `BranchErr`), release the barrier (`Release`),
store the copy (`SaveCopy`, `StoreProgress`, `Complete`, `HandOver`). A tick and `recover()` choose
a handler from the record they read (`Tick`, `Recover`), and the handler reads again, as in the
code. `Abandon` ends a handler between two steps: a dead process, a dropped request, a store error.

Two kinds of store: `Cas = TRUE` is Redis, whose `update_transaction` refuses a stale revision and
thereby ends the handler with an error; `Cas = FALSE` is memory, SQLite, PostgreSQL and MySQL,
whose `update_transaction` replaces the payload. `barrier()` is one atomic step, which it is for
memory (write lock), SQLite and Redis (script); what becomes of it in PostgreSQL and MySQL is the
subject of `Stores`.

A layer (`Layers`) replaces the loop over branches where `options.concurrent` is set: `EnterLayer`
takes the ready branches, `ClaimNext` their barriers one after the other, giving back what it has
(`Unclaim`) at the first that is held, `StoreLayer` stores them as Running, `TaskOk` and `TaskErr` are
the tasks in any order, and a failed one's barrier is released by `ReleaseFailed` when it is joined. The result is stored
only when all are joined. The parts of a layer (to claim, held, calling) are sets; where the code walks
them in declared order, the next branch is the one that `IsFirst` names. `ConcurrentSaga` chooses the ready branches from the dependency graph `deps`, forward for
actions and against it for compensations; `Message` takes all open branches at once.

`CallbackWorkflow` has no branches and no barriers, so it does not build on `Coordinator`. `wf` is the
stored record: status, reason (`rollback_reason` and result together) and progress by key. Progress,
completion and deferral are single steps, because every store makes them atomic (a row lock or a
compare-and-set with retries; the give-up after 16 lost comparisons is left out). The other operations
read and write in two steps, and instead of counting revisions `stale` names the drivers whose copy was
read before the last write, which is exactly when the comparison fails. A worker's tick is `Acquire`,
`List`, and the steps of the handler it chose; every write of a worker is checked against
`FenceHolds`, as by `RecoveryFencedStore`. With `Redis = FALSE` neither fence nor revision is checked.
`told` (completions a caller was told of) and `wrote` (epoch of the last recovery write) are history.
QueryPrepared is asked as the stored `contract` says: `CallbackProtocol` chooses HTTP, JSON-RPC or gRPC as
`workflow_callback_request` does, and `HttpResult`, `JsonRpcResult` and `GrpcResult` give the meaning of
statuses and codes; a contract that cannot be read defers the Workflow without asking.

`Stores` has one row, the barrier keys of one branch, and callers in the middle of an operation. Every
step is one statement: a compare-and-swap mutation of SQLite and Redis reads (`ReadPayload`) and swaps
(`CompareAndSwap`), PostgreSQL and MySQL lock (`SelectForUpdate`) and commit (`UpdateAndCommit`), a barrier
of the SQL stores inserts its key (`InsertBarrier`), looks for the opposite one (`CheckOpposite`) and
commits (`CommitBarrier`). `fresh` holds what a caller has inserted and not committed; others do not see it, but
wait for it when they insert the same key. In Redis the callers in `Recovery` go through
`RecoveryFencedStore`: after the lease was lost their swaps, barriers and releases are refused.

`XaResource` adds to `Xa` the business side: a process registers a branch (`RegisterXaBranch`, whose
reply may be lost) and prepares it (`PrepareLocal`) or fails, the caller submits when its function
returned (`GlobalTransaction`), phase 2 of the coordinator resolves the database's state (`PhaseTwoOk`,
`PhaseTwoErr`), and operators read the report, record an intent (two statements, `RecordIntent` and
`CompareIntent`), resolve, and store the outcome.

`RecoveryTick` reduces a transaction to what the tick looks at, and keeps what `Coordinator` leaves
out: the order of `list_transactions` by `updated_at_millis`, `next_retry_millis` as the time that is
left, and the `?` of the loop, which ends the tick. `stage` groups the statuses by what the tick does with
them; `Tcc` and `Callback` name the kinds whose handlers refuse something for ever, and every other
transaction may behave like any other kind. What a worker has still to do, `worker[w].todo`, gives
for each transaction that was due when it was listed the due ones before it and the handler chosen from the
listed copy, as in the code; the handler reads again, and `Accepted` are the stages it finds there that it does
not refuse. A handler is one step (`HandlerEnds`, `HandlerRetries` when a branch failed, `HandlerYields`
when a barrier was held, `HandlerErrs` when it returns an error and so ends the tick), because what happens
within it is the subject of the other modules. `RequestHandles` is a request that runs a handler whatever
the retry time is, the compatibility API with WaitResult or `recover()`. Two variables are history: `late`, the
workers whose tick has outlived its lease, and `meddled`, the transactions that a request or a late worker
called in vain since the holder of the lease listed them. The lease is taken by `RenewLease` (UPDATE) or
`InsertLease` (INSERT). The delay of a Message is in `Message`.

Abstractions: one transaction but in `RecoveryTick`; URLs, payloads, headers, metadata and errors are left out; time is
left out but in `Stores` (the clock of retention) and `RecoveryTick`: elsewhere a retry is due whenever it runs, and
`Expire`, `TimesOut` and `DelayPasses` happen at any moment, which
covers every timing and more. In `RecoveryTick` the clock jumps to the next retry, before which no time is
compared with anything. Attempts are not saturated.

## 3. Runs

For the kinds with branches: a worker and a client, the whole API of that kind
(`WholeApi`), the timeout, failing calls and a crash, all in one state space, with fairness. Two
conditions say for which behaviours a property is claimed: `WorkersOnly` (so far only recovery
workers called branches, and no handler was abandoned; clients may still register branches and store
decisions) and `Undisturbed` (moreover, no request at all). A property without a condition holds in
every behaviour of the run.

| Run | Store | Shows |
|---|---|---|
| `tcc` | Redis | In every behaviour: `BarrierExclusion`, `NoHangingTry`, the record implements the lifecycle (`LifecycleSpec`), registered branches are kept (`RegisteredKept`), and stored decisions are carried out (`DecisionsCarriedOut`, a commit unless it expires first). Workers only: ends are complete (`EndsComplete`), and Confirm and Cancel never both reach branches, even when the timeout races `schedule_submit` (`DecisionExclusive`). |
| `saga` | SQL | In every behaviour: actions are accepted in declared order and Succeeded means all were (`SagaComplete`), though writes are blind. Undisturbed: an abort compensates every accepted action (`CompensationComplete`) in reverse order (`ReverseOrder`), and the Saga ends (`SagaTerminates`). |
| `concurrent_saga` | SQL | In every behaviour: an action is called only once all it depends on were accepted, and Succeeded means all were (`LayerOrder`). Undisturbed: a branch is compensated only after everything that depends on it (`LayeredUndo`), and every graph that `submit` accepts ends, unless a barrier was leaked (`GraphTerminates`; its mutant accepts a cycle). |
| `workflow` | SQL | In every behaviour: a branch is accepted after its dependencies and Succeeded means all were (`WorkflowComplete`). Undisturbed: Aborted means rolled back, or recorded as not rolled back (`RollbackAccounted`), and the Workflow ends (`WorkflowTerminates`). |
| `message` | Redis | In order or concurrently. In every behaviour: nothing is delivered before the submit decision is stored, and the decision stays (`DecisionFirst`), nothing before the delay has passed (`NotBeforeDue`), and a submitted Message ends although it expires or drivers die (`DeliveryCompletes`, unless a concurrent one leaked a barrier), Failed or delivered: a concurrent one always to every branch, one in order while only workers have called branches. Workers only: in order and to every branch (`DeliveryComplete`). |
| `xa` | Redis | Workers only: every registered resource is reached (`EndsComplete`); without expiry, commit and rollback exclude each other (`XaExclusive`). |
| `xa_resource` | Redis | Succeeded means that the database committed every branch an operator left alone (`CommitComplete`); a branch stays prepared only if it was prepared after phase 2 had called it, or request and worker ran phase 2 together on an expired transaction (`OrphansExplained`); operators' decisions are unique per branch and their outcomes true (`DecisionsHonest`). |
| `callback` | Redis | Two workers and a client. The caller, QueryPrepared, the timeout and administrators race for the end, workers take over from each other while writes are under way. In every behaviour: the first end is final (`EndIsFinal`), a completion a caller was told of stays (`CompletionHonoured`), progress is kept (`ProgressKept`), recovery writes follow the epochs (`EpochOrder`), and an elapsed timeout ends the Workflow unless an abort was scheduled (`TimeoutEnds`). |
| `stores` | all five | A mutation that returned Ok is only lost to a blind `update_transaction`, which Redis does not have (`MutationsKept`); `barrier()` lets one caller at a time execute, and none after a success (`BarrierOnce`); a Try after a Cancel that was told to skip is possible in PostgreSQL and MySQL if the two overlapped, and nowhere else (`NoTryAfterNull`); retention deletes only what is expired at that moment, and Redis does not bring it back (`RetentionSafe`). |
| `topics` | SQL and Redis | The subscribers are exactly the acknowledged ones, and no Message goes to one twice, unless the topic was deleted and created again under an update (`SubscribersExact`); the error of contention means that others really got in between as often as there are attempts (`ContentionHonest`). |
| `tick` | SQL | Two workers tick at the same time only after a tick outlived its lease, and a failed branch is called before its retry time only if its transaction expired, or a request or a late worker called it in vain after the list was taken (`OneWorkerAtATime`); delays grow to their limit, also where the product saturates (`BackoffGrows`); every transaction with which the tick has something to do is handled again and again, unless one whose handler always refuses it ends every tick: an expired TCC transaction with a commit decision, or an expired callback Workflow that was aborted (`NoneStarved`). |

One run must find a violation of what a document of the repository says (`findings` in
`PROJECT.json` quotes it): `tcc_expired_commit` shows that an expired Succeeding TCC transaction is only
ever cancelled, which is refused, so that its commit is never carried out (`CommitCarriedOut`).

What a crash, the timeout, a direct call or a blind write breaks is checked under the condition in which
the code keeps it. Outside the condition the models show the following, which the conditions above
(`WorkersOnly`, `Undisturbed`, `~expired`, `overlapped`, `revived`, `late`, `meddled`, `AlwaysRefused`, `Leaked`) exclude by name:

- After a crash with a compensate barrier held, `abort_saga` returns at that branch on every tick and
  the Saga never ends (`lib.rs:3870`).
- An abort stored while `start_saga` is calling an action makes the write of the accepted action fail
  (Redis); `abort_saga` sees the branch Pending and does not compensate it (`lib.rs:3840`).
- A rollback of a Workflow that failed once stays Compensating, which the next `abort_workflow` skips
  (`lib.rs:4473`, `4490`).
- `rollback_xa` of an expired transaction stores nothing before it calls resources; `schedule_submit`
  may store Succeeding in between, and one transaction is rolled back and committed (`lib.rs:4739`). A
  request's rollback beside the worker's skips the branch whose barrier the other holds, and may store
  the end first.
- `schedule_abort` stores Aborting for a callback Workflow, which the tick then skips and the timeout
  refuses (`lib.rs:3627`). Once it has expired, the refusal ends every tick that reaches it (`lib.rs:4980`),
  and no tick touches it: the transactions listed after it are starved.
- A layer that is abandoned, or whose write as Running is refused, leaves its barriers behind: a concurrent
  Saga or Message is then never finished, because every later driver returns at the first of them.
- A concurrent Saga that gives up skips the branch whose attempts are used up, although its last call may
  have taken effect; the sequential one compensates it (`lib.rs:4013`).
- In PostgreSQL and MySQL a Try and a Cancel that overlap do not see each other's key: the Cancel may be
  told that there is nothing to cancel and the Try to execute (`lib.rs:2701`).
- The upserts of the memory and SQL stores write a purged transaction again if a handler had read it.
- A topic that is deleted and created again starts at version 1, so that an update that had read the old
  one may be accepted (`kv.rs:52`).
- `registerXaBranch` comes before PREPARE, and phase 2 answers AlreadyResolved for what is not prepared:
  a PREPARE that is late leaves a prepared branch that only `reconcile` finds (`xa.rs:261`).
- The tick judges the retry time of the copy it listed, and no handler looks at it again (`lib.rs:5007`): when a
  request, or a worker whose tick outlived its lease, calls a branch in vain after that, the tick calls it
  again at once.
- The tick ignores backoff for expired transactions, and an expired Succeeding TCC transaction at the head
  of the list keeps every later one from being handled, since `cancel_tcc` does not touch it (`lib.rs:4977`).
- A tick that outlives its lease works beside its successor, although `docs/dtm.md:180` says that one
  instance runs recovery at a time; in Redis its writes are fenced, its branch calls are not.

And some that concern single handlers:

- `confirm_tcc`, `commit_xa` and `rollback_xa` called directly reach branches while the stored record
  still says Prepared; only the scheduled path stores the decision first.
- A Try that took effect but whose answer was lost releases its barrier, so that the Cancel that
  follows is answered as null.
- A crash while a delivery, Confirm, commit or rollback is being called leaves the barrier; the next
  handler gets SkipDuplicate and takes the branch for done.
- With blind writes a handler that read the record before a registration drops the new branch.
- `recover()` restarts `prepare_tcc` and `confirm_tcc` from Trying and Succeeding.
- With blind writes a handler that was running also undoes `force_stop`, a terminal status, a
  Message's submit decision, or an abort of a Saga.
- A `dispatch_message` that finds a barrier held by another driver stores Succeeded while that call
  may still fail.
- `abort_workflow` follows the reverse declared order, which is not the reverse of the dependencies
  when a branch is declared before one it depends on.

### Bounds

Two branches in the runs of the sequential kinds, in order (Saga, Message), declared against their
dependency (Workflow), or one from the start and one that registers later (TCC, XA). One worker, the
holder of the lease, and one client; the proofs cover any number of clients, and of workers where they
do not assume `OneWorker`. `MaxRequests` (requests that
only read and write the record: scheduled decisions, registration, admin operations) is 1 or 2, enough
for a registration or a decision followed by a counter-decision; `MaxCalls` (requests that run a handler
with branch calls) is 1, so that a direct call races the worker; `MaxFailures` is 1 or 2 and
`MaxAttempts` 1 or 2, so that calls are retried and attempts are exhausted; `MaxCrashes` is 1: after
a crash the barrier it left is what matters, and a second one adds no new kind of state. The bounds
limit events, not states: ticks are unbounded. Saga and Workflow run without revisions, because
every tick on an unfinished Saga stores a new one.

`concurrent_saga` has three branches, so that a layer of two follows one of one against the declared
order; `MaxEvents` bounds requests, failures and crashes together. `callback` has two workers, one lease that runs out
(the delayed worker, its successor, and the delayed worker's return are the three holders that
matter), three requests, of which any number may be progress, completions, aborts or admin operations,
one progress key with two values, one crash, and three contracts; JSON-RPC includes the HTTP statuses.
`stores` has three callers, so that two race while a third reads or purges, two mutations, four
operations, two attempts of a swap instead of 16, one crash, one lease and a clock of three units for
retention times of one and two. `topics` has two attempts instead of 64, so that contention is reached.
`xa_resource` has one branch, which is enough because phase 2 and decisions treat branches separately, two
processes that both try to run it, two operators and two decision ids. `tick` has two workers and two
transactions, one TCC and one callback Workflow, which are the kinds that may starve the rest, while the proofs
cover the others; one event (`MaxEvents`: a store call that fails, a worker that dies while the other stays up, a
tick that outlives its lease, a request that runs a handler, an abort or a `reset_retry`), so that each meets any
number of ticks, failing branches, commits and timeouts; and an arithmetic in which the second delay already
overflows: `MaxU64 = 3`, `MaxShift = 1`.

Deadlock is not checked: an ended transaction with nothing left of its budget really stops.

### Fairness

Weak fairness of `Tick(d)` for every worker: the recovery service function in `main.rs` ticks on an
interval until shutdown, and a lost lease is taken again when it expires. Weak fairness of
`HandlerStep(d)`: a handler that is running is a future that the runtime polls, and every branch
call has a timeout, so it succeeds or fails. Whether a call fails is a budget, not fairness: with
finitely many failures some retry succeeds. In `tick` calls may fail forever, leases run out (`LeaseLapses`), the clock
runs (`TimePasses`) and handlers return. Clients are never assumed to do anything. In `CallbackWorkflow`
a tick is `Acquire` and `List`, both weakly fair; that a lease runs out is never assumed, and a worker
that was abandoned ticks again under its id, which renews its lease.

## 4. Proofs

Checked by TLAPS, for all sets of branches and drivers and all bounds. A theorem holds for both kinds of
store and for any number of workers unless its hypothesis says `Cas` (the store compares revisions, as
Redis does) or `OneWorker` (at most one recovery worker at a time, what the lease is for; API requests
may still come from any number of clients). The runs check the same properties on instances.

| Module | Theorem | Hypothesis | States for every instance |
|---|---|---|---|
| `TccProofs` | `TypeCorrect`, `OwnershipHolds` | | types, control, who owns which barrier key |
| | `BarrierExclusionHolds`, `NoHangingTryHolds` | | `BarrierExclusion`, `NoHangingTry` |
| | `EndsAreComplete` | `OneWorker` | `EndsComplete` |
| | `CasInvHolds`, `LifecycleRefined`, `RegisteredKeptHolds`, `DecisionExclusiveHolds` | `Cas` | fresh copies, `LifecycleSpec`, `RegisteredKept`, `DecisionExclusive` |
| `SagaProofs` | `SagaTypeCorrect`, `SagaBarrierExclusion`, `SagaCompleteHolds` | | types, exclusion, `SagaComplete` |
| | `ReverseOrderHolds`, `CompensationCompleteHolds` | `OneWorker` | `ReverseOrder`, `CompensationComplete` |
| | `LayerOrderHolds` | | `LayerOrder`, for every dependency graph |
| | `LayeredUndoHolds` | `OneWorker` | `LayeredUndo`, for every dependency graph |
| `WorkflowProofs` | `WorkflowTypeCorrect`, `WorkflowBarrierExclusion`, `WorkflowCompleteHolds` | | types, exclusion, `WorkflowComplete` |
| | `RollbackAccountedHolds` | `OneWorker` | `RollbackAccounted` |
| `XaProofs` | `XaTypeCorrect`, `XaBarrierExclusion` | | types, exclusion |
| | `XaEndsComplete` | `OneWorker` | `EndsComplete` |
| | `XaLifecycle`, `XaExclusiveHolds` | `Cas` | the lifecycle, `XaExclusive` |
| | `DecisionsHonestHolds` | | `DecisionsHonest` of `XaResource`: operators, processes and coordinator together |
| | `CommitIsComplete`, `OrphansAreExplained` | `Cas`, `OneWorker`, `OneRequest` | `CommitComplete`, `OrphansExplained` of `XaResource` |
| `MessageProofs` | `NotBeforeDueHolds` | | `NotBeforeDue`, in order or in layers |
| | `MessageLifecycle`, `DecisionFirstHolds` | `Cas` | the lifecycle, `DecisionFirst`, in order or in layers |
| | `DeliveryCompleteHolds` | `OneWorker` | `DeliveryComplete`, in order or in layers |
| | `SubscribersAreExact`, `ContentionIsHonest` | | `SubscribersExact`, `ContentionHonest` of `Topics`, in both kinds of store |
| `StoresProofs` | `StoresInvHolds`, `MutationsAreKept`, `BarrierExecutesOnce`, `NoTryFollowsNull`, `RetentionIsSafe` | | the four properties of `Stores`, for any number of callers of any of the five stores |
| `RecoveryProofs` | `TypeCorrect` | | types |
| | `EpochsOrdered`, `CompletionsHonoured`, `EndsAreFinal`, `ProgressIsKept` | `Redis` | `EpochOrder`, `CompletionHonoured`, `EndIsFinal`, `ProgressKept` |
| | `OneWorkerHolds`, `BackoffAlwaysGrows` | | `OneWorkerAtATime`, `BackoffGrows` of `RecoveryTick`, for every backoff, limit, shift and word size |

### Assumptions

They are the named `ASSUME`s of the modules, evaluated by TLC in every run. Most only type a constant.
Those that say more: `SagaAssumption`, no branch id occurs twice in the list a Saga is submitted with
(the control plane rejects a repeated id, `main.rs:3245`, and numbers the branches of compatibility
requests itself, `main.rs:2517`); without it a branch would be both before and after itself.
`WorkflowAssumption` types the dependencies; that they are acyclic is not assumed, a cycle only means that
nothing is ready. `MessageAssumption` says the same of a Message's branches, which `submit` checks
(`lib.rs:3424`). `RecoveryTickAssumption` bounds the configured delays by the largest u64, which is their
type, takes the base delay to be positive, which the service checks at start (`main.rs:119`), and takes TCC
transactions and callback Workflows to be different transactions. That a branch has the URLs its handlers need is taken for
granted, because the control plane checks it (`main.rs:3255`): no handler fails for ever for the want of one. `XaResourceAssumption` keeps the model's "none" out of the branch ids.

The hypotheses of theorems are conditions on the deployment. `OneRequest` (`MaxCalls = 1`) is what
`xa_global_transaction` does: it makes one request that runs phase 2, a commit or a rollback. With more,
or with two workers, two drivers of phase 2 may run beside each other, and one takes the barrier that the
other holds for an accepted call; a blind write may drop a branch that was registered meanwhile.

### The argument

*Shapes.* The handlers of TCC, Saga, Workflow and XA differ in which status they set and where they go
next, not in how they touch the record and the barrier table. `CoordinatorProofs` therefore names the
shapes a driver's step can have: it chooses a handler, reads the record (`Takes`), moves on its copy,
claims a key, is accepted or rejected by the branch, releases, writes its copy, is handed over, or is
abandoned. Each proof module first shows that every action has one of these shapes, with the facts about
status and position that its kind adds, and then proves each invariant once per shape.

*Ownership.* `CoreInv` is shared: types, a driver in flight is at a branch of its own copy
(`PositionInv`), it alone owns the key of its call, which is in the table and not accepted, while accepted
keys stay in the table (`KeysInv`), and budgets do not exceed their bounds. `BarrierExclusion` follows. It
holds with blind writes, because barriers and not the record carry the exclusion. `ControlInv` of each
module ties program counter, handler and status of the copy together; without it a driver that writes
Succeeded might be anywhere. TCC adds `NullInv`: a Cancel that was answered as null has its key in the
table, unowned, and there is no try key. `NoHangingTry` follows.

*Forward completeness* (`SagaComplete`, `WorkflowComplete`), for any store, any drivers and crashes: in
`ProgressInv` whatever copy of the record shows a branch as Succeeded, the branch was accepted, and so was
everything the running loop has passed, or the dependencies of the branch in flight. A stale write can
therefore lose progress but not invent it. That the Workflow's next branch is the first ready one uses a
least element of a set of positions.

*Complete ends* (TCC, XA), while only workers call branches: `SettledInv` says that a key in the table was
accepted, is in flight or answered a Cancel as null, so a loop that skips a key as duplicate skips what is
done; this needs one worker, since with two the other may still be calling. `PassedInv` carries it along
the loop, `EndInv` (TCC) to the stored record.

*Undoing* (Saga, Workflow), undisturbed: `TurnInv` says that who runs is a worker and in which direction,
`RecordedInv` that the record lags behind the accepted branches by at most the one being saved, and
`UndoneInv` (Saga) or `HeldInv` with `PassedInv` (Workflow) that in the reverse loop what is ahead is as
stored and what is behind is done with.

*Fresh copies* (`Cas`): `CasInv`, in `Message` `CopyInv`: no copy is newer than the record, and one with
the record's revision was taken from the record as it is now, so that its status is a legal successor and
its branches are the stored ones. An older copy cannot be stored. With it every step maps to a step of
`TransactionLifecycle` or a stutter. `DecidedInv` adds that who is about to call branches acts on a stored
decision that no accepted write can take back, which gives `DecisionExclusive`, `XaExclusive` and
`DecisionFirst`. `NotBeforeDue` needs only `DueInv`: nobody is past the check of the delay before it has
passed. `MessageProofs` has shapes of its own, because a step may be a layer's.

*Operators* (`DecisionsHonest`): in `RowsInv` rows are one to a branch, a row stored as applied belongs to
a branch that was resolved, and a completed one is `Explained`: the branch is not prepared, or was prepared
later. `OperatorsInv` says the same of what an operator is about to store, between its statements.

*Stores*: `StoresInv` says which statement is reached in which store and what a row lock protects
(`ControlInv`), who owns an uncommitted key and that two are uncommitted only if their calls overlapped
(`FreshInv`), which copies Redis would accept (`RedisInv`), and that what a caller found out about the
opposite key is still true when it commits, unless two calls overlapped (`NullInv`).

*Callback Workflow*: `EpochOrder` is not inductive; `EpochInv` adds that no fence and no recovery write is
ahead of the lease, so that an accepted write, whose fence equals the lease's epoch, is not behind the last
one. `CopyInv` says that a copy whose write would be accepted was read from the record as it is now and
before it ended. A write therefore neither replaces an end nor drops progress; a told completion is an end,
so it stays.

*Layers*: in `OrderInv` every copy of the record is truthful, as in forward completeness, and a driver's
layer only has branches whose dependencies were accepted; nothing else is needed for `LayerOrder`, so it
holds with blind writes and any number of drivers. For `LayeredUndo` one driver is at work (`RunsAlone`):
its copy and the record show exactly which operations were accepted but for the tasks that are under way,
a branch outstanding in the layer is still open in the record, and a branch is in a compensating layer
only if all that depends on it is compensated or never was accepted (`Unneeded`).

*Delivery*: in `DeliveryInv` a copy shows a branch as Succeeded only if it was accepted (`Confirmed`), and
the layer of a concurrent Message covers every open branch, so that a layer whose calls have all ended well
leaves none open. In order, `InSequence`: everything behind the worker's position was accepted, and so was
every branch whose barrier is set but the one being called, which is why a duplicate may be skipped.

*XA from end to end*: before the timeout, phase 2 has one driver at a time, the request or the worker
(`AloneInv`), so the argument of complete ends applies although a client calls. A branch is in the record
before it is prepared, and one process has its local transaction (`RegisteredInv`); an accepted phase-2
call was executed, and what it left prepared is explained (`CalledInv`); what the caller reported as
ready stays prepared until the commit commits it, unless an operator decides (`CommitInv`).

*Topics*: `ContentionInv` counts: a caller that lost n attempts has missed n changes, and one more if the
entry is not what it read. `SubscribersInv` numbers the lives of a topic: a copy is of another life, older,
or the entry itself, so that a version comparison that succeeds within one life compares contents.

*Tick*: `LeaseHeld` says that who ticks and is not late holds the live lease, so that there is one, and that
what is left on its list is `InTime`: due, expired, ended, or called in vain by somebody else since it was listed. A
retry time is only set by a failed call (`RetryStep`): one of the holder takes the transaction off its
list, one of anybody else is recorded in `meddled`. `BackoffGrows` needs that the shifted factor grows: that the function of
powers of two exists and doubles is shown by a least counterexample, since induction theorems cannot be
applied; saturation then only cuts at the word size and at the limit.

### Only model-checked

- Everything temporal under fairness (`DecisionsCarriedOut`, `SagaTerminates`, `GraphTerminates`,
  `WorkflowTerminates`, `DeliveryCompletes`, `TimeoutEnds`, `NoneStarved`): beyond the prover.

Every other property that a passing run checks is a theorem.

## 5. Not modelled, and the plan

Not modelled:

- the audit history, a bounded ring in memory that the coordinator never reads;
- the format of identifiers. The resource id of an XA branch joins gid and branch id with `-`, which
  both may contain (`xa.rs:224`); the models use ids that differ;
- the clients but for the XA calls of the HTTP client, URL policy and TLS, alerts, metrics, OpenAPI and
  the dashboard, which hold no coordinator state;
- clocks that differ between instances: the SQL leases compare the caller's clock with the one that
  wrote the expiry, the models have one clock;
- the reuse of a gid after its transaction was purged.

Left for the proofs: barrier exclusion with layers, where a driver owns the keys of all the branches it
holds; the lifecycle of a concurrent Saga; and the composition of the lease with the kinds of
transactions, so that `OneWorker` is a theorem about the tick and not a hypothesis.
