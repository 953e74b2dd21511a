# Formal models of PygmyHippo

PygmyHippo is a durable workflow engine on Postgres: a run of a workflow is a row, workers claim runs under
leases, execute one step at a time and commit each step in one statement. This directory holds TLA+ models
of the engine, the TLC configurations that check them on small instances, and proofs that TLAPS checks.
Paths are relative to the repository root; SQL lines are those of `src/sql/workflow-store.sql`.

## 1. The system

| Component | State it keeps | Operations | What is hard |
|---|---|---|---|
| Run rows (`src/sql/workflow-store.sql`, `src/lib/store/*`) | one row per run: status, current step, lease owner and expiry, available_at, cancel request | one SQL statement per transition, most guarded by step + owner + unexpired lease | guards that test less than they seem to; statements that nobody guards |
| Run loop (`src/lib/engine/run-loop.ts`) | locals of a tick: the claimed run, the attempt | claim, execute one step, commit; catch block: retry or fail | leases that expire under a working process, crashes, lost replies, shared worker ids, operators in between |
| Attempts (`src/lib/store/attempts.ts`) | per run, step and kind a numbered list | begin (under no lease), complete, fail | the numbering counts the attempts of crashed and superseded workers and of earlier visits |
| Waits, callbacks, signals (`src/lib/store/waits.ts`, `signals.ts`) | wait rows with a unique correlation key; signal rows | open, resume, expire, create and consume a signal | lost wakeups, double resumes, non-atomic expiry in several processes at once, a crash between two statements |
| Children and fan-out (`run-loop.ts`, `src/lib/engine/fan-out.ts`) | parent links, one wait per child | start children, open waits, settle, join | a child that ends before the wait opens, failed children, fail-fast races |
| Transactional tasks (`src/lib/store/execution.ts`) | one database transaction around the body | lock, check lease, savepoint, body, commit | bodies that outlive their timeout, clocks that differ, two attempts per execution |
| Compensation (`run-loop.ts`, `compensateRun`) | compensation attempts | walk completed steps backwards | no lease: races with retry and with a second compensation; crash half-way; an undoing that is done and reported as failed |
| Budget (`src/lib/store/usage.ts`, `budget.ts`) | usage rows, one counter per resource, a cost | record, total, exhaust the run | under no lease, also from superseded bodies; three statements that commit one by one |
| Outbox (`src/lib/outbox.ts`) | outbox rows with `available_at` | enqueue, claim a batch for 30 s, hand over, mark | a crash between handing over and marking; batches slower than their claim |
| Schedules (`src/lib/scheduler.ts`, operator routes) | per schedule: active, next fire time | claim what is due and move it on, start the runs; create, pause, resume, delete | claim and start commit apart; two clocks; requests that read first and write later |
| Loops and shutdown (`src/lib/worker.ts`, `notifier.ts`, `recovery.ts`, `scheduler.ts`, `outbox.ts`, `process-runtime.ts`) | per loop `active`, `inFlight`, a timer; `wakeRequested` | poll, wake on NOTIFY, stop, end the pool | wakeups during a pass, passes that reject, a shutdown beside all that |
| Event stream (`src/routes/workflows.ts`) | per connection `lastEventId`, `sending` | open, read and send, poll, notifications | ids are drawn at the insert and events visible at the commit |
| Recovery loop (`src/lib/recovery.ts`) | none | requeue expired leases, expire waits | races with claims and callbacks |
| Keyed starts (`src/lib/store/runs.ts`, `startRun`) | one row per workflow and idempotency key | look, insert or conflict, look again | concurrent starts, one of which is rolled back |
| Rewind, fork, termination (`runs.ts`, `branchRun`; `src/routes/workflows/operator-routes.ts`, `helpers.ts`) | parent and superseded_by links | branch a run, walk down a tree and cancel | the tree grows while it is walked |
| Registry, loader, other routes, dashboard, CLI, tracing, tokens, key-value store | code and I/O | — | not modelled |

Components interact only through the database: a worker, an operator route, a callback and the recovery
loop each run statements on the same rows, and only the rows survive a crash.

What makes each modelled component correct:

- **Run loop**: a commit lands only under the latest claim; a visit of a step completes once; an attempt settles
  once; a terminal run stays as it is; the retry policy bounds the attempts; a started run settles.
- **Waits**: each visit of a step is decided once, by whoever comes first; a waiting run has something that ends its waiting; a signal
  is not lost; a terminated run is not reached by what comes later.
- **Joins**: the parent goes on with its quorum or all results, and not before; a child is started once; the
  parent does not wait for ever; a termination takes the whole tree down.
- **Transactional tasks**: the writes of the body are committed exactly with the step.
- **Compensation**: completed steps are undone in reverse, and no more often than deaths, late errors and overlapping walks account
  for; failures escalate; nothing is left behind.
- **Outbox**: a message is delivered at least once, and again only for a fault or a claim too short for its batch; in the
  end it is delivered.
- **Schedules**: an occurrence starts one run, whatever the number of processes, but for resumes and for claims by a clock that
  is behind; what is claimed is started but for crashes.
- **Loops**: a wakeup that comes during a pass is followed by another pass; the pool is ended after the last pass.
- **Budget**: a run that is ended for its budget has exceeded it, and one that has exceeded it does not go on.
- **Event stream**: a client gets every event, across reconnections and lost notifications.
- **Keyed starts**: all requests with one key are answered with one run, which was announced once.
- **Trees**: what was terminated or rewound stays down, with everything below it.

## 2. The modules

| Module | Models | Extends |
|---|---|---|
| `RunStore` | the row of a run and the statements on it, one operator for each WHERE clause and each SET clause | – |
| `DurableRun` | the abstract specification: what a client sees of a run, with no worker, lease or crash | – |
| `RunLifecycle` | the run loop of a fleet, operators, recovery, crashes and lost replies; refines `DurableRun` | `RunStore` |
| `WaitProtocol` | waits, callbacks, signals, heartbeats, any number of expiry passes of three statements | `RunStore` |
| `ChildJoin` | a parent at a child or fan-out step, its children, their wakeups, expiry and termination of the tree | `RunStore` |
| `TransactionalTask` | one transactional step: the locked row, the savepoint, the body's write, the COMMIT | `RunStore` |
| `Compensation` | `compensateRun` in the worker that failed the run and in the request that terminated it | `RunStore` |
| `Outbox` | `workflow_outbox` and its drainers | – |
| `Schedules` | `workflow_schedules`, the scheduler loops with their clocks, and the requests of operators in two halves | – |
| `ProcessLoops` | flags and timers of the four loops of a process, the listener, and the shutdown | – |
| `UsageBudget` | recordUsage statement by statement, and the pending usage of a transactional body | – |
| `EventStream` | the server-sent events of one run beside the transactions that write them | – |
| `StartRun` | startRun with idempotency keys, statement by statement | – |
| `RunTrees` | trees of runs: children, rewind, fork, termination, retries | – |
| `RunStoreProofs` | lemmas that the proofs share: the statements keep the type of the row; sequences | `RunStore` |
| `RunLifecycleProofs` | types, leases, successors, attempts, and that the run loop implements `DurableRun` | `RunLifecycle`, `RunStoreProofs` |
| `WaitProtocolProofs`, `ChildJoinProofs`, `TransactionalTaskProofs`, `CompensationProofs` | theorems about the module they are named after | the module, `RunStoreProofs` |
| `Services` | composes `Outbox` ... `RunTrees`, and an instance of `RunLifecycle` with fairness | those modules |
| `ProcessProofs` | theorems about what a process runs beside its engine: `Outbox`, `ProcessLoops`, `Schedules` | the modules |
| `ServicesProofs` | theorems about what requests do beside it (`StartRun`, `UsageBudget`, `RunTrees`, `EventStream`), and about the composition | `Services`, `ProcessProofs` |
| other `MC*` | instances for TLC | the module |

The engine's modules share `RunStore` because they share the row: each has all the statements that reach the row in its own
situation. The seven modules around the engine share no row with each other, so `Services` does not interleave them: a
behaviour belongs to the service that it has chosen at its start, and the others rest in their initial states. A product
of the seven would multiply their states and say nothing more: by the theorem `ServicesStayApart` a behaviour of `Services`
is one of each of them by itself.

### How state and actions correspond to the code

*The row.* `Row` keeps the columns the statements test: status, current_step_key, lease_owner, cancel_mode, and
of the timestamps only their comparison with now(): `lease` is "none", "live" or "expired", `due` is whether
available_at has passed. Context, input, result and error are left out, and so is the pool of task queues:
`Claim` may take any claimable run, so every order of priorities is covered.

*Grain.* An action is one statement that commits by itself, or one `withTransaction` block. Postgres runs these at
READ COMMITTED, and the blocks lock the row they decide on (`FOR UPDATE`), so they are atomic for the rows modelled.
Where the code has several statements without a transaction (`consumeSignal` then `advanceTaskStep`; the three of
`expireOpenWaits`; start of the children then `openFanOutWaits`; the children of a termination, one by one;
`compensateRun`) every statement is an action and the process may die between two of them. In `TransactionalTask`
the transaction itself has several steps, because what happens while it is open is the question; the lock is
`Unlocked`, a conjunct of everyone who updates the row.

*Memory.* What a process keeps between two statements is its record (`worker[w]`, `expirer[e]`, `terminator`,
`process[p]`), which a crash resets. `expirer[e]` is one pass of `expireOpenWaits`: every process runs a recovery loop
(`process-runtime.ts:148`) and a route runs a pass of its own (`operator-routes.ts:445`). The SELECT of a pass (SQL:1366)
commits by itself, so two passes may hold one wait. `process[p]` of `Compensation` is `compensateRun`: the handler returns,
the attempt is completed by a statement (`CompleteStepAttempt`), and the calls after that one may still throw (`CompletionErrs`),
which sends the walk to its catch block; `FailStepAttempt` tests no status (SQL:402), so the completed attempt becomes a
failed one. `WorkerRecord` of `RunLifecycle` is the locals of `continueRun`: the run as it
was claimed, its step and its attempt. `HoldsLease` is the guard of every commit, and tests no more than the code
does: step, owner, unexpired lease; neither the status nor the attempt.

*Around the engine.* The queue of the outbox is the order of `available_at`, and `outboxDue` how much of it is due; a claim puts
its batch at the end. A time of `Schedules` is the number of an occurrence of the cron expression; `Skew` is how far the
clock of a process is from the database's, since `ClaimDueSchedules` (SQL) looks at the one and `getNextFireAt` at the
other. In `ProcessLoops` an action is what JavaScript does between two awaits, and `ticking` counts the passes that really
run, beside the flag that the code keeps about them. `EventStream` gives a transaction three moments, because `created_at`
is drawn at its begin, the id at the insert, and visibility comes with the commit. In `StartRun` a statement sees what was
committed when it began, and an insert waits for whoever holds the key open. `RunTrees` numbers the rows in the order of
their insertion, which is the order in which a walk lists them.

*Coarser than the code.* `BeginStepAttempt` of `RunLifecycle` is atomic, while `insertAttempt` (`attempts.ts:37`) reads the last
number before it locks the row: two begins may collide, and one of them fails. `TransactionalTask` has this (`BeginRaced`).
`RunTrees` has one termination walk at a time. `ContinueAsNew` has no lost reply of its own: the source row is completed, so
whatever the worker does next fails its guard.

*History.* Variables marked "history" (`handedOver`, `claimedAt`, `startedAt`, `setBacks`, `owed`, `answers`, `stopped`, `excused`,
`strayed`, `visits`, `outcomes`, `forsaken`, `walks`, `undoings`, `errors`, `overlapped`) are read by no guard but those that keep
to a bound; properties need them.

*Time.* `LeaseExpires` and `BecomeDue` stand for the clock. A lease may expire at any moment, also under a process
that goes on working (its heartbeats failed, or it was paused).

*Definitions.* `Kind` and `Transitions` are the workflow definition; the theorems hold for every definition, the
runs use small ones with a loop or a branch.

## 3. The runs

Bounds are constants named in the modules, with the comment "bound:". Those of the engine: `MaxClaims` (claims of a run),
`SlowClaims`/`MaxSlow` (leases a working process outlives), `MaxFaults` (crashes, failed calls, lost replies), `MaxThrows` (in
`WaitProtocol`: bodies that throw, which are no faults there), `MaxRetries` (operator retries), `MaxWaits`, `MaxWalks` (failures and terminations of a run).

| Run | Instance | Shows |
|---|---|---|
| `lifecycle` | one run, two workers, a task that polls (loop), a sleep, an end; 4 claims, 1 fault, 1 retry | commits are exclusive, attempts settle once, terminal rows stay, the run loop implements `DurableRun` |
| `roll` | two runs, two processes with one HIPPO_WORKER_ID, continue-as-new; 2 claims each | the chain of successors does not fork and rows move as a durable run may, even when the owner test tells nobody apart |
| `graceful` | violation | a graceful cancellation does not stop the run at the boundary |
| `waits` | human task or agent, then signal; two workers, two passes of the expiry, one signal, 3 waits, a crash, a body that throws, a retry, new keys | a visit is decided once; hard termination closes waits; a waiting run has a reason; no signal is overlooked |
| `waits_live` | the same with one pass, two signals, a body that throws, a slow lease, no crash, no retry; fairness | the run comes to rest |
| `joins` | fail-fast fan-out of two, quorum one, timeout; crash, retry | the parent does not leave early; a child is started once |
| `joins_live` | fan-out of two, timeout, no crash, no retry, fairness | the expiry makes up for every lost wakeup |
| `fail_fast` | violation | a failed child ends no join |
| `transactional` | two workers, late bodies, swallowed budget errors, clocks that differ, 2 faults, 2 slow leases, 1 retry | completed at most once and with its write; effects match completions until something strays |
| `transactional_timeout` | violation | a body that timed out writes on |
| `compensation` | 4 steps (two handlers, a wait), two workers, an operator, two walks, a crash or late error, a retry | in reverse, undone and failed no more often than what happened accounts for, escalated, nothing left behind |
| `services` | one instance of each module around the engine, and of `RunLifecycle` with fairness; bounds below | delivery, cron, wakeups and shutdown, budgets, streams, keyed starts, trees, and that every started run settles |

Why the bounds are enough: every hazard that `PROJECT.json` lists for the engine takes two processes and one fault, and the longest
(a crashed worker, a successor whose lease expires, and the first one's late commit) takes three claims, two
slow leases and a fault. A second worker is the smallest fleet in which a lease changes hands; a third one
would only repeat the second's part, because no statement looks at more than the current owner. Two
passes of the expiry are the fewest that hold one wait, and a third one finds what the second found. The
loop of `lifecycle` brings a run back to a step it has visited, where numbering and reuse go wrong first.
Two handlers and a wait are the smallest run in which order and the place of the failure matter.
Mutants of the mapped definitions (operators commented "Mutant:") make every property fail.

The instances of `services` (410 000 states in all):

| Service | Instance | What the bounds let happen |
|---|---|---|
| outbox | two drainers, three messages of which one has no handler, batches of two, one claim too short, one fault | two drainers with the same message at hand; a mark behind another drainer's; a message in the way of those behind it |
| schedules | two processes, one a fire time behind the database and one ahead, a schedule with a definition and one without, times 0 to 2, two requests, one claim per schedule by the clock behind, one fault | both loops claim one occurrence; a claim opens the occurrence it has claimed once more; a resume that was read before a claim is written after it; a crash with a list of claims half started |
| loops | the worker loop and three timed ones, of which the outbox loop has no catch | wakeups before, in and after a pass, beside each step of the shutdown |
| usage | two calls, two resources of which one is limited, a cost limit, four usages, one fault | both calls insert before either totals; a transaction that is told, and rolled back, beside a call that commits |
| stream | two transactions of which one notifies before its commit, one broken connection | ids and commits in opposite orders; a notification that finds nothing; one that arrives while the stream is sending |
| start | three requests with one key, three rows, two rollbacks | the row that others wait for is rolled back twice |
| trees | four runs, two requests, one starting worker, one event | a walk over two levels while a child is inserted behind it, or beside a rewind |
| run | one run, two workers, a task with two attempts, a sleep, an end; 9 claims, two crashes, one slow lease, one retry | every claim, crash and retry that the bounds leave, with claims to spare, so that no bound stands for progress |

Why these are enough: a drainer and a scheduler test nothing but the row, so a third process does what the second
does; the orders of two transactions are all the orders in which an id and a commit can differ; and the shortest
run of each hazard in the last column is shorter than the bound.

All runs set `CHECK_DEADLOCK FALSE`: a run that is settled, with idle workers, has no step left, and the modules around
the engine stop at their bounds. Symmetry between workers is used only where no liveness is checked.

### Fairness

- `WF(WorkerStep(w))`: a process that has begun a tick goes on with it unless it dies; nothing in `continueRun` waits
  for another actor, and its timers are set by `startWorkerLoop`.
- `WF(Claim)`, of some worker: `startWorkerLoop` polls for ever (`src/lib/worker.ts:24`), so a run that stays claimable
  is claimed. It is weak and per run: claims are ordered by priority and age, so starvation would take
  an endless supply of other runs, which these instances do not have.
- `WF(LeaseExpires)`, `WF(BecomeDue)`: time passes. An expiry that is due stays due.
- `WF(ExpirerStep(e))` of each pass, `WF(WaitOverdue)`: a recovery loop polls for ever, and a wait with a timeout becomes overdue.
  (`ChildJoin` has one expiry.)
- In `ChildJoin` also: children end (they are runs, for which `EveryRunSettles` is checked), and a process that has
  ended a child goes on to wake its parent unless it dies.

In `Services` the fairness of a service is that of the behaviours that have chosen it:

- `WF(OutboxTimePasses)`, `WF(Drain(d))`: `startOutboxLoop` schedules its next tick whether or not the last one failed, a
  handler returns or throws, and a claim of 30 s passes. Faults and slow claims are bounded, as any argument that
  a message arrives must assume.
- `WF(OpenStream)`, `WF(Connection)`, `WF(Polled)`: an `EventSource` reconnects, a read returns, and the timer of 5 s goes on
  (`src/routes/workflows.ts`). None is assumed of notifications: they may be lost.
- `WF(WorkerStep(w))`, `WF(Claim)`, `WF(BecomeDue)`, `WF(LeaseExpires)` for its run, as above. The recovery loop is not among
  them: `ClaimNextRunnableRun` takes over an expired lease itself.

No fairness is assumed of operators, callers, senders of signals, crashes or of the requeueing of expired leases.

### Limits of single runs

- `OneOutcomePerVisit` counts by visits: a visit begins when the run comes to a step or is retried there. By waits the count
  fails: a pass that still holds an expired wait moves the run again when a loop or a retry has brought it back
  (`WaitMovesRunOnce`, section 5).
- `WaitingRunHasWait` and `PostOpenRaceClosed` leave out waits in `forsaken`: a pass died or threw between its statements, or the
  opener died, or its `step.resume` threw, before it had looked for a signal.
- A run that was failed because its correlation key is taken counts as at rest in `waits_live`. That a signal of any name may bring
  it there is `MCWaitProtocol_any_signal`.
- `WalksInReverse`, and the smaller counts of `UndoneOnce` and `FailuresEscalate`, are about walks that nobody overlaps. The larger
  counts hold for overlapping walks, which share the numbers of the attempts (`MCCompensation_overlap`).
- `NoEffectAfterTermination` leaves out bodies that have timed out: their late writes do land.
- `waits_live` has no crashes, because a crash at two places leaves the run waiting for ever (section 5), and steps that
  reuse their correlation keys; with new keys and an unbounded loop no run need rest.
- `joins_live` needs the timeout, and has neither crashes nor retried children (section 5).
- With shared worker ids `OneCompletionPerVisit`, `AttemptsSettleOnce` and `OnlyLatestClaimCommits` fail: two
  processes with one id execute one step, and both commit. Nothing in the documentation says that ids
  must differ, and the default of `HIPPO_WORKER_ID` is one value.
- `FinalRowsStay` is about definitions without compensation handlers: MarkRunCompensationFailed changes
  'canceled' to 'compensation_failed'. `Compensation` has that step.
- `OneRunPerOccurrence` allows a second run per resume and per claim by a process whose clock has not come to the occurrence
  (`setBacks`), and a missed run per fault. Without these it fails (section 5).
- `EveryEventStreams` leaves out an event whose transaction overlapped one with a greater id (section 5), `StoppedTreesRest`
  a child that was inserted after its parent had ended, and what came of it (`excused`).
- `BudgetIsEnforced` leaves out a run whose usage was inserted by a call that died before its last statement.
- `NothingLeftBehind` is about runs that were failed by a worker or terminated, when no process died.

## 4. What is proved

`tlapm` checks the theorems for every value of the constants: any definition, any fleet, any bounds. They assume
the named assumptions of the modules and nothing else (`NullsAreNoValues`: the NULLs are no steps or workers;
`DefinitionAssumption`, `WaitDefinitionAssumption`: a workflow definition is well formed; `JoinAssumption`,
`TransactionalAssumption`, `CompensationAssumption`: the steps are numbered in the order of the definition; `OutboxAssumption`,
`ScheduleAssumption`, `StreamAssumption`, `TreesAssumption`, which make drainers, processes, writers and runs finitely many;
`LoopsAssumption`, `UsageAssumption`, `StartAssumption`), which TLC evaluates in every run, and what the table names:
`DistinctWorkerIds`, a fan-out. Crashes, throwing bodies, loops and clocks are not assumed away: where one makes a difference, the
property counts it or names it.

| Theorem | States | Argument |
|---|---|---|
| `TypeCorrect` | `RunLifecycle!TypeOK` | inductive with `WorkersHoldSteps`: a worker that is not idle holds an existing run, step and attempt, otherwise its commit would write outside the tables |
| `LeaseDiscipline` | `LeasedRunsAreRunning` | every statement that sets a status clears or sets the lease with it (`RowMoves` lists what a step may do to a row) |
| `FinalRowsNeverChange` | `FinalRowsStay` | a terminal row has no owner (`LeaseDiscipline`), so no commit passes its guard although none tests the status |
| `LatestClaimCommits` | `OnlyLatestClaimCommits` | assumes distinct worker ids (`DistinctWorkerIds`); `OwnerIsLatest`: only a claim puts an id on a row, so a worker whose id is on the row of the run it works on holds the last claim |
| `RunLoopIsDurable` | `ImplementsDurableRun` | `View` is what a client sees of a row; an action that writes one row changes one phase (`OneRow`), the statements of workers, claims and recovery change none (`LiveViews`), and a commit finds the run live at its own step (`Committing`, from `LeaseDiscipline`); needs no distinct ids |
| `ChainsDoNotFork` | `ChainOfSuccessors` | the run that gets a successor is leased, so it is running and has none; once it has one it is completed, and stays so (`FinalStep`); needs no distinct ids |
| `SettledOnce` | `AttemptsSettleOnce` | with distinct ids; `AttemptInv`: attempts of workers at work are their own and, while the body runs, started; a worker whose commit landed without a reply owns the run no more |
| `RetriesAreBounded` | `RetryBudget` | `BeyondIsPaid`: an attempt numbered at or above the limit fails only as its run does, and a failed run goes on only when an operator retries it, so each such attempt is paid for by a retry |
| `VisitsCompleteOnce` | `OneCompletionPerVisit` | with distinct ids; `Balanced`, the equation itself, is inductive over `AttemptInv`: a commit completes an attempt that was started and leaves the step |
| `WaitTypes` | `WaitProtocol!TypeOK` | inductive with the steps that workers hold and `OwnedIsRunning`; `Effects` lists what a step may do to the run, its waits and the passes of the expiry, and the proofs below go through these |
| `TerminationClosesWaits` | `HardCancelClosesWaits` | only the owner opens a wait, and a terminated run has none; what is closed stays closed |
| `WaitingHasReason` | `WaitingRunHasWait` | what closes a wait moves the run away in the same step, except the mark of a pass, which holds the wait until it moves the run, or dies or throws and forsakes it |
| `OutcomeDecidesOnce` | `OneOutcomePerVisit` | for every definition, with loops too, and any number of passes. `VisitsInv`: the visit under way is not decided yet, since every decision takes the run off the step or ends it; `WaitsInv`: an open wait has moved nothing, and of the closed ones only an expired wait is ever taken up again |
| `OpeningMissesNoSignal` | `PostOpenRaceClosed` | an opener that dies or throws forsakes its wait; `KeysAreUnique` makes the wait that the opener resumes the one that holds the run; a signal that comes later queues the run |
| `JoinTypes` | `ChildJoin!TypeOK` | the tables of children, waits and wakeups grow together; who ends a child has found it active or failed |
| `JoinNeverEarly` | `JoinHolds` | `Kept`: no step removes a child, or unmakes a completion or the knowledge that a child has ended, so what a worker saw when it decided to go on (`Reached`) is still so when it commits |
| `FanOutStartsOnce` | `ChildrenStartOnce` | for fan-outs; `Numbered`: the n-th child has index n, because the idempotency key makes a start the next child or the one that is there, whichever worker asks |
| `TransactionTypes` | `TransactionalTask!TypeOK` | by itself inductive |
| `CompletedOnce` | `CompletedWithItsWrite` | `ProgressInv`: the open transaction belongs to the owner of the run and the run stands at the step (`LockInv`); a run past the step does not come back; a body that has returned has written |
| `SameTransactionUnlessStrayed` | `EffectsMatchCompletions` | `AtomicInv`: until something strays no body is late, the commit finds the lease that the look at it found, and a savepoint that was rolled back has taken the write with it |
| `TerminatedRunsStay` | `NoEffectAfterTermination` | a write that no late body makes needs an open transaction or a commit; a run with an open transaction is leased, and a leased run is running |
| `OutboxTypes` | `OutboxTypeOK` | `QueueInv`: every pending message has one place in the queue; a claim moves places, a late mark removes one on either side of the due ones |
| `AtLeastOnce` | `AtLeastOnceDelivery` | for any finite number of drainers; `PaidFor` counts, for a message, what was handed over, the drainers that may still hand it over and the next claim to come: all but the first are paid for by a fault or a claim too short |
| `LoopsTypes`, `NoLoopSleeps` | `LoopsTypeOK`; a loop that has not been stopped has a pass or a timer, never two passes | `LoopOK`: the flag counts the passes, the timer is set exactly between them |
| `NoWakeupLost` | `WakeupIsNotLost` | `WakeupOwed`: a wakeup in a pass leaves `wakeRequested`, and the end of the pass reads it |
| `PoolEndsLast` | `PoolOutlivesTicks` | `StopsAreFinal`: the loops that shutdown has dealt with are at rest, the one at hand begins no pass |
| `StartRunTypes`, `KeyedStartsAreOne` | `StartTypeOK`, `OneRunPerKey` | `KeysAreUnique`: of the rows of a key that were not rolled back there is one, because an insert waits until none is open; who looked before sees the same one later |
| `CompensationTypes` | `Compensation!TypeOK` | `TypeInv`: an attempt under way is in the log and started, and no two processes have the same one |
| `CompensationWalksInReverse` | `WalksInReverse` | `Alone`: while nobody overlaps there is one walk; `Walking`: the rest of its list is exactly what is left to undo, last completion first, and its attempt is the last of the log. What a step does to the last completion of another step is the least-element argument `Greatest` |
| `CompensationUndoesOnce` | `UndoneOnce` | `Paid`, for a walk alone: what was undone and is no longer recorded as completed was paid for by a death or an error; `Owed`, for walks that overlap: undoings and the processes that may still undo a step (`MayUndo`) are together no more than the walks and errors |
| `CompensationFailuresEscalate` | `FailuresEscalate` | `OneEach`: a walk ends with its last failure, so last failures and `Walkers` are together no more than walks; `OneLast` is the same count for a walk alone; `Ending` and `Told`: a last failure is on the run or with somebody about to write it |
| `CompensationLeavesNothing` | `NothingLeftBehind` | `Covered`: without a death, what is left to undo is on somebody's list, also when its completion has been taken back, or somebody is about to read the log; this holds when two walk at once, too |
| `ScheduleTypes`, `ClaimedOccurrencesStart` | `SchedulesTypeOK`; a claim is started, on a list, or paid for by a fault | whatever the clocks: `ListsAreDistinct` and `ClaimsAreKept`, which counts an occurrence's claims against its starts and the lists that hold it |
| `OneStartPerOccurrence` | `OneRunPerOccurrence` | whatever the clocks. `ClaimsArePaid`: an occurrence was claimed at most once, once per resume and once per claim that set the row back, and once less while it can be claimed again; any other claim moves the row beyond it |
| `UsageTypes`, `BudgetsAreEnforced` | `UsageTypeOK`, `BudgetIsEnforced` | `OverIsSeen`: a limit that is exceeded has a call that will still total its resource, or is about to end the run; `SumsGrow` and `BodiesAreTold` say the same of a transactional body: who is told holds a usage that exceeds |
| `TreeTypes`, `StoppedTreesStayDown` | `TreesTypeOK`, `StoppedTreesRest` | `Tree` is a least set, so the lemmas about it (`TreeIsLeast`, `TreeOfChildren`, `TreesGrow`) need no induction. `StoppedSettle`: what is below a stopped run has ended or is excused, and below the run whose termination is under way (`root`) may lie ahead of the walk (`Remaining`); `CancelsAreFollowed`: what the walk will cancel it will list right after |
| `StreamTypes`, `StreamSendsOnce` | `StreamTypeOK`; a client gets committed events only, in the order of their ids, and so none twice (`EventsComeOnce`) | `LastIsKnown`: an open connection knows the id of the last event that the client has got, whatever connection sent it; `MomentsCount` counts the moments against the writers |
| `ServicesStayApart`, `ServiceTypes` | a behaviour of `Services` is one of each service; `ServiceTypeOK` | each disjunct of `Next` is a step of one service and leaves the others (`OthersRest`); the rest are the type theorems above |

`strayed` is a history variable: no guard reads it, it names the three circumstances (a body outlives its timeout, a
body swallows the budget error, a worker's clock is behind the database's) from which on the promise fails. The
theorem says that there is no fourth.

Every invariant and every action property of the runs that expect to pass is stated by a theorem. Only model-checked:

- Everything temporal (`EveryRunSettles`, `EveryRunRests`, `EveryJoinEnds`, `EveryMessageDelivered`, `EveryEventStreams`): liveness
  under fairness, and ENABLED, are out of the prover's reach.
- That the runs need what the theorems assume: configurations that violate without it (section 5).
- The operators at their definitions. Nothing recursive can be unfolded by the provers, so the modules say by their
  defining property what the code computes in a loop: the tree below a run is the least set that is closed under children
  (`RunTrees!Tree`), a list in the order of a column is an ordered list of the set (`InCreationOrder`, `InOrder`, `Walks`), and
  pending usages carry their running sums (`UsageBudget!Pended`). Arguments over the least or the greatest number with a
  property go through the well-foundedness of the naturals (`Greatest` in `CompensationProofs`).

## 5. Where the code and its documentation part

Three are findings of the listed runs:

- *Graceful cancellation* (`graceful`): the claim does not return `cancel_mode`, so the branch that stops at a boundary
  (`run-loop.ts:262`) is never taken. README.md:13.
- *Fail-fast* (`fail_fast`): `failRun` does not wake the parent, and the test that says it does uses a stub that does.
- *Timed-out bodies* (`transactional_timeout`): the body goes on with the connection and what it writes is committed.

The following configurations also end in a counterexample. They are kept beside the listed runs:

| Configuration | What happens |
|---|---|
| `MCWaitProtocol_open_race` | `RaceClosedForGood`: a `step.resume` that throws inside `consumeSignalAndResumeWait` (`run-loop.ts:619`), or a process that dies before it, leaves the run waiting beside a signal that has arrived; TODO.txt:43 calls the race closed |
| `MCWaitProtocol_signal_loss` | `consumeSignal` (`signals.ts:62`) commits before the step does: a crash in between loses the signal; TODO.txt:43 calls signals durable |
| `MCWaitProtocol_expiry_crash` | the recovery loop dies between marking a wait and moving its run (`waits.ts:685`): the run waits for ever; TODO.txt:54 |
| `MCWaitProtocol_any_signal` | a signal of any name queues a waiting run (SQL:1423), whose step then opens its wait under a key that is taken, and the run fails; README.md:11 |
| `MCWaitProtocol_stale_expiry` | `UpdateWaitStatus` and `FailExpiredWaitRun` (SQL:2172, 1386) do not test that the wait is still open: an expiry selected before a callback fails the run when a loop has brought it back (`WaitMovesRunOnce`) |
| `MCWaitProtocol_two_passes` | the same without a loop: two passes select one wait (SQL:1366), one fails the run, an operator retries it, the step opens a new wait under a new key, and the second pass fails the run for the old wait |
| `MCChildJoin_early_child` | a child that ends before its parent's wait is open (`run-loop.ts:831`) wakes nobody, and the wait of a child step has no timeout; README.md:12 |
| `MCChildJoin_retried_child` | a failed child whose wait has expired is retried and ends: its wait is not found (SQL:2167) and the parent waits for ever; README.md:12 |
| `MCChildJoin_orphans` | a termination lists the children (`helpers.ts:198`) while a worker starts more of them: they run on; README.md:13 |
| `MCCompensation_overlap` | `PolicyKept`: a run that is terminated or retried while it is compensated is walked twice, the walks share the numbers of the attempts, and a handler with two attempts fails three times (`run-loop.ts:1473`); TODO.txt:37 |
| `MCServices_lost_fire` | `EveryClaimStarts`: a crash between `fireDueSchedules` and the start misses an occurrence for ever (`scheduler.ts:57`); TODO.txt:56, "atomic claim and dispatch" |
| `MCServices_slow_clock` | `OccurrencesStartOnce`: a process whose clock is behind writes the occurrence that it has just claimed (`schedules.ts:129`), and it fires twice |
| `MCTransactionalTask_clock` | a worker whose clock is behind passes the look at the lease, the commit does not, and the writes are committed without the step (`execution.ts:317`); README.md:17 |
| `MCTransactionalTask_swallow` | a body that catches the budget error returns, and its writes are committed with the exhaustion (`execution.ts:295`); `workflow-store.attempts.pg.test.ts:18` says they are rolled back |
| `MCTransactionalTask_attempts` | the run loop and the transaction both insert an attempt (`run-loop.ts:340`, `execution.ts:143`): with maxAttempts 2 the first failure is final; `workflow-engine.retry-budget.test.ts:15` |

`MCChildJoin_quorum` passes: `JoinHolds` with a fan-out of three and a quorum of two; so does `MCRunLifecycle_live`:
`EveryRunSettles` on the instance of `lifecycle`'s module alone.

Without a configuration, in the engine: a run that fails in the recovery loop (SQL:1386) or by its budget
(`run-loop.ts:1464`) is never compensated; an undoing that is recorded and then answered with an error (the event after
`attempts.ts:157`, or a lost reply) is written over as failed (SQL:402) and carried out once more; a process that dies
while it compensates is not replaced; a failed run that is terminated while its worker compensates it is undone by both
(`run-loop.ts:1473`); a failed run may be retried while it is compensated (SQL:1741). TODO.txt:37 describes compensation
without these exceptions. The heartbeat of a session is recorded before `getWorkflow` throws on a version that is not
registered (`callback-routes.ts:171`).

Around the engine, where the properties of `services` name the exception or the actions show it:

- *Outbox.* `process-runtime.ts:165` passes `handlers: {}`, and `startOutboxLoop` does not begin without a handler: the process
  of the repository delivers nothing, while README.md:18 and docs/deploy.md:5 speak of a drain. `Outbox` models a process that
  is given handlers. `ctx.outbox.enqueue` outside a transactional task commits by itself.
- *Rejections.* The tick of the outbox (`outbox.ts:84`) has no catch and is called with `void`, and so is
  `sendPendingEvents` of the stream: an error of the database rejects a promise nobody looks at, which ends the process
  (`TickRejects` of `ProcessLoops`, for the loops in `Unguarded`). The client that listens for notifications has no
  handler of its "error" event (`notifier.ts:67`), with the same effect (`ListenerBreaks`).
- *Schedules.* `OneRunPerOccurrence` counts what `MCServices_lost_fire` and `MCServices_slow_clock` show.
- *Event stream.* Ids are drawn at the insert and events sent when they are visible: one whose transaction outlasts another's is
  passed over for ever. Notifications leave on a connection of their own before the commit of the transaction that
  causes them (`NotifiesInside`), so what they wake may find nothing; the poll makes up for it.
- *Budget.* Usage that a non-transactional body records stays when its step fails, that of a transactional body is rolled
  back with it, unless it ends the run.
- *Trees.* README.md:19 and TODO.txt:90 say that a rewind branches a terminal run; `branchRun` (`runs.ts:297`) also takes a live one
  and terminates its tree. A run that has failed is terminal, and its children, when it has any that live, are left
  running. A fork's original may be retried beside it (SQL:1741).

## 6. What is not modelled

Components left out, and why:

- *Retry backoff* (`src/lib/engine/retry.ts`): one formula with a random factor and no state; the models keep that a retry is
  not due at once.
- *Run-scoped key-value store* (`src/lib/store/kv.ts`): single statements on rows that nobody else reads.
- *Tokens of human tasks*: cryptography over strings; the wait behind a token is in `WaitProtocol`.
- *Registry, loader, routes other than their store calls, authentication, dashboard, CLI, scaffold, metrics, tracing*: maps that
  are filled at the start, parsing, reads and I/O.
- *Migrations*: they run once, before anything that is modelled.

Left out of modelled parts: bodies other than their outcomes; a plain task that goes on after its timeout; priorities and
task queues; trees of more than one level in `ChildJoin` (`RunTrees` has them), and their compensation; the remote runner of
an external session; row locks and the connection pool outside transactional tasks (a resume body that uses `ctx.kv` while
its transaction holds the run `FOR UPDATE` waits for itself on a second connection); reload of workflow files and the HTTP
server in the shutdown.

`PROJECT.json` lists the hazards of the code, with the property that covers each or the reason why none does. What would
add most from here: an abstract wait (open, one outcome, closed) and an abstract join, for `WaitProtocol` and `ChildJoin` to
implement as `RunLifecycle` implements `DurableRun`; a connection pool beside `WaitProtocol`; and two termination walks at
once in `RunTrees`.
