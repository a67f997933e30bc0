# TLA+ verification of flow-orchestrator

flow-orchestrator runs workflows (graphs of actions) durably inside a Go program:
progress is journalled at level barriers, a run may suspend on a signal or a
timer, a failed run may roll back as a saga, and a SQLite work queue lets several
processes compete to drive submitted workflows. This directory models the parts
of `pkg/workflow` where the order of steps decides correctness. It was written
from the Go source; the models the repository keeps under `specs/` are
independent of it (some module names coincide because the components do).

## The system

| Component | State | Operations | Talks to | What makes it correct |
|---|---|---|---|---|
| Work queue (`workflow_store_sqlite_workqueue.go`, `_caps.go`) | `work_queue` rows: state, attempts, parked, cancel request | Enqueue, claim, MarkDone/Failed/ForRetry/Parked, CancelPending/Running | leases, signals, workers | one settlement per row, nothing stranded, caps |
| Leases (`workflow_store_sqlite_lease.go`) | `leases` rows (owner, expiry, token); `tokenState` of each store handle | claim, fencing check with renewal, release | every Save and checkpoint | a superseded owner writes nothing |
| Dispatcher and pool (`workflow_dispatch.go`, `workflow_pool.go`) | the claimed item of each worker | runNext, cancel watcher, drain | queue, store, drive | crashes and faults between transactions are harmless |
| Drive (`workflow.go`) | WorkflowData in memory, consumed signals | Execute, Tick, DeliverAndResume | store, executor, saga, mailbox | every exit leaves an honest journal |
| Executor (`dag.go`, `parallel_execution.go`, `node.go`, `choice.go`, `merge.go`) | node statuses | level loop, launch loop, barrier | drive | dependencies, fail-fast, branch outcomes |
| Saga (`saga_rollback.go`) | rollback marker, statuses | reverse level loop | drive, store | one way, reverse order, finished |
| Signals (`signal.go`, `workflow_store_sqlite_signals.go`) | mailbox | deliver, take, ack | wait nodes, sub-workflow completion | not lost, acked after the effect is durable |
| Waits (`timer.go`, `signal_timeout.go`, `approval.go`) | armed deadlines, decisions | Tick, DueTimers, DeliverAndResume | drive, mailbox | ends for its cause, and ends |
| Sub-workflows (`subworkflow*.go`) | the child's row and journal | spawn, park on a child, verdict | queue, signals, drive | the parent learns, and learns the truth |
| Fan-out (`fanout.go`) | journalled expansion, child runs | expand, flush, pool, fan-in | drive, store | every item accounted for, also after a crash |
| Schedules (`schedule.go`, `schedule_poller.go`, `cron.go`) | `schedules` rows | register, pause, delete, fire due slots | leases, queue, caps | exact slots, bounded backlog, nothing lost |
| SQLite writes (`workflow_store_sqlite*.go`, `workflow_data_delta.go`) | rows, WAL, shadow, delta capture | Save, diff and delta checkpoints, Sync, Load, Delete | drive, sealed views | no change forgotten, a park is durable |
| File stores (`workflow_store.go`, `workflow_store_groupcommit.go`) | files, retained state, cadence | Save, SaveCheckpoint, Sync, Load, Delete | drive | atomic files, bounded loss |
| File mailbox (`signal_store.go`) | directory, lock file | deliver, take, ack, remove | signals, Delete | within its cap |
| Lockers (`lease.go`, `claim_locker.go`) | lock registry, claims | Acquire, release | drive | one drive per workflow, no stranded waiter |
| Builder and boundaries (`builder.go`, `dag.go`, `reconvergence.go`, `boundary*.go`) | the graph under construction | Build, GetLevels | executor | what was certified holds in the run |
| Codecs, observability, actions | encodings, counters | — | — | data, reads |

`PROJECT.json` lists every component with its status and every hazard with its
line. What is hard here: two workers on one workflow with a stall in between;
a crash between any two transactions of a disposition; a cancel, a drain or a
store fault at any step; statuses written by runs of different age meeting in
one graph; the steps of park, signal and ack; caches (a shadow, a capture, a
retained state, a lock registry) that live beside what they stand for.

## Modules

| Module | Models |
|---|---|
| `Lease` | one lease row and the decisions taken on it: grant, fencing test, renewal, release |
| `WorkQueue` | queue, leases, caps, cancellation and the workers' `runNext`, one action per store transaction |
| `DurableJob` | the promise of the dispatcher, with no workers in it; `WorkQueue` is shown to implement it |
| `Executor` | one workflow: `executeLocked`, `DAG.Execute`, choice and merge, suspension and signals, the saga |
| `Lockers` | the lock registry and the composite locker over the `Lease` operators |
| `Schedules`, `Cron` | schedules and their pollers, over `Lease`; cron fields and Next |
| `FanOut` | one fan-out node, its journal, its pool and its child runs |
| `SqliteStore` | how one run is written and read back in SQLite, up to a power loss |
| `FileStores` | the FlatBuffers (group commit), JSON and in-memory stores |
| `Mailbox` | the file mailbox, one file system call at a time |
| `Waits` | a run at a timer, a signal, a signal or timeout, an approval or a condition |
| `SubWorkflow` | a parent node and its child, inline, parked or queued |
| `Graph` | Build, its checks, GetLevels, and a run of the result |
| `Services` | the nine modules above, side by side |
| `WorkQueueProofs`, `ExecutorProofs` | theorems and proofs about the two main modules |
| `LockersProofs`, `SchedulesProofs`, `GraphProofs` | theorems and proofs about one service each |
| `StoresProofs` | theorems and proofs about `FileStores`, `Mailbox` and `SqliteStore` |
| `NodesProofs` | theorems and proofs about the nodes that wait or have children: `FanOut`, `Waits`, `SubWorkflow` |
| `ServicesProofs` | theorems and proofs about the services side by side |
| `MCWorkQueue`, `MCExecutor`, `MCServices` | small instances |

### WorkQueue and Lease

`row`, `lease`, `journal` and `signals` are the tables; `held` is `tokenState`;
`pc`, `item`, `mem`, `err` are the locals of `runNext`. `Enqueue` stands for its
three forms; `ClaimNext`/`ClaimNoWork` are the claim transaction that hands out an
item or only cleans up cancelled rows, over the rows a `Scan` offers (oldest first,
over-cap and leased ones skipped, cancelled reclaims terminalized on the way).
`Reread`, `Build`, `Seed`, `StartExecute`, `CheckpointLevel`, `FinishRun`,
`SaveFailedState`, `Dispose`, `MarkParked`, `FlipTerminal`, `MarkForRetry`,
`ReleaseLease` and `Deliver` follow `runNext` in order. The drive is abstracted to
a journal of `Levels` levels plus a recorded failure (`Executor` has the detail).
The journal of the code does not say why a node failed; the model's does, only
so that two properties can speak of it.

Time: a lease carries expiry − now, cut off at −1. The scan's `expiry < now` and
`claimLocked`'s `now >= expiry` differ at 0, which is a state of the model. Leases
of different workflows are never compared, so each ages on its own. Ageing a live
lease whose owner is at work is a stall and counts as an adverse event.

Items carry a non-empty input, so each fresh run is seeded. The public `Claim` is an
action of `Lockers`; `Renew` has no caller in the repository and is no action.

### Executor

`journal` is the persisted WorkflowData (statuses and rollback marker), `st` and
`rolling` the one in memory; `lvl`, `todo`, `failed`, `parked` are the locals of the
level and launch loops; `ret` is what the last drive returned, with a flag telling
whether its last store write went through. The launch loop visits the nodes of a
level in name order; `PassNode` is the branch for settled, blocked and unmergeable
nodes, `LaunchNode` and `StopLaunching` the two arms of the select. Node outcomes are
free (`CompleteNode`, `FailNode`, `ParkNode`); a choice picks any one head. After the
barrier, cancellation outranks failure, which outranks the park (`HaltLevel`,
`SweepSkipped`, `Checkpoint`, `Suspend`). `LeaveWith` is the deferred `clearWaiting`
and the caller's decision between failed-state Save and rollback. Drives of one
workflow exclude each other, as the Locker makes them; competition is `WorkQueue`'s
subject. `GetLevels` appears as a map `Level` assumed only to put dependencies
first.

A retried or timed-out action is one outcome of its node; a compensation with its
retries is one step.

### The services

Each module has its component's state and the environment it runs in: crashes,
store errors, rivals, the clock, the host.

* `Lockers`. Entries of the registry are objects a drive keeps a pointer to, so a
  drive may hold an entry the registry no longer knows. `Reserve`, `SendLock`,
  `GiveUp`, `Unlock` and `DropRef` are the mutex sections and channel operations of
  `Acquire` and its release; `TakeClaim` and `ReleaseClaim` the durable claim under it.
  A receive hands the channel to its first waiter, as the Go runtime does.
* `Schedules`. `PollerScans` is the snapshot of due ids, `FireDue` the transaction for
  one of them: re-read, lease, caps, enqueue, advance or delete. The queue is cut to
  what `capAdmits` counts. `Cron` reads a field as a set of terms; the calendar is a
  constant, since Go's `time` is not in the repository.
* `FanOut`. `fan` and `fanDisk` are the parent's data in memory and in the store; `kid`
  the child runs, told by the item they were built for; `branch` where each index is
  between the feeder and its verdict. A failed child is terminal, so a second drive
  of it runs nothing and returns nil, as `DAG.Execute` does. The result key is part of
  the child's data (`kid[i].res`): a branch may set it and fail, or succeed without it.
* `SqliteStore`. Rows of all tables of a run are one function from keys; a commit is a
  version in the WAL, `safe` the one that survives. A drive of the engine ("drive")
  writes delta checkpoints, since its capture is always armed; its rollback ("undo")
  writes the marker and every reverse level by full Saves; the shadow diff of
  `SaveCheckpoint` serves a caller that knows the store as a Checkpointer only ("plain").
  `touched` is the capture that is drained next; a sealed view may hold an older one.
  A `wal_checkpoint(TRUNCATE)` flushes, fails, or is blocked by another connection and
  returns nil all the same. Delete asks for no claim and may come under a drive.
  `lost`, `orphan` and `pulled` are history: keys drained for a checkpoint that failed,
  keys set through an old view, a run that was deleted under its writer.
* `FileStores`. A state is a version number; a write is a temporary file and a rename.
  A failed write ends the drive, or, when it was a fan-out's flush, may not: `missed`
  counts the boundaries of the cadence that were passed without a write.
* `Mailbox`. Deliver counts and writes under `flock`; take and ack take no lock; Delete
  locks only if the lock file exists.
* `Waits`. Instants are signed integers of a small width and wrap like `int64`. A drive
  is load, peek, decide, persist, ack; deliveries, the clock and a crash come between.
* `SubWorkflow`. `journal` and `row` are the child's two records; the parent reads them
  one after the other. The journal has what the child holds under the result key, which
  it may set early, before it fails, or not at all; `got` is what the parent took of it.
* `Graph`. A builder is a record of declarations: names in order, `DependsOn` lists, the
  edges of choices and merges, boundaries; an action is the set of kinds it is composed
  of; `held` is the snapshot a boundary keeps. `DetectCycle` is the depth-first search
  step by step, with its call stack as `trail`, `PlaceNode` one round of Kahn's queue.
  `NearestBranch` is the breadth-first search of `reconvergence.go` with its queue and
  visited set (`Search`, `Climbed`), `Reaches` the search of `boundary.go`, both as recursive
  functions.

`Services` puts them side by side. They share no variable: each is used by the
drive or the queue through the calls its module names, and `Executor` and `WorkQueue`
rely on what is shown here (one drive per workflow, a checkpoint that is there when
it returns, a mailbox that keeps what it accepted). A behaviour of `Services`
exercises one of them while the others rest in an initial state; their product
would repeat the same states.

## Runs

Two workers and one or two workflows, graphs of five or six nodes. `MaxFaults`
bounds the adverse events of a behaviour (crash, stall, drain, park, store fault,
cancelled context, failed write); everything else, including operator cancellations
and node failures, is unbounded.

| Run | Bounds | Shows |
|---|---|---|
| `QueueFencing` | 1 workflow, 2 levels, retry budget 1, 4 faults | fencing, reclaimability, signal after settlement, final states, and that `WorkQueue` implements `DurableJob` |
| `QueueCaps` | 2 workflows (one host-bound), cap 1, budget 2, 1 fault | the cap holds for rows not being cancelled, and starves nobody |
| `QueueDrains` | 1 workflow, both workers in one process, budget 4, 3 faults | every submitted workflow settles, unless a late Release strands it |
| `ExecutorBranches` | choice, two branches, merge, tolerated failure, no saga, 4 faults | durable dependencies, settled on nil, justified outcomes, nothing lost |
| `ExecutorSaga` | three compensable nodes, a wait and a plain sibling, 4 faults | suspension is recorded exactly when reported, acks after effects, rollback one way, in reverse and finished, signals wake |
| `QueueZombieNeverLands`, `QueueDrainLosesNothing` | 1 workflow, 2 levels, budget 3, 3 faults | violated, see below |
| `ExecutorTerminalStays` | a choice whose head has a second dependency, 1 fault | violated, see below |
| `Services` | see below | the services' properties, one per hazard |
| `FanOutFailFast` | two branches, one retry of the node, no result key | violated, see below |
| `DeltaUnion` | one key, one view | violated, see below |
| `SubWorkflowVerdict` | a queued child, no crash needed | violated, see below |

Two workers suffice for a stalled owner and its successor. `QueueDrains` has the budget
and the faults that the late Release described below needs (two store faults, a stall and
three claims), so that its exception is a state the run reaches; the property also holds
with four faults (1,750,000 states). `QueueFencing` has a budget of one
because its properties are about workflows that are never requeued; requeues happen
in the other queue runs. Two levels tell a lost
checkpoint from a lost run. The retry budget saturates, since the code only asks
whether it is spent. The graphs are the smallest in which a branch, a bypassed
join, a tolerated failure and a later consumer meet. Queue runs check no deadlock:
a queue with nothing to do rests. An executor can always be driven again, so its
runs do check it.

Bounds of `Services`, by component. Lockers: two drives in one process, one of them
under a durable claim, and a rival process, one mishap: a waiter, a holder and a
newcomer meet on one entry. Schedules: a recurring schedule (an interval that
overflows at the last instant, a cron expression with both day fields restricted, one
that is refused) and a one-shot, a cap of one, two pollers, one upset, a clock of two
minutes over a calendar of one-minute days: slots are missed, leases outlive their
slot, the cap is full when the one-shot comes due. Fan-out: two items in either
order, an empty and a too wide expansion, a pool of two, three glitches (a failure, a
cancellation and a crash). SQLite: one key, Strict and `Batched(2)`, at most two versions in
the WAL (`MaxWal`; one is what a power loss can take, two tell a prefix from all of it), two
slips: a takeover with foreign writes and the return, a failed checkpoint and a power loss;
Deletes and blocked WAL checkpoints are free.
Files: `Batched(3)`, six versions, two faults (a missed boundary and a crash before the
next). Mailbox: two signals for one place, two
deliverers, one death, one remover. Waits: a deadline past, ahead and beyond the last
instant, an inert, a rejecting and an approving letter, one hiccup. Sub-workflows:
all styles, two stumbles. Graph: every subset of six candidate edges over a choice
with two branches, a merge over one or both, tolerated failures or none (256
builders, cyclic, unstructured and unsound ones among them). The bound of each counter
is a named constant of its module. The run has 247,000 distinct states. A rested service is not a deadlock of the
system, so the run checks none.

`DrivesSerialized` says more than exclusion: a drive still waiting waits on the entry
that newcomers get. `CompletedOverResult` is what `SubWorkflowVerdict` leaves standing: the
parent's two reads may fail it wrongly but never complete it over a child that is still
going, or without the result it declares. `BacklogBounded` leaves out runs that have been
parked; `NothingForgotten` and `ParkedIsDurable` leave out the keys the capture is known to
drop and runs deleted under their writer, `ParkedIsDurable` also a park whose WAL
checkpoint was blocked; `LossBounded` grants another K-1 checkpoints for each missed
boundary, and `QueueDrains` excepts stranded rows. The notes below say why.

Fairness. `QueueDrains` assumes that a live worker takes its next step, that workers
keep polling (`Pool.runWorker` loops for ever) and that the clock goes on. The
executor's liveness assumes that a drive keeps going and that its host drives the
workflow again; compensations end because of the rollback deadline. Operators, node
outcomes and faults are under no fairness. `Services` assumes, for the part at work:
a goroutine that can run runs; some poller keeps polling (`SchedulePoller.Run` loops
for ever) and the workers drain what they claim; the clock goes on; the host re-drives
a run that has a signal or a due timer and its drives proceed; a parked parent is
entered again, since its row is reclaimed when the lease lapses. Deliveries,
registrations and crashes are under no fairness, and neither is the rest of a run
that nobody drives.

### What the documentation says and the code does not keep

Each of these runs checks a sentence of a doc or a comment and finds it violated;
`PROJECT.json` quotes the sentence.

* `QueueZombieNeverLands`: `Release` deletes the lease row, so tokens restart at 1
  after a requeue and two owners of a workflow may hold the same token. For the same
  reason a late `Release` can delete its successor's lease: a worker puts its row back
  (`MarkForRetry`) and stalls before the Release that follows in a transaction of its
  own; another claims the row, puts it back and releases in turn, and claims it again,
  now with token 1 like the sleeper; the sleeper's Release
  (`workflow_store_sqlite_workqueue.go:749`) deletes that lease. The owner's writes
  and its disposition are refused from then on, and the row stays claimed without a lease,
  which no scan offers (`Stranded`). `QueueDrains` says that this is the only way a submitted
  workflow is left behind.
* `QueueDrainLosesNothing`: a failure is journalled before the queue knows of it; after
  a drain the successor finds only terminal nodes and reports the workflow done.
  A crash between the failed-state Save and `MarkFailed` has the same effect on a
  run that failed by itself.
* `ExecutorTerminalStays`: a choice overwrites the Skipped status of a head.
* `FanOutFailFast`: when a fan-out node is retried, a child that failed is terminal,
  its second drive returns nil, and without a result key nobody notices. With one it is
  noticed only if the branch had not set the key before it failed: the failed-state
  Save keeps it (`fanout.go:808-815`, `:839`), so after a crash or a retry the branch counts
  as a success. `FanOutPartition` therefore speaks of the result a child run has stored,
  not of a child that succeeded.
* `DeltaUnion`: a sealed view keeps the capture it was made with; a fan-out's flush in
  the middle of a level replaces it, and a sibling's later writes are in no delta.
* `SubWorkflowVerdict`: the parent judges a journal it read before by a row it read
  after; a child that finishes in between fails it.

Others met on the way have no run of their own:

* a scheduled run that resumes from a park counts again without asking the caps, so
  running plus pending exceeds the bound of `schedule.go:250`;
* a retry of a fan-out whose expansion checkpoint failed finds the list in memory
  (`fanout.go:712`), takes it for durable and starts branches over it, while
  `fanout.go:365` says "FLUSH durably BEFORE branch 1": TLC finds
  `ExpansionBeforeBranches` violated in the instance of `FanOutFailFast.cfg`. A retry whose
  set of failed branches differs collides with its own `__failed__` key
  (`fanout.go:645`). `Services` has no node retries;
* a delta capture that was drained for a failed checkpoint is not put back
  (`workflow.go:657`);
* Delete is not fenced and may come under a drive, whose later deltas then write parts of
  a run; a Load that finds nothing leaves an old shadow in place
  (`workflow_store_sqlite.go:577`), so that after another process's Delete a `SaveCheckpoint`
  leaves out the rows in which the new run equals the old one;
* `wal_checkpoint(TRUNCATE)` reports in a result row that a reader or another checkpoint
  blocked it, and `workflow_store_sqlite_durability.go:136` drops the row with `ExecContext`:
  Sync, and the every-Kth checkpoint, return nil with frames that are not synced, and a
  power loss can take back a park. Without that exception TLC finds `ParkedIsDurable`
  violated;
* a group-commit write that fails at a boundary has advanced the cadence already
  (`workflow_store_groupcommit.go:59-64`). When it was a fan-out's flush (`fanout.go:783`) under
  `WithRetries` or `WithContinueOnError`, the drive goes on and 2K-2 checkpoints are at risk,
  while `workflow_store_groupcommit.go` says "loses <= K";
* under `SQLiteBatched` the final Save is committed without a sync, while
  `workflow.go:678` calls Save always durable;
* a re-delivery at the cap that dies between its temporary file and the rename leaves
  one entry too many, and every later take refuses the mailbox (`signal_store.go:649`
  says "no wedge results"); `MailboxWithinCap` therefore counts signals, not stubs; a first
  delivery may race an unlocked Delete;
* an inline child that failed, driven again, completes its parent when no result is
  declared, or when the child had set the declared one before it failed
  (`subworkflow.go:329-338`). A queue child does the same after a crash between its
  failed-state Save and `MarkFailed`: the next worker's drive returns nil and marks it done
  (`subworkflow_parked.go:113-116`). And a parent that read the journal before the row turned
  done keeps the value the result key had then. `CompletedOverResult` says what is left;
* `validateReconvergence` looks at the innermost choice only, so a merge over a merge is
  refused although it is structured;
* `WorkflowData.Delete` has no seal check, unlike the other setters.

Three smaller ones explain how passing properties are stated, and have no run. A pending
row under cancellation is claimed past the cap until its worker re-reads the request
(`RunningWithinCap` leaves such rows out). The launch select may start a node after a
sibling's failure (`LaunchNode` and `StopLaunching` are both enabled). A park
checkpoint whose sync fails, followed by a failed failed-state Save, leaves a Waiting
node behind an error (`SuspendedIffWaiting` speaks of drives whose last write went
through). Fencing and reclaimability are claimed of workflows that were never
requeued.

## Proofs

TLAPS proves what follows for every value of the constants, from the named
assumptions of the modules: finite sets of workflows, drives, schedules, signals,
deliverers and graph nodes; positive TTL, budgets, cadences and widths; a level map that puts
dependencies first, an injective name order, choice targets that depend on their
choice, merge tails among the dependencies; durations within the integer width of
`Waits`; calendar entries within the ranges of their fields, none wider than 60, and a
calendar that covers the search horizon; null values outside the sets they stand
beside. TLC evaluates the assumptions in every run. `PROJECT.json` lists the theorems
with the property each one states. Every module's type invariant is proved, and every
invariant and action property the passing runs check, five of them under a hypothesis on
the constants that is stated with the theorem. The results and what they rest on:

**`WorkQueueProofs`.** `OnlyOwnerPasses`, `ClaimedIsReclaimable`, `SignalAfterTerminal`,
`RunningWithinCap` are invariants, `TerminalIsFinal` an action property. Fencing is not
inductive by itself. `FenceInv` adds, for workflows never requeued: an unclaimed row has
no lease and no held token; no worker holds a token above the lease's, and the one that
holds an equal token is its owner; a claimed row has a lease; and a lease is released
only from a terminal row, so that no later claim can restart the count. The cap proof
compares the running set before and after a claim: the claim adds at most one row, and
only when the count it took inside the transaction leaves room.

`JobSteps` shows, for every retry budget, that each step of the queue is a step of
`DurableJob` or none for every workflow that `MarkForRetry` has not put back. By the fencing
invariant whoever passes the fencing test on such a workflow is its last claimant.
`JobInv` adds that an owner's memory is what the journal holds or one step ahead of it
(`Follows`); hence every write an owner lands is a step of the job, and every write of
anybody else is refused and is a stutter. The lemmas take the actions in five groups:
outside the workers, claims, moves that touch no table, writes, settlements. `JobRefined`
is the refinement itself, `ImplementsDurableJob`, for `MaxAttempts = 1`, the budget of the
run that checks it: the claim has used the only attempt, so nothing is put back
(`NeverRequeued`). For larger budgets the refinement is false of workflows that were put
back, by the race of `QueueZombieNeverLands`.

**`ExecutorProofs`.** `RunsOnDurableDeps`, `SuspendedIffWaiting`,
`NoForwardOnceRollingBack` and `NilMeansSettled` are invariants, `CompensatesInReverse` and
`AckedOnlyWhenApplied` action properties, for every graph. `DriveInv` joins what they rest
on: at rest the journal has no Running node; a drive that is not running keeps nothing; a
barrier is passed only by drained levels; the journal agrees with memory about all levels
before the current one; memory is unmarked while work goes forward; a Waiting status
means a parked node of this level or one left by the loaded journal; every exit leaves
with the statuses it reports; consumed signals belong to settled nodes once the journal
holds them; and compensation has nothing left above its level. `SettledInv` adds that
levels behind the drive are settled and that only a rollback compensates, which is
`NilMeansSettled` at the end of the level loop.

`OutcomesHold` and `JournalHolds` (`OutcomesJustified`, `JournalOnlyGrows`) have the
hypothesis `HeadsOnChoice`: a head of a choice depends on that choice only. It is a
condition on the graph, not on the run; without it both are false: a choice that
completes late overwrites a head another dependency has already skipped
(`ExecutorTerminalStays`), and a node skipped for that head is left without its reason. The graphs of both passing runs meet it. `GrowInv` says that the
statuses in memory and in the journal are justified while no rollback is under way, that
memory is ahead of the journal, and that the marker is durable from the first
compensation on.

**`LockersProofs`.** `DrivesSerialized`, with the reference counts as the strengthening: a
drive that holds a reference refers to the registered entry of its process, the
entry's count is the number of drives referring to it (`EntrySound`), its holder is the
one drive in the section, and its waiters are queued once each. Dropping the last
reference is therefore dropping an entry nobody waits on.

**`SchedulesProofs`.** `BacklogBounded`, `NextSlotExact` and `OneshotNeverLost`. The slot
proof has an arithmetic part: the bit mask `ParseCron` builds from ranges and steps
matches an instant exactly if some term of the expression allows it
(`MatchesIffAllows`), the day rule is the union only where both fields are restricted
(`MatchingFires`), `Next` finds the earliest such instant within the horizon
(`CronNextExact`) and an interval advances to the first multiple after now however many
were missed (`NextMultiple`). The backlog proof compares the counted runs with those the
capped transaction saw.

**`StoresProofs`.** File stores: `SyncedIsCurrent` and `LossBounded` from the facts that
the last accepted state is in the file or retained, and that the cadence counts the
checkpoints at risk since the last boundary, the ones before it being within what the
missed boundaries allow (`Allowed`). Mailbox: `MailboxWithinCap`, because a delivery past the flock holds
it (`FlockHeld`) and what it was admitted for still fits when it is renamed (`Admitted`).
SQLite: `NothingForgotten` and `ParkedIsDurable`; the shadow that a `SaveCheckpoint` diffs
against is what is committed, unless the run was deleted under it (`ShadowIsRows`); a park
leaves nothing in the capture or the WAL until somebody drives, deletes or claims the run
(`ParkIsClean`); and under Strict the WAL is always empty (`StrictIsSynced`).

**`NodesProofs`.** Fan-out: `ExpansionBeforeBranches` and `FanOutPartition`, with the hypothesis
`NodeRetries = 0`: a retry within a drive takes an expansion whose checkpoint failed for
a stored one, and both are false with retries. `FanJournal` says that past the flush memory and store hold the
same expansion; `FanResults` ties each settled branch to the child run of its item, failed
or not, and each key to what that run has stored. Waits: `WaitEndsForCause`: a drive decides on the stored run and on signals that
were sent, and an armed deadline is the true one or the last instant (`Armed`), for which
`ArmAtExact` follows the clamp of `timer.go` through the wrap of the integers. Sub-workflows:
`CompletedOverResult`, since what was read of a child that is over is so still, a result key
that was there when the journal was read is what the parent takes, and a row is done only
after its journal is over.

**`GraphProofs`.** `BuiltGraphHolds`, for any finite set of nodes and any declarations. Each
conjunct of `GrInv` carries one phase of Build to the next. `Exploring` gives the cycle search
a meaning: what it is through with has a topological order, and the trail is a path on top
of it; when the trail is empty for good, the graph has one (`Acyclic`). The edges that
`validateReconvergence` adds afterwards, from a merge to its choice, are checked by
nobody; that they close no cycle is `BranchAbove`: the choice `nearestBranch` finds above a
node precedes it in every topological order. `Placing` counts: the in-degree of a node is
the number of its dependency edges from nodes not placed yet, so it never goes below zero
and, the graph being acyclic, an empty queue means that every node has a rank
(`AllPlaced`), each above its dependencies (`Ranked`). `BoundariesGuarded` turns what
`validateBoundary` computes into a fact about runs: if no path from a root reaches the sink
around the verifier, there is a set of nodes (`CutOff`) that a run cannot enter before the
verifier succeeded, since a node starts only after a dependency let it through. The two
searches are recursive functions. `SearchEnds` says of any recursion that moves to one next
state until it halts: the function exists, and where a measure falls its value is that of
a halting state. The induction is done with the least element of a set of naturals
(`LowestExists`), which needs no operator as a parameter.

**`ServicesProofs`.** `ServicesTypeCorrect`, `ServicesHold` and `ServicesFanOutHolds` carry the
results to the specification the `Services` run explores: each of its steps is a step of
one service and leaves the others alone, so it implies every service's own
specification (`ServicesProject`).

What proving changed in the models. Two CASE expressions whose arms overlapped
(`NodeDecides`, `CheckWidth`) chose an unspecified arm where the code takes the first;
`PollerScans` fixed an order among schedules due at the same instant that the code's sort
does not promise, and now leaves it free; `Durations` had no width, while the code's are
`int64`; the null constants were not assumed to differ from the values they replace.
The counterexample to `ExpansionBeforeBranches` with retries came out of the failed attempt
to prove it. `Graph` had its builders as an untyped set and `nearestBranch` without its
visited set; both are stated now, and `BuiltGraphHolds` has gained the conjunct about ranks,
which is what `Executor` assumes of `GetLevels`.

Only model-checked, with the reason:

* liveness (`QueueDrains`, `RollbackFinishes`, `SignalWakes`, `WaiterServed`,
  `DueScheduleFires`, `PoolDrains`, `WaitEnds`, `ParentLearns`): fairness and ENABLED
  are beyond this prover;
* the properties the violation runs refute.

## Not modelled, and the plan

Not modelled: encodings, depth and size limits of values (data; where a limit refuses
a write, `FsWriteFails` has the refusal); `MigrateToFlatBuffers` and the schema
migrations (one-off conversions); directory fsync failures, which the code swallows;
the definition digest and its migrations, and the boundary envelope; which writes a
sealed view refuses; the type-cycle check of registries; observability; user
actions and middleware, whose outcome is a free choice; the goroutine left by a
compensation that outlives the rollback deadline; error wording.

What remains, in this order:

1. A `DurableJob` that allows a foreign write after a requeue, so that the refinement can be
   stated of workflows that were put back (`QueueZombieNeverLands`).
2. The saga driven from the queue (a cancelled saga resumes into rollback), and the
   abandoned compensation.
3. `SubWorkflow` composed with `WorkQueue`, whose signals and rows it now abstracts.
