# A verification of dagu's DAG execution

dagu runs DAGs of steps. A DAG is started by a person, by the cron scheduler, by a
queue or by a coordinator that hands it to a worker. Its execution is driven by one
event loop per run. This project keeps TLA+ models of that system beside the code:
what is modelled, what TLC checks on small instances, and what TLAPS proves for
every instance.

## The system and its modules

| Part (under `src/internal`) | What is hard | What makes it correct | Module |
|---|---|---|---|
| Runner, Node (`runtime/runner.go`, `node.go`, `data.go`) and the stop routine of the Agent | one goroutine per step, two channels, stop requests at any moment | every node decided once, started once and behind its dependencies, limits kept, a sound status | `Runner`, `RunnerProofs`, `RunnerCoverage` |
| Plan (`runtime/plan.go`) | cycles, restored states in any combination | cycles refused; a retry clears exactly the failed nodes and what follows them | `Plan`, `PlanProofs` |
| Directory lock (`cmn/dirlock`) | stale locks, crashes between two file operations | at most one owner; a split does not last; nobody is locked out by the dead | `DirLock`, `LockPromise`, `DirLockProofs` |
| Queue processor, agents, enqueue, dequeue and retry, zombie detector, with the run, queue and process stores | several processes write the same files; whoever looks dead may be alive | one execution per run, the limit of the queue, no run lost, final statuses kept | `RunQueue` |
| Coordinator, workers, dispatchers, with the task, lease and heartbeat stores | lost and late messages, expiry against a late answer | one worker per run, sound verdicts about lost workers, reports persisted, nothing left behind | `Dispatch`, `DispatchInv`, `DispatchProofs` |
| Scheduler: tick planner, catch-up, one-off schedules, watermarks | crash between dispatch and save, edits at any moment | each scheduled time is run as its policy says | `TickPlanner` |

The runner is called by the agent and calls the node; a node calls its executor, which
owns the process (`Runner`). A plan is built before the runner sees it (`Plan`); the states
it can be restored to are the initial states of `Runner`. Agents, the queue processor, the
zombie detector and the commands share three file stores and no memory, and `RunQueue`
composes them: the compare-and-swap of the run store, the group lock of the process store
and the order of their calls are all that keeps them apart. The store's own locks are
directory locks; `RunQueue` takes each critical section under them as one step, which is
what `DirLock` justifies for processes that do not stall. `Dispatch` composes the same
queue processor with the coordinator and its workers. `TickPlanner` is what puts runs in
front of both. `PROJECT.json` maps each definition to the lines it models and lists the
hazards by line.

An event that may or may not be possible in a behaviour (a crash, a stall, a lost answer, an
edit) is switched on or off by a variable that `Init` chooses and no step changes: `faults`
in `DirLock`, `world.events` elsewhere. A property that some event breaks is stated without
that event, and the tables below say which, and how. How often clients act and things go
wrong is bounded (`MaxCalls`, `MaxMishaps`): the code does not count them, but each of the
behaviours below needs only one.

## Runner

`Runner.tla` has three kinds of processes that interleave step by step.

* The event loop, `loop`: preconditions, the init handler, the first scan, then
  head, decide, select and visit, then the wait group, the status and the handlers.
  `visit` and `todo` are the queue of `processCompletedNode`; `accept` says whether
  `activeReadyCh` is the channel or nil.
* One goroutine per node, `pc[n]`: prepare, preconditions, the execution loop with
  setup, process, error handling, retry sleep and repeat, then the final status,
  teardown, and the deferred functions in the order Go runs them. `proc[n]` is the
  process, `cmd[n]` whether `Node.cmd` is set.
* The stop routine of the agent, `sigPc`: it sets `canceled`, walks the nodes and
  signals those that are Running, and sends again or escalates until no node is active.

Constants give the plan (`NodeSeq`, `DependencyMap`, `DependantMap`), the configuration
of each step (`Step`), the states it was restored with (`Restored`), the exit codes, the
limit, and which of timeout, preconditions, handlers and stop requests exist.

What is abstracted:

* Time: a timeout, a retry interval or the cleanup period may end at any moment.
* The result of a command, a precondition and a guarded repeat condition is any result.
* The reads that `isReady` makes of several dependencies are one step, and so are the two
  conditions at the head of the loop, and the kill of a process with the status it sets.
* One stop routine at a time. Only termination signals are sent.
* `continueOn.output`, the cache of `ShouldContinue`, chat messages, outputs, metrics and
  tracing are left out. A panic happens where a process starts, for steps that may panic.
* `doneCount` is kept where a repeat limit is set, so that the state space is finite.
* `Status` is modelled for a plan that has started, as every constructor of `Plan` leaves it,
  and without `forcedStatus`, which nothing in the program sets.

Nodes may be restored in any state, Running and Retrying included: a step retry keeps what it
does not retry as it was (`plan.go:143`). Nobody executes such a node in the new run; `fan`
has one.

## Plan

`Plan.tla` follows `NewPlan`, `NewPlanFromNodes`, `CreateRetryPlan` and
`CreateStepRetryPlan` for a request chosen in `Init`: bind the nodes to the steps, build the
edges, take nodes without open dependencies off one by one (`Process`, the loop of
`isCyclic`), and for a retry walk the plan level by level (`Visit`, `NextLevel`: the loop of
`setupRetry`). A level is a set: the order within it does not matter to what is cleared, and
`Visit` takes its nodes in any order. Errors for unknown steps end the construction.

The retry budget of the step that `CreateStepRetryPlan` retries is not part of the model:
whether its policy is kept or replaced by an empty one (`preserveRetryBudget`,
`plan.go:157-169`) changes neither the edges nor the states that the properties are about. In
`Runner` the policy of a step is any policy, the empty one included.

## DirLock

One action per file operation of `TryLock`, `Lock`, `Heartbeat`, `IsHeldByMe`, `Unlock` and
`ForceUnlock`: stat, mkdir, the write of the owner file, the touch, and the two halves of
`os.RemoveAll`. `dir` is what is on disk, `held` the `isHeld` flag of each instance.
Between any two operations others may act, the client may crash, or its lock may turn stale
although it is alive (`stall`).

`LockPromise.tla` is what a user of the lock relies on: holders come and go one at a time;
one comes while another holds it only in an unreliable environment; and when two hold it,
this does not last. `DirLock` implements it (`LockRefined`), with
`holders = {c : held[c]}`. In a reliable environment the lock is exclusive.

In an unreliable one the code does not promise more, and three places show why. A contender
that found the lock stale removes whatever lock is there when it comes to remove it, also the
new one of a faster contender. `Unlock` reads the owner and then removes; the comment in
between, "We still own the lock — safe to remove." (`dirlock.go:278`), holds only for a
holder that has not stalled. A crash between mkdir and the owner file leaves a directory that
belongs to nobody until it is stale (`OrphanRecovered`). `ForceUnlock` has no caller outside
tests.

## RunQueue

Two dag-runs of one queue. State: the attempts of each run (`attempts[r][n]` is what the
status file of the n-th attempt says: no directory, no file, no line, hidden, or a status),
the queue's items, the retry subprocesses with their proc entries (`proc`), the group lock,
and where each actor is. Actors:

* the enqueue command: `PersistQueued`, `EnqueueItem`;
* the queue processor: list, count, then for each item in work `processDAG`,
  `LaunchOrDiscard`, the two looks for a start (heartbeat, then status) and the removal of
  the item;
* a retry subprocess: read the target, take the group lock, read again
  (`ensureQueueDispatchRetryTarget`), create the attempt, acquire the proc entry, open the
  attempt, Running, the final status, and the end of its entry; beside it the heartbeat, and
  the goroutine that may write Running late;
* the zombie detector: list stale entries, read, repair, remove;
* the dequeue command (`AbortQueuedDAGRun`) and a caller of `EnqueueRetry`.

What is abstracted: a repair or a compaction leaves an open writer with a file nobody reads
(`attached`); heartbeats are fresh or stale; the wait for a start ends when the process has
started or died, or, with `slow`, at any time; a DAG may be suspended when an item is looked
at. The failure counter of the zombie detector is left out, since it only delays it.

Two paths of the commands are left out, and the properties say nothing of them. A retry of a
catch-up run that is still Queued writes its status without the group lock before the
subprocess goes on (`prepareQueuedCatchupRetry`, `cmd/retry.go:134,303`). A dequeue of a run
whose data is missing removes the item alone (`cmd/dequeue.go:119-178`): it is what a person
would run by hand to clear the item that the event `client` below leaves behind.

| Events | Does not hold | What happens |
|---|---|---|
| none, `abort`, `suspend` | | |
| `crash` | NotForgotten | A subprocess that dies between its proc entry and its first status: the item was removed when the heartbeat was seen, the run says Queued for ever, and the entry stays, since the detector finds no status to read (the case `EntriesCleared` leaves out). |
| `io` | NotForgotten, QueueDrains | An item that cannot be written after Queued was persisted; a proc entry that can never be acquired. |
| `client` | NotForgotten | Enqueue or retry dies between Queued and the item. `dag_executor.go:93` says that "No jobs are lost due to temporary system failures". With `abort`, QueueDrains too: a dequeue that dies between hiding the attempt and removing the run leaves an item whose run has no data, and the error ends every round. |
| `retry` | NotForgotten | The processor has seen the start of the first execution, which ends; the retry adds its item; `DequeueByDAGRunID` then removes both. |
| `retry`, two at a time | Exclusive, Limit | The processor misses a short execution; the retry adds a second item of the run before the first is gone; both are in the next batch. The second subprocess looks at the status only, and the attempt that the first has just created has none. |
| `retry` and `io` | Limit, QueueDrains | The retry's item cannot be written and its rollback puts the old attempt back to Failed while a new one is being created: the processor takes the run for ended, frees the slot and starts the next. |
| `slow`, `restart` | Exclusive, Limit | The processor stops waiting, or a new one takes over, before the subprocess has its proc entry: the item is started again. |
| `stall` | Exclusive, Limit, TerminalKept | The entry of a live process is stale: it is not seen as started or running, and is started again. The detector reads Running, the agent writes Succeeded, the repair writes Failed over it. |
| `late` | Settled, TerminalKept | The goroutine at `agent.go:791` checks `finished`, the final status is written, and then its Running. |

## Dispatch

One dag-run, queued (the scheduler's processor dispatches it, with `slots` of the queue) or
direct (the API does), and up to two workers. State: the latest attempt and its status, the
queue item, the task files, leases, index records and worker heartbeats behind the
coordinator, the attempt that `openAttempts` holds (`cache`), and where each worker, handler
and repair is. A remote call is the sequence of its handler's steps; the answer may get
lost. Actors: the dispatcher (`prepareAttemptForDispatch`, `Enqueue` of the task, the wait for
a start, the removal of the item), the workers (`Poll`, `AckTaskClaim`, execution,
`RunHeartbeat`, `Heartbeat`, `ReportStatus`), the recycler of expired claims, the detector of
stale leases with `ConfirmAndRepairStaleDistributedRun` and its tracking, a reader of the API
that repairs in the same way, `RequestCancel`, and a caller of `EnqueueRetry`.

What is abstracted: fresh or stale stands for time; a worker executes one task; the
coordinator restarts at once and has lost only its memory; one coordinator. `RunHeartbeat` is
one step, from its read of the lease (`handler.go:974`) over the swap to Running (`990`) to the
index record (`1018`) and the abort flag it answers with: that the detector deletes the lease
between two of these is not explored. A worker reports Running once, and a final status: the
repetitions of Running while it works, which write the status and the lease once more, are left
out, and so are Rejected and PartiallySucceeded, which are final like Failed and Succeeded, and
Waiting, which gives the lease up without being final (`handler.go:1724`): `Settled` says
nothing of a run that waits for an approval. A worker learns of a cancellation from the answer to `RunHeartbeat` only, not from the list
in the answer to `Heartbeat` (`handler.go:883`, `worker.go:586`), which says the same.

Events under which a property does not hold (blank: none):

| Event | queued | direct |
|---|---|---|
| none, `io`, `read` | | |
| `crash` | VerdictSound, AcceptedPersisted | VerdictSound, AcceptedPersisted |
| `cut` | VerdictSound, AcceptedPersisted, Settled | |
| `stall` | Exclusive, VerdictSound, AcceptedPersisted, Settled | VerdictSound, AcceptedPersisted, Settled |
| `slow` | Exclusive | Exclusive, Settled |
| `lose` | Exclusive, VerdictSound, AcceptedPersisted, Settled | |
| `restart` | VerdictSound | VerdictSound, Settled |
| `retry` | Exclusive, VerdictSound, AcceptedPersisted, Settled, the item in Released | Exclusive |
| `cancel` | | AcceptedPersisted, TerminalKept |

The behaviours behind it:

* The detector reads lease, index and heartbeat one after the other, and its swap compares the
  status only. A worker that is alive but late is failed while it executes; its next
  `RunHeartbeat` brings the run back to Running.
* The swap closes the attempt, and closing compacts its file into a new one. What
  `ReportStatus` accepts afterwards goes through `openAttempts` to the old file (run
  `report_lost`). When it is the final report, the run's file never says how it ended.
* The answer of `Dispatch` gets lost: the item stays and is dispatched again, with a second
  task beside the first.
* `AckTaskClaim` races the recycler: the claim has been read as expired, is acknowledged, and
  is then written back as a pending task that a second worker claims.
* A retry through the queue reuses the attempt ID of the dispatched run and keeps its
  `WorkerID`: a reader or the detector takes the queued retry for a run of the old worker and
  fails it, or deletes the new lease over and over; a retry enqueued between the start and
  `DequeueByDAGRunID` loses its item.
* A directly dispatched task that expires before a worker claims it leaves the run NotStarted:
  nobody looks at it again.
* A lost final report of a worker that succeeded: the lease expires and the run is recorded as
  failed.
* Cancelling a direct run that has not started writes Aborted without a swap, while reports
  arrive. The abort flag of an attempt is never removed.

## TickPlanner

One DAG and the scheduler's planner. State: the clock in minutes, the DAG's file and the
notifications about it, the registry and planner entry, the catch-up buffer, the watermark in
memory, in flight and on disk, the cron loop, the goroutines of `dispatchRun`, and the runs
with their processes. Actions: `Start` (load, `initBuffers`), the tick in its steps (plan, the
catch-up dispatch with its check and its reinsertion, the live dispatches, `Advance`), the
check and the dispatch of each job, `Flush` and `Save`, `handleFSEvent`, stop, crash and the
life of a run. The environment edits, suspends, starts the DAG by hand, loses the watermark
file.

A schedule is a set of minutes (`cron`), a one-off minute (`at`), and stop and restart minutes;
the clock stops at the world's `until`, at most `Horizon`, and ticks go on. `MaxMissedRuns` and
`MaxBufferItems` are two: the two slots of most worlds fill the buffer, and the three of
`Many` do not fit. `DeletedGrace` is passed by a clock that goes on, and not by a file that
comes back at once. A process that has been launched may die before it has recorded its
dag-run (`FailToBegin`, with `die`); the scheduler does not wait for it.

`repeatable` is a history variable: the slots whose run the scheduler may have repeated
because it was started again within their minute, or before the watermark behind them was saved.

| Property | Not under | What happens |
|---|---|---|
| AtMostOnce | `io` with a restart | A status that cannot be read is in nobody's way: a scheduler that starts again within the minute of a slot runs it again although its dag-run is there. |
| | `edit` | A change handled between `Plan` and `Advance`: `recomputeBuffer` still sees the old `lastTick` and puts the slot of this tick into the buffer; it runs live and as catch-up. |
| | `manual` | A manual run is the latest status, and hides the scheduled run from `shouldRun` (locally executed DAGs). |
| Chronological | `edit` | An edit that is handled while a slot is being dispatched may fill the buffer with earlier ones (`recomputeBuffer`): they run behind it, also when its dispatch fails and it is put back at the front. |
| | `lost` with a restart | The replay starts anew. |
| CatchupKept | `crash`, `stop` | `Advance` moves `lastTick` while slots wait in the buffer; a restart starts behind them (run `catchup_lost`). |
| | `edit`, `suspend` | The buffer is computed anew from the edited schedule, and dropped while the DAG is suspended. |
| OneOffSound, OneOffRuns | `lost`, `edit` | Without a stored state a one-off time in the past is taken as consumed. |
| | `die` | A one-off time is marked consumed as soon as the process was started (`tick_planner.go:1295`): when it ends before it has recorded its dag-run, the run is lost. |

Across a restart `AtMostOnce` says which slots may be run twice, and that no slot is run more
often. A live run that the saved watermark does not cover is caught up with again; one whose
process has not recorded its dag-run yet is not seen by a scheduler that starts within its
minute; and the slot of the minute of the restart, when it waits in the buffer behind a run
that ends between the check for a busy DAG and `shouldRun`, is run both live and as catch-up.
Every other slot is run once. `OneRunPerID` has no
exception: whatever is dispatched twice, one dag-run is recorded for each one-off time and
each catch-up slot, whose IDs are generated from the time.

"OverlapPolicyAll queues all runs and executes them sequentially in chronological order."
(`core/overlap_policy.go:18`) is what `Chronological` states; the row on edits is where the code
departs from it. The model also shows that overlapping `Flush` calls
may leave an older watermark on disk until the next tick, although `Flush` is "Safe for
concurrent use." (`tick_planner.go:960`); that live slots are passed over while catch-up
items are waiting or the DAG is busy; that a live dispatch that fails loses its slot, since
`Advance` has moved on; that a crash between creating a catch-up attempt and its queue item
leaves a Queued run that is taken for done; and that runs on remote workers do not make a DAG
look busy to catch-up.

## Runs

To repeat a run: `tlc -config Join.cfg MCRunner`; to check proofs: `tlapm RunnerProofs.tla`.

| Run | Instance | Checks | Distinct states |
|---|---|---|---|
| `join` | three parents, one child, limit 2; one is a sub-DAG whose retry is left to the coordinator | Bookkeeping, MaxActive, DepsHonoured, NoStranding, ReportSound | 1,054,906 |
| `chain` | chain in reverse order, retry, approval, timeouts, all handlers | TypeOK, ApprovalGate, NoStranding, ReportSound, Termination | 262,402 |
| `stop` | a step that retries, repeats without limit and may panic, its dependent, a stop request; beside them a restored Skipped step and its child | HandlersAfterSteps, DepsHonoured, PanicSettled, StopEnds | 121,862 |
| `fan` | two parents of the same four children, and a node restored as Running | NoRelaunch; deadlock is not checked, since the loop can block here | 18,038 |
| `plan` | every graph of three nodes and every ordered one of four, with every choice of failed nodes; fresh plans; missing steps and nodes; step retries | CycleCheck, RetryExact, Termination | 43,284 |
| `dirlock` | three clients, every combination of faults | MutualExclusion, LockRefined, OrphanRecovered | 288,420 |
| `run_queue` | two runs, two subprocesses at a time, four attempts, one mishap, one call; twelve regimes of events | Exclusive, Limit, NotForgotten, TerminalKept, QueueDrains, EntriesCleared, Settled | 165,003 |
| `dispatch` | two workers, two attempts, two tasks, one mishap, one call; 21 regimes | Exclusive, VerdictSound, AcceptedPersisted, TerminalKept, Settled, Released | 149,133 |
| `tick_planner` | up to five minutes; one, two or three slots to catch up with, a one-off time, alone or behind a run that keeps the DAG busy, stop and restart; 19 regimes | AtMostOnce, OneOffSound, OneRunPerID, Chronological, CatchupKept, OneOffRuns | 377,794 |
| `kill` | a process that ignores SIGTERM | StopReachesProcesses, violated | |
| `report_lost` | a direct dispatch, one worker that is late once | StatusPersisted, violated | |
| `catchup_lost` | overlap policy `all`, a scheduler that is stopped once | RunsKept, violated | |

The last three show where the code departs from what a comment or the schema says of it;
`PROJECT.json` quotes the lines. For each property of the others it names a variant of one
definition (a dropped guard, a test that is off by one, a forgotten case) under which TLC
finds the property violated; the variants stand before the definitions they vary.

Why the bounds are enough. `Runner`: the hazards need two parents that finish together (three
in `join`, so that the limit of two matters), a grandchild (`chain`), one process against one
stop routine (`stop`); one retry and a repeat limit of two separate "again" from "never".
`fan` needs four children, so that the two entries of each are more than its seven nodes, and
follows the children only until their preconditions (`ChildrenStart`). `DirLock`: a holder, one that finds it stale, and one that is faster.
`RunQueue`: two runs for the limit, two subprocesses for one that is taken for dead beside
its successor. `Dispatch`: two workers to execute one run twice. `TickPlanner`: a slot in the
buffer behind another, and a minute behind both; a third for a buffer that is full. One mishap at a time: what a single fault
breaks is the question, and the tables above answer it; combinations of mishaps are
explored only where a table names them. Deadlock is checked in `join`, `chain` and `stop`, which end in a
stuttering step, and in `dirlock`; the other models stop when their work is done and their
budgets are spent.

## Fairness

* `Runner`. `Scheduled` is weak fairness of the event loop, of each node goroutine and of the
  stop routine, its escalation to SIGKILL included: the Go scheduler runs every goroutine that
  can run, and sleeps and timers end. `FairSpec` adds that each process ends; `StubbornSpec`
  only that one ends that was killed. No fairness is assumed of a stop request or a timeout.
* `Plan`. Weak fairness of the construction, a sequential function.
* `DirLock`. A call goes on, a waiting `Lock` polls, a holder checks in or unlocks, and an
  untended directory grows old.
* `RunQueue`. Weak fairness of each program that runs or is polled in a loop: the processor,
  each subprocess, the detector, a command that has begun; the entry of a dead process grows
  old, and the one of a live process is refreshed.
* `Dispatch`. The same, and strong fairness of the detector's scan of one attempt and of
  `TouchLease`: the detector serves the attempts in turn and is busy with one while another
  waits, and a worker's heartbeat goes on beside its reports. Both are tickers that come round
  to everything that keeps waiting for them.
* `TickPlanner`. Weak fairness of the loop, the goroutines, the flusher, the file watcher, the
  clock, the runs, and of a suspension's end, without which nothing is promised. None of edits,
  stops, crashes or manual runs.

## Proofs

`RunnerProofs` proves, for every plan, configuration and number of nodes, that `TypeOK` and
`Bookkeeping` are invariants, that at most `MaxActiveSteps` commands run at the same time
(`MaxActiveHolds`), that a node's goroutine is started once (`NoRelaunchHolds`), and that no
process of a step is left when handlers run (`HandlersAfterStepsHolds`). The inductive
invariant is `TypeOK /\ Bookkeeping`. `MaxActive` alone is not inductive: the limit is tested
against `running`, so the proof needs that `running` counts exactly the goroutines that have
not been received from `doneCh` (`CountInv`), that the channel is open only while a slot is
free (`LimitInv`), and that a process has a goroutine waiting for it (`ProcInv`). `NoRelaunch`
needs that a started node never looks NotStarted again (`StartedInv`), and the handlers need
`AwaitInv`. The proof has one lemma per group of actions.

These theorems put no condition on the states that the nodes are restored to.

`RunnerCoverage` rests on the same invariant. `NoStrandingHolds` says that a run that nobody
stops leaves its event loop with every node started or decided, unless one waits for an
approval or a retry. Its invariant `SInv` says that while the loop runs every undecided node is
`Covered`: it is in `readyCh`, it is to be visited, or it depends on a node that has yet to
complete or to be decided. Three hypotheses are needed, and each stands for a behaviour
described below: no step panics (`NoPanic`), no node was left Running (`NoneRunning`), and the
first scan either meets only fresh nodes or meets each node behind its dependencies
(`ScanOrder`). `PanicSettledHolds` needs none of them: behind the wait group of a run that
nobody stops, no node that was started is Running, however it ended.

`PlanProofs` proves, for every finite set of nodes and every edge relation, that the cycle
check accepts exactly the acyclic plans (`CycleCheckHolds`) and that a retry clears exactly
what failed and what depends on it (`RetryExactHolds`). `Acyclic` says that every non-empty
set of nodes has one that depends on none of them, and `MustRetry` is the least closed set
with the failed nodes: both without paths, so that no induction is needed. The invariant says
that each counter is the number of unprocessed dependencies (`Counted`), and that the search
has cleared only what must be and still holds, in this level or the next, whatever is left to
clear (`Searched`). At the end, the nodes that were never visited would contain one that
depends on none of them; its dependencies were visited, so it was.

`DirLockProofs` proves, for every set of clients, that the lock is exclusive in a reliable
environment (`MutualExclusionHolds`) and that every step, under every fault, is one of
`LockPromise` (`PromiseKept`). The invariant says that, in a reliable environment, at most one
client is past mkdir, and what the directory looks like at each of its steps; it follows that
no directory turns stale and nobody steals.

`DispatchProofs` proves, for any set of workers, any number of attempts and tasks and any
combination of the events that `Exclusive` allows, that no two workers execute the dag-run at
a time (`ExclusiveHolds`). The invariant is `IInv` of `DispatchInv`, which also has the lemmas
on dispatching and on repair; `DispatchProofs` has those on workers, claims and restarts. It
says that the right to execute is in one place at most, an open task file or a worker in charge
(`OneRight`), and nowhere when the dispatcher may dispatch: the queue's dispatches only a run
that says Queued, which it says while no worker has reported, and a task or a fresh lease then
stands in the way (`QueuedOnce`); the API's dispatches once (`DirectOnce`). That the right
passes from a task to one worker needs the tokens of the claims (`Claims`). `IInv` was an invariant of
a run of TLC before it was proved.

The assumptions are the named ones on the constants, which TLC evaluates in the runs; those of
`Dispatch` are that `NoWorker` is no worker, that the bounds are numbers, at least one attempt,
and that a world is queued or is not.

Only model-checked:

* Liveness, which is out of the prover's reach: `Termination`, `StopEnds`, `OrphanRecovered`,
  the second half of `LockRefined`, `QueueDrains`, `EntriesCleared`, both `Settled`,
  `Released`, `CatchupKept`, `OneOffRuns`.
* `DepsHonoured`, `ReportSound` and `ApprovalGate` of `Runner`: they do not hold for every
  configuration (see below); TLC shows them for the configurations of the runs.
* The properties of `RunQueue` and `TickPlanner`, and those of `Dispatch` other than
  `Exclusive`. They hold regime by regime, and which regimes is what TLC was used to find out;
  no inductive invariant is written for them.

## What else the models show

Besides the three runs that are violated, and the tables above, the runner reaches states that
no run keeps:

* Panic: the deferred functions run in reverse order, so the event loop hears of a panicked
  node on `doneCh` (`runner.go:242`) before it is marked Failed. The node is read as Running,
  its dependents stay NotStarted, and `Run` can end with the status Running, in the branch
  that says "These states should not occur at this point" (`runner.go:339`).
* Ready channel: `readyCh` has "Buffer size = total nodes to avoid blocking" (`runner.go:164`),
  but a child is queued once per parent that completes before it is received. Two parents of
  four children make eight entries for seven places, and the sender is the only receiver.
* Lost error: a repeating step clears `lastError` whoever set it (`runner.go:1446`), and the run
  is reported as succeeded with a Failed node.
* Approval: a step with an approval and `continueOn.markSuccess` whose command fails is set to
  Succeeded (`runner.go:1364`) and never waits, although the schema says that it "waits for
  human approval before proceeding to dependent steps" (`cmn/schema/dag.schema.json:1834`).
* Retry plan: the first scan does not pass on what it decides (`runner.go:169`). A grandchild
  declared before a child that is skipped stays NotStarted, and the run ends with the deadlock
  error.
* Deadline: `shouldRepeatNode` does not look at the context (`runner.go:1378`). A step that
  repeats until it succeeds goes on behind the deadline, where every execution fails.
* A node that is still Running in `finishNode`, where it "should not happen at this point" (a stop
  request between the check of the loop and an error of `setupExecutor`; `PanicSettled` is about
  runs that nobody stops); a stop request between `setupExecutor` and the start of the
  process, which reaches no process; the deadlock error with a ready node (a stop request
  between the two reads of `canceled`); an Aborted node that turns Succeeded (a stop request
  between the choice of the final status and its assignment).

## Not modelled

The mapped lines are a few percent of the repository. Most of the rest has no protocol to check:
the YAML schema and its loader, the executors (Docker, SSH, HTTP, SQL, mail and so on), the web
frontend and its API, authentication, the AI agent and chat bridges, git synchronisation, the
configuration and the command line. They parse, format, call other services or read and write
one record, and their state is that of the stores above; a model would repeat them line by line
and have nothing to say about their interleavings. Of the parts that are modelled, these are
left out:

* `Runner`: outputs, logs, chat messages, metrics; `continueOn.output`; sub-DAG executors, which
  are processes here.
* Agent: the socket, notifications, artifacts and the environment of a run.
* `RunQueue`: several queues, and queues that come and go (`removeInactiveQueues`); priorities;
  sub-DAG runs; the retry policy's delays and limits; the group lock's re-entrance within one
  process; listing, pagination and caches of the run store.
* `Dispatch`: several coordinators; worker selectors and capacity; sub-DAGs; log, artifact and
  output streaming.
* `TickPlanner`: `SkipIfSuccessful` and the fingerprints of start schedules
  (`reconcileStartScheduleState`); several cron schedules of one DAG; a scheduler with queues
  disabled; two schedulers at once; two writers of one temporary file in `Save`; the order of
  events within a minute.
