------------------------------ MODULE Dispatch ------------------------------
(***************************************************************************)
(* One dag-run that is executed on remote workers: the dispatcher (the     *)
(* scheduler's queue processor, or the API), the coordinator's handlers,   *)
(* the workers with their pollers and heartbeats, the coordinator's        *)
(* detector of stale leases and the API's repair on read.  What they share *)
(* are the files behind the coordinator: the latest attempt's status, the  *)
(* dispatch tasks, the leases, the active-run index and the workers' last  *)
(* heartbeats.                                                             *)
(*                                                                         *)
(* A step is one access to one of these stores; an update of the lease and *)
(* of the index next to it is one step.  A remote call is a sequence of    *)
(* the handler's steps that the caller waits for.                          *)
(***************************************************************************)
EXTENDS Integers, FiniteSets

CONSTANTS
  Workers,
  NoWorker,      \* a model value
  MaxAttempts,   \* bound: attempts of the dag-run
  MaxTasks,      \* bound: dispatched tasks at a time
  MaxCalls,      \* bound: retries and cancellations
  MaxMishaps,    \* bound: deaths, partitions, lost answers and delays
  Worlds         \* the ways to dispatch and combinations of events to consider

ASSUME NoWorkerAssumption == NoWorker \notin Workers

ASSUME BoundsAssumption == MaxAttempts \in Nat \ {0} /\ MaxTasks \in Nat

ASSUME WorldsAssumption == \A w \in Worlds : w.queued \in BOOLEAN

VARIABLES
  run,        \* the latest attempt: its number, its status, the status's worker,
              \* and the worker that its error says was lost
  item,       \* the dag-run has an item in the queue
  cache,      \* openAttempts: the attempt held open, and whether its file still is the attempt's
  tasks,      \* the dispatch task files
  lease,      \* the lease of each attempt
  index,      \* the active-run record of each attempt: its worker
  seen,       \* per worker the running tasks of its last heartbeat, if that is fresh
  worker,     \* the workers
  report,     \* the ReportStatus call under way
  repair,     \* the detector and a reader of the API, confirming a stale run
  dispatcher, \* the queue processor or the API
  recycler,   \* recycleExpiredClaims: the claim it has read
  canceller,  \* RequestCancel
  aborting,   \* attempts with an abort flag
  calls,
  mishaps,
  world       \* the way to dispatch, the queue's slots, the workers there are, what may happen

vars == <<run, item, cache, tasks, lease, index, seen, worker, report, repair,
          dispatcher, recycler, canceller, aborting, calls, mishaps, world>>

environment == <<mishaps, world>>

requests == <<canceller, aborting, calls>>

May(event) == event \in world.events

(* crash: a worker may die.  cut: it may lose its coordinator.  stall: one   *)
(* that goes on executing may be late by more than the stale threshold.      *)
(* slow: a claim, a pending task or the processor's wait may time out while  *)
(* someone still works on it.  lose: an answer may get lost.  restart: the   *)
(* coordinator may die.  io: writing a task may fail.  retry, cancel, read:  *)
(* someone retries, cancels or looks at the dag-run.                         *)
Events == {"crash", "cut", "stall", "slow", "lose", "restart", "io", "retry",
           "cancel", "read"}

Mishap(event) ==
  /\ May(event)
  /\ mishaps < MaxMishaps
  /\ mishaps' = mishaps + 1
  /\ UNCHANGED world

Call(event) == May(event) /\ calls < MaxCalls /\ calls' = calls + 1

Attempts == 1 .. MaxAttempts

TaskIds == 1 .. MaxTasks

(* Failed comes in two kinds: reported, and "lost" (the lease expired). *)
Failures == {"failed", "lost"}

Terminal == {"succeeded", "aborted"} \cup Failures

Active == {"queued", "notstarted", "running"}

NoTask == [state |-> "none", att |-> 0, token |-> 0]

NoLease == [is |-> "none", worker |-> NoWorker]

Vacant == [pc |-> "idle", att |-> 0, task |-> 0, token |-> 0, touched |-> "none", cut |-> FALSE]

NoReport == [pc |-> "idle", worker |-> NoWorker, status |-> "none"]

NoRepair == [pc |-> "idle", att |-> 0, status |-> "none", worker |-> NoWorker]

Repairers == {"detector", "reader"}

NewAttempt(a, st) == [att |-> a, status |-> st, worker |-> NoWorker, lost |-> NoWorker]

Init ==
  /\ world \in Worlds
  /\ run = IF world.queued THEN NewAttempt(1, "queued") ELSE NewAttempt(0, "none")
  /\ item = world.queued
  /\ cache = [att |-> 0, attached |-> FALSE]
  /\ tasks = [t \in TaskIds |-> NoTask]
  /\ lease = [a \in Attempts |-> NoLease]
  /\ index = [a \in Attempts |-> NoWorker]
  /\ seen = [w \in Workers |-> [fresh |-> w \in world.workers, tasks |-> {}]]
  /\ worker = [w \in Workers |-> IF w \in world.workers THEN Vacant ELSE [Vacant EXCEPT !.pc = "dead"]]
  /\ report = NoReport
  /\ repair = [x \in Repairers |-> NoRepair]
  /\ dispatcher = [pc |-> "idle", att |-> 0]
  /\ recycler = 0
  /\ canceller = 0
  /\ aborting = {}
  /\ calls = 0
  /\ mishaps = 0

----------------------------------------------------------------------------
(* The stores.                                                              *)

SetStatus(st, w) == run' = [run EXCEPT !.status = st, !.worker = w, !.lost = NoWorker]

(* Closing an attempt compacts its file into a new one, and the file that   *)
(* openAttempts holds is no longer the attempt's.                           *)
Detached(a) == IF cache.att = a THEN [cache EXCEPT !.attached = FALSE] ELSE cache

Outstanding(a) == \E t \in TaskIds : tasks[t].state \in {"pending", "claimed"} /\ tasks[t].att = a

Reserved == Cardinality({t \in TaskIds : tasks[t].state \in {"pending", "claimed"}})

Leased == Cardinality({a \in Attempts : lease[a].is = "fresh"})

SetTracking(a, l, w) ==
  /\ lease' = [lease EXCEPT ![a] = l]
  /\ index' = [index EXCEPT ![a] = w]

----------------------------------------------------------------------------
(* The dispatcher.                                                          *)

DispatcherGoto(pc) == dispatcher' = [dispatcher EXCEPT !.pc = pc]

(* ProcessQueueItems and selectRunnableQueueItems: a free slot, and no task *)
(* of the attempt outstanding.                                              *)
ProcessQueueItems ==
  /\ dispatcher.pc = "idle"
  /\ item
  /\ world.slots - Leased - Reserved > 0
  /\ ~ (run.status = "queued" /\ Outstanding(run.att))
  /\ DispatcherGoto("process")
  /\ UNCHANGED <<run, item, cache, tasks, lease, index, seen, worker, report, repair, recycler, requests, environment>>

processDAG ==
  /\ dispatcher.pc = "process"
  /\ dispatcher' = IF run.status = "queued" THEN [pc |-> "prepare", att |-> run.att]
                   ELSE [dispatcher EXCEPT !.pc = "dequeue"]
  /\ UNCHANGED <<run, item, cache, tasks, lease, index, seen, worker, report, repair, recycler, requests, environment>>

(* The API starts the dag-run, or retries it, without the queue. *)
DispatchDirectly ==
  /\ ~ world.queued
  /\ dispatcher.pc = "idle"
  /\ \/ run.att = 0 /\ UNCHANGED calls
     \/ run.status \in Terminal /\ run.att < MaxAttempts /\ Call("retry")
  /\ dispatcher' = [pc |-> "prepare", att |-> 0]
  /\ UNCHANGED <<run, item, cache, tasks, lease, index, seen, worker, report, repair, recycler, canceller, aborting, environment>>

(* A healthy worker is there, or Dispatch refuses and the caller tries again. *)
createAttemptForTask ==
  /\ dispatcher.pc = "prepare"
  /\ \E w \in Workers : seen[w].fresh
  /\ \/ /\ dispatcher.att # 0
        /\ run.att # dispatcher.att \/ run.status # "queued"
        /\ DispatcherGoto("dequeue")
        /\ UNCHANGED <<run, cache>>
     \/ /\ run.status = "queued"
        /\ dispatcher.att \in {0, run.att}
        /\ cache' = [att |-> run.att, attached |-> TRUE]
        /\ dispatcher' = [pc |-> "enqueue", att |-> run.att]
        /\ UNCHANGED run
     \/ /\ run.status # "queued"
        /\ dispatcher.att = 0
        /\ run' = NewAttempt(run.att + 1, "notstarted")
        /\ cache' = [att |-> run.att + 1, attached |-> TRUE]
        /\ dispatcher' = [pc |-> "enqueueNew", att |-> run.att + 1]
  /\ UNCHANGED <<item, tasks, lease, index, seen, worker, report, repair, recycler, requests, environment>>

(* A file's number is used again once nobody refers to the file; a task's    *)
(* number is above the pending ones'.                                        *)
Unused(t) ==
  /\ tasks[t].state \in {"none", "gone"}
  /\ recycler # t
  /\ \A w \in Workers : worker[w].pc \in {"ack", "lease", "finish"} => worker[w].task # t
  /\ \A u \in TaskIds : tasks[u].state = "pending" => u < t

(* The task is written; the answer may get lost, and the queue processor   *)
(* dispatches again.  When it cannot be written, a new attempt has failed.  *)
EnqueueTask ==
  /\ dispatcher.pc \in {"enqueue", "enqueueNew"}
  /\ \/ /\ \E t \in TaskIds :
             /\ Unused(t)
             /\ \A u \in 1 .. (t - 1) : ~Unused(u)
             /\ tasks' = [tasks EXCEPT ![t] = [state |-> "pending", att |-> dispatcher.att, token |-> 0]]
        /\ \/ DispatcherGoto(IF world.queued THEN "await" ELSE "idle") /\ UNCHANGED environment
           \/ world.queued /\ DispatcherGoto("prepare") /\ Mishap("lose")
        /\ UNCHANGED <<run, cache>>
     \/ /\ Mishap("io")
        /\ cache' = [att |-> 0, attached |-> FALSE]
        /\ IF /\ dispatcher.pc = "enqueueNew" /\ run.att = dispatcher.att
              /\ run.status \in {"queued", "notstarted"} /\ cache.attached
           THEN SetStatus("failed", run.worker) ELSE UNCHANGED run
        /\ DispatcherGoto("idle")
        /\ UNCHANGED tasks
  /\ UNCHANGED <<item, lease, index, seen, worker, report, repair, recycler, requests>>

Pursued(a) ==
  \/ Outstanding(a)
  \/ \E w \in Workers : worker[w].att = a /\ worker[w].pc \in {"ack", "lease", "finish"}

hasFreshDistributedLease(a) == lease[a].is = "fresh"

(* A mutant: the lease is not looked at. *)
startedByStatusOnly ==
  LET started == run.status # "queued" IN
  /\ dispatcher.pc = "await"
  /\ \/ started /\ DispatcherGoto("dequeue")
     \/ ~started /\ ~Pursued(run.att) /\ DispatcherGoto("idle")
  /\ UNCHANGED <<run, item, cache, tasks, lease, index, seen, worker, report, repair, recycler, requests, environment>>

(* checkStartupStatus: the status is not Queued any more, or there is a     *)
(* fresh lease; otherwise the processor stops waiting some time.            *)
checkStartupStatus ==
  LET started == run.status # "queued" \/ hasFreshDistributedLease(run.att) IN
  /\ dispatcher.pc = "await"
  /\ \/ started /\ DispatcherGoto("dequeue") /\ UNCHANGED environment
     \/ ~started /\ ~Pursued(run.att) /\ DispatcherGoto("idle") /\ UNCHANGED environment
     \/ ~started /\ Pursued(run.att) /\ DispatcherGoto("idle") /\ Mishap("slow")
  /\ UNCHANGED <<run, item, cache, tasks, lease, index, seen, worker, report, repair, recycler, requests>>

DequeueByDAGRunID ==
  /\ dispatcher.pc = "dequeue"
  /\ item' = FALSE
  /\ DispatcherGoto("idle")
  /\ UNCHANGED <<run, cache, tasks, lease, index, seen, worker, report, repair, recycler, requests, environment>>

(* EnqueueRetry.  The worker of the status stays what it was. *)
EnqueueRetry ==
  /\ world.queued
  /\ run.status \in Terminal
  /\ Call("retry")
  /\ SetStatus("queued", run.worker)
  /\ cache' = Detached(run.att)
  /\ item' = TRUE
  /\ UNCHANGED <<tasks, lease, index, seen, worker, report, repair, dispatcher, recycler, canceller, aborting, environment>>

----------------------------------------------------------------------------
(* The task store: claims and expired reservations.                         *)

Goto(w, pc) == worker' = [worker EXCEPT ![w].pc = pc]

Done(w) == [Vacant EXCEPT !.cut = worker[w].cut]

Drop(w) == worker' = [worker EXCEPT ![w] = Done(w)]

(* The worker's claim file is still the one its token names. *)
HasClaim(w) ==
  LET t == worker[w].task IN tasks[t].state = "claimed" /\ tasks[t].token = worker[w].token

(* Poll, ClaimNext: the pending file is renamed and stamped with a token.   *)
(* The answer may get lost.                                                 *)
ClaimNext(w) ==
  /\ worker[w].pc = "idle" /\ ~worker[w].cut
  /\ \E t \in TaskIds :
       /\ tasks[t].state = "pending"
       /\ \A u \in 1 .. (t - 1) : tasks[u].state # "pending"
       /\ tasks' = [tasks EXCEPT ![t].state = "claimed", ![t].token = @ + 1]
       /\ \/ /\ worker' = [worker EXCEPT ![w].pc = "ack", ![w].task = t, ![w].att = tasks[t].att,
                                         ![w].token = tasks[t].token + 1]
             /\ UNCHANGED environment
          \/ Mishap("lose") /\ UNCHANGED worker
  /\ UNCHANGED <<run, item, cache, lease, index, seen, report, repair, dispatcher, recycler, requests>>

Claimant(t) ==
  {w \in Workers : /\ worker[w].task = t /\ worker[w].token = tasks[t].token
                   /\ worker[w].pc \in {"ack", "lease", "finish"}}

(* recycleExpiredClaims reads a claim that has expired, and then writes it  *)
(* anew and renames it, without looking whether it still is there.          *)
ReadExpiredClaim(t) ==
  /\ recycler = 0
  /\ tasks[t].state = "claimed"
  /\ IF Claimant(t) = {} THEN UNCHANGED environment ELSE Mishap("slow")
  /\ recycler' = t
  /\ UNCHANGED <<run, item, cache, tasks, lease, index, seen, worker, report, repair, dispatcher, requests>>

(* A mutant: the expired claim is not renamed. *)
keepExpiredClaim ==
  /\ recycler # 0
  /\ recycler' = 0
  /\ UNCHANGED <<run, item, cache, tasks, lease, index, seen, worker, report, repair, dispatcher, requests, environment>>

RequeueExpiredClaim ==
  /\ recycler # 0
  /\ tasks' = [tasks EXCEPT ![recycler].state = "pending"]
  /\ recycler' = 0
  /\ UNCHANGED <<run, item, cache, lease, index, seen, worker, report, repair, dispatcher, requests, environment>>

RemoveExpiredPending(t) ==
  /\ tasks[t].state = "pending"
  /\ tasks' = [tasks EXCEPT ![t].state = "gone"]
  /\ Mishap("slow")
  /\ UNCHANGED <<run, item, cache, lease, index, seen, worker, report, repair, dispatcher, recycler, requests>>

----------------------------------------------------------------------------
(* AckTaskClaim: the claim is looked up, the lease and the index record are *)
(* written, the claim is deleted.                                           *)

GetClaim(w) ==
  /\ worker[w].pc = "ack"
  /\ IF HasClaim(w) THEN Goto(w, "lease") ELSE Drop(w)
  /\ UNCHANGED <<run, item, cache, tasks, lease, index, seen, report, repair, dispatcher, recycler, requests, environment>>

AckTaskClaim(w) ==
  /\ worker[w].pc = "lease"
  /\ SetTracking(worker[w].att, [is |-> "fresh", worker |-> w], w)
  /\ Goto(w, "finish")
  /\ UNCHANGED <<run, item, cache, tasks, seen, report, repair, dispatcher, recycler, requests, environment>>

(* A claim that is gone counts as deleted.  An answer that gets lost makes  *)
(* the worker drop the task.                                                *)
DeleteClaim(w) ==
  /\ worker[w].pc = "finish"
  /\ tasks' = IF HasClaim(w) THEN [tasks EXCEPT ![worker[w].task].state = "gone"] ELSE tasks
  /\ \/ Goto(w, "validate") /\ UNCHANGED environment
     \/ Drop(w) /\ Mishap("lose")
  /\ UNCHANGED <<run, item, cache, lease, index, seen, report, repair, dispatcher, recycler, requests>>

----------------------------------------------------------------------------
(* RunHeartbeat, once before the execution and then while it lasts.         *)

Registered(w) == worker[w].pc \in {"run", "work", "stopping"}

Beating(w) == (worker[w].pc = "validate" \/ Registered(w)) /\ ~worker[w].cut

TouchLease(w) ==
  LET a == worker[w].att IN
  /\ Beating(w)
  /\ worker[w].touched = "none"
  /\ IF lease[a].is = "none"
     THEN worker' = [worker EXCEPT ![w].touched = "missing"] /\ UNCHANGED lease
     ELSE /\ worker' = [worker EXCEPT ![w].touched = "touched"]
          /\ lease' = [lease EXCEPT ![a].is = "fresh"]
  /\ UNCHANGED <<run, item, cache, tasks, index, seen, report, repair, dispatcher, recycler, requests, environment>>

isTaskCancelled(a, st) == run.att # a \/ st \in {"aborted"} \cup Failures \/ a \in aborting

(* Before the execution an answer that gets lost is as good as consent. *)
Answer(w, cancelled) ==
  LET now == worker[w].pc
      pc  == IF cancelled THEN "stopping" ELSE IF now = "validate" THEN "run" ELSE now
  IN
  worker' = IF now = "validate" /\ cancelled THEN [worker EXCEPT ![w] = Done(w)]
            ELSE [worker EXCEPT ![w].touched = "none", ![w].pc = pc]

(* repairStaleLeaseFailureFromRunHeartbeat and the cancellation directives. *)
(* The swap opens and closes the attempt even when it then does nothing.    *)
RunHeartbeat(w) ==
  LET a       == worker[w].att
      swaps   == /\ worker[w].touched = "touched"
                 /\ lease[a].is # "none" /\ lease[a].worker = w
                 /\ run.att = a /\ run.status \in Failures
      repairs == /\ swaps /\ run.lost = w
                 /\ lease[a].is = "fresh" /\ run.worker \in {NoWorker, w}
      st      == IF repairs THEN "running" ELSE run.status
  IN
  /\ worker[w].touched # "none"
  /\ cache' = IF swaps THEN Detached(a) ELSE cache
  /\ IF repairs THEN SetStatus("running", w) /\ index' = [index EXCEPT ![a] = w]
     ELSE UNCHANGED <<run, index>>
  /\ \/ /\ Answer(w, worker[w].touched = "missing" \/ isTaskCancelled(a, st))
        /\ UNCHANGED environment
     \/ Answer(w, FALSE) /\ worker[w].pc = "validate" /\ Mishap("lose")
  /\ UNCHANGED <<item, tasks, lease, seen, report, repair, dispatcher, recycler, requests>>

(* The worker's own heartbeat, with what it runs. *)
Heartbeat(w) ==
  LET now == [fresh |-> TRUE, tasks |-> IF Registered(w) THEN {worker[w].att} ELSE {}] IN
  /\ worker[w].pc # "dead" /\ ~worker[w].cut
  /\ seen[w] # now
  /\ seen' = [seen EXCEPT ![w] = now]
  /\ UNCHANGED <<run, item, cache, tasks, lease, index, worker, report, repair, dispatcher, recycler, requests, environment>>

----------------------------------------------------------------------------
(* ReportStatus: what a worker says is accepted or rejected by what the     *)
(* store holds at that moment, then written to the open attempt, and then   *)
(* the lease and the index follow.                                          *)

Outcomes(pc) ==
  IF pc = "run" THEN {"running"} ELSE IF pc = "work" THEN {"succeeded", "failed"}
  ELSE {"aborted", "succeeded", "failed"}

SameStatus(s, t) == s = t \/ {s, t} = Failures

(* A mutant: what the store holds does not matter. *)
acceptLatestAttempt(a, st) == run.att = a

remoteStatusDecision(a, st) ==
  /\ run.att = a
  /\ \/ run.status \notin Terminal
     \/ /\ ~ (st \in Active /\ lease[a].is # "fresh")
        /\ SameStatus(run.status, st)

(* What a worker does with the answer: a rejected one stops, any outcome is *)
(* the end.                                                                 *)
Hear(w, st, rejected) ==
  IF worker[w].pc = "dead" THEN UNCHANGED worker
  ELSE IF st # "running" THEN Drop(w)
  ELSE Goto(w, IF rejected \/ worker[w].pc = "stopping" THEN "stopping" ELSE "work")

ReportStatus(w) ==
  /\ Registered(w) /\ ~worker[w].cut
  /\ report = NoReport
  /\ \E st \in Outcomes(worker[w].pc) :
       IF remoteStatusDecision(worker[w].att, st)
       THEN report' = [pc |-> "write", worker |-> w, status |-> st] /\ UNCHANGED worker
       ELSE Hear(w, st, TRUE) /\ UNCHANGED report
  /\ UNCHANGED <<run, item, cache, tasks, lease, index, seen, repair, dispatcher, recycler, requests, environment>>

(* A mutant: an attempt that is not open is not opened. *)
WriteIfOpen ==
  LET a == worker[report.worker].att IN
  /\ report.pc = "write"
  /\ IF cache = [att |-> a, attached |-> TRUE] THEN SetStatus(report.status, report.worker) ELSE UNCHANGED run
  /\ report' = [report EXCEPT !.pc = "sync"]
  /\ UNCHANGED <<item, cache, tasks, lease, index, seen, worker, repair, dispatcher, recycler, requests, environment>>

(* replaceOpenAttempt and Write. *)
WriteReported ==
  LET a == worker[report.worker].att IN
  /\ report.pc = "write"
  /\ cache' = IF cache.att = a THEN cache ELSE [att |-> a, attached |-> TRUE]
  /\ IF cache'.attached /\ run.att = a THEN SetStatus(report.status, report.worker) ELSE UNCHANGED run
  /\ report' = [report EXCEPT !.pc = "sync"]
  /\ UNCHANGED <<item, tasks, lease, index, seen, worker, repair, dispatcher, recycler, requests, environment>>

syncDistributedRunTrackingFromStatus ==
  LET w == report.worker
      a == worker[w].att
  IN
  /\ report.pc = "sync"
  /\ IF report.status = "running" THEN SetTracking(a, [is |-> "fresh", worker |-> w], w)
     ELSE SetTracking(a, NoLease, NoWorker)
  /\ Hear(w, report.status, FALSE)
  /\ report' = NoReport
  /\ UNCHANGED <<run, item, cache, tasks, seen, repair, dispatcher, recycler, requests, environment>>

----------------------------------------------------------------------------
(* ConfirmAndRepairStaleDistributedRun, called by the coordinator's         *)
(* detector for what has a lease or an index record, and by the API when    *)
(* someone reads the dag-run.  The status is read first; the lease, the     *)
(* worker's heartbeat and the swap follow.                                  *)

workerIDForStatus(fallback) ==
  IF run.worker # NoWorker THEN run.worker
  ELSE IF run.status \in {"queued", "notstarted"} THEN fallback ELSE NoWorker

LeaseIdentityMatches(a, w) == lease[a].is # "none" /\ w \in {NoWorker, lease[a].worker}

LeaseMatches(a, w) == lease[a].is = "fresh" /\ LeaseIdentityMatches(a, w)

Confirm(x, pc, w) ==
  repair' = [repair EXCEPT ![x] = [pc |-> pc, att |-> run.att, status |-> run.status, worker |-> w]]

RepairGoto(x, pc) == repair' = [repair EXCEPT ![x].pc = pc]

Give(x, pc) ==
  repair' = [repair EXCEPT ![x] = IF x = "reader" THEN NoRepair ELSE [@ EXCEPT !.pc = pc]]

(* What the detector makes of a lease, or of an index record, when it reads *)
(* the status of the dag-run.                                               *)
Reconcile(a, w, matches) ==
  IF ~matches \/ run.att # a \/ run.status \in Terminal \/ w = NoWorker
  THEN repair' = [repair EXCEPT !["detector"] = [NoRepair EXCEPT !.pc = "delete", !.att = a]]
  ELSE Confirm("detector", IF LeaseMatches(a, run.worker) THEN "index" ELSE "lease", w)

detectLeasedDistributedRuns(a) ==
  /\ lease[a].is # "none"
  /\ Reconcile(a, workerIDForStatus(lease[a].worker), LeaseIdentityMatches(a, run.worker))

detectIndexedDistributedStatuses(a) ==
  /\ index[a] # NoWorker
  /\ Reconcile(a, workerIDForStatus(index[a]), TRUE)

detectStaleLeases(a) ==
  /\ repair["detector"].pc = "idle"
  /\ detectLeasedDistributedRuns(a) \/ detectIndexedDistributedStatuses(a)
  /\ UNCHANGED <<run, item, cache, tasks, lease, index, seen, worker, report, dispatcher, recycler, requests, environment>>

repairOnRead ==
  LET w == workerIDForStatus(IF run.att > 0 THEN lease[run.att].worker ELSE NoWorker) IN
  /\ May("read")
  /\ repair["reader"].pc = "idle"
  /\ run.status \in Active
  /\ w # NoWorker
  /\ Confirm("reader", "lease", w)
  /\ UNCHANGED <<run, item, cache, tasks, lease, index, seen, worker, report, dispatcher, recycler, requests, environment>>

(* A mutant: a fresh lease does not count. *)
SkipLease(x) ==
  /\ repair[x].pc = "lease"
  /\ RepairGoto(x, "worker")
  /\ UNCHANGED <<run, item, cache, tasks, lease, index, seen, worker, report, dispatcher, recycler, requests, environment>>

ConfirmLease(x) ==
  LET r == repair[x] IN
  /\ r.pc = "lease"
  /\ IF lease[r.att].is = "fresh" \/ (lease[r.att].is = "stale" /\ lease[r.att].worker # r.worker)
     THEN Give(x, "restore") ELSE RepairGoto(x, "worker")
  /\ UNCHANGED <<run, item, cache, tasks, lease, index, seen, worker, report, dispatcher, recycler, requests, environment>>

(* A mutant: a heartbeat is believed however old it is. *)
ConfirmOldHeartbeat(x) ==
  LET r == repair[x] IN
  /\ r.pc = "worker"
  /\ IF r.att \in seen[r.worker].tasks THEN Give(x, "restore") ELSE RepairGoto(x, "swap")
  /\ UNCHANGED <<run, item, cache, tasks, lease, index, seen, worker, report, dispatcher, recycler, requests, environment>>

ConfirmWorker(x) ==
  LET r == repair[x] IN
  /\ r.pc = "worker"
  /\ IF seen[r.worker].fresh /\ r.att \in seen[r.worker].tasks
     THEN Give(x, "restore") ELSE RepairGoto(x, "swap")
  /\ UNCHANGED <<run, item, cache, tasks, lease, index, seen, worker, report, dispatcher, recycler, requests, environment>>

SwapFailed(x) ==
  LET r == repair[x]
      swapped == run.att = r.att /\ run.status = r.status
  IN
  /\ r.pc = "swap"
  /\ IF swapped THEN run' = [run EXCEPT !.status = "lost", !.lost = r.worker] /\ cache' = Detached(r.att)
     ELSE UNCHANGED <<run, cache>>
  /\ Give(x, IF swapped \/ run.att # r.att \/ run.status \in Terminal THEN "delete" ELSE "restore")
  /\ UNCHANGED <<item, tasks, lease, index, seen, worker, report, dispatcher, recycler, requests, environment>>

deleteDistributedTracking(r) == r.pc = "delete" /\ SetTracking(r.att, NoLease, NoWorker)

upsertActiveDistributedRun(r) ==
  r.pc = "index" /\ index' = [index EXCEPT ![r.att] = r.worker] /\ UNCHANGED lease

restoreConfirmedDistributedRunTracking(r) ==
  r.pc = "restore" /\ SetTracking(r.att, [is |-> "fresh", worker |-> r.worker], r.worker)

(* How the detector leaves the lease and the index record. *)
Track ==
  LET r == repair["detector"] IN
  /\ \/ deleteDistributedTracking(r) \/ upsertActiveDistributedRun(r)
     \/ restoreConfirmedDistributedRunTracking(r)
  /\ repair' = [repair EXCEPT !["detector"] = NoRepair]
  /\ UNCHANGED <<run, item, cache, tasks, seen, worker, report, dispatcher, recycler, requests, environment>>

----------------------------------------------------------------------------
(* Cancellation.  The API only asks for it when the dag-run is running, the *)
(* command that started it directly at any time.                            *)

RequestCancel ==
  /\ run.status = "running" \/ (~world.queued /\ run.status = "notstarted")
  /\ Call("cancel")
  /\ aborting' = aborting \cup {run.att}
  /\ canceller' = IF run.status = "notstarted" THEN run.att ELSE 0
  /\ UNCHANGED <<run, item, cache, tasks, lease, index, seen, worker, report, repair, dispatcher, recycler, environment>>

finalizeNotStartedCancellation ==
  /\ canceller # 0
  /\ canceller' = 0
  /\ IF run.att = canceller THEN SetStatus("aborted", NoWorker) ELSE UNCHANGED run
  /\ cache' = Detached(canceller)
  /\ UNCHANGED <<item, tasks, lease, index, seen, worker, report, repair, dispatcher, recycler, aborting, calls, environment>>

----------------------------------------------------------------------------
(* What time, the network and processes do.                                 *)

Executing(w) == worker[w].pc \in {"run", "work", "stopping"}

(* Nobody renews the lease and nobody executes its attempt or is heard any   *)
(* more, or else someone is late.                                           *)
Abandoned(a) ==
  \A w \in Workers : worker[w].att = a =>
    /\ ~ Executing(w)
    /\ worker[w].pc \notin {"lease", "finish", "validate"} /\ report.worker # w

LeaseGoesStale(a) ==
  /\ lease[a].is = "fresh"
  /\ lease' = [lease EXCEPT ![a].is = "stale"]
  /\ IF Abandoned(a) THEN UNCHANGED environment ELSE Mishap("stall")
  /\ UNCHANGED <<run, item, cache, tasks, index, seen, worker, report, repair, dispatcher, recycler, requests>>

Silent(w) == worker[w].pc = "dead" \/ (worker[w].cut /\ ~Executing(w))

HeartbeatGoesStale(w) ==
  /\ seen[w].fresh
  /\ seen' = [seen EXCEPT ![w].fresh = FALSE]
  /\ IF Silent(w) THEN UNCHANGED environment ELSE Mishap("stall")
  /\ UNCHANGED <<run, item, cache, tasks, lease, index, worker, report, repair, dispatcher, recycler, requests>>

WorkerDies(w) ==
  /\ worker[w].pc # "dead"
  /\ worker' = [worker EXCEPT ![w].pc = "dead", ![w].touched = "none"]
  /\ Mishap("crash")
  /\ UNCHANGED <<run, item, cache, tasks, lease, index, seen, report, repair, dispatcher, recycler, requests>>

Disconnect(w) ==
  /\ worker[w].pc \in {"idle", "validate", "run", "work", "stopping"}
  /\ worker[w].touched = "none" /\ report.worker # w
  /\ ~worker[w].cut
  /\ worker' = [worker EXCEPT ![w].cut = TRUE]
  /\ Mishap("cut")
  /\ UNCHANGED <<run, item, cache, tasks, lease, index, seen, report, repair, dispatcher, recycler, requests>>

Reconnect(w) ==
  /\ worker[w].cut
  /\ worker' = [worker EXCEPT ![w].cut = FALSE]
  /\ UNCHANGED <<run, item, cache, tasks, lease, index, seen, report, repair, dispatcher, recycler, requests, environment>>

(* Without the coordinator: a claim is taken for valid, a status is lost,   *)
(* and the owner's timeout ends the execution.                              *)
WithoutCoordinator(w) ==
  /\ worker[w].cut
  /\ CASE worker[w].pc = "validate" -> Goto(w, "run")
       [] worker[w].pc = "run"      -> Goto(w, "work") \/ Goto(w, "stopping")
       [] worker[w].pc = "work"     -> Drop(w) \/ Goto(w, "stopping")
       [] worker[w].pc = "stopping" -> Drop(w)
       [] OTHER                     -> FALSE
  /\ UNCHANGED <<run, item, cache, tasks, lease, index, seen, report, repair, dispatcher, recycler, requests, environment>>

(* The coordinator dies and is started again.  Its callers see an error. *)
CoordinatorRestart ==
  /\ Mishap("restart")
  /\ cache' = [att |-> 0, attached |-> FALSE]
  /\ report' = NoReport
  /\ repair' = [repair EXCEPT !["detector"] = NoRepair]
  /\ recycler' = 0
  /\ canceller' = 0
  /\ dispatcher' = IF dispatcher.pc \notin {"enqueue", "enqueueNew"} THEN dispatcher
                   ELSE [dispatcher EXCEPT !.pc = IF world.queued THEN "prepare" ELSE "idle"]
  /\ worker' = [w \in Workers |->
       CASE worker[w].pc \in {"ack", "lease", "finish"} -> Done(w)
         [] report.worker = w /\ worker[w].pc # "dead" ->
              IF report.status = "running" THEN [worker[w] EXCEPT !.pc = "work", !.touched = "none"] ELSE Done(w)
         [] OTHER -> [worker[w] EXCEPT !.touched = "none"]]
  /\ UNCHANGED <<run, item, tasks, lease, index, seen, aborting, calls>>

----------------------------------------------------------------------------
Dispatching ==
  \/ ProcessQueueItems \/ processDAG \/ DispatchDirectly \/ createAttemptForTask
  \/ EnqueueTask \/ checkStartupStatus \/ DequeueByDAGRunID

Working(w) ==
  \/ ClaimNext(w) \/ GetClaim(w) \/ AckTaskClaim(w) \/ DeleteClaim(w)
  \/ ReportStatus(w) \/ WithoutCoordinator(w)

Confirming(x) == ConfirmLease(x) \/ ConfirmWorker(x) \/ SwapFailed(x)

Next ==
  \/ Dispatching \/ EnqueueRetry \/ RequeueExpiredClaim \/ WriteReported
  \/ syncDistributedRunTrackingFromStatus \/ repairOnRead \/ Track
  \/ RequestCancel \/ finalizeNotStartedCancellation \/ CoordinatorRestart
  \/ \E t \in TaskIds : ReadExpiredClaim(t) \/ RemoveExpiredPending(t)
  \/ \E a \in Attempts : detectStaleLeases(a) \/ LeaseGoesStale(a)
  \/ \E x \in Repairers : Confirming(x)
  \/ \E w \in Workers :
       \/ Working(w) \/ TouchLease(w) \/ RunHeartbeat(w) \/ Heartbeat(w)
       \/ HeartbeatGoesStale(w) \/ WorkerDies(w) \/ Disconnect(w) \/ Reconnect(w)

Fairness ==
  /\ WF_vars(Dispatching) /\ WF_vars(Track) /\ WF_vars(finalizeNotStartedCancellation)
  /\ WF_vars(WriteReported \/ syncDistributedRunTrackingFromStatus)
  /\ WF_vars(RequeueExpiredClaim \/ \E t \in TaskIds : Claimant(t) = {} /\ ReadExpiredClaim(t))
  /\ \A a \in Attempts : SF_vars(detectStaleLeases(a)) /\ WF_vars(Abandoned(a) /\ LeaseGoesStale(a))
  /\ \A x \in Repairers : WF_vars(Confirming(x))
  /\ \A w \in Workers :
       /\ WF_vars(Working(w)) /\ SF_vars(TouchLease(w)) /\ WF_vars(RunHeartbeat(w))
       /\ WF_vars(Heartbeat(w)) /\ WF_vars(Silent(w) /\ HeartbeatGoesStale(w))

Spec == Init /\ [][Next]_vars /\ Fairness

Safety == Init /\ [][Next]_vars

----------------------------------------------------------------------------
(* Properties.  Where events break one, it is stated without them.          *)

Without(queued, direct) ==
  world.events \cap (IF world.queued THEN queued ELSE direct) = {}

(* No two workers execute the dag-run at a time: the outstanding task, the   *)
(* claim's token, the lease and the queue's item, each removed by another    *)
(* step of another process, always leave one of them in the way of a second  *)
(* dispatch.  Not so when an answer of Dispatch gets lost, a lease or a      *)
(* claim expires on someone who is alive, or a retry reuses the attempt.     *)
Exclusive ==
  Without({"stall", "slow", "lose", "retry"}, {"slow", "retry"}) =>
    \A v, w \in Workers : Executing(v) /\ Executing(w) => v = w

(* A dag-run that ConfirmAndRepairStaleDistributedRun has failed because its *)
(* worker's lease expired is not being executed.                             *)
VerdictSound ==
  (/\ Without({"crash", "cut", "stall", "lose", "restart", "retry"}, {"crash", "stall", "restart"})
   /\ run.status = "lost")
  => \A w \in Workers : ~ (Executing(w) /\ worker[w].att = run.att)

ReportWritten ==
  WriteReported =>
    (run.att = worker[report.worker].att => run'.status = report.status)

(* A status that ReportStatus has accepted for the latest attempt is what    *)
(* the attempt's file then says: nobody has closed, and so compacted, the    *)
(* file that openAttempts holds.                                             *)
AcceptedPersisted ==
  [][ Without({"crash", "cut", "stall", "lose", "retry"}, {"crash", "stall", "cancel"})
      => ReportWritten ]_vars

(* A final status of an attempt stays, whoever reports, cancels, repairs or  *)
(* restarts, unless it is queued again or the worker that was given up for   *)
(* lost turns out to be alive.                                               *)
TerminalKept ==
  [][ (Without({}, {"cancel"}) /\ run.status \in Terminal /\ run'.att = run.att) =>
        \/ SameStatus(run.status, run'.status)
        \/ run'.status = "queued"
        \/ run.status = "lost" /\ run'.status = "running" ]_vars

(* The dag-run always gets a final status, though its worker or the          *)
(* coordinator dies: what has been dispatched is claimed, claimed again,     *)
(* executed and reported, or detected as lost.                               *)
Settled ==
  [](Without({"cut", "stall", "lose", "retry"}, {"stall", "slow", "restart"})
     => <>(run.status \in Terminal))

(* Nothing is left behind: again and again there is a time when neither the  *)
(* dag-run's item, nor a lease or an index record of a past execution is     *)
(* there.  A retry may leave an item whose lease the detector deletes over   *)
(* and over.                                                                 *)
Released ==
  []<>(/\ Without({"retry"}, {}) => ~item
       /\ \A a \in Attempts : lease[a] = NoLease /\ index[a] = NoWorker)

(* "ReportStatus receives status updates from workers and persists them."    *)
(* (handler.go): AcceptedPersisted, whatever happens.                        *)
StatusPersisted == [][ReportWritten]_vars

=============================================================================
