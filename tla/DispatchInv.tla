---------------------------- MODULE DispatchInv -----------------------------
(***************************************************************************)
(* The invariant behind the exclusive execution of a dag-run; the dispatch *)
(* of tasks and the repair of stale leases keep it.                        *)
(***************************************************************************)
EXTENDS Dispatch, TLAPS

(* The events under which the dag-run may be executed twice do not happen. *)
Quiet == Without({"stall", "slow", "lose", "retry"}, {"slow", "retry"})

SomeWorker == Workers \union {NoWorker}

Statuses == {"none", "queued", "notstarted", "running", "succeeded", "aborted", "failed", "lost"}

(* Where a worker is between its claim and the end of the acknowledgement, and *)
(* where it is in charge of the dag-run without a claim.                       *)
Claiming == {"ack", "lease", "finish"}

Busy == {"validate", "run", "work", "stopping"}

WorkerRec == [pc : {"idle", "dead"} \union Claiming \union Busy, att : Nat, task : Nat, token : Nat,
              touched : {"none", "touched", "missing"}, cut : BOOLEAN]

TaskRec == [state : {"none", "pending", "claimed", "gone"}, att : Nat, token : Nat]

LeaseRec == [is : {"none", "fresh", "stale"}, worker : SomeWorker]

RepairRec == [pc : {"idle", "lease", "worker", "swap", "delete", "index", "restore"}, att : Nat,
              status : Statuses, worker : SomeWorker]

RunRec == [att : 0 .. MaxAttempts, status : Statuses, worker : SomeWorker, lost : SomeWorker]

DispatcherPc == {"idle", "process", "prepare", "enqueue", "enqueueNew", "await", "dequeue"}

(* The variables that decide who executes the dag-run have their types. *)
TypeOK ==
  /\ run \in RunRec
  /\ item \in BOOLEAN
  /\ cache \in [att : Nat, attached : BOOLEAN]
  /\ tasks \in [TaskIds -> TaskRec]
  /\ lease \in [Attempts -> LeaseRec]
  /\ index \in [Attempts -> SomeWorker]
  /\ worker \in [Workers -> WorkerRec]
  /\ report \in [pc : {"idle", "write", "sync"}, worker : SomeWorker, status : Statuses]
  /\ repair \in [Repairers -> RepairRec]
  /\ dispatcher \in [pc : DispatcherPc, att : Nat]
  /\ recycler \in Nat
  /\ canceller \in Nat
  /\ world.queued \in BOOLEAN

(* The claims.  A token is given to one worker; a worker that has been told   *)
(* that the claim is its own keeps it until it deletes it; what the recycler  *)
(* has read is a claim that nobody waits for.                                 *)
Claims ==
  /\ \A w \in Workers : worker[w].pc \in Claiming =>
       worker[w].task \in TaskIds /\ worker[w].token <= tasks[worker[w].task].token
  /\ \A v, w \in Workers :
       (/\ v # w /\ worker[v].pc \in Claiming /\ worker[w].pc \in Claiming
        /\ worker[v].task = worker[w].task) => worker[v].token # worker[w].token
  /\ \A w \in Workers : worker[w].pc \in {"lease", "finish"} => HasClaim(w)
  /\ recycler # 0 => /\ recycler \in TaskIds /\ tasks[recycler].state = "claimed"
                     /\ Claimant(recycler) = {}

(* A call of a worker under way belongs to a worker that executes. *)
Calls ==
  /\ \A w \in Workers : worker[w].touched # "none" => worker[w].pc \in Busy
  /\ report.worker \in Workers => /\ worker[report.worker].pc \in {"run", "work", "stopping", "dead"}
                                 /\ ~worker[report.worker].cut
  /\ report.pc # "idle" => report.worker \in Workers /\ report.status # "queued"

Open(t) == tasks[t].state \in {"pending", "claimed"}

InCharge(w) == worker[w].pc \in Busy

(* The right to execute the dag-run is in one place at most: in a task file  *)
(* or with a worker.                                                         *)
OneRight ==
  /\ \A t, u \in TaskIds : Open(t) /\ Open(u) => t = u
  /\ \A v, w \in Workers : InCharge(v) /\ InCharge(w) => v = w
  /\ \A t \in TaskIds, w \in Workers : ~ (Open(t) /\ InCharge(w))

(* It is in neither. *)
NoRight == (\A t \in TaskIds : ~Open(t)) /\ (\A w \in Workers : ~InCharge(w))

(* Without a queue there is one dispatch, which creates the attempt. *)
DirectOnce ==
  /\ run.status # "queued" /\ ~item
  /\ dispatcher.pc \in {"idle", "prepare", "enqueueNew"}
  /\ dispatcher.pc = "prepare" => run.att = 0 /\ dispatcher.att = 0
  /\ dispatcher.pc = "enqueueNew" => run.att # 0
  /\ run.att = 0 \/ dispatcher.pc = "enqueueNew" => NoRight

(* With the queue, only the Queued status lets the processor dispatch, and it *)
(* says Queued only as long as no worker has reported; what then keeps the    *)
(* item from being dispatched again is the task or the fresh lease.           *)
QueuedOnce ==
  /\ run.att = 1 /\ canceller = 0
  /\ dispatcher.pc # "enqueueNew"
  /\ dispatcher.pc \in {"prepare", "enqueue"} => dispatcher.att = 1
  /\ \A t \in TaskIds : Open(t) => tasks[t].att = 1
  /\ \A w \in Workers : worker[w].pc \in Claiming \union Busy => worker[w].att = 1
  /\ report.worker \in Workers => worker[report.worker].att = 1
  /\ dispatcher.pc = "enqueue" => NoRight
  /\ run.status = "queued" =>
       /\ dispatcher.pc \in {"process", "prepare"} \/ (dispatcher.pc = "idle" /\ item) => NoRight
       /\ \A w \in Workers : worker[w].pc \in {"finish"} \union Busy => lease[1].is = "fresh"
       /\ run.worker = NoWorker
       /\ cache.att = 1 => cache.attached
       /\ ~ (repair["detector"].pc = "delete" /\ repair["detector"].att = 1)
       /\ report.pc # "sync"

(* Who is tracked or repaired has a name. *)
Named ==
  /\ \A a \in Attempts : lease[a].is # "none" => lease[a].worker # NoWorker
  /\ \A x \in Repairers : repair[x].pc \notin {"idle", "delete"} => repair[x].worker # NoWorker

Sound ==
  /\ TypeOK /\ Claims /\ Calls /\ OneRight /\ Named
  /\ world.queued => QueuedOnce
  /\ ~world.queued => DirectOnce

(* The inductive invariant. *)
IInv == world \in Worlds /\ (Quiet => Sound)
----------------------------------------------------------------------------
(* What the writes of the actions do.                                       *)

(* What the quiet worlds exclude. *)
LEMMA QuietEvents ==
  ASSUME world.queued \in BOOLEAN, Quiet
  PROVE  /\ ~May("slow") /\ ~May("retry")
         /\ world.queued => ~May("stall") /\ ~May("lose")
BY DEF Quiet, Without, May

(* The world is the one the behaviour started in. *)
LEMMA WorldStays ==
  ASSUME [Next]_vars
  PROVE  world' = world
<1> USE DEF environment, Mishap
<1>1. ASSUME UNCHANGED vars PROVE world' = world
  BY <1>1 DEF vars
<1>2. ASSUME Dispatching PROVE world' = world
  BY <1>2 DEF Dispatching, ProcessQueueItems, processDAG, DispatchDirectly, createAttemptForTask,
     EnqueueTask, checkStartupStatus, DequeueByDAGRunID
<1>3. ASSUME NEW w \in Workers, Working(w) PROVE world' = world
  BY ZenonT(30), <1>3 DEF Working, ClaimNext, GetClaim, AckTaskClaim, DeleteClaim, ReportStatus, WithoutCoordinator
<1>4. ASSUME NEW w \in Workers,
             TouchLease(w) \/ RunHeartbeat(w) \/ Heartbeat(w) \/ HeartbeatGoesStale(w)
             \/ WorkerDies(w) \/ Disconnect(w) \/ Reconnect(w)
      PROVE  world' = world
  BY Zenon, <1>4 DEF TouchLease, RunHeartbeat, Heartbeat, HeartbeatGoesStale, WorkerDies, Disconnect, Reconnect
<1>5. ASSUME NEW x \in Repairers, Confirming(x) PROVE world' = world
  BY <1>5 DEF Confirming, ConfirmLease, ConfirmWorker, SwapFailed
<1>6. ASSUME NEW t \in TaskIds, ReadExpiredClaim(t) \/ RemoveExpiredPending(t) PROVE world' = world
  BY <1>6 DEF ReadExpiredClaim, RemoveExpiredPending
<1>7. ASSUME NEW a \in Attempts, detectStaleLeases(a) \/ LeaseGoesStale(a) PROVE world' = world
  BY <1>7 DEF detectStaleLeases, LeaseGoesStale
<1>8. ASSUME \/ EnqueueRetry \/ RequeueExpiredClaim \/ WriteReported
             \/ syncDistributedRunTrackingFromStatus \/ repairOnRead \/ Track \/ RequestCancel
             \/ finalizeNotStartedCancellation \/ CoordinatorRestart
      PROVE  world' = world
  BY Zenon, <1>8 DEF EnqueueRetry, RequeueExpiredClaim, WriteReported, syncDistributedRunTrackingFromStatus,
     repairOnRead, Track, RequestCancel, finalizeNotStartedCancellation, CoordinatorRestart
<1> QED
  BY <1>1, <1>2, <1>3, <1>4, <1>5, <1>6, <1>7, <1>8 DEF Next

(* Goto moves one worker and leaves its task, token and touch alone. *)
LEMMA GotoDoes ==
  ASSUME TypeOK, NEW w \in Workers, NEW p \in {"idle", "dead"} \union Claiming \union Busy, Goto(w, p)
  PROVE  /\ worker' \in [Workers -> WorkerRec]
         /\ worker'[w].pc = p
         /\ \A v \in Workers : /\ v # w => worker'[v] = worker[v]
                               /\ worker'[v].att = worker[v].att /\ worker'[v].task = worker[v].task
                               /\ worker'[v].token = worker[v].token /\ worker'[v].cut = worker[v].cut
                               /\ worker'[v].touched = worker[v].touched
<1>1. worker \in [Workers -> WorkerRec] /\ worker' = [worker EXCEPT ![w].pc = p]
  BY DEF TypeOK, Goto
<1> QED
  BY <1>1 DEF WorkerRec

(* Drop makes one worker idle. *)
LEMMA DropDoes ==
  ASSUME TypeOK, NEW w \in Workers, Drop(w)
  PROVE  /\ worker' \in [Workers -> WorkerRec]
         /\ worker'[w].pc = "idle" /\ worker'[w].touched = "none"
         /\ \A v \in Workers : v # w => worker'[v] = worker[v]
<1>1. worker \in [Workers -> WorkerRec] /\ worker' = [worker EXCEPT ![w] = Done(w)]
  BY DEF TypeOK, Drop
<1>2. Done(w) \in WorkerRec /\ Done(w).pc = "idle" /\ Done(w).touched = "none"
  BY <1>1 DEF WorkerRec, Done, Vacant
<1> QED
  BY <1>1, <1>2

(* The answer to a heartbeat leaves a busy worker busy, or makes it idle. *)
LEMMA AnswerDoes ==
  ASSUME TypeOK, NEW w \in Workers, worker[w].pc \in Busy, NEW c \in BOOLEAN, Answer(w, c)
  PROVE  /\ worker' \in [Workers -> WorkerRec]
         /\ worker'[w].touched = "none"
         /\ \/ worker'[w].pc = "idle" /\ worker[w].pc = "validate"
            \/ /\ worker'[w].pc \in {"run", "work", "stopping"}
               /\ worker'[w].att = worker[w].att /\ worker'[w].cut = worker[w].cut
         /\ \A v \in Workers : v # w => worker'[v] = worker[v]
<1>1. worker \in [Workers -> WorkerRec]
  BY DEF TypeOK
<1>2. CASE worker[w].pc = "validate" /\ c
  <2>1. worker' = [worker EXCEPT ![w] = Done(w)]
    BY <1>2 DEF Answer
  <2>2. Done(w) \in WorkerRec /\ Done(w).pc = "idle" /\ Done(w).touched = "none"
    BY <1>1 DEF WorkerRec, Done, Vacant
  <2> QED
    BY <1>1, <1>2, <2>1, <2>2
<1>3. CASE ~ (worker[w].pc = "validate" /\ c)
  <2> DEFINE p == IF c THEN "stopping" ELSE IF worker[w].pc = "validate" THEN "run" ELSE worker[w].pc
  <2>1. worker' = [worker EXCEPT ![w].touched = "none", ![w].pc = p]
    BY <1>3 DEF Answer
  <2>2. p \in {"run", "work", "stopping"}
    BY DEF Busy
  <2> HIDE DEF p
  <2>3. worker'[w] = [worker[w] EXCEPT !.touched = "none", !.pc = p]
    BY <1>1, <2>1
  <2>4. worker[w] \in WorkerRec /\ p \in {"idle", "dead"} \union Claiming \union Busy
    BY <1>1, <2>2 DEF Busy
  <2>5. worker'[w] \in WorkerRec
    BY Zenon, <2>3, <2>4 DEF WorkerRec
  <2>6. /\ worker'[w].pc = p /\ worker'[w].touched = "none"
        /\ worker'[w].att = worker[w].att /\ worker'[w].cut = worker[w].cut
    BY <2>3, <2>4 DEF WorkerRec
  <2> QED
    BY <1>1, <2>1, <2>2, <2>5, <2>6
<1> QED
  BY <1>2, <1>3

(* SetStatus writes the status and its worker, never the attempt's number. *)
LEMMA SetStatusDoes ==
  ASSUME TypeOK, NEW st \in Statuses, NEW w \in SomeWorker, SetStatus(st, w)
  PROVE  /\ run' \in RunRec
         /\ run'.att = run.att /\ run'.status = st /\ run'.worker = w
BY Zenon DEF TypeOK, SetStatus, SomeWorker, RunRec

(* DispatcherGoto keeps the attempt that the dispatcher is about. *)
LEMMA DispatcherGotoDoes ==
  ASSUME TypeOK, NEW p \in DispatcherPc, DispatcherGoto(p)
  PROVE  /\ dispatcher' \in [pc : DispatcherPc, att : Nat]
         /\ dispatcher'.pc = p /\ dispatcher'.att = dispatcher.att
BY DEF TypeOK, DispatcherGoto

(* Tracking keeps its type, whatever attempt it is about. *)
LEMMA SetTrackingDoes ==
  ASSUME TypeOK, NEW a, NEW l \in LeaseRec, NEW w \in SomeWorker, SetTracking(a, l, w)
  PROVE  /\ lease' \in [Attempts -> LeaseRec] /\ index' \in [Attempts -> SomeWorker]
         /\ \A b \in Attempts : lease'[b] = IF a = b THEN l ELSE lease[b]
BY Zenon DEF TypeOK, SetTracking

(* Nobody's right to execute changes while no task, claim and worker does. *)
LEMMA RightsStay ==
  ASSUME Sound, UNCHANGED <<tasks, worker, recycler, report>>
  PROVE  Claims' /\ Calls' /\ OneRight' /\ (NoRight' <=> NoRight)
<1>1. Claims'
  BY DEF Sound, Claims, HasClaim, Claimant
<1>2. Calls'
  BY DEF Sound, Calls
<1>3. OneRight' /\ (NoRight' <=> NoRight)
  BY DEF Sound, OneRight, NoRight, Open, InCharge
<1> QED
  BY <1>1, <1>2, <1>3

----------------------------------------------------------------------------
(* The dispatcher.                                                          *)

(* An item is taken up only while it stands for the right. *)
LEMMA ProcessQueueItemsKeeps == ASSUME Sound, world' = world, ProcessQueueItems PROVE Sound'
<1>1. TypeOK /\ DispatcherGoto("process") /\ "process" \in DispatcherPc
  BY DEF Sound, ProcessQueueItems, DispatcherPc
<1>2. dispatcher' \in [pc : DispatcherPc, att : Nat] /\ dispatcher'.pc = "process"
  BY <1>1, DispatcherGotoDoes
<1>3. UNCHANGED <<run, item, cache, tasks, lease, index, worker, report, repair, recycler, canceller>>
  BY DEF ProcessQueueItems, requests
<1>4. Claims' /\ Calls' /\ OneRight' /\ (NoRight' <=> NoRight)
  BY <1>3, RightsStay
<1>5. TypeOK' /\ Named'
  BY <1>2, <1>3 DEF Sound, TypeOK, Named
<1>6. ASSUME world.queued PROVE QueuedOnce'
  BY <1>2, <1>3, <1>4, <1>6 DEF Sound, QueuedOnce, Open, ProcessQueueItems
<1>7. ASSUME ~world.queued PROVE DirectOnce'
  BY <1>7 DEF Sound, DirectOnce, ProcessQueueItems
<1> QED
  BY <1>4, <1>5, <1>6, <1>7 DEF Sound

(* A queued item is prepared for the attempt that its status names. *)
LEMMA processDAGKeeps == ASSUME Sound, world' = world, processDAG PROVE Sound'
<1>1. /\ dispatcher' \in [pc : DispatcherPc, att : Nat]
      /\ \/ dispatcher'.pc = "dequeue"
         \/ dispatcher'.pc = "prepare" /\ dispatcher'.att = run.att
  <2>1. dispatcher \in [pc : DispatcherPc, att : Nat] /\ run.att \in Nat
    BY BoundsAssumption DEF Sound, TypeOK, RunRec
  <2>2. CASE run.status = "queued"
    BY <2>1, <2>2 DEF processDAG, DispatcherPc
  <2>3. CASE run.status # "queued"
    BY <2>1, <2>3 DEF processDAG, DispatcherPc
  <2> QED
    BY <2>2, <2>3
<1>2. UNCHANGED <<run, item, cache, tasks, lease, index, worker, report, repair, recycler, canceller>>
  BY DEF processDAG, requests
<1>3. Claims' /\ Calls' /\ OneRight' /\ (NoRight' <=> NoRight)
  BY <1>2, RightsStay
<1>4. TypeOK' /\ Named'
  BY <1>1, <1>2 DEF Sound, TypeOK, Named
<1>5. ASSUME world.queued PROVE QueuedOnce'
  BY <1>1, <1>2, <1>3, <1>5 DEF Sound, QueuedOnce, Open, processDAG
<1>6. ASSUME ~world.queued PROVE DirectOnce'
  BY <1>6 DEF Sound, DirectOnce, processDAG
<1> QED
  BY <1>3, <1>4, <1>5, <1>6 DEF Sound

(* Without a queue and without retries the API dispatches once. *)
LEMMA DispatchDirectlyKeeps ==
  ASSUME Quiet, Sound, world' = world, DispatchDirectly
  PROVE  Sound'
<1>1. ~world.queued /\ run.att = 0
  BY QuietEvents DEF Sound, TypeOK, DispatchDirectly, Call
<1>2. dispatcher' = [pc |-> "prepare", att |-> 0]
  BY DEF DispatchDirectly
<1>3. UNCHANGED <<run, item, cache, tasks, lease, index, worker, report, repair, recycler, canceller>>
  BY DEF DispatchDirectly
<1>4. Claims' /\ Calls' /\ OneRight' /\ (NoRight' <=> NoRight)
  BY <1>3, RightsStay
<1>5. TypeOK' /\ Named'
  BY <1>2, <1>3 DEF Sound, TypeOK, Named, DispatcherPc
<1>6. DirectOnce'
  BY <1>1, <1>2, <1>3, <1>4 DEF Sound, DirectOnce
<1> QED
  BY <1>1, <1>4, <1>5, <1>6 DEF Sound

(* A queued attempt is taken over, a direct dispatch creates its attempt. *)
LEMMA createAttemptForTaskKeeps ==
  ASSUME Sound, world' = world, createAttemptForTask
  PROVE  Sound'
<1>1. TypeOK /\ dispatcher.pc = "prepare"
  BY DEF Sound, createAttemptForTask
<1>2. UNCHANGED <<item, tasks, lease, index, worker, report, repair, recycler, canceller>>
  BY DEF createAttemptForTask, requests
<1>3. Claims' /\ Calls' /\ OneRight' /\ (NoRight' <=> NoRight)
  BY <1>2, RightsStay
<1>4. ASSUME world.queued PROVE Sound'
  <2>1. run.att = 1 /\ dispatcher.att = 1
    BY <1>1, <1>4 DEF Sound, QueuedOnce
  <2>2. \/ DispatcherGoto("dequeue") /\ UNCHANGED <<run, cache>>
        \/ /\ run.status = "queued" /\ dispatcher' = [pc |-> "enqueue", att |-> 1]
           /\ cache' = [att |-> 1, attached |-> TRUE] /\ run' = run
    BY <2>1 DEF createAttemptForTask
  <2>3. /\ dispatcher' \in [pc : DispatcherPc, att : Nat] /\ dispatcher'.att = 1
        /\ run' = run /\ cache' \in [att : Nat, attached : BOOLEAN]
        /\ \/ dispatcher'.pc = "dequeue" /\ cache' = cache
           \/ dispatcher'.pc = "enqueue" /\ run.status = "queued" /\ cache'.attached
    <3>1. CASE DispatcherGoto("dequeue") /\ UNCHANGED <<run, cache>>
      BY <1>1, <2>1, <3>1, DispatcherGotoDoes DEF TypeOK, DispatcherPc
    <3>2. CASE /\ run.status = "queued" /\ dispatcher' = [pc |-> "enqueue", att |-> 1]
               /\ cache' = [att |-> 1, attached |-> TRUE] /\ run' = run
      BY <3>2 DEF DispatcherPc
    <3> QED
      BY <2>2, <3>1, <3>2
  <2>4. TypeOK' /\ Named'
    BY <1>2, <2>3 DEF Sound, TypeOK, Named
  <2>5. QueuedOnce'
    BY <1>1, <1>2, <1>3, <1>4, <2>3 DEF Sound, QueuedOnce, Open
  <2> QED
    BY <1>3, <1>4, <2>4, <2>5 DEF Sound
<1>5. ASSUME ~world.queued PROVE Sound'
  <2>1. run.att = 0 /\ dispatcher.att = 0 /\ run.status # "queued" /\ NoRight
    BY <1>1, <1>5 DEF Sound, DirectOnce
  <2>2. /\ run' = NewAttempt(1, "notstarted") /\ cache' = [att |-> 1, attached |-> TRUE]
        /\ dispatcher' = [pc |-> "enqueueNew", att |-> 1]
    <3>1. /\ run' = NewAttempt(run.att + 1, "notstarted")
          /\ cache' = [att |-> run.att + 1, attached |-> TRUE]
          /\ dispatcher' = [pc |-> "enqueueNew", att |-> run.att + 1]
      BY <2>1 DEF createAttemptForTask
    <3>2. run.att + 1 = 1
      BY <2>1
    <3> QED
      BY Zenon, <3>1, <3>2
  <2>3. run' \in RunRec
    <3>1. 1 \in 0 .. MaxAttempts /\ "notstarted" \in Statuses /\ NoWorker \in SomeWorker
      BY BoundsAssumption DEF Statuses, SomeWorker
    <3> QED
      BY <2>2, <3>1 DEF RunRec, NewAttempt
  <2>6. cache' \in [att : Nat, attached : BOOLEAN] /\ dispatcher' \in [pc : DispatcherPc, att : Nat]
    BY <2>2 DEF DispatcherPc
  <2>4. TypeOK' /\ Named'
    BY <1>2, <2>3, <2>6 DEF Sound, TypeOK, Named
  <2>5. DirectOnce'
    BY <1>2, <1>3, <1>5, <2>1, <2>2 DEF Sound, DirectOnce, NewAttempt
  <2> QED
    BY <1>3, <1>5, <2>4, <2>5 DEF Sound
<1> QED
  BY <1>4, <1>5

(* EnqueueTask writes a task only when the right is in neither place. *)
LEMMA EnqueueTaskKeeps ==
  ASSUME Quiet, Sound, world' = world, EnqueueTask
  PROVE  Sound'
<1>1. TypeOK /\ NoRight
  BY DEF Sound, TypeOK, EnqueueTask, QueuedOnce, DirectOnce
<1>2. /\ dispatcher.pc \in {"enqueue", "enqueueNew"}
      /\ UNCHANGED <<item, lease, index, worker, report, repair, recycler, canceller>>
  BY DEF EnqueueTask, requests
<1>3. CASE \E t \in TaskIds :
             /\ Unused(t)
             /\ tasks' = [tasks EXCEPT ![t] = [state |-> "pending", att |-> dispatcher.att, token |-> 0]]
             /\ DispatcherGoto(IF world.queued THEN "await" ELSE "idle") /\ UNCHANGED <<run, cache>>
  <2>1. PICK t \in TaskIds :
             /\ Unused(t)
             /\ tasks' = [tasks EXCEPT ![t] = [state |-> "pending", att |-> dispatcher.att, token |-> 0]]
             /\ DispatcherGoto(IF world.queued THEN "await" ELSE "idle") /\ UNCHANGED <<run, cache>>
    BY Zenon, <1>3
  <2>2. /\ dispatcher' \in [pc : DispatcherPc, att : Nat]
        /\ dispatcher'.pc = IF world.queued THEN "await" ELSE "idle"
    BY <1>1, <2>1, DispatcherGotoDoes DEF DispatcherPc
  <2>3. /\ tasks' \in [TaskIds -> TaskRec]
        /\ tasks'[t].state = "pending" /\ tasks'[t].att = dispatcher.att
        /\ \A u \in TaskIds : u # t => tasks'[u] = tasks[u]
    BY <1>1, <2>1 DEF TypeOK, TaskRec
  <2>4. TypeOK' /\ Named'
    BY <1>2, <2>1, <2>2, <2>3 DEF Sound, TypeOK, Named
  <2>5. Claims'
    <3>1. \A w \in Workers : worker[w].pc \in Claiming => worker[w].task # t
      BY <2>1 DEF Unused, Claiming
    <3>2. recycler # t
      BY <2>1 DEF Unused
    <3>3. \A w \in Workers : worker[w].pc \in Claiming =>
            worker[w].task \in TaskIds /\ tasks'[worker[w].task] = tasks[worker[w].task]
      BY <2>3, <3>1 DEF Sound, Claims
    <3> QED
      BY <1>2, <2>3, <3>2, <3>3 DEF Sound, Claims, HasClaim, Claimant, Claiming
  <2>6. Calls'
    BY <1>2 DEF Sound, Calls
  <2>7. OneRight'
    BY <1>1, <1>2, <2>3 DEF NoRight, OneRight, Open, InCharge
  <2>8. world.queued => QueuedOnce'
    BY <1>1, <1>2, <2>1, <2>2, <2>3 DEF Sound, QueuedOnce, Open, NoRight, InCharge
  <2>9. ~world.queued => DirectOnce'
    BY <1>1, <1>2, <2>1, <2>2, <2>3 DEF Sound, DirectOnce
  <2> QED
    BY <2>4, <2>5, <2>6, <2>7, <2>8, <2>9 DEF Sound
<1>4. CASE /\ cache' = [att |-> 0, attached |-> FALSE] /\ DispatcherGoto("idle") /\ tasks' = tasks
           /\ \/ run' = run
              \/ dispatcher.pc = "enqueueNew" /\ SetStatus("failed", run.worker)
  <2>1. dispatcher' \in [pc : DispatcherPc, att : Nat] /\ dispatcher'.pc = "idle"
        /\ cache'.att = 0 /\ tasks' = tasks
    BY <1>1, <1>4, DispatcherGotoDoes DEF DispatcherPc
  <2>2. /\ run' \in RunRec /\ run'.att = run.att
        /\ run' = run \/ (run'.status = "failed" /\ dispatcher.pc = "enqueueNew")
    <3>1. run.worker \in SomeWorker /\ "failed" \in Statuses
      BY <1>1 DEF TypeOK, RunRec, Statuses
    <3> QED
      BY <1>1, <1>4, <3>1, SetStatusDoes DEF TypeOK
  <2>3. Claims' /\ Calls' /\ OneRight' /\ (NoRight' <=> NoRight)
    BY <1>2, <1>4, RightsStay
  <2>4. TypeOK' /\ Named'
    BY <1>2, <1>4, <2>1, <2>2 DEF Sound, TypeOK, Named
  <2>5. world.queued => QueuedOnce'
    <3> SUFFICES ASSUME world.queued PROVE QueuedOnce'
      OBVIOUS
    <3>1. run' = run /\ NoRight'
      BY <1>1, <2>2, <2>3 DEF Sound, QueuedOnce
    <3> QED
      BY <1>1, <1>2, <2>1, <3>1 DEF Sound, QueuedOnce, Open
  <2>6. ~world.queued => DirectOnce'
    BY <1>1, <1>2, <1>4, <2>1, <2>2, <2>3 DEF Sound, DirectOnce
  <2> QED
    BY <2>3, <2>4, <2>5, <2>6 DEF Sound
<1> QED
  <2>1. world.queued => ~Mishap("lose")
    BY <1>1, QuietEvents DEF Mishap, TypeOK
  <2> QED
    BY <1>3, <1>4, <2>1 DEF EnqueueTask

(* When checkStartupStatus gives up, the attempt has no task and no worker: *)
(* a worker past the acknowledgement has a fresh lease, or has reported.    *)
LEMMA checkStartupStatusKeeps ==
  ASSUME Quiet, Sound, world' = world, checkStartupStatus
  PROVE  Sound'
<1>1. TypeOK /\ dispatcher.pc = "await" /\ world.queued
  BY DEF Sound, TypeOK, checkStartupStatus, DirectOnce
<1>2. UNCHANGED <<run, item, cache, tasks, lease, index, worker, report, repair, recycler, canceller>>
  BY DEF checkStartupStatus, requests
<1>3. Claims' /\ Calls' /\ OneRight' /\ (NoRight' <=> NoRight)
  BY <1>2, RightsStay
<1>4. \/ DispatcherGoto("dequeue")
      \/ DispatcherGoto("idle") /\ lease[1].is # "fresh" /\ run.status = "queued" /\ ~Pursued(1)
  <2>1. run.att = 1 /\ ~Mishap("slow")
    BY <1>1, QuietEvents DEF Sound, QueuedOnce, Mishap, TypeOK
  <2> QED
    BY <2>1 DEF checkStartupStatus, hasFreshDistributedLease
<1>5. /\ dispatcher' \in [pc : DispatcherPc, att : Nat]
      /\ dispatcher'.pc = "dequeue" \/ (dispatcher'.pc = "idle" /\ (run.status = "queued" => NoRight))
  <2>1. CASE DispatcherGoto("dequeue")
    BY <1>1, <2>1, DispatcherGotoDoes DEF DispatcherPc
  <2>2. CASE DispatcherGoto("idle") /\ lease[1].is # "fresh" /\ run.status = "queued" /\ ~Pursued(1)
    <3>1. \A t \in TaskIds : ~Open(t)
      BY <1>1, <2>2 DEF Pursued, Outstanding, Open, Sound, QueuedOnce
    <3>2. \A w \in Workers : ~InCharge(w)
      BY <1>1, <2>2 DEF InCharge, Sound, QueuedOnce
    <3> QED
      BY <1>1, <2>2, <3>1, <3>2, DispatcherGotoDoes DEF DispatcherPc, NoRight
  <2> QED
    BY <1>4, <2>1, <2>2
<1>6. TypeOK' /\ Named'
  BY <1>2, <1>5 DEF Sound, TypeOK, Named
<1>7. QueuedOnce'
  BY <1>1, <1>2, <1>3, <1>5 DEF Sound, QueuedOnce, Open
<1> QED
  BY <1>1, <1>3, <1>6, <1>7 DEF Sound

(* An item that has been dequeued lets nobody dispatch. *)
LEMMA DequeueKeeps == ASSUME Sound, world' = world, DequeueByDAGRunID PROVE Sound'
<1>1. TypeOK /\ world.queued
  BY DEF Sound, TypeOK, DequeueByDAGRunID, DirectOnce
<1>2. item' = FALSE /\ UNCHANGED <<run, cache, tasks, lease, index, worker, report, repair, recycler, canceller>>
  BY DEF DequeueByDAGRunID, requests
<1>3. Claims' /\ Calls' /\ OneRight' /\ (NoRight' <=> NoRight)
  BY <1>2, RightsStay
<1>4. dispatcher' \in [pc : DispatcherPc, att : Nat] /\ dispatcher'.pc = "idle"
  BY <1>1, DispatcherGotoDoes DEF DispatcherPc, DequeueByDAGRunID
<1>5. TypeOK' /\ Named'
  BY Zenon, <1>2, <1>4 DEF Sound, TypeOK, Named
<1>6. QueuedOnce'
  BY <1>1, <1>2, <1>3, <1>4 DEF Sound, QueuedOnce, Open
<1> QED
  BY <1>1, <1>3, <1>5, <1>6 DEF Sound

(* No step of the dispatcher duplicates the right. *)
LEMMA DispatchingKeeps ==
  ASSUME Quiet, Sound, world' = world, Dispatching \/ EnqueueRetry
  PROVE  Sound'
<1>1. ~EnqueueRetry
  BY QuietEvents DEF Sound, TypeOK, EnqueueRetry, Call
<1> QED
  BY <1>1, ProcessQueueItemsKeeps, processDAGKeeps, DispatchDirectlyKeeps, createAttemptForTaskKeeps,
     EnqueueTaskKeeps, checkStartupStatusKeeps, DequeueKeeps DEF Dispatching

----------------------------------------------------------------------------
(* Stale leases and their repair.                                           *)

(* With the queue and without a late worker, the lease of a worker past the *)
(* acknowledgement stays fresh.                                             *)
LEMMA LeaseGoesStaleKeeps ==
  ASSUME Quiet, Sound, world' = world, NEW a \in Attempts, LeaseGoesStale(a)
  PROVE  Sound'
<1>1. /\ TypeOK /\ lease[a].is = "fresh" /\ lease' = [lease EXCEPT ![a].is = "stale"]
      /\ UNCHANGED <<run, item, cache, tasks, index, worker, report, repair, dispatcher, recycler, canceller>>
  BY DEF LeaseGoesStale, requests, Sound
<1>2. world.queued => Abandoned(a)
  BY <1>1, QuietEvents DEF LeaseGoesStale, Mishap, TypeOK
<1>3. /\ lease' \in [Attempts -> LeaseRec]
      /\ \A b \in Attempts : /\ b # a => lease'[b] = lease[b]
                             /\ lease'[b].worker = lease[b].worker
                             /\ lease'[b].is # "none" => lease[b].is # "none"
  BY <1>1 DEF TypeOK, LeaseRec
<1>4. Claims' /\ Calls' /\ OneRight' /\ (NoRight' <=> NoRight)
  BY <1>1, RightsStay
<1>5. TypeOK' /\ Named'
  BY <1>1, <1>3 DEF Sound, TypeOK, Named
<1>6. ASSUME world.queued PROVE QueuedOnce'
  <2>1. 1 \in Attempts
    BY BoundsAssumption DEF Attempts
  <2>2. ASSUME run.status = "queued", NEW v \in Workers, worker[v].pc \in {"finish"} \union Busy
        PROVE  lease'[1].is = "fresh"
    <3>1. lease[1].is = "fresh" /\ worker[v].att = 1
      BY <1>6, <2>2 DEF Sound, QueuedOnce, Claiming
    <3>2. a # 1
      BY <1>2, <1>6, <2>2, <3>1 DEF Abandoned, Executing, Busy
    <3> QED
      BY <1>3, <2>1, <3>1, <3>2
  <2> QED
    BY <1>1, <1>4, <1>6, <2>2 DEF Sound, QueuedOnce, Open
<1>7. ~world.queued => DirectOnce'
  BY <1>1, <1>4 DEF Sound, DirectOnce
<1> QED
  BY <1>4, <1>5, <1>6, <1>7 DEF Sound

(* What a repairer remembers concerns the rights only through a deletion that *)
(* is due.                                                                    *)
LEMMA RepairOnlyKeeps ==
  ASSUME Sound, world' = world, repair' \in [Repairers -> RepairRec],
         \A x \in Repairers : repair'[x].pc \notin {"idle", "delete"} => repair'[x].worker # NoWorker,
         world.queued /\ run.status = "queued" =>
           ~ (repair'["detector"].pc = "delete" /\ repair'["detector"].att = 1),
         UNCHANGED <<run, item, cache, tasks, lease, index, worker, report, dispatcher, recycler, canceller>>
  PROVE  Sound'
<1>1. Claims' /\ Calls' /\ OneRight' /\ (NoRight' <=> NoRight)
  BY RightsStay
<1>2. TypeOK' /\ Named'
  BY Zenon DEF Sound, TypeOK, Named
<1>3. world.queued => QueuedOnce'
  BY Zenon, <1>1 DEF Sound, QueuedOnce, Open
<1>4. ~world.queued => DirectOnce'
  BY <1>1 DEF Sound, DirectOnce
<1> QED
  BY <1>1, <1>2, <1>3, <1>4 DEF Sound

(* A record that is read for one of the repairers. *)
LEMMA ConfirmDoes ==
  ASSUME Sound, NEW x \in Repairers, NEW p \in {"lease", "index"},
         NEW w \in SomeWorker, w # NoWorker, Confirm(x, p, w)
  PROVE  /\ repair' \in [Repairers -> RepairRec]
         /\ \A y \in Repairers : repair'[y].pc \notin {"idle", "delete"} => repair'[y].worker # NoWorker
         /\ \A y \in Repairers : repair'[y].pc = "delete" => repair'[y] = repair[y]
<1> DEFINE r == [pc |-> p, att |-> run.att, status |-> run.status, worker |-> w]
<1>1. run.att \in Nat /\ run.status \in Statuses
  BY BoundsAssumption DEF Sound, TypeOK, RunRec
<1>2. r \in RepairRec /\ r.pc # "delete" /\ r.worker = w
  BY <1>1 DEF RepairRec
<1>3. repair \in [Repairers -> RepairRec] /\ repair' = [repair EXCEPT ![x] = r]
  BY DEF Sound, TypeOK, Confirm
<1> HIDE DEF r
<1> QED
  BY <1>2, <1>3 DEF Sound, Named

(* The worker of a status is the one that has reported it, and the one of the *)
(* lease or the index while nobody has.                                       *)
LEMMA detectStaleLeasesKeeps ==
  ASSUME Sound, world' = world, NEW a \in Attempts, detectStaleLeases(a)
  PROVE  Sound'
<1>1. /\ TypeOK
      /\ UNCHANGED <<run, item, cache, tasks, lease, index, worker, report, dispatcher, recycler, canceller>>
  BY Zenon DEF Sound, detectStaleLeases, requests
<1>2. PICK w \in SomeWorker, m \in BOOLEAN :
        /\ Reconcile(a, w, m)
        /\ (world.queued /\ run.status = "queued") => m /\ w # NoWorker
  <2>1. CASE detectLeasedDistributedRuns(a)
    <3>1. /\ lease[a] \in LeaseRec /\ lease[a].is # "none" /\ lease[a].worker # NoWorker
      BY <1>1, <2>1 DEF detectLeasedDistributedRuns, TypeOK, Sound, Named
    <3>2. workerIDForStatus(lease[a].worker) \in SomeWorker
      BY <1>1, <3>1 DEF workerIDForStatus, TypeOK, RunRec, LeaseRec, SomeWorker
    <3>3. (world.queued /\ run.status = "queued") =>
            LeaseIdentityMatches(a, run.worker) /\ workerIDForStatus(lease[a].worker) # NoWorker
      BY <3>1 DEF Sound, QueuedOnce, LeaseIdentityMatches, workerIDForStatus
    <3>4. LeaseIdentityMatches(a, run.worker) \in BOOLEAN
      BY DEF LeaseIdentityMatches
    <3> QED
      BY ZenonT(30), <2>1, <3>2, <3>3, <3>4 DEF detectLeasedDistributedRuns
  <2>2. CASE detectIndexedDistributedStatuses(a)
    <3>1. index[a] \in SomeWorker /\ index[a] # NoWorker
      BY <1>1, <2>2 DEF detectIndexedDistributedStatuses, TypeOK
    <3>2. workerIDForStatus(index[a]) \in SomeWorker
      BY <1>1, <3>1 DEF workerIDForStatus, TypeOK, RunRec, SomeWorker
    <3>3. (world.queued /\ run.status = "queued") => workerIDForStatus(index[a]) # NoWorker
      BY <3>1 DEF Sound, QueuedOnce, workerIDForStatus
    <3> QED
      BY Zenon, <2>2, <3>2, <3>3 DEF detectIndexedDistributedStatuses
  <2> QED
    BY Zenon, <2>1, <2>2 DEF detectStaleLeases
<1>3. "detector" \in Repairers
  BY DEF Repairers
<1>4. CASE ~m \/ run.att # a \/ run.status \in Terminal \/ w = NoWorker
  <2> DEFINE r == [NoRepair EXCEPT !.pc = "delete", !.att = a]
  <2>1. r \in RepairRec /\ r.pc = "delete" /\ r.att = a
    <3>1. a \in Nat
      BY BoundsAssumption DEF Attempts
    <3>2. r = [pc |-> "delete", att |-> a, status |-> "none", worker |-> NoWorker]
      <4> DEFINE q == [NoRepair EXCEPT !.pc = "delete"]
      <4>1. q = [pc |-> "delete", att |-> 0, status |-> "none", worker |-> NoWorker]
        BY DEF NoRepair
      <4>2. r = [q EXCEPT !.att = a]
        OBVIOUS
      <4> HIDE DEF q, r
      <4> QED
        BY <4>1, <4>2
    <3> QED
      BY Zenon, <3>1, <3>2 DEF RepairRec, SomeWorker, Statuses
  <2>2. repair \in [Repairers -> RepairRec] /\ repair' = [repair EXCEPT !["detector"] = r]
    BY <1>1, <1>2, <1>4 DEF TypeOK, Reconcile
  <2> HIDE DEF r
  <2>3. (world.queued /\ run.status = "queued") => a # 1
    BY Zenon, <1>2, <1>4 DEF Sound, QueuedOnce, Terminal, Failures
  <2>4. /\ repair' \in [Repairers -> RepairRec] /\ repair'["detector"] = r
        /\ \A x \in Repairers : repair'[x].pc \notin {"idle", "delete"} => repair'[x].worker # NoWorker
    BY <1>3, <2>1, <2>2 DEF Sound, Named
  <2> QED
    BY <1>1, <2>1, <2>3, <2>4, RepairOnlyKeeps
<1>5. CASE ~ (~m \/ run.att # a \/ run.status \in Terminal \/ w = NoWorker)
  <2>1. PICK p \in {"lease", "index"} : Confirm("detector", p, w)
    BY <1>2, <1>5 DEF Reconcile
  <2>2. /\ repair' \in [Repairers -> RepairRec]
        /\ \A y \in Repairers : repair'[y].pc \notin {"idle", "delete"} => repair'[y].worker # NoWorker
        /\ \A y \in Repairers : repair'[y].pc = "delete" => repair'[y] = repair[y]
    BY <1>2, <1>3, <1>5, <2>1, ConfirmDoes
  <2>3. world.queued /\ run.status = "queued" =>
          ~ (repair'["detector"].pc = "delete" /\ repair'["detector"].att = 1)
    BY <1>3, <2>2 DEF Sound, QueuedOnce
  <2> QED
    BY <1>1, <2>2, <2>3, RepairOnlyKeeps
<1> QED
  BY <1>4, <1>5

(* A reader of the API never deletes tracking. *)
LEMMA repairOnReadKeeps ==
  ASSUME Sound, world' = world, repairOnRead
  PROVE  Sound'
<1> DEFINE f == IF run.att > 0 THEN lease[run.att].worker ELSE NoWorker
           w == workerIDForStatus(f)
<1>1. /\ TypeOK /\ w # NoWorker /\ Confirm("reader", "lease", w)
      /\ UNCHANGED <<run, item, cache, tasks, lease, index, worker, report, dispatcher, recycler, canceller>>
  BY Zenon DEF Sound, repairOnRead, requests
<1>2. w \in SomeWorker
  <2>1. run.att > 0 => lease[run.att] \in LeaseRec
    BY <1>1, BoundsAssumption DEF TypeOK, RunRec, Attempts
  <2>2. f \in SomeWorker
    BY <2>1 DEF LeaseRec, SomeWorker
  <2> HIDE DEF f
  <2> QED
    BY <1>1, <2>2 DEF workerIDForStatus, TypeOK, RunRec, SomeWorker
<1> HIDE DEF w
<1>3. {"reader", "detector"} \subseteq Repairers
  BY DEF Repairers
<1>4. /\ repair' \in [Repairers -> RepairRec]
      /\ \A y \in Repairers : repair'[y].pc \notin {"idle", "delete"} => repair'[y].worker # NoWorker
      /\ \A y \in Repairers : repair'[y].pc = "delete" => repair'[y] = repair[y]
  BY <1>1, <1>2, <1>3, ConfirmDoes
<1>5. world.queued /\ run.status = "queued" =>
        ~ (repair'["detector"].pc = "delete" /\ repair'["detector"].att = 1)
  BY <1>3, <1>4 DEF Sound, QueuedOnce
<1> QED
  BY Zenon, <1>1, <1>4, <1>5, RepairOnlyKeeps

(* A repairer that goes on keeps what it has read. *)
LEMMA RepairDoes ==
  ASSUME Sound, NEW x \in Repairers, repair[x].pc \notin {"idle", "delete"},
         NEW p \in {"worker", "swap", "delete", "restore"}, RepairGoto(x, p) \/ Give(x, p)
  PROVE  /\ repair' \in [Repairers -> RepairRec]
         /\ \A y \in Repairers : repair'[y].pc \notin {"idle", "delete"} => repair'[y].worker # NoWorker
         /\ \A y \in Repairers : repair'[y].pc = "delete" =>
              \/ repair'[y] = repair[y]
              \/ y = x /\ p = "delete" /\ repair'[y].att = repair[x].att
<1>1. repair \in [Repairers -> RepairRec] /\ repair[x] \in RepairRec
  BY DEF Sound, TypeOK
<1>2. NoRepair \in RepairRec /\ NoRepair.pc = "idle"
  BY DEF NoRepair, RepairRec, Statuses, SomeWorker
<1> DEFINE r == [repair[x] EXCEPT !.pc = p]
<1>3. /\ r \in RepairRec /\ r.pc = p /\ r.worker = repair[x].worker /\ r.att = repair[x].att
  BY <1>1 DEF RepairRec
<1>4. repair' = [repair EXCEPT ![x] = r] \/ repair' = [repair EXCEPT ![x] = NoRepair]
  BY <1>1 DEF RepairGoto, Give
<1> HIDE DEF r
<1>5. CASE repair' = [repair EXCEPT ![x] = r]
  BY <1>1, <1>3, <1>5 DEF Sound, Named
<1>6. CASE repair' = [repair EXCEPT ![x] = NoRepair]
  BY <1>1, <1>2, <1>6 DEF Sound, Named
<1> QED
  BY <1>4, <1>5, <1>6

(* Confirming that a run is stale writes nothing. *)
LEMMA ConfirmKeeps ==
  ASSUME Sound, world' = world, NEW x \in Repairers, ConfirmLease(x) \/ ConfirmWorker(x)
  PROVE  Sound'
<1>1. /\ repair[x].pc \in {"lease", "worker"}
      /\ UNCHANGED <<run, item, cache, tasks, lease, index, worker, report, dispatcher, recycler, canceller>>
  BY DEF ConfirmLease, ConfirmWorker, requests
<1>2. PICK p \in {"worker", "swap", "restore"} : RepairGoto(x, p) \/ Give(x, p)
  BY ZenonT(30) DEF ConfirmLease, ConfirmWorker
<1>3. /\ repair' \in [Repairers -> RepairRec]
      /\ \A y \in Repairers : repair'[y].pc \notin {"idle", "delete"} => repair'[y].worker # NoWorker
      /\ \A y \in Repairers : repair'[y].pc = "delete" => repair'[y] = repair[y]
  BY <1>1, <1>2, RepairDoes
<1>4. world.queued /\ run.status = "queued" =>
        ~ (repair'["detector"].pc = "delete" /\ repair'["detector"].att = 1)
  BY <1>3 DEF Sound, QueuedOnce, Repairers
<1> QED
  BY <1>1, <1>3, <1>4, RepairOnlyKeeps

(* A deletion follows a status that is not Queued, or concerns another attempt. *)
LEMMA SwapFailedKeeps ==
  ASSUME Sound, world' = world, NEW x \in Repairers, SwapFailed(x)
  PROVE  Sound'
<1> DEFINE r == repair[x]
           swapped == run.att = r.att /\ run.status = r.status
<1>1. /\ TypeOK /\ r.pc = "swap"
      /\ UNCHANGED <<item, tasks, lease, index, worker, report, dispatcher, recycler, canceller>>
  BY DEF Sound, SwapFailed, requests
<1>2. /\ IF swapped THEN run' = [run EXCEPT !.status = "lost", !.lost = r.worker] /\ cache' = Detached(r.att)
         ELSE UNCHANGED <<run, cache>>
      /\ Give(x, IF swapped \/ run.att # r.att \/ run.status \in Terminal THEN "delete" ELSE "restore")
  BY DEF SwapFailed
<1>3. /\ run' \in RunRec /\ run'.att = run.att /\ cache' \in [att : Nat, attached : BOOLEAN]
      /\ \/ run' = run /\ cache' = cache /\ ~swapped
         \/ run'.status = "lost"
  <2>1. CASE swapped
    <3>1. run \in RunRec /\ r.worker \in SomeWorker /\ "lost" \in Statuses
      BY <1>1 DEF TypeOK, RepairRec, Statuses
    <3>2. run' = [run EXCEPT !.status = "lost", !.lost = r.worker]
      BY <1>2, <2>1
    <3> HIDE DEF r
    <3>3. run' \in RunRec /\ run'.att = run.att /\ run'.status = "lost"
      BY Zenon, <3>1, <3>2 DEF RunRec
    <3>4. cache' \in [att : Nat, attached : BOOLEAN]
      BY Zenon, <1>1, <1>2, <2>1 DEF Detached, TypeOK
    <3> QED
      BY <3>3, <3>4
  <2>2. CASE ~swapped
    BY <1>1, <1>2, <2>2 DEF TypeOK
  <2> QED
    BY <2>1, <2>2
<1>4. PICK p \in {"delete", "restore"} :
        Give(x, p) /\ (p = "delete" => swapped \/ run.att # r.att \/ run.status \in Terminal)
  BY <1>2
<1>5. /\ repair' \in [Repairers -> RepairRec]
      /\ \A y \in Repairers : repair'[y].pc \notin {"idle", "delete"} => repair'[y].worker # NoWorker
      /\ \A y \in Repairers : repair'[y].pc = "delete" =>
           repair'[y] = repair[y] \/ (p = "delete" /\ repair'[y].att = r.att)
  BY Zenon, <1>1, <1>4, RepairDoes
<1>6. Claims' /\ Calls' /\ OneRight' /\ (NoRight' <=> NoRight)
  BY Zenon, <1>1, RightsStay
<1>7. TypeOK' /\ Named'
  BY ZenonT(30), <1>1, <1>3, <1>5 DEF Sound, TypeOK, Named
<1>8. world.queued => QueuedOnce'
  <2>1. ASSUME world.queued, run'.status = "queued"
        PROVE  ~ (repair'["detector"].pc = "delete" /\ repair'["detector"].att = 1)
    <3>1. run' = run /\ ~swapped
      BY ZenonT(30), <1>3, <2>1
    <3>2. p = "delete" => r.att # 1
      BY Zenon, <1>4, <2>1, <3>1 DEF Sound, QueuedOnce, Terminal, Failures
    <3>3. "detector" \in Repairers
      BY DEF Repairers
    <3> QED
      BY Zenon, <1>5, <2>1, <3>1, <3>2, <3>3 DEF Sound, QueuedOnce
  <2> HIDE DEF r, swapped
  <2> QED
    BY <1>1, <1>3, <1>6, <2>1 DEF Sound, QueuedOnce, Open
<1>9. ~world.queued => DirectOnce'
  <2> HIDE DEF r, swapped
  <2> QED
    BY <1>1, <1>3, <1>6 DEF Sound, DirectOnce
<1> QED
  BY <1>6, <1>7, <1>8, <1>9 DEF Sound

(* The detector deletes no lease that keeps a queued item from being dispatched. *)
LEMMA TrackKeeps == ASSUME Sound, world' = world, Track PROVE Sound'
<1> DEFINE r == repair["detector"]
<1>1. /\ TypeOK /\ repair' = [repair EXCEPT !["detector"] = NoRepair]
      /\ UNCHANGED <<run, item, cache, tasks, worker, report, dispatcher, recycler, canceller>>
  BY DEF Sound, Track, requests
<1>2. "detector" \in Repairers /\ r \in RepairRec
  BY <1>1 DEF Repairers, TypeOK
<1>3. /\ repair' \in [Repairers -> RepairRec] /\ repair'["detector"].pc = "idle"
      /\ \A y \in Repairers : repair'[y].pc \notin {"idle", "delete"} => repair'[y].worker # NoWorker
  <2>1. NoRepair \in RepairRec /\ NoRepair.pc = "idle"
    BY DEF NoRepair, RepairRec, Statuses, SomeWorker
  <2> QED
    BY Zenon, <1>1, <1>2, <2>1 DEF TypeOK, Sound, Named
<1>4. /\ lease' \in [Attempts -> LeaseRec] /\ index' \in [Attempts -> SomeWorker]
      /\ \A b \in Attempts :
           /\ lease'[b].is # "none" => lease'[b].worker # NoWorker
           /\ lease'[b] = lease[b] \/ lease'[b].is = "fresh" \/ (r.pc = "delete" /\ r.att = b)
  <2>1. CASE deleteDistributedTracking(r)
    <3>1. NoLease \in LeaseRec /\ NoLease.is = "none" /\ NoWorker \in SomeWorker
      BY DEF NoLease, LeaseRec, SomeWorker
    <3>2. /\ lease' \in [Attempts -> LeaseRec] /\ index' \in [Attempts -> SomeWorker]
          /\ \A b \in Attempts : lease'[b] = IF r.att = b THEN NoLease ELSE lease[b]
      BY Zenon, <1>1, <2>1, <3>1, SetTrackingDoes DEF deleteDistributedTracking
    <3> QED
      BY <2>1, <3>1, <3>2 DEF Sound, Named, deleteDistributedTracking
  <2>2. CASE upsertActiveDistributedRun(r)
    BY Zenon, <1>1, <1>2, <2>2 DEF upsertActiveDistributedRun, TypeOK, RepairRec, Sound, Named
  <2>3. CASE restoreConfirmedDistributedRunTracking(r)
    <3> DEFINE l == [is |-> "fresh", worker |-> r.worker]
    <3>1. l \in LeaseRec /\ l.is = "fresh" /\ r.worker \in SomeWorker /\ l.worker # NoWorker
      BY Zenon, <1>2, <2>3 DEF LeaseRec, RepairRec, restoreConfirmedDistributedRunTracking, Sound, Named
    <3>2. SetTracking(r.att, l, r.worker)
      BY <2>3 DEF restoreConfirmedDistributedRunTracking
    <3> HIDE DEF l
    <3>3. /\ lease' \in [Attempts -> LeaseRec] /\ index' \in [Attempts -> SomeWorker]
          /\ \A b \in Attempts : lease'[b] = IF r.att = b THEN l ELSE lease[b]
      BY ZenonT(30), <1>1, <3>1, <3>2, SetTrackingDoes
    <3> QED
      BY <3>1, <3>3 DEF Sound, Named
  <2> QED
    BY ZenonT(30), <2>1, <2>2, <2>3 DEF Track
<1>5. Claims' /\ Calls' /\ OneRight' /\ (NoRight' <=> NoRight)
  BY <1>1, RightsStay
<1>6. TypeOK' /\ Named'
  BY Zenon, <1>1, <1>3, <1>4 DEF Sound, TypeOK, Named
<1>7. world.queued => QueuedOnce'
  <2>1. 1 \in Attempts
    BY BoundsAssumption DEF Attempts
  <2>2. world.queued /\ run.status = "queued" /\ lease[1].is = "fresh" => lease'[1].is = "fresh"
    BY Zenon, <1>4, <2>1 DEF Sound, QueuedOnce
  <2> QED
    BY <1>1, <1>3, <1>5, <2>2 DEF Sound, QueuedOnce, Open
<1>8. ~world.queued => DirectOnce'
  BY <1>1, <1>5 DEF Sound, DirectOnce
<1> QED
  BY <1>5, <1>6, <1>7, <1>8 DEF Sound
=============================================================================
