--------------------------- MODULE DispatchProofs ---------------------------
(***************************************************************************)
(* No two workers execute the dag-run at a time, for any set of workers,   *)
(* any bounds and any combination of the events that Exclusive allows: the *)
(* claims of tasks, the cancellations, the coordinator's restarts, the     *)
(* executing workers and their reports keep the invariant too.             *)
(***************************************************************************)
EXTENDS DispatchInv

(* The task store and the acknowledgement.                                  *)

(* recycleExpiredClaims reads a claim that nobody waits for. *)
LEMMA ReadExpiredClaimKeeps ==
  ASSUME Quiet, Sound, world' = world, NEW t \in TaskIds, ReadExpiredClaim(t)
  PROVE  Sound'
<1>1. /\ tasks[t].state = "claimed" /\ Claimant(t) = {} /\ recycler' = t
      /\ UNCHANGED <<run, item, cache, tasks, lease, index, worker, report, repair, dispatcher, canceller>>
  BY QuietEvents DEF ReadExpiredClaim, requests, Mishap, Sound, TypeOK
<1>2. TypeOK' /\ Named'
  BY <1>1, BoundsAssumption DEF Sound, TypeOK, Named, TaskIds
<1>3. Claims'
  BY <1>1 DEF Sound, Claims, HasClaim, Claimant
<1>4. Calls' /\ OneRight' /\ (NoRight' <=> NoRight)
  BY <1>1 DEF Sound, Calls, OneRight, NoRight, Open, InCharge
<1>5. (world.queued => QueuedOnce') /\ (~world.queued => DirectOnce')
  BY <1>1, <1>4 DEF Sound, QueuedOnce, DirectOnce, Open
<1> QED
  BY <1>2, <1>3, <1>4, <1>5 DEF Sound

(* A claim without claimant becomes a pending task again: the same task. *)
LEMMA RequeueKeeps == ASSUME Sound, world' = world, RequeueExpiredClaim PROVE Sound'
<1> DEFINE t == recycler
<1>1. /\ t \in TaskIds /\ tasks[t].state = "claimed" /\ Claimant(t) = {}
      /\ tasks' = [tasks EXCEPT ![t].state = "pending"] /\ recycler' = 0
      /\ UNCHANGED <<run, item, cache, lease, index, worker, report, repair, dispatcher, canceller>>
  BY DEF Sound, Claims, RequeueExpiredClaim, requests
<1> HIDE DEF t
<1>2. /\ tasks' \in [TaskIds -> TaskRec] /\ tasks'[t].state = "pending"
      /\ \A u \in TaskIds : /\ tasks'[u].token = tasks[u].token /\ tasks'[u].att = tasks[u].att
                            /\ u # t => tasks'[u] = tasks[u]
  BY <1>1 DEF Sound, TypeOK, TaskRec
<1>3. TypeOK' /\ Named'
  BY <1>1, <1>2 DEF Sound, TypeOK, Named
<1>4. Claims'
  <2>1. \A w \in Workers : worker[w].pc \in {"lease", "finish"} => worker[w].task # t
    BY <1>1 DEF Sound, Claims, HasClaim, Claimant
  <2> QED
    BY <1>1, <1>2, <2>1 DEF Sound, Claims, HasClaim, Claiming
<1>5. Calls' /\ OneRight' /\ (NoRight' <=> NoRight)
  BY <1>1, <1>2 DEF Sound, Calls, OneRight, NoRight, Open, InCharge
<1>6. (world.queued => QueuedOnce') /\ (~world.queued => DirectOnce')
  BY <1>1, <1>2, <1>5 DEF Sound, QueuedOnce, DirectOnce, Open
<1> QED
  BY <1>3, <1>4, <1>5, <1>6 DEF Sound

(* A claim stamps the task with a token that no worker has. *)
LEMMA ClaimNextKeeps ==
  ASSUME Sound, world' = world, NEW w \in Workers, ClaimNext(w)
  PROVE  Sound'
<1>1. /\ worker[w].pc = "idle"
      /\ UNCHANGED <<run, item, cache, lease, index, report, repair, dispatcher, recycler, canceller>>
  BY DEF ClaimNext, requests
<1>2. PICK t \in TaskIds :
        /\ tasks[t].state = "pending"
        /\ tasks' = [tasks EXCEPT ![t].state = "claimed", ![t].token = @ + 1]
        /\ \/ worker' = [worker EXCEPT ![w].pc = "ack", ![w].task = t, ![w].att = tasks[t].att,
                                       ![w].token = tasks[t].token + 1]
           \/ worker' = worker
  BY Zenon DEF ClaimNext
<1>3. tasks[t] \in TaskRec /\ worker[w] \in WorkerRec /\ t \in Nat
  BY BoundsAssumption DEF Sound, TypeOK, TaskIds
<1>4. /\ tasks' \in [TaskIds -> TaskRec]
      /\ tasks'[t].state = "claimed" /\ tasks'[t].token = tasks[t].token + 1 /\ tasks'[t].att = tasks[t].att
      /\ \A u \in TaskIds : u # t => tasks'[u] = tasks[u]
  BY <1>2, <1>3 DEF Sound, TypeOK, TaskRec
<1>5. /\ worker' \in [Workers -> WorkerRec]
      /\ \A v \in Workers : v # w => worker'[v] = worker[v]
      /\ worker'[w].touched = worker[w].touched
      /\ \/ worker' = worker
         \/ /\ worker'[w].pc = "ack" /\ worker'[w].task = t /\ worker'[w].att = tasks[t].att
            /\ worker'[w].token = tasks[t].token + 1
  <2>1. CASE worker' = worker
    BY <2>1 DEF Sound, TypeOK
  <2>2. CASE worker' = [worker EXCEPT ![w].pc = "ack", ![w].task = t, ![w].att = tasks[t].att,
                                      ![w].token = tasks[t].token + 1]
    <3>1. worker'[w] = [pc |-> "ack", att |-> tasks[t].att, task |-> t, token |-> tasks[t].token + 1,
                        touched |-> worker[w].touched, cut |-> worker[w].cut]
      BY Zenon, <1>3, <2>2 DEF Sound, TypeOK, WorkerRec
    <3>2. worker'[w] \in WorkerRec
      BY <1>3, <3>1 DEF WorkerRec, TaskRec, Claiming
    <3>3. \A v \in Workers : v # w => worker'[v] = worker[v]
      BY <2>2 DEF Sound, TypeOK
    <3>4. DOMAIN worker' = Workers /\ worker' = [v \in Workers |-> worker'[v]]
      BY ZenonT(30), <2>2 DEF Sound, TypeOK
    <3> QED
      BY <3>1, <3>2, <3>3, <3>4 DEF Sound, TypeOK
  <2> QED
    BY <1>2, <2>1, <2>2
<1>6. TypeOK' /\ Named'
  BY <1>1, <1>4, <1>5 DEF Sound, TypeOK, Named
<1>7. Claims'
  <2>1. recycler # t /\ \A v \in Workers : worker[v].pc \in {"lease", "finish"} => worker[v].task # t
    BY <1>2, BoundsAssumption DEF Sound, Claims, HasClaim, TaskIds
  <2>2. \A v \in Workers : worker[v].pc \in Claiming =>
          /\ worker[v].task \in TaskIds /\ worker[v].token \in Nat
          /\ worker[v].token <= tasks[worker[v].task].token
    BY DEF Sound, Claims, TypeOK, WorkerRec
  <2>3. \A v \in Workers : worker'[v].pc \in Claiming =>
          worker'[v].task \in TaskIds /\ worker'[v].token <= tasks'[worker'[v].task].token
    <3>1. tasks'[t].token \in Nat /\ tasks[t].token \in Nat
      BY <1>3, <1>4 DEF TaskRec
    <3>2. \A u \in TaskIds : /\ tasks[u].token \in Nat /\ tasks'[u].token \in Nat
                             /\ tasks[u].token <= tasks'[u].token
      BY <1>4, <3>1 DEF Sound, TypeOK, TaskRec
    <3>3. \A v \in Workers : v # w \/ worker' = worker => worker'[v] = worker[v]
      BY <1>5
    <3>4. \A v \in Workers : worker[v].pc \in Claiming =>
            worker[v].task \in TaskIds /\ worker[v].token <= tasks'[worker[v].task].token
      BY <2>2, <3>2
    <3> QED
      BY <1>4, <1>5, <3>1, <3>3, <3>4
  <2>4. \A u, v \in Workers :
          (/\ u # v /\ worker'[u].pc \in Claiming /\ worker'[v].pc \in Claiming
           /\ worker'[u].task = worker'[v].task) => worker'[u].token # worker'[v].token
    <3>1. \A u, v \in Workers :
            (/\ u # v /\ worker[u].pc \in Claiming /\ worker[v].pc \in Claiming
             /\ worker[u].task = worker[v].task) => worker[u].token # worker[v].token
      BY DEF Sound, Claims
    <3>2. CASE worker' = worker
      BY <3>1, <3>2
    <3>3. CASE worker'[w].task = t /\ worker'[w].token = tasks[t].token + 1
      <4>1. \A v \in Workers : v # w /\ worker'[v].pc \in Claiming /\ worker'[v].task = t
              => worker'[v].token # tasks[t].token + 1
        BY <1>3, <1>5, <2>2 DEF TaskRec
      <4> QED
        BY <1>5, <3>1, <3>3, <4>1
    <3> QED
      BY <1>5, <3>2, <3>3
  <2>5. \A v \in Workers : worker'[v].pc \in {"lease", "finish"} => HasClaim(v)'
    BY <1>1, <1>4, <1>5, <2>1, <2>2 DEF Sound, Claims, HasClaim, Claiming
  <2>6. recycler # 0 => /\ recycler \in TaskIds /\ tasks'[recycler] = tasks[recycler]
                        /\ tasks[recycler].state = "claimed"
    BY <1>4, <2>1 DEF Sound, Claims
  <2>7. recycler # 0 => Claimant(recycler)' = {}
    BY <1>1, <1>5, <2>1, <2>6 DEF Sound, Claims, Claimant
  <2> QED
    BY <1>1, <2>3, <2>4, <2>5, <2>6, <2>7 DEF Claims
<1>8. Calls' /\ OneRight' /\ (NoRight' <=> NoRight)
  <2>1. \A u \in TaskIds : Open(u)' <=> Open(u)
    BY <1>2, <1>4 DEF Open
  <2>2. \A v \in Workers : InCharge(v)' <=> InCharge(v)
    BY <1>1, <1>5 DEF InCharge, Busy
  <2>3. OneRight' /\ (NoRight' <=> NoRight)
    BY <2>1, <2>2 DEF Sound, OneRight, NoRight
  <2>4. Calls'
    BY <1>1, <1>5 DEF Sound, Calls, Busy
  <2> QED
    BY <2>3, <2>4
<1>9. world.queued => QueuedOnce'
  <2>1. world.queued => tasks[t].att = 1
    BY <1>2 DEF Sound, QueuedOnce, Open
  <2>2. report.worker \in Workers => report.worker # w
    BY <1>1 DEF Sound, Calls
  <2> QED
    BY <1>1, <1>2, <1>4, <1>5, <1>8, <2>1, <2>2 DEF Sound, QueuedOnce, Open, Busy
<1>10. ~world.queued => DirectOnce'
  BY <1>1, <1>8 DEF Sound, DirectOnce
<1> QED
  BY <1>6, <1>7, <1>8, <1>9, <1>10 DEF Sound

(* One worker moves, and the tasks stay. *)
OneMoves(w) ==
  /\ worker' \in [Workers -> WorkerRec]
  /\ \A v \in Workers : v # w => worker'[v] = worker[v]
  /\ UNCHANGED <<tasks, recycler>>

(* A worker that moves and has no claim afterwards disturbs nobody's claim. *)
LEMMA ClaimsLeft ==
  ASSUME Sound, NEW w \in Workers, OneMoves(w), worker'[w].pc \notin Claiming
  PROVE  Claims'
BY DEF Sound, Claims, HasClaim, Claimant, OneMoves, Claiming

(* A worker that is not in charge anew takes no right. *)
LEMMA RightLeft ==
  ASSUME Sound, NEW w \in Workers, OneMoves(w), InCharge(w)' => InCharge(w)
  PROVE  OneRight' /\ (NoRight => NoRight')
BY DEF Sound, OneRight, NoRight, Open, InCharge, OneMoves

(* An acknowledgement looks the claim up: a token that no longer names it is *)
(* refused.                                                                  *)
LEMMA GetClaimKeeps ==
  ASSUME Sound, world' = world, NEW w \in Workers, GetClaim(w)
  PROVE  Sound'
<1>1. /\ TypeOK /\ worker[w].pc = "ack"
      /\ UNCHANGED <<run, item, cache, tasks, lease, index, report, repair, dispatcher, recycler, canceller>>
  BY DEF GetClaim, requests, Sound
<1>2. report.worker \in Workers => report.worker # w
  BY <1>1 DEF Sound, Calls
<1>3. CASE HasClaim(w) /\ Goto(w, "lease")
  <2>1. /\ OneMoves(w) /\ worker'[w].pc = "lease"
        /\ \A v \in Workers : /\ v # w => worker'[v] = worker[v]
                              /\ worker'[v].att = worker[v].att /\ worker'[v].task = worker[v].task
                              /\ worker'[v].token = worker[v].token /\ worker'[v].touched = worker[v].touched
    BY <1>1, <1>3, GotoDoes DEF OneMoves, Claiming
  <2>2. TypeOK' /\ Named'
    BY ZenonT(30), <1>1, <2>1 DEF Sound, TypeOK, Named, OneMoves
  <2>3. Claims'
    BY <1>1, <1>3, <2>1 DEF Sound, Claims, HasClaim, Claimant, Claiming
  <2>4. OneRight' /\ (NoRight => NoRight')
    BY <2>1, RightLeft DEF InCharge, Busy
  <2>5. Calls'
    BY ZenonT(30), <1>1, <1>2, <2>1 DEF Sound, Calls, Busy
  <2>6. (world.queued => QueuedOnce') /\ (~world.queued => DirectOnce')
    BY <1>1, <1>2, <2>1, <2>4 DEF Sound, QueuedOnce, DirectOnce, Open, Claiming, Busy
  <2> QED
    BY <2>2, <2>3, <2>4, <2>5, <2>6 DEF Sound
<1>4. CASE Drop(w)
  <2>1. OneMoves(w) /\ worker'[w].pc = "idle" /\ worker'[w].touched = "none"
    BY <1>1, <1>4, DropDoes DEF OneMoves
  <2>2. TypeOK' /\ Named'
    BY <1>1, <2>1 DEF Sound, TypeOK, Named, OneMoves
  <2>3. Claims'
    BY <2>1, ClaimsLeft DEF Claiming
  <2>4. OneRight' /\ (NoRight => NoRight')
    BY <2>1, RightLeft DEF InCharge, Busy
  <2>5. Calls'
    BY <1>1, <1>2, <2>1 DEF Sound, Calls, OneMoves
  <2>6. (world.queued => QueuedOnce') /\ (~world.queued => DirectOnce')
    BY <1>1, <1>2, <2>1, <2>4 DEF Sound, QueuedOnce, DirectOnce, Open, Claiming, Busy, OneMoves
  <2> QED
    BY <2>2, <2>3, <2>4, <2>5, <2>6 DEF Sound
<1> QED
  BY <1>3, <1>4 DEF GetClaim

(* The lease is written while the claim is still there. *)
LEMMA AckTaskClaimKeeps ==
  ASSUME Sound, world' = world, NEW w \in Workers, AckTaskClaim(w)
  PROVE  Sound'
<1> DEFINE l == [is |-> "fresh", worker |-> w]
<1>1. /\ TypeOK /\ worker[w].pc = "lease"
      /\ SetTracking(worker[w].att, l, w) /\ Goto(w, "finish")
      /\ UNCHANGED <<run, item, cache, tasks, report, repair, dispatcher, recycler, canceller>>
  BY DEF AckTaskClaim, requests, Sound
<1>2. l \in LeaseRec /\ l.is = "fresh" /\ l.worker = w /\ w \in SomeWorker /\ w # NoWorker
  BY NoWorkerAssumption DEF LeaseRec, SomeWorker
<1> HIDE DEF l
<1>3. /\ lease' \in [Attempts -> LeaseRec] /\ index' \in [Attempts -> SomeWorker]
      /\ \A b \in Attempts : lease'[b] = IF worker[w].att = b THEN l ELSE lease[b]
  BY <1>1, <1>2, SetTrackingDoes
<1>4. /\ OneMoves(w) /\ worker'[w].pc = "finish"
      /\ \A v \in Workers : /\ v # w => worker'[v] = worker[v]
                            /\ worker'[v].att = worker[v].att /\ worker'[v].task = worker[v].task
                            /\ worker'[v].token = worker[v].token /\ worker'[v].touched = worker[v].touched
  BY <1>1, GotoDoes DEF OneMoves, Claiming
<1>5. TypeOK'
  BY <1>1, <1>3, <1>4 DEF Sound, TypeOK, OneMoves
<1>6. Named'
  BY <1>1, <1>2, <1>3 DEF Sound, Named
<1>7. Claims'
  BY <1>1, <1>4 DEF Sound, Claims, HasClaim, Claimant, Claiming
<1>8. OneRight' /\ (NoRight => NoRight')
  BY Zenon, <1>4, RightLeft DEF InCharge, Busy
<1>9. Calls' /\ (report.worker \in Workers => report.worker # w)
  BY <1>1, <1>4 DEF Sound, Calls, Busy
<1>10. world.queued => QueuedOnce'
  <2>1. 1 \in Attempts
    BY BoundsAssumption DEF Attempts
  <2>2. world.queued => worker[w].att = 1
    BY Zenon, <1>1 DEF Sound, QueuedOnce, Claiming
  <2>3. world.queued => lease'[1].is = "fresh"
    BY <1>2, <1>3, <2>1, <2>2
  <2> QED
    BY <1>1, <1>4, <1>8, <1>9, <2>3 DEF Sound, QueuedOnce, Open, Claiming, Busy
<1>11. ~world.queued => DirectOnce'
  BY <1>1, <1>8 DEF Sound, DirectOnce
<1> QED
  BY <1>5, <1>6, <1>7, <1>8, <1>9, <1>10, <1>11 DEF Sound

(* The claim is deleted and the right passes to the worker. *)
LEMMA DeleteClaimKeeps ==
  ASSUME Quiet, Sound, world' = world, NEW w \in Workers, DeleteClaim(w)
  PROVE  Sound'
<1> DEFINE t == worker[w].task
<1>1. /\ TypeOK /\ worker[w].pc = "finish" /\ HasClaim(w) /\ t \in TaskIds
      /\ tasks' = [tasks EXCEPT ![t].state = "gone"]
      /\ Goto(w, "validate") \/ (Drop(w) /\ ~world.queued)
      /\ UNCHANGED <<run, item, cache, lease, index, report, repair, dispatcher, recycler, canceller>>
  <2>1. TypeOK /\ worker[w].pc = "finish"
    BY DEF Sound, DeleteClaim
  <2>2. HasClaim(w) /\ t \in TaskIds
    BY <2>1 DEF Sound, Claims, Claiming
  <2>3. world.queued => ~Mishap("lose")
    BY <2>1, QuietEvents DEF Mishap, TypeOK
  <2> QED
    BY <2>1, <2>2, <2>3 DEF DeleteClaim, requests
<1>2. tasks[t].state = "claimed" /\ tasks[t].token = worker[w].token
  BY <1>1 DEF HasClaim
<1>3. /\ t \in TaskIds /\ tasks' \in [TaskIds -> TaskRec] /\ tasks'[t].state = "gone"
      /\ \A u \in TaskIds : tasks'[u].token = tasks[u].token /\ (u # t => tasks'[u] = tasks[u])
  BY <1>1 DEF TypeOK, TaskRec
<1>4. recycler # t
  BY <1>1, <1>2, BoundsAssumption DEF Sound, Claims, Claimant, TaskIds
<1>5. \A v \in Workers : v # w /\ worker[v].pc \in {"lease", "finish"} => worker[v].task # t
  BY <1>1, <1>2 DEF Sound, Claims, HasClaim, Claiming
<1> HIDE DEF t
<1>6. /\ worker' \in [Workers -> WorkerRec]
      /\ \A v \in Workers : v # w => worker'[v] = worker[v]
      /\ \/ worker'[w].pc = "validate" /\ worker'[w].att = worker[w].att
         \/ worker'[w].pc = "idle" /\ ~world.queued
      /\ worker'[w].touched = "none"
  <2>1. worker[w].touched = "none"
    BY <1>1 DEF Sound, Calls, Busy, TypeOK, WorkerRec
  <2> QED
    BY <1>1, <2>1, GotoDoes, DropDoes DEF Busy
<1>7. TypeOK' /\ Named'
  BY <1>1, <1>3, <1>6 DEF Sound, TypeOK, Named
<1>8. Claims'
  <2>1. \A v \in Workers : worker'[v].pc \in Claiming => v # w /\ worker[v].pc \in Claiming
    BY <1>6 DEF Claiming
  <2>2. \A v \in Workers : worker'[v].pc \in {"lease", "finish"} => HasClaim(v)'
    BY <1>3, <1>5, <1>6, <2>1 DEF Sound, Claims, HasClaim, Claiming
  <2>3. recycler' # 0 => /\ recycler' \in TaskIds /\ tasks'[recycler'].state = "claimed"
                         /\ Claimant(recycler)' = {}
    BY <1>1, <1>3, <1>4, <1>6, <2>1 DEF Sound, Claims, Claimant, Claiming
  <2>4. \A v \in Workers : worker'[v].pc \in Claiming =>
          worker'[v].task \in TaskIds /\ worker'[v].token <= tasks'[worker'[v].task].token
    BY <1>3, <1>6, <2>1 DEF Sound, Claims
  <2>5. \A u, v \in Workers :
          (/\ u # v /\ worker'[u].pc \in Claiming /\ worker'[v].pc \in Claiming
           /\ worker'[u].task = worker'[v].task) => worker'[u].token # worker'[v].token
    BY <1>6, <2>1 DEF Sound, Claims
  <2> QED
    BY <2>2, <2>3, <2>4, <2>5 DEF Claims
<1>9. OneRight' /\ ~NoRight
  <2>1. Open(t) /\ \A u \in TaskIds : Open(u) => u = t
    BY <1>2, <1>3 DEF Sound, OneRight, Open
  <2>2. \A v \in Workers : ~InCharge(v)
    BY <1>3, <2>1 DEF Sound, OneRight
  <2>3. \A u \in TaskIds : ~Open(u)'
    BY <1>3, <2>1 DEF Open
  <2>4. \A v \in Workers : InCharge(v)' => v = w
    BY <1>6, <2>2 DEF InCharge
  <2> QED
    BY <1>3, <2>1, <2>3, <2>4 DEF OneRight, NoRight
<1>10. Calls' /\ (report.worker \in Workers => report.worker # w)
  BY <1>1, <1>6 DEF Sound, Calls
<1>11. world.queued => QueuedOnce'
  BY <1>1, <1>3, <1>6, <1>9, <1>10 DEF Sound, QueuedOnce, Open, Claiming, Busy
<1>12. ~world.queued => DirectOnce'
  BY <1>1, <1>9 DEF Sound, DirectOnce
<1> QED
  BY <1>7, <1>8, <1>9, <1>10, <1>11, <1>12 DEF Sound

----------------------------------------------------------------------------
(* Cancellations and restarts.                                              *)

(* A cancellation never makes a status Queued. *)
LEMMA CancellationKeeps ==
  ASSUME Sound, world' = world, RequestCancel \/ finalizeNotStartedCancellation
  PROVE  Sound'
<1>1. /\ TypeOK
      /\ UNCHANGED <<item, tasks, lease, index, worker, report, repair, dispatcher, recycler>>
  BY DEF Sound, RequestCancel, finalizeNotStartedCancellation
<1>2. canceller' \in Nat
  BY <1>1, BoundsAssumption DEF TypeOK, RunRec, RequestCancel, finalizeNotStartedCancellation
<1>3. world.queued => canceller' = 0 /\ UNCHANGED <<run, cache>>
  BY Zenon DEF Sound, QueuedOnce, RequestCancel, finalizeNotStartedCancellation
<1>4. /\ run' \in RunRec /\ run'.att = run.att /\ (run' = run \/ run'.status = "aborted")
      /\ cache' \in [att : Nat, attached : BOOLEAN]
  <2>1. CASE RequestCancel
    BY <1>1, <2>1 DEF RequestCancel, TypeOK
  <2>2. CASE finalizeNotStartedCancellation
    <3>1. "aborted" \in Statuses /\ NoWorker \in SomeWorker
      BY DEF Statuses, SomeWorker
    <3>2. cache' \in [att : Nat, attached : BOOLEAN]
      BY ZenonT(30), <1>1, <2>2 DEF finalizeNotStartedCancellation, Detached, TypeOK
    <3>3. SetStatus("aborted", NoWorker) \/ run' = run
      BY <2>2 DEF finalizeNotStartedCancellation
    <3> QED
      BY <1>1, <3>1, <3>2, <3>3, SetStatusDoes DEF TypeOK
  <2> QED
    BY <2>1, <2>2
<1>5. Claims' /\ Calls' /\ OneRight' /\ (NoRight' <=> NoRight)
  BY <1>1, RightsStay
<1>6. TypeOK' /\ Named'
  BY Zenon, <1>1, <1>2, <1>4 DEF Sound, TypeOK, Named
<1>7. world.queued => QueuedOnce'
  BY <1>1, <1>3, <1>5 DEF Sound, QueuedOnce, Open
<1>8. ~world.queued => DirectOnce'
  BY <1>1, <1>4, <1>5 DEF Sound, DirectOnce
<1> QED
  BY <1>5, <1>6, <1>7, <1>8 DEF Sound

(* The coordinator's restart ends every acknowledgement under way: the claims *)
(* are left without a claimant, and no right is duplicated.                   *)
LEMMA CoordinatorRestartKeeps ==
  ASSUME Sound, world' = world, CoordinatorRestart
  PROVE  Sound'
<1>1. /\ TypeOK /\ cache' = [att |-> 0, attached |-> FALSE] /\ report' = NoReport
      /\ repair' = [repair EXCEPT !["detector"] = NoRepair] /\ recycler' = 0 /\ canceller' = 0
      /\ UNCHANGED <<run, item, tasks, lease, index>>
  BY Zenon DEF Sound, CoordinatorRestart
<1>2. /\ cache' \in [att : Nat, attached : BOOLEAN] /\ cache'.att = 0
      /\ report' \in [pc : {"idle", "write", "sync"}, worker : SomeWorker, status : Statuses]
      /\ report'.pc = "idle" /\ report'.worker = NoWorker
  BY <1>1 DEF NoReport, SomeWorker, Statuses
<1>3. /\ repair' \in [Repairers -> RepairRec] /\ repair'["detector"].pc = "idle"
      /\ \A y \in Repairers : repair'[y].pc \notin {"idle", "delete"} => repair'[y].worker # NoWorker
  <2>1. NoRepair \in RepairRec /\ NoRepair.pc = "idle" /\ "detector" \in Repairers
    BY DEF NoRepair, RepairRec, Statuses, SomeWorker, Repairers
  <2> QED
    BY <1>1, <2>1 DEF TypeOK, Sound, Named
<1>4. /\ dispatcher' \in [pc : DispatcherPc, att : Nat] /\ dispatcher'.att = dispatcher.att
      /\ \/ dispatcher'.pc = dispatcher.pc /\ dispatcher.pc \notin {"enqueue", "enqueueNew"}
         \/ /\ dispatcher.pc \in {"enqueue", "enqueueNew"}
            /\ dispatcher'.pc = IF world.queued THEN "prepare" ELSE "idle"
  <2>1. CASE dispatcher.pc \notin {"enqueue", "enqueueNew"}
    BY Zenon, <1>1, <2>1 DEF CoordinatorRestart, TypeOK
  <2>2. CASE dispatcher.pc \in {"enqueue", "enqueueNew"}
    <3>1. DispatcherGoto(IF world.queued THEN "prepare" ELSE "idle")
      BY Zenon, <2>2 DEF CoordinatorRestart, DispatcherGoto
    <3> QED
      BY <1>1, <2>2, <3>1, DispatcherGotoDoes DEF DispatcherPc
  <2> QED
    BY <2>1, <2>2
<1>5. /\ worker' \in [Workers -> WorkerRec]
      /\ \A w \in Workers :
           /\ worker'[w].pc \in {"idle", "dead"} \union Busy /\ worker'[w].touched = "none"
           /\ InCharge(w)' => InCharge(w) /\ worker'[w].att = worker[w].att
  <2>1. \A w \in Workers : worker[w] \in WorkerRec
    BY <1>1 DEF TypeOK
  <2> DEFINE next(w) == CASE worker[w].pc \in {"ack", "lease", "finish"} -> Done(w)
                          [] report.worker = w /\ worker[w].pc # "dead" ->
                               IF report.status = "running"
                               THEN [worker[w] EXCEPT !.pc = "work", !.touched = "none"] ELSE Done(w)
                          [] OTHER -> [worker[w] EXCEPT !.touched = "none"]
  <2>2. worker' = [w \in Workers |-> next(w)]
    BY Zenon DEF CoordinatorRestart
  <2>3. ASSUME NEW w \in Workers
        PROVE  /\ next(w) \in WorkerRec
               /\ next(w).pc \in {"idle", "dead"} \union Busy /\ next(w).touched = "none"
               /\ next(w).pc \in Busy => worker[w].pc \in Busy /\ next(w).att = worker[w].att
    <3>1. Done(w) \in WorkerRec /\ Done(w).pc = "idle" /\ Done(w).touched = "none"
      BY <2>1 DEF WorkerRec, Done, Vacant
    <3>2. report.worker = w => worker[w].pc \in {"run", "work", "stopping", "dead"}
      BY DEF Sound, Calls
    <3>3. CASE worker[w].pc \in {"ack", "lease", "finish"}
      <4>1. next(w) = Done(w)
        BY <3>2, <3>3
      <4> HIDE DEF next
      <4> QED
        BY <3>1, <4>1 DEF Busy
    <3>4. CASE report.worker = w /\ worker[w].pc # "dead" /\ report.status = "running"
      <4>1. next(w) = [worker[w] EXCEPT !.pc = "work", !.touched = "none"]
        BY <3>2, <3>4
      <4> HIDE DEF next
      <4>2. next(w) \in WorkerRec
        BY Zenon, <2>1, <4>1 DEF WorkerRec, Busy
      <4>3. next(w).pc = "work" /\ next(w).touched = "none" /\ next(w).att = worker[w].att
        BY <2>1, <4>1 DEF WorkerRec
      <4> QED
        BY <3>2, <3>4, <4>2, <4>3 DEF Busy
    <3>5. CASE report.worker = w /\ worker[w].pc # "dead" /\ report.status # "running"
      <4>1. next(w) = Done(w)
        BY <3>2, <3>5
      <4> HIDE DEF next
      <4> QED
        BY <3>1, <4>1 DEF Busy
    <3>6. CASE /\ worker[w].pc \notin {"ack", "lease", "finish"}
               /\ ~ (report.worker = w /\ worker[w].pc # "dead")
      <4>1. next(w) = [worker[w] EXCEPT !.touched = "none"]
        BY <3>6
      <4> HIDE DEF next
      <4>2. /\ next(w) \in WorkerRec /\ next(w).pc = worker[w].pc /\ next(w).touched = "none"
            /\ next(w).att = worker[w].att
        BY <2>1, <4>1 DEF WorkerRec
      <4> QED
        BY <2>1, <3>6, <4>2 DEF WorkerRec, Claiming
    <3> QED
      BY <3>3, <3>4, <3>5, <3>6
  <2> HIDE DEF next
  <2> QED
    BY <2>2, <2>3 DEF InCharge
<1>6. TypeOK' /\ Named'
  BY Zenon, <1>1, <1>2, <1>3, <1>4, <1>5 DEF Sound, TypeOK, Named
<1>7. Claims'
  BY Zenon, <1>1, <1>5 DEF Claims, Claiming, Busy
<1>8. Calls'
  BY Zenon, <1>2, <1>5, NoWorkerAssumption DEF Calls
<1>9. OneRight' /\ (NoRight => NoRight')
  BY Zenon, <1>1, <1>5 DEF Sound, OneRight, NoRight, Open, InCharge
<1>10. world.queued => QueuedOnce'
  BY <1>1, <1>2, <1>3, <1>4, <1>5, <1>9, NoWorkerAssumption
     DEF Sound, QueuedOnce, Open, InCharge, Claiming, Busy
<1>11. ~world.queued => DirectOnce'
  BY <1>1, <1>4, <1>9 DEF Sound, DirectOnce
<1> QED
  BY <1>6, <1>7, <1>8, <1>9, <1>10, <1>11 DEF Sound

----------------------------------------------------------------------------
(* A worker in charge, its heartbeats and its reports.                      *)

(* A worker in charge that moves on keeps its attempt, or gives the right up. *)
InChargeMoves(w) ==
  /\ OneMoves(w)
  /\ worker'[w].pc \in Busy \union {"idle", "dead"}
  /\ InCharge(w)' => InCharge(w) /\ worker'[w].att = worker[w].att
  /\ worker'[w].touched # "none" => InCharge(w)'
  /\ report'.worker = w => /\ worker'[w].pc \in {"run", "work", "stopping", "dead"}
                           /\ worker'[w].att = worker[w].att /\ ~worker'[w].cut

(* A worker in charge that moves on disturbs neither claims nor calls. *)
LEMMA InChargeMovesKeeps ==
  ASSUME Sound, NEW w \in Workers, InChargeMoves(w), report' = report
  PROVE  /\ Claims' /\ Calls' /\ OneRight' /\ (NoRight => NoRight')
         /\ world.queued => \A v \in Workers : worker'[v].pc \in Claiming \union Busy => worker'[v].att = 1
<1>1. OneMoves(w) /\ (InCharge(w)' => InCharge(w)) /\ worker'[w].pc \notin Claiming
  BY DEF InChargeMoves, Claiming, Busy
<1>2. Claims' /\ OneRight' /\ (NoRight => NoRight')
  BY <1>1, ClaimsLeft, RightLeft
<1>3. Calls'
  BY <1>1 DEF Sound, Calls, InChargeMoves, OneMoves, InCharge
<1>4. world.queued => \A v \in Workers : worker'[v].pc \in Claiming \union Busy => worker'[v].att = 1
  BY <1>1 DEF Sound, QueuedOnce, InChargeMoves, OneMoves, InCharge
<1> QED
  BY <1>2, <1>3, <1>4

(* ... and if nothing else changes, that is all there is to say. *)
LEMMA InChargeOnlyKeeps ==
  ASSUME Sound, world' = world, NEW w \in Workers, InChargeMoves(w),
         UNCHANGED <<run, item, cache, lease, index, report, repair, dispatcher, canceller>>
  PROVE  Sound'
<1>1. /\ Claims' /\ Calls' /\ OneRight' /\ (NoRight => NoRight')
      /\ world.queued => \A v \in Workers : worker'[v].pc \in Claiming \union Busy => worker'[v].att = 1
  BY InChargeMovesKeeps
<1>2. TypeOK' /\ Named'
  BY ZenonT(30) DEF Sound, TypeOK, Named, InChargeMoves, OneMoves
<1>3. world.queued => QueuedOnce'
  BY <1>1 DEF Sound, QueuedOnce, Open, InChargeMoves, OneMoves, InCharge
<1>4. ~world.queued => DirectOnce'
  BY Zenon, <1>1 DEF Sound, DirectOnce
<1> QED
  BY <1>1, <1>2, <1>3, <1>4 DEF Sound

(* A worker without its coordinator goes on, stops or is done. *)
LEMMA WithoutCoordinatorKeeps ==
  ASSUME Sound, world' = world, NEW w \in Workers, WithoutCoordinator(w)
  PROVE  Sound'
<1>1. /\ TypeOK /\ worker[w].cut
      /\ UNCHANGED <<run, item, cache, tasks, lease, index, report, repair, dispatcher, recycler, canceller>>
  BY DEF WithoutCoordinator, requests, Sound
<1>2. report.worker # w
  BY <1>1 DEF Sound, Calls
<1>3. /\ worker[w].pc \in Busy
      /\ Drop(w) \/ \E p \in {"run", "work", "stopping"} : Goto(w, p)
  <2>1. worker[w].pc \in Busy
    BY DEF WithoutCoordinator, Busy
  <2>2. CASE worker[w].pc = "validate"
    BY <2>1, <2>2 DEF WithoutCoordinator
  <2>3. CASE worker[w].pc = "run"
    BY <2>1, <2>3 DEF WithoutCoordinator
  <2>4. CASE worker[w].pc = "work"
    BY <2>1, <2>4 DEF WithoutCoordinator
  <2>5. CASE worker[w].pc = "stopping"
    BY <2>1, <2>5 DEF WithoutCoordinator
  <2> QED
    BY <2>1, <2>2, <2>3, <2>4, <2>5 DEF Busy
<1>4. CASE Drop(w)
  <2>1. InChargeMoves(w)
    BY <1>1, <1>2, <1>4, DropDoes DEF InChargeMoves, OneMoves, InCharge, Busy
  <2> QED
    BY <1>1, <2>1, InChargeOnlyKeeps
<1>5. CASE \E p \in {"run", "work", "stopping"} : Goto(w, p)
  <2>1. PICK p \in {"run", "work", "stopping"} : Goto(w, p)
    BY <1>5
  <2>2. p \in Busy
    BY <2>1 DEF Busy
  <2>3. InChargeMoves(w)
    BY <1>1, <1>2, <1>3, <2>1, <2>2, GotoDoes DEF InChargeMoves, OneMoves, InCharge
  <2> QED
    BY <1>1, <2>3, InChargeOnlyKeeps
<1> QED
  BY <1>3, <1>4, <1>5

(* Hearing of a report's fate, a worker goes on, stops or is done. *)
LEMMA HearDoes ==
  ASSUME Sound, NEW w \in Workers, worker[w].pc \in {"run", "work", "stopping", "dead"},
         UNCHANGED <<tasks, recycler>>, NEW st, NEW r \in BOOLEAN, Hear(w, st, r), report'.worker # w
  PROVE  InChargeMoves(w)
<1>1. TypeOK /\ worker[w] \in WorkerRec
  BY DEF Sound, TypeOK
<1>2. CASE worker' = worker /\ worker[w].pc = "dead"
  BY <1>1, <1>2 DEF InChargeMoves, OneMoves, InCharge, TypeOK, Sound, Calls, Busy
<1>3. CASE Drop(w)
  BY ZenonT(30), <1>1, <1>3, DropDoes DEF InChargeMoves, OneMoves, InCharge, Busy
<1>4. CASE worker[w].pc # "dead" /\ \E p \in {"work", "stopping"} : Goto(w, p)
  <2>1. PICK p \in {"work", "stopping"} : Goto(w, p)
    BY <1>4
  <2>2. p \in Busy /\ worker[w].pc \in Busy
    BY <1>4, <2>1 DEF Busy
  <2> QED
    BY <1>1, <2>1, <2>2, GotoDoes DEF InChargeMoves, OneMoves, InCharge
<1> QED
  BY <1>2, <1>3, <1>4 DEF Hear

(* A report that is accepted waits to be written; one that is rejected ends *)
(* the execution.                                                           *)
LEMMA ReportStatusKeeps ==
  ASSUME Sound, world' = world, NEW w \in Workers, ReportStatus(w)
  PROVE  Sound'
<1>1. /\ TypeOK /\ worker[w].pc \in {"run", "work", "stopping"} /\ ~worker[w].cut /\ report = NoReport
      /\ UNCHANGED <<run, item, cache, tasks, lease, index, repair, dispatcher, recycler, canceller>>
  BY DEF ReportStatus, requests, Sound, Registered
<1>2. PICK st \in Outcomes(worker[w].pc) :
        \/ report' = [pc |-> "write", worker |-> w, status |-> st] /\ worker' = worker
        \/ Hear(w, st, TRUE) /\ report' = report
  BY Zenon DEF ReportStatus
<1>3. CASE report' = [pc |-> "write", worker |-> w, status |-> st] /\ worker' = worker
  <2>1. st \in Statuses /\ st # "queued"
    BY <1>2 DEF Outcomes, Statuses
  <2>2. /\ report' \in [pc : {"idle", "write", "sync"}, worker : SomeWorker, status : Statuses]
        /\ report'.pc = "write" /\ report'.worker = w /\ report'.status # "queued"
    BY <1>3, <2>1 DEF SomeWorker
  <2>3. TypeOK' /\ Named'
    BY Zenon, <1>1, <1>3, <2>2 DEF Sound, TypeOK, Named
  <2>4. Claims'
    BY Zenon, <1>1, <1>3 DEF Sound, Claims, HasClaim, Claimant
  <2>5. Calls'
    BY Zenon, <1>1, <1>3, <2>2 DEF Sound, Calls
  <2>6. OneRight' /\ (NoRight' <=> NoRight)
    BY ZenonT(30), <1>1, <1>3 DEF Sound, OneRight, NoRight, Open, InCharge
  <2>7. world.queued => QueuedOnce'
    BY <1>1, <1>3, <2>2, <2>6 DEF Sound, QueuedOnce, Open, Busy
  <2>8. ~world.queued => DirectOnce'
    BY Zenon, <1>1, <2>6 DEF Sound, DirectOnce
  <2> QED
    BY <2>3, <2>4, <2>5, <2>6, <2>7, <2>8 DEF Sound
<1>4. CASE Hear(w, st, TRUE) /\ report' = report
  <2>1. report'.worker # w
    BY <1>1, <1>4, NoWorkerAssumption DEF NoReport
  <2>2. InChargeMoves(w)
    BY Zenon, <1>1, <1>4, <2>1, HearDoes
  <2> QED
    BY <1>1, <1>4, <2>2, InChargeOnlyKeeps
<1> QED
  BY Zenon, <1>2, <1>3, <1>4

(* A worker that dies or is cut off takes no right along. *)
LEMMA WorkerDiesKeeps ==
  ASSUME Sound, world' = world, NEW w \in Workers, WorkerDies(w) \/ Disconnect(w)
  PROVE  Sound'
<1>1. UNCHANGED <<run, item, cache, tasks, lease, index, report, repair, dispatcher, recycler, canceller>>
  BY DEF WorkerDies, Disconnect, requests
<1>2. worker \in [Workers -> WorkerRec] /\ worker[w] \in WorkerRec
  BY DEF Sound, TypeOK
<1>3. CASE WorkerDies(w)
  <2>1. worker' = [worker EXCEPT ![w].pc = "dead", ![w].touched = "none"]
    BY <1>3 DEF WorkerDies
  <2>2. worker' \in [Workers -> WorkerRec]
    BY Zenon, <1>2, <2>1 DEF WorkerRec
  <2>3. /\ worker'[w].pc = "dead" /\ worker'[w].touched = "none" /\ worker'[w].att = worker[w].att
        /\ worker'[w].cut = worker[w].cut
        /\ \A v \in Workers : v # w => worker'[v] = worker[v]
    BY <1>2, <2>1 DEF WorkerRec
  <2>4. InChargeMoves(w)
    BY <1>1, <2>2, <2>3 DEF InChargeMoves, OneMoves, InCharge, Busy, Sound, Calls
  <2> QED
    BY <1>1, <2>4, InChargeOnlyKeeps
<1>4. CASE Disconnect(w)
  <2>1. /\ worker[w].pc \in {"idle"} \union Busy /\ worker[w].touched = "none" /\ report.worker # w
        /\ worker' = [worker EXCEPT ![w].cut = TRUE]
    BY <1>4 DEF Disconnect, Busy
  <2>2. /\ worker' \in [Workers -> WorkerRec] /\ worker'[w].pc = worker[w].pc
        /\ worker'[w].touched = "none" /\ worker'[w].att = worker[w].att
        /\ \A v \in Workers : v # w => worker'[v] = worker[v]
    BY Zenon, <1>2, <2>1 DEF WorkerRec
  <2>3. InChargeMoves(w)
    BY <1>1, <2>1, <2>2 DEF InChargeMoves, OneMoves, InCharge, Busy
  <2> QED
    BY <1>1, <2>3, InChargeOnlyKeeps
<1> QED
  BY <1>3, <1>4

(* A worker that is back has what it had. *)
LEMMA ReconnectKeeps ==
  ASSUME Sound, world' = world, NEW w \in Workers, Reconnect(w)
  PROVE  Sound'
<1>1. /\ worker' = [worker EXCEPT ![w].cut = FALSE]
      /\ UNCHANGED <<run, item, cache, tasks, lease, index, report, repair, dispatcher, recycler, canceller>>
  BY DEF Reconnect, requests
<1>2. /\ worker' \in [Workers -> WorkerRec]
      /\ \A v \in Workers : /\ worker'[v].pc = worker[v].pc /\ worker'[v].att = worker[v].att
                            /\ worker'[v].task = worker[v].task /\ worker'[v].token = worker[v].token
                            /\ worker'[v].touched = worker[v].touched
                            /\ worker'[v].cut => worker[v].cut
  BY ZenonT(30), <1>1 DEF Sound, TypeOK, WorkerRec
<1>3. TypeOK' /\ Named'
  BY <1>1, <1>2 DEF Sound, TypeOK, Named
<1>4. Claims'
  BY <1>1, <1>2 DEF Sound, Claims, HasClaim, Claimant
<1>5. Calls'
  BY <1>1, <1>2 DEF Sound, Calls
<1>6. OneRight' /\ (NoRight' <=> NoRight)
  BY <1>1, <1>2 DEF Sound, OneRight, NoRight, Open, InCharge
<1>7. world.queued => QueuedOnce'
  BY <1>1, <1>2, <1>6 DEF Sound, QueuedOnce, Open
<1>8. ~world.queued => DirectOnce'
  BY <1>1, <1>6 DEF Sound, DirectOnce
<1> QED
  BY <1>3, <1>4, <1>5, <1>6, <1>7, <1>8 DEF Sound

(* A heartbeat of a worker, or the lack of one, concerns its record only. *)
LEMMA HeartbeatKeeps ==
  ASSUME Sound, world' = world,
         UNCHANGED <<run, item, cache, tasks, lease, index, worker, report, repair, dispatcher, recycler, canceller>>
  PROVE  Sound'
<1>1. Claims' /\ Calls' /\ OneRight' /\ (NoRight' <=> NoRight)
  BY RightsStay
<1>2. TypeOK' /\ Named'
  BY DEF Sound, TypeOK, Named
<1>3. (world.queued => QueuedOnce') /\ (~world.queued => DirectOnce')
  BY <1>1 DEF Sound, QueuedOnce, DirectOnce, Open
<1> QED
  BY <1>1, <1>2, <1>3 DEF Sound

(* A heartbeat only makes a lease fresher. *)
LEMMA TouchLeaseKeeps ==
  ASSUME Sound, world' = world, NEW w \in Workers, TouchLease(w)
  PROVE  Sound'
<1> DEFINE a == worker[w].att
<1>1. /\ worker[w].pc \in Busy /\ ~worker[w].cut
      /\ UNCHANGED <<run, item, cache, tasks, index, report, repair, dispatcher, recycler, canceller>>
  BY DEF TouchLease, requests, Beating, Registered, Busy
<1>2. /\ \E m \in {"missing", "touched"} : worker' = [worker EXCEPT ![w].touched = m]
      /\ \/ lease' = lease
         \/ lease[a].is # "none" /\ lease' = [lease EXCEPT ![a].is = "fresh"]
  BY DEF TouchLease
<1>3. /\ worker' \in [Workers -> WorkerRec] /\ worker'[w].pc = worker[w].pc
      /\ worker'[w].att = worker[w].att /\ worker'[w].cut = worker[w].cut
      /\ \A v \in Workers : v # w => worker'[v] = worker[v]
  BY <1>2 DEF Sound, TypeOK, WorkerRec
<1>4. /\ lease' \in [Attempts -> LeaseRec]
      /\ \A b \in Attempts : /\ lease'[b].worker = lease[b].worker
                             /\ lease'[b].is = lease[b].is \/ (lease[b].is # "none" /\ lease'[b].is = "fresh")
  <2>1. lease \in [Attempts -> LeaseRec]
    BY DEF Sound, TypeOK
  <2>2. CASE lease' = lease
    BY <2>1, <2>2
  <2>3. CASE lease[a].is # "none" /\ lease' = [lease EXCEPT ![a].is = "fresh"]
    <3> HIDE DEF a
    <3>1. lease' \in [Attempts -> LeaseRec]
      BY Zenon, <2>1, <2>3 DEF LeaseRec
    <3>2. \A b \in Attempts : lease'[b] = IF a = b THEN [lease[b] EXCEPT !.is = "fresh"] ELSE lease[b]
      BY <2>1, <2>3
    <3>3. \A b \in Attempts : lease[b] \in LeaseRec
      BY <2>1
    <3> QED
      BY <2>3, <3>1, <3>2, <3>3 DEF LeaseRec
  <2> QED
    BY <1>2, <2>2, <2>3
<1>5. InChargeMoves(w)
  BY <1>1, <1>3 DEF InChargeMoves, OneMoves, InCharge, Sound, Calls
<1>6. /\ Claims' /\ Calls' /\ OneRight' /\ (NoRight => NoRight')
      /\ world.queued => \A v \in Workers : worker'[v].pc \in Claiming \union Busy => worker'[v].att = 1
  BY <1>1, <1>5, InChargeMovesKeeps
<1>7. TypeOK' /\ Named'
  BY Zenon, <1>1, <1>3, <1>4 DEF Sound, TypeOK, Named
<1>8. world.queued => QueuedOnce'
  <2>1. 1 \in Attempts
    BY BoundsAssumption DEF Attempts
  <2>2. lease[1].is = "fresh" => lease'[1].is = "fresh"
    BY <1>4, <2>1
  <2>3. \A v \in Workers : worker'[v].pc = worker[v].pc
    BY <1>3
  <2> QED
    BY Zenon, <1>1, <1>3, <1>6, <2>2, <2>3 DEF Sound, QueuedOnce, Open
<1>9. ~world.queued => DirectOnce'
  BY ZenonT(30), <1>1, <1>6 DEF Sound, DirectOnce
<1> QED
  BY <1>6, <1>7, <1>8, <1>9 DEF Sound

(* The answer to a heartbeat lets a worker go on or stops it; the repair of a *)
(* status never makes it Queued.                                              *)
LEMMA RunHeartbeatKeeps ==
  ASSUME Sound, world' = world, NEW w \in Workers, RunHeartbeat(w)
  PROVE  Sound'
<1> DEFINE a == worker[w].att
<1>1. /\ TypeOK /\ worker[w].touched # "none" /\ worker[w].pc \in Busy
      /\ UNCHANGED <<item, tasks, lease, report, repair, dispatcher, recycler, canceller>>
  BY Zenon DEF RunHeartbeat, requests, Sound, Calls
<1>2. \E c \in BOOLEAN : Answer(w, c)
  BY Zenon DEF RunHeartbeat
<1>3. \/ UNCHANGED <<run, index, cache>>
      \/ /\ run.status \in Failures
         /\ cache' = Detached(a)
         /\ \/ UNCHANGED <<run, index>>
            \/ SetStatus("running", w) /\ index' = [index EXCEPT ![a] = w]
  BY ZenonT(30) DEF RunHeartbeat
<1>4. InChargeMoves(w)
  BY <1>1, <1>2, AnswerDoes DEF InChargeMoves, OneMoves, InCharge, Sound, Calls, Busy
<1>5. /\ Claims' /\ Calls' /\ OneRight' /\ (NoRight => NoRight')
      /\ world.queued => \A v \in Workers : worker'[v].pc \in Claiming \union Busy => worker'[v].att = 1
  BY <1>1, <1>4, InChargeMovesKeeps
<1>6. /\ run' \in RunRec /\ run'.att = run.att /\ cache' \in [att : Nat, attached : BOOLEAN]
      /\ index' \in [Attempts -> SomeWorker]
      /\ \/ run' = run /\ cache' = cache
         \/ run.status # "queued" /\ run'.status # "queued"
  <2>1. "running" \in Statuses /\ w \in SomeWorker /\ run.status \in Failures => run.status # "queued"
    BY DEF Statuses, SomeWorker, Failures
  <2>2. Detached(a) \in [att : Nat, attached : BOOLEAN]
    BY Zenon, <1>1 DEF Detached, TypeOK
  <2>3. ASSUME SetStatus("running", w)
        PROVE  run' \in RunRec /\ run'.att = run.att /\ run'.status = "running"
    BY <1>1, <2>1, <2>3, SetStatusDoes DEF Statuses, SomeWorker
  <2> QED
    BY <1>1, <1>3, <2>1, <2>2, <2>3 DEF TypeOK, SomeWorker, Failures
<1>7. TypeOK' /\ Named'
  BY ZenonT(30), <1>1, <1>4, <1>6 DEF Sound, TypeOK, Named, InChargeMoves, OneMoves
<1>8. world.queued => QueuedOnce'
  BY <1>1, <1>4, <1>5, <1>6 DEF Sound, QueuedOnce, Open, InChargeMoves, OneMoves, InCharge
<1>9. ~world.queued => DirectOnce'
  BY <1>1, <1>5, <1>6 DEF Sound, DirectOnce
<1> QED
  BY <1>5, <1>7, <1>8, <1>9 DEF Sound

(* The first accepted report ends the Queued status: the attempt's file is   *)
(* open, or is opened.                                                       *)
LEMMA WriteReportedKeeps == ASSUME Sound, world' = world, WriteReported PROVE Sound'
<1> DEFINE a == worker[report.worker].att
<1>1. /\ TypeOK /\ report.pc = "write" /\ report' = [report EXCEPT !.pc = "sync"]
      /\ report.worker \in Workers /\ report.status # "queued"
      /\ UNCHANGED <<item, tasks, lease, index, worker, repair, dispatcher, recycler, canceller>>
  BY DEF WriteReported, requests, Sound, Calls
<1>2. /\ cache' = IF cache.att = a THEN cache ELSE [att |-> a, attached |-> TRUE]
      /\ IF cache'.attached /\ run.att = a THEN SetStatus(report.status, report.worker) ELSE run' = run
  BY DEF WriteReported
<1>3. /\ report' \in [pc : {"idle", "write", "sync"}, worker : SomeWorker, status : Statuses]
      /\ report'.pc = "sync" /\ report'.worker = report.worker /\ report'.status = report.status
  BY <1>1 DEF TypeOK
<1>4. a \in Nat /\ cache' \in [att : Nat, attached : BOOLEAN]
  BY <1>1, <1>2 DEF TypeOK, WorkerRec
<1>5. /\ run' \in RunRec /\ run'.att = run.att
      /\ run' = run \/ run'.status = report.status
  <2>1. report.status \in Statuses /\ report.worker \in SomeWorker
    BY <1>1 DEF TypeOK
  <2> QED
    BY <1>1, <1>2, <2>1, SetStatusDoes DEF TypeOK
<1>6. TypeOK' /\ Named'
  BY <1>1, <1>3, <1>4, <1>5 DEF Sound, TypeOK, Named
<1>7. Claims' /\ OneRight' /\ (NoRight' <=> NoRight)
  BY <1>1 DEF Sound, Claims, HasClaim, Claimant, OneRight, NoRight, Open, InCharge
<1>8. Calls'
  BY <1>1, <1>3 DEF Sound, Calls
<1>9. ASSUME world.queued PROVE QueuedOnce'
  <2>1. run'.status # "queued"
    <3>1. a = 1 /\ run.att = 1
      BY <1>1, <1>9 DEF Sound, QueuedOnce
    <3>2. CASE run.status # "queued"
      BY <1>1, <1>5, <3>2
    <3>3. CASE run.status = "queued"
      <4>1. cache'.attached
        BY <1>2, <1>9, <3>1, <3>3 DEF Sound, QueuedOnce
      <4>2. report.status \in Statuses /\ report.worker \in SomeWorker
        BY <1>1 DEF TypeOK
      <4> QED
        BY <1>1, <1>2, <3>1, <4>1, <4>2, SetStatusDoes
    <3> QED
      BY <3>2, <3>3
  <2> QED
    BY <1>1, <1>3, <1>5, <1>7, <1>9, <2>1 DEF Sound, QueuedOnce, Open
<1>10. ~world.queued => DirectOnce'
  BY <1>1, <1>5, <1>7 DEF Sound, DirectOnce
<1> QED
  BY <1>6, <1>7, <1>8, <1>9, <1>10 DEF Sound

(* The tracking follows a status that is written, and is not Queued any more. *)
LEMMA syncKeeps == ASSUME Sound, world' = world, syncDistributedRunTrackingFromStatus PROVE Sound'
<1>1. PICK w \in Workers :
        /\ w = report.worker /\ TypeOK /\ report.pc = "sync" /\ w # NoWorker
        /\ Hear(w, report.status, FALSE) /\ report' = NoReport
        /\ worker[w].pc \in {"run", "work", "stopping", "dead"}
        /\ UNCHANGED <<run, item, cache, tasks, repair, dispatcher, recycler, canceller>>
  BY Zenon, NoWorkerAssumption DEF syncDistributedRunTrackingFromStatus, requests, Sound, Calls
<1>2. /\ report' \in [pc : {"idle", "write", "sync"}, worker : SomeWorker, status : Statuses]
      /\ report'.pc = "idle" /\ report'.worker = NoWorker
  BY <1>1 DEF NoReport, SomeWorker, Statuses
<1>3. PICK l \in {NoLease, [is |-> "fresh", worker |-> w]}, v \in {w, NoWorker} :
        SetTracking(worker[w].att, l, v)
  BY ZenonT(30), <1>1 DEF syncDistributedRunTrackingFromStatus
<1>4. /\ lease' \in [Attempts -> LeaseRec] /\ index' \in [Attempts -> SomeWorker]
      /\ \A b \in Attempts : lease'[b].is # "none" => lease'[b].worker # NoWorker
  <2>1. l \in LeaseRec /\ v \in SomeWorker /\ (l.is # "none" => l.worker # NoWorker)
    <3>1. w # NoWorker /\ w \in SomeWorker /\ NoWorker \in SomeWorker
      BY NoWorkerAssumption DEF SomeWorker
    <3>2. NoLease \in LeaseRec /\ NoLease.is = "none"
      BY <3>1 DEF LeaseRec, NoLease
    <3>3. /\ [is |-> "fresh", worker |-> w] \in LeaseRec
          /\ [is |-> "fresh", worker |-> w].worker = w
      BY <3>1 DEF LeaseRec
    <3>4. l = NoLease \/ l = [is |-> "fresh", worker |-> w]
      OBVIOUS
    <3> QED
      BY <3>1, <3>2, <3>3, <3>4
  <2>2. /\ lease' \in [Attempts -> LeaseRec] /\ index' \in [Attempts -> SomeWorker]
        /\ \A b \in Attempts : lease'[b] = IF worker[w].att = b THEN l ELSE lease[b]
    BY ZenonT(30), <1>1, <1>3, <2>1, SetTrackingDoes
  <2> QED
    BY <2>1, <2>2 DEF Sound, Named
<1>5. InChargeMoves(w)
  BY Zenon, <1>1, <1>2, HearDoes
<1>6. OneMoves(w) /\ (InCharge(w)' => InCharge(w)) /\ worker'[w].pc \notin Claiming
  BY <1>5 DEF InChargeMoves, Claiming, Busy
<1>7. Claims' /\ OneRight' /\ (NoRight => NoRight')
  BY <1>1, <1>6, ClaimsLeft, RightLeft
<1>8. Calls'
  BY <1>2, <1>5, <1>6, NoWorkerAssumption DEF Sound, Calls, InChargeMoves, OneMoves, InCharge
<1>9. TypeOK' /\ Named'
  BY Zenon, <1>1, <1>2, <1>4, <1>6 DEF Sound, TypeOK, Named, OneMoves
<1>10. world.queued => QueuedOnce'
  <2>1. world.queued => run.status # "queued"
    BY Zenon, <1>1 DEF Sound, QueuedOnce
  <2> QED
    BY ZenonT(30), <1>1, <1>2, <1>5, <1>6, <1>7, <2>1, NoWorkerAssumption
       DEF Sound, QueuedOnce, Open, InChargeMoves, OneMoves, InCharge
<1>11. ~world.queued => DirectOnce'
  BY <1>1, <1>7 DEF Sound, DirectOnce
<1> QED
  BY <1>7, <1>8, <1>9, <1>10, <1>11 DEF Sound

----------------------------------------------------------------------------
(* The initial states are sound: one item or one request, and no task. *)
LEMMA InitSound == Init => Sound
<1> SUFFICES ASSUME Init PROVE Sound
  OBVIOUS
<1>1. world.queued \in BOOLEAN
  BY WorldsAssumption DEF Init
<1>2. run \in RunRec /\ run.worker = NoWorker
      /\ (world.queued => run.att = 1 /\ run.status = "queued")
      /\ (~world.queued => run.att = 0 /\ run.status = "none")
  <2>1. NewAttempt(1, "queued") \in RunRec /\ NewAttempt(0, "none") \in RunRec
    BY BoundsAssumption DEF NewAttempt, RunRec, Statuses, SomeWorker
  <2> QED
    BY <1>1, <2>1 DEF Init, NewAttempt
<1>3. /\ cache \in [att : Nat, attached : BOOLEAN] /\ cache.att = 0
      /\ dispatcher \in [pc : DispatcherPc, att : Nat] /\ dispatcher.pc = "idle"
      /\ report \in [pc : {"idle", "write", "sync"}, worker : SomeWorker, status : Statuses]
      /\ report.pc = "idle" /\ report.worker = NoWorker
  BY DEF Init, DispatcherPc, NoReport, SomeWorker, Statuses
<1>4. tasks \in [TaskIds -> TaskRec] /\ \A t \in TaskIds : tasks[t].state = "none"
  BY DEF Init, NoTask, TaskRec
<1>5. /\ lease \in [Attempts -> LeaseRec] /\ index \in [Attempts -> SomeWorker]
      /\ \A a \in Attempts : lease[a].is = "none"
  BY DEF Init, NoLease, LeaseRec, SomeWorker
<1>6. repair \in [Repairers -> RepairRec] /\ \A x \in Repairers : repair[x].pc = "idle"
  BY DEF Init, NoRepair, RepairRec, SomeWorker, Statuses
<1>7. /\ worker \in [Workers -> WorkerRec]
      /\ \A w \in Workers : worker[w].pc \in {"idle", "dead"} /\ worker[w].touched = "none"
  <2>1. /\ Vacant \in WorkerRec /\ Vacant.pc = "idle" /\ Vacant.touched = "none"
        /\ [Vacant EXCEPT !.pc = "dead"] \in WorkerRec
        /\ [Vacant EXCEPT !.pc = "dead"].pc = "dead" /\ [Vacant EXCEPT !.pc = "dead"].touched = "none"
    BY Zenon DEF Vacant, WorkerRec
  <2> QED
    BY <2>1 DEF Init
<1>8. TypeOK
  BY <1>1, <1>2, <1>3, <1>4, <1>5, <1>6, <1>7 DEF Init, TypeOK
<1>9. NoRight
  BY <1>4, <1>7 DEF NoRight, Open, InCharge, Busy
<1>10. Claims /\ Calls /\ OneRight /\ Named
  <2>1. Claims
    BY <1>7 DEF Init, Claims, Claiming
  <2>2. Calls
    BY <1>3, <1>7, NoWorkerAssumption DEF Calls
  <2>3. OneRight
    BY <1>9 DEF OneRight, NoRight
  <2>4. Named
    BY <1>5, <1>6 DEF Named
  <2> QED
    BY <2>1, <2>2, <2>3, <2>4
<1>11. world.queued => QueuedOnce
  <2>1. repair["detector"].pc = "idle"
    BY <1>6 DEF Repairers
  <2> QED
    BY <1>2, <1>3, <1>4, <1>7, <1>9, <2>1, NoWorkerAssumption DEF Init, QueuedOnce, Open, Claiming, Busy
<1>12. ~world.queued => DirectOnce
  BY <1>1, <1>2, <1>3, <1>9 DEF Init, DirectOnce
<1> QED
  BY <1>8, <1>10, <1>11, <1>12 DEF Sound

(* Every step keeps the invariant in a quiet world. *)
LEMMA SoundKept ==
  ASSUME Quiet, Sound, Next, world' = world
  PROVE  Sound'
<1>1. CASE Dispatching \/ EnqueueRetry
  BY <1>1, DispatchingKeeps
<1>2. CASE \/ RequeueExpiredClaim \/ WriteReported \/ syncDistributedRunTrackingFromStatus
           \/ repairOnRead \/ Track
  BY <1>2, RequeueKeeps, WriteReportedKeeps, syncKeeps, repairOnReadKeeps, TrackKeeps
<1>3. CASE RequestCancel \/ finalizeNotStartedCancellation \/ CoordinatorRestart
  BY <1>3, CancellationKeeps, CoordinatorRestartKeeps
<1>4. ASSUME NEW t \in TaskIds, ReadExpiredClaim(t) \/ RemoveExpiredPending(t)
      PROVE  Sound'
  <2>1. ~RemoveExpiredPending(t)
    BY QuietEvents DEF RemoveExpiredPending, Mishap, Sound, TypeOK
  <2> QED
    BY <1>4, <2>1, ReadExpiredClaimKeeps
<1>5. ASSUME NEW a \in Attempts, detectStaleLeases(a) \/ LeaseGoesStale(a)
      PROVE  Sound'
  BY <1>5, detectStaleLeasesKeeps, LeaseGoesStaleKeeps
<1>6. ASSUME NEW x \in Repairers, Confirming(x)
      PROVE  Sound'
  BY <1>6, ConfirmKeeps, SwapFailedKeeps DEF Confirming
<1>7. ASSUME NEW w \in Workers, Working(w)
      PROVE  Sound'
  BY <1>7, ClaimNextKeeps, GetClaimKeeps, AckTaskClaimKeeps, DeleteClaimKeeps, ReportStatusKeeps,
     WithoutCoordinatorKeeps DEF Working
<1>8. ASSUME NEW w \in Workers, Heartbeat(w) \/ HeartbeatGoesStale(w)
      PROVE  Sound'
  BY <1>8, HeartbeatKeeps DEF Heartbeat, HeartbeatGoesStale, requests
<1>9. ASSUME NEW w \in Workers,
             TouchLease(w) \/ RunHeartbeat(w) \/ WorkerDies(w) \/ Disconnect(w) \/ Reconnect(w)
      PROVE  Sound'
  BY <1>9, TouchLeaseKeeps, RunHeartbeatKeeps, WorkerDiesKeeps, ReconnectKeeps
<1> QED
  BY <1>1, <1>2, <1>3, <1>4, <1>5, <1>6, <1>7, <1>8, <1>9 DEF Next

(* The inductive invariant holds in every reachable state. *)
THEOREM InvariantHolds == Safety => []IInv
<1>1. Init => IInv
  BY InitSound DEF Init, IInv
<1>2. IInv /\ [Next]_vars => IInv'
  <2> SUFFICES ASSUME IInv, [Next]_vars PROVE IInv'
    OBVIOUS
  <2>1. world' = world
    BY WorldStays
  <2>2. Quiet' <=> Quiet
    BY <2>1 DEF Quiet, Without
  <2>3. ASSUME Quiet, UNCHANGED vars PROVE Sound'
    <3>1. UNCHANGED <<run, item, cache, tasks, lease, index, worker, report, repair, dispatcher, recycler, canceller>>
      BY <2>3 DEF vars
    <3> QED
      BY <2>1, <2>3, <3>1, HeartbeatKeeps DEF IInv
  <2>4. ASSUME Quiet, Next PROVE Sound'
    BY <2>1, <2>4, SoundKept DEF IInv
  <2> QED
    BY <2>1, <2>2, <2>3, <2>4 DEF IInv
<1> QED
  BY <1>1, <1>2, PTL DEF Safety

(* No two workers execute the dag-run at a time: the task, the claim's token, *)
(* the lease and the queue's item leave one of them in the way of a second    *)
(* dispatch, for any number of workers, and for any combination of crashes,   *)
(* partitions, restarts, failed writes, cancellations and reads.              *)
THEOREM ExclusiveHolds == Spec => []Exclusive
<1>1. IInv => Exclusive
  BY DEF IInv, Sound, OneRight, InCharge, Exclusive, Executing, Quiet, Busy
<1>2. Spec => Safety
  BY DEF Spec, Safety
<1> QED
  BY <1>1, <1>2, InvariantHolds, PTL
=============================================================================
