---------------------------- MODULE TickPlanner ----------------------------
(***************************************************************************)
(* The scheduler's cron loop and its TickPlanner, for one DAG: the tick    *)
(* that plans and dispatches, the goroutines that dispatch live runs, the  *)
(* flusher of the watermark, the handler of changes to the DAG's file, the *)
(* catch-up buffer filled at start, and what they read: the dag-runs with  *)
(* their processes and queue items, the suspension flag and the watermark  *)
(* file.                                                                   *)
(*                                                                         *)
(* Time is in minutes.  The wall clock is always some seconds past its     *)
(* minute and a tick's time is exact, so that a slot t is due at clock c   *)
(* iff t <= c.  Cron fires at the given minutes, all before the last,   *)
(* where the clock stops while the ticks go on.                            *)
(***************************************************************************)
EXTENDS Integers, Sequences, FiniteSets, FiniteSetsExt, SequencesExt

CONSTANTS
  NoDAG,            \* no file, no entry: a model value
  NoState,          \* no snapshot: a model value
  Horizon,          \* bound: the last minute of every world
  DeletedGrace,     \* deletedWatermarkGrace
  MaxMissedRuns,
  MaxBufferItems,
  Worlds            \* the DAG, its edits, combinations of events and their bounds

ASSUME CronBeforeHorizon ==
  \A w \in Worlds : \A dag \in {w.dag} \union (w.edits \ {NoDAG}) :
    w.until <= Horizon /\ dag.cron \union dag.stop \union dag.restart \subseteq 1 .. w.until - 1

VARIABLES
  clock,
  file,       \* the DAG file: its definition
  notes,      \* notifications about the file that the entry reader has yet to handle
  registry,   \* entryReaderImpl.registry
  entry,      \* entries
  buf,        \* the catch-up buffer; without items there is none
  grace,      \* deletedGrace: when the watermark of a deleted DAG expires, or 0
  mem,        \* watermarkState
  dirty,      \* watermarkDirty
  flush,      \* the snapshots that are being saved
  disk,       \* the watermark file
  up,         \* the scheduler runs
  loop,       \* cronLoop
  jobs,       \* the goroutines of dispatchRun
  runs,       \* the dag-runs and the processes about to create one
  suspended,
  repeatable, \* history: slots whose run the last Start may have repeated
  calls,
  mishaps,
  world       \* the DAG, how it is executed, what may happen; its last minute, its
              \* bounds on calls (edits, suspensions, manual runs) and mishaps (restarts,
              \* failures)

queue == <<runs, suspended>>
watermark == <<mem, dirty, flush, disk>>
planner == <<registry, entry, buf, grace>>
environment == <<clock, file, notes, up, repeatable, calls, mishaps, world>>

vars == <<clock, file, notes, registry, entry, buf, grace, mem, dirty, flush,
          disk, up, loop, jobs, runs, suspended, repeatable, calls, mishaps, world>>

(* crash: the scheduler may be killed.  stop: it may be stopped.  lost: its  *)
(* watermark file may be lost.  io: reading or writing a store may fail.     *)
(* slow: a tick or the start of a process may take more than a minute.       *)
(* die: a process that has been started may end before it has a dag-run.     *)
(* edit, suspend, manual: someone edits, suspends or starts the DAG.         *)
Events == {"crash", "stop", "lost", "io", "slow", "die", "edit", "suspend", "manual"}

May(event) == event \in world.events

Spend(event, budget, limit) == May(event) /\ budget < limit

(* A failure of a store. *)
Fails == Spend("io", mishaps, world.maxMishaps) /\ mishaps' = mishaps + 1
Works == UNCHANGED mishaps

-----------------------------------------------------------------------------
(* Dag-runs.  launching: the process has been started and has yet to create  *)
(* the dag-run; created: it has a status and no item; picked: the processor  *)
(* has started it and has yet to remove its item.                            *)

NewRun(kind, slot, st) == [kind |-> kind, slot |-> slot, st |-> st, start |-> 0]

Recorded(r) == r.st # "launching"

(* GenerateCatchupRunID, GenerateOneOffRunID: the same slot, the same ID. *)
SameID(r, kind, slot) ==
  /\ kind \in {"catchup", "oneoff"}
  /\ r.kind = kind
  /\ r.slot = slot

RunExists(kind, slot) ==
  \E i \in DOMAIN runs : Recorded(runs[i]) /\ SameID(runs[i], kind, slot)

Alive(r) == r.st \in {"picked", "running"}

Busy == \E i \in DOMAIN runs : Alive(runs[i])

(* CountAliveByDAGName: workers leave no proc entries where the scheduler is. *)
IsRunning == Busy /\ ~world.distributed

IsQueued == \E i \in DOMAIN runs : runs[i].st \in {"queued", "picked"}

(* The dag-run that has a proc entry, or else the latest; 0 without any. *)
GetLatestStatus == SelectLastInSeq(runs, LAMBDA r : IF IsRunning THEN Alive(r) ELSE Recorded(r))

LatestIsRunning == GetLatestStatus # 0 /\ Alive(runs[GetLatestStatus])

SetStatus(i, st) == runs' = [runs EXCEPT ![i].st = st]

RemoveRun(i) == RemoveAt(runs, i)

-----------------------------------------------------------------------------
(* The watermark: the last tick, the DAG's last scheduled time and the state *)
(* of its one-off schedule.                                                  *)

NoOneOff == [time |-> 0, status |-> "none"]

Forgotten(w) == [w EXCEPT !.last = 0, !.one = NoOneOff]

EmptyState == [lastTick |-> 0, last |-> 0, one |-> NoOneOff]

HasWatermark == mem.last # 0 \/ mem.one # NoOneOff

(* A mutant: what the watermark says of the time is not looked at. *)
resetOneOffState(w, dag) ==
  [w EXCEPT !.one =
     IF dag.at = 0 THEN NoOneOff
     ELSE [time |-> dag.at, status |-> IF dag.at > clock THEN "pending" ELSE "consumed"]]

reconcileOneOffState(w, dag) ==
  [w EXCEPT !.one =
     CASE dag.at = 0          -> NoOneOff
       [] dag.at = @.time     -> @
       [] OTHER               -> [time |-> dag.at,
                                  status |-> IF dag.at > clock THEN "pending"
                                                               ELSE "consumed"]]

Pending(time) == mem.one = [time |-> time, status |-> "pending"]

(* Flush, up to the snapshot, of a watermark that has just become w. *)
Snapshot(f, w) == flush' = [flush EXCEPT ![f] = w] /\ dirty' = FALSE

advanceDAGWatermark(time) ==
  /\ mem' = [mem EXCEPT !.last = time]
  /\ dirty' = (dirty \/ mem.last # time)
  /\ UNCHANGED <<flush, disk>>

(* markOneOffConsumed and the Flush that follows it in DispatchRun.  A time  *)
(* that an edit has removed from the DAG leaves an entry nobody reads.       *)
markOneOffConsumed(time) ==
  /\ flush["dispatch"] = NoState
  /\ IF mem.one.time = time /\ mem.one.status = "consumed"
     THEN UNCHANGED <<mem, dirty, flush>>
     ELSE /\ mem' = [mem EXCEPT !.one.status = IF mem.one.time = time THEN "consumed" ELSE @]
          /\ Snapshot("dispatch", mem')

Flush ==
  /\ up
  /\ dirty
  /\ flush["ticker"] = NoState
  /\ Snapshot("ticker", mem)
  /\ UNCHANGED <<mem, disk, loop, jobs>>
  /\ UNCHANGED <<queue, planner, environment>>

Save(f) ==
  /\ flush[f] # NoState
  /\ flush' = [flush EXCEPT ![f] = NoState]
  /\ \/ Works /\ disk' = flush[f] /\ UNCHANGED dirty
     \/ Fails /\ dirty' = TRUE /\ UNCHANGED disk
  /\ UNCHANGED <<mem, loop, jobs, clock, file, notes, up, repeatable, calls, world>>
  /\ UNCHANGED <<queue, planner>>

-----------------------------------------------------------------------------
(* The catch-up buffer.                                                      *)

(* A mutant: the watermark is not looked at. *)
ReplayWindow(dag, w) == clock - dag.window

ComputeReplayFrom(dag, w) == Max({clock - dag.window, w.lastTick, w.last})

(* The slots missed, oldest first; of too many the most recent. *)
ComputeMissedIntervals(dag, from) ==
  LET missed == SetToSortSeq({t \in dag.cron : from < t /\ t <= clock}, <)
      excess == Max({0, Len(missed) - MaxMissedRuns})
  IN  SubSeq(missed, excess + 1, Len(missed))

NoBuffer == [policy |-> "skip", items |-> <<>>]

(* Send of every slot until the buffer is full. *)
Filled(dag, w) ==
  LET missed == ComputeMissedIntervals(dag, ComputeReplayFrom(dag, w))
  IN  SubSeq(missed, 1, Min({Len(missed), MaxBufferItems}))

(* initBuffers, recomputeBuffer: the buffer of a DAG; the latest slot only,  *)
(* when its policy says so.                                                  *)
NewBuffer(dag, w) ==
  LET items == IF dag.window > 0 THEN Filled(dag, w) ELSE <<>>
  IN  CASE items = <<>> -> NoBuffer
        [] items # <<>> /\ dag.policy = "latest" ->
             [policy |-> dag.policy, items |-> <<Last(items)>>]
        [] OTHER -> [policy |-> dag.policy, items |-> items]

(* The watermark after the slots before the latest have been dropped. *)
Collapsed(policy, items, w) ==
  IF policy = "latest" /\ Len(items) > 1
  THEN [w EXCEPT !.last = items[Len(items) - 1]] ELSE w

AfterNewBuffer(dag, w) ==
  IF dag.window > 0 THEN Collapsed(dag.policy, Filled(dag, w), w) ELSE w

(* Mutants: the slot goes to the end of the buffer, or is given up. *)
appendCatchupItem(run) ==
  buf' = IF Len(buf.items) >= MaxBufferItems THEN buf
         ELSE [policy |-> IF buf.items = <<>> THEN run.policy ELSE buf.policy,
               items  |-> Append(buf.items, run.slot)]

dropCatchupItem(run) == UNCHANGED buf

(* A full buffer drops the slot. *)
reinsertCatchupItem(run) ==
  buf' = IF Len(buf.items) >= MaxBufferItems THEN buf
         ELSE [policy |-> IF buf.items = <<>> THEN run.policy ELSE buf.policy,
               items  |-> <<run.slot>> \o buf.items]

-----------------------------------------------------------------------------
(* Start of the scheduler: the entry reader loads the DAG, the planner the   *)
(* watermark; nobody else uses them before Init is done.                     *)

(* Live runs behind the saved watermark, or with no dag-run to be found yet; *)
(* and this minute's slot, which is both due and to be caught up with, while *)
(* an earlier run keeps it waiting.                                          *)
Untraced == {runs[i].slot : i \in {j \in DOMAIN runs :
               runs[j].kind = "live" /\ (runs[j].slot > disk.lastTick \/ ~Recorded(runs[j]))}}

Ready == [pc |-> "wait", tick |-> clock, busy |-> FALSE, todo |-> <<>>,
          start |-> <<>>, plan |-> <<>>]

Start ==
  LET loaded  == IF file = NoDAG THEN Forgotten(disk)
                                 ELSE reconcileOneOffState(disk, file)
      changed == loaded # disk
      now     == IF file = NoDAG THEN loaded ELSE AfterNewBuffer(file, loaded)
  IN  /\ ~up
      /\ up' = TRUE
      /\ registry' = file
      /\ entry' = file
      /\ grace' = 0
      /\ notes' = <<>>
      /\ buf' = IF file = NoDAG THEN NoBuffer ELSE NewBuffer(file, loaded)
      /\ mem' = now
      /\ loop' = Ready
      /\ repeatable' = Untraced \union {clock : r \in {x \in Range(runs) : x.st # "done"}}
      /\ \/ Works /\ changed /\ disk' = now /\ dirty' = FALSE
         \/ Fails /\ changed /\ dirty' = TRUE /\ UNCHANGED disk
         \/ Works /\ ~changed /\ dirty' = (now # loaded) /\ UNCHANGED disk
      /\ UNCHANGED <<flush, jobs, clock, file, calls, world>>
      /\ UNCHANGED queue

-----------------------------------------------------------------------------
(* Plan.  It holds entryMu from its first step to its last; what it asks the *)
(* stores it asks one after the other.                                       *)

EntryMuFree == loop.pc \in {"wait", "dispatch", "enqueue"} /\ flush["event"] = NoState

Planned(plan) == [loop EXCEPT !.pc = "dispatch", !.plan = plan]

Evaluate == [loop EXCEPT !.pc = "start", !.todo = <<"oneoff", "live">>]

(* pruneExpiredDeletedWatermarks *)
Expired == grace # 0 /\ loop.tick > grace

dropSuspendedCatchupState(w) ==
  IF buf.items # <<>> \/ entry.window > 0 THEN [w EXCEPT !.last = loop.tick] ELSE w

Plan ==
  LET pruned == IF Expired /\ entry = NoDAG THEN Forgotten(mem) ELSE mem
      now    == IF entry # NoDAG /\ suspended THEN dropSuspendedCatchupState(pruned)
                                              ELSE pruned
  IN  /\ up
      /\ loop.pc = "wait"
      /\ loop.tick <= clock
      /\ EntryMuFree
      /\ grace' = IF Expired THEN 0 ELSE grace
      /\ mem' = now
      /\ dirty' = (dirty \/ mem # now)
      /\ \/ /\ entry = NoDAG
            /\ loop' = Planned(<<>>)
            /\ Works
            /\ UNCHANGED buf
         \/ /\ entry # NoDAG
            /\ suspended
            /\ buf' = NoBuffer
            /\ loop' = Planned(<<>>)
            /\ Works
         \/ /\ entry # NoDAG
            /\ ~suspended
            /\ buf.items = <<>>
            /\ loop' = Evaluate
            /\ Works
            /\ UNCHANGED buf
         \/ /\ entry # NoDAG
            /\ ~suspended
            /\ buf.items # <<>>
            /\ \/ Works /\ loop' = [loop EXCEPT !.pc = "catchup", !.busy = IsRunning]
               \/ Fails /\ loop' = [loop EXCEPT !.pc = "catchup", !.busy = FALSE]
            /\ UNCHANGED buf
      /\ UNCHANGED <<flush, disk, registry, entry, jobs, clock, file, notes, up,
                     repeatable, calls, world>>
      /\ UNCHANGED queue

createPlannedRun(kind, slot, policy) == [kind |-> kind, slot |-> slot, policy |-> policy]

(* The buffer's turn: what it plans, what remains and what it gives up. *)
PlanCatchup ==
  LET items == buf.items
      busy  == loop.busy \/ IsQueued
      keep(s)  == IF s = <<>> THEN NoBuffer ELSE [buf EXCEPT !.items = s]
      plan(s)  == Planned(<<createPlannedRun("catchup", s, buf.policy)>>)
  IN  /\ loop.pc = "catchup"
      /\ \/ Fails /\ loop' = Planned(<<>>) /\ UNCHANGED <<buf, mem, dirty>>
         \/ /\ Works
            /\ mem' = IF busy /\ buf.policy = "skip" THEN [mem EXCEPT !.last = Head(items)]
                                                     ELSE Collapsed(buf.policy, items, mem)
            /\ dirty' = (dirty \/ mem # mem')
            /\ \/ /\ ~busy
                  /\ IF buf.policy = "latest"
                     THEN buf' = NoBuffer /\ loop' = plan(Last(items))
                     ELSE buf' = keep(Tail(items)) /\ loop' = plan(Head(items))
               \/ /\ busy
                  /\ buf' = CASE buf.policy = "skip"   -> keep(Tail(items))
                             [] buf.policy = "all"    -> buf
                             [] buf.policy = "latest" -> keep(<<Last(items)>>)
                  /\ loop' = Evaluate
      /\ UNCHANGED <<flush, disk, registry, entry, grace, jobs, clock, file, notes,
                     up, repeatable, calls, world>>
      /\ UNCHANGED queue

(* The next start schedule, if it is due: the first guard. *)
Due(kind) ==
  CASE kind = "oneoff" -> entry.at # 0 /\ Pending(entry.at) /\ entry.at <= loop.tick
    [] kind = "live"   -> loop.tick \in entry.cron

NextSchedule == [loop EXCEPT !.pc = "start", !.todo = Tail(@)]

Idle == UNCHANGED <<watermark, planner, jobs, clock, file, notes, up, repeatable, calls, world>>
        /\ UNCHANGED queue

EvaluateStart ==
  /\ loop.pc = "start"
  /\ loop.todo # <<>>
  /\ \/ Works /\ loop' = IF Due(Head(loop.todo)) /\ ~IsRunning
                         THEN [loop EXCEPT !.pc = "queued"] ELSE NextSchedule
     \/ Fails /\ Due(Head(loop.todo)) /\ loop' = NextSchedule
  /\ Idle

CheckQueued ==
  /\ loop.pc = "queued"
  /\ \/ Works /\ loop' = IF IsQueued THEN NextSchedule ELSE [loop EXCEPT !.pc = "latest"]
     \/ Fails /\ loop' = NextSchedule
  /\ Idle

(* shouldRun, from the latest status on: the slot of a run of this schedule, *)
(* the starting time of one that has no slot, nothing of one whose slot is   *)
(* not the schedule's.                                                       *)
shouldRun ==
  LET r == runs[GetLatestStatus]
  IN  \/ GetLatestStatus = 0
      \/ /\ ~Alive(r)
         /\ r.slot \in entry.cron => r.slot < loop.tick
         /\ r.slot = 0 => r.start < loop.tick

shouldRunOneOff == ~LatestIsRunning

shouldPreferStartCandidate(run) ==
  \/ loop.start = <<>>
  \/ run.slot < Head(loop.start).slot
  \/ run.slot = Head(loop.start).slot /\ run.kind = "oneoff" /\ Head(loop.start).kind # "oneoff"

(* A status that cannot be read is the initial one, which is in nobody's way. *)
CheckLatest ==
  LET kind == Head(loop.todo)
      run  == createPlannedRun(kind, IF kind = "oneoff" THEN entry.at ELSE loop.tick, entry.policy)
      ok   == IF kind = "oneoff" THEN shouldRunOneOff ELSE shouldRun
      next == IF shouldPreferStartCandidate(run)
              THEN [NextSchedule EXCEPT !.start = <<run>>] ELSE NextSchedule
  IN  /\ loop.pc = "latest"
      /\ \/ Works /\ loop' = IF ok THEN next ELSE NextSchedule
         \/ Fails /\ loop' = next
      /\ Idle

(* The stop and the restart schedules; the plan is complete. *)
PlanStopAndRestart ==
  LET at(kind)  == createPlannedRun(kind, loop.tick, entry.policy)
      stops     == IF loop.tick \in entry.stop /\ LatestIsRunning THEN <<at("stop")>> ELSE <<>>
      restarts  == IF loop.tick \in entry.restart THEN <<at("restart")>> ELSE <<>>
  IN  /\ loop.pc = "start"
      /\ loop.todo = <<>>
      /\ \/ Works /\ loop' = Planned(loop.start \o stops \o restarts)
         \/ Fails /\ stops # <<>> /\ loop' = Planned(loop.start \o restarts)
      /\ Idle

-----------------------------------------------------------------------------
(* dispatchRun: a catch-up run in the loop, any other in a goroutine.        *)

Dispatched == [loop EXCEPT !.pc = "dispatch", !.plan = Tail(@)]

DispatchInBackground ==
  /\ loop.pc = "dispatch"
  /\ loop.plan # <<>>
  /\ Head(loop.plan).kind # "catchup"
  /\ jobs' = jobs \union {[run |-> Head(loop.plan), step |-> "check", tick |-> loop.tick]}
  /\ loop' = Dispatched
  /\ Works
  /\ UNCHANGED <<watermark, planner, clock, file, notes, up, repeatable, calls, world>>
  /\ UNCHANGED queue

(* EnqueueCatchupRun, up to the creation of the dag-run. *)
DispatchCatchup ==
  LET run == Head(loop.plan)
  IN  /\ loop.pc = "dispatch"
      /\ loop.plan # <<>>
      /\ run.kind = "catchup"
      /\ \/ /\ suspended \/ RunExists("catchup", run.slot)
            /\ loop' = Dispatched
            /\ advanceDAGWatermark(run.slot)
            /\ Works
            /\ UNCHANGED <<runs, buf>>
         \/ /\ ~suspended
            /\ ~RunExists("catchup", run.slot)
            /\ loop' = [loop EXCEPT !.pc = "enqueue"]
            /\ runs' = Append(runs, NewRun("catchup", run.slot, "created"))
            /\ Works
            /\ UNCHANGED <<watermark, buf>>
         \/ /\ ~suspended
            /\ ~RunExists("catchup", run.slot)
            /\ flush["event"] = NoState
            /\ loop' = Dispatched
            /\ reinsertCatchupItem(run)
            /\ Fails
            /\ UNCHANGED <<watermark, runs>>
      /\ UNCHANGED <<registry, entry, grace, jobs, suspended, clock, file, notes, up,
                     repeatable, calls, world>>

(* The rest of it; without a queue item the dag-run is removed again. *)
EnqueueCatchup ==
  LET run == Head(loop.plan)
      i   == SelectLastInSeq(runs, LAMBDA r : SameID(r, "catchup", run.slot))
  IN  /\ loop.pc = "enqueue"
      /\ loop' = Dispatched
      /\ \/ /\ SetStatus(i, "queued")
            /\ advanceDAGWatermark(run.slot)
            /\ Works
            /\ UNCHANGED buf
         \/ /\ flush["event"] = NoState
            /\ runs' = RemoveRun(i)
            /\ reinsertCatchupItem(run)
            /\ Fails
            /\ UNCHANGED watermark
      /\ UNCHANGED <<registry, entry, grace, jobs, suspended, clock, file, notes, up,
                     repeatable, calls, world>>

NextTick(tick) == Min({tick + 1, world.until})

(* Advance, and the wait for the next tick. *)
Advance ==
  LET live == loop.start # <<>> /\ Head(loop.start).kind = "live"
  IN  /\ loop.pc = "dispatch"
      /\ loop.plan = <<>>
      /\ mem' = [mem EXCEPT !.lastTick = loop.tick,
                           !.last = IF live THEN Head(loop.start).slot ELSE @]
      /\ dirty' = TRUE
      /\ loop' = [loop EXCEPT !.pc = "wait", !.start = <<>>, !.busy = FALSE,
                             !.tick = NextTick(@)]
      /\ Works
      /\ UNCHANGED <<flush, disk, jobs, clock, file, notes, up, repeatable, calls, world>>
      /\ UNCHANGED <<queue, planner>>

(* DispatchRun in a goroutine, up to the dispatch. *)
CheckJob(j) ==
  /\ j.step = "check"
  /\ \/ /\ j.run.kind \in {"live", "oneoff"} /\ suspended
        /\ jobs' = jobs \ {j}
        /\ Works
        /\ UNCHANGED <<mem, dirty, flush>>
     \/ /\ j.run.kind = "oneoff" /\ ~suspended
        /\ jobs' = jobs \ {j}
        /\ Fails
        /\ UNCHANGED <<mem, dirty, flush>>
     \/ /\ j.run.kind = "oneoff" /\ ~suspended /\ RunExists("oneoff", j.run.slot)
        /\ markOneOffConsumed(j.run.slot)
        /\ jobs' = jobs \ {j}
        /\ Works
     \/ /\ j.run.kind \in {"live", "oneoff"} => ~suspended
        /\ ~RunExists(j.run.kind, j.run.slot)
        /\ jobs' = (jobs \ {j}) \union {[j EXCEPT !.step = "dispatch"]}
        /\ Works
        /\ UNCHANGED <<mem, dirty, flush>>
  /\ UNCHANGED <<disk, loop, clock, file, notes, up, repeatable, calls, world>>
  /\ UNCHANGED <<queue, planner>>

(* Processes that execute the DAG where the scheduler is, or its enqueueing  *)
(* for the workers, which fails for an ID that exists.                       *)
Stopped == [i \in DOMAIN runs |->
              IF runs[i].st = "running" THEN [runs[i] EXCEPT !.st = "done"] ELSE runs[i]]

Execute(run) ==
  CASE run.kind = "stop"    -> Stopped
    [] run.kind = "restart" -> Append(Stopped, NewRun("restart", run.slot, "launching"))
    [] OTHER -> Append(runs, NewRun(run.kind, run.slot,
                                    IF world.distributed THEN "queued" ELSE "launching"))

(* A mutant: a one-off run counts as consumed whether its dispatch fails. *)
DispatchJobUnchecked(j) ==
  /\ j.step = "dispatch"
  /\ jobs' = jobs \ {j}
  /\ \/ Works /\ runs' = Execute(j.run)
     \/ Fails /\ UNCHANGED runs
  /\ IF j.run.kind = "oneoff" THEN markOneOffConsumed(j.run.slot) ELSE UNCHANGED <<mem, dirty, flush>>
  /\ UNCHANGED <<disk, loop, suspended, clock, file, notes, up, repeatable, calls, world>>
  /\ UNCHANGED planner

DispatchJob(j) ==
  LET refused == world.distributed /\ RunExists(j.run.kind, j.run.slot)
  IN  /\ j.step = "dispatch"
      /\ jobs' = jobs \ {j}
      /\ \/ Works /\ runs' = IF refused THEN runs ELSE Execute(j.run)
         \/ Fails /\ UNCHANGED runs
      /\ IF \/ j.run.kind = "oneoff" /\ runs' # runs
            \/ RunExists(j.run.kind, j.run.slot)
         THEN markOneOffConsumed(j.run.slot)
         ELSE UNCHANGED <<mem, dirty, flush>>
      /\ UNCHANGED <<disk, loop, suspended, clock, file, notes, up, repeatable, calls, world>>
      /\ UNCHANGED planner

-----------------------------------------------------------------------------
(* handleFSEvent and handleEvent: the entry reader waits until the planner   *)
(* has taken the event.                                                      *)

DAGAdded ==
  LET now == reconcileOneOffState([mem EXCEPT !.last = clock], file)
  IN  /\ Head(notes) = "write" /\ file # NoDAG /\ registry = NoDAG
      /\ entry' = file
      /\ grace' = 0
      /\ mem' = now
      /\ IF mem # now THEN Snapshot("event", now) ELSE UNCHANGED <<dirty, flush>>
      /\ UNCHANGED buf

DAGUpdated ==
  LET filled == AfterNewBuffer(file, mem)
      now    == reconcileOneOffState(filled, file)
  IN  /\ Head(notes) = "write" /\ file # NoDAG /\ registry # NoDAG
      /\ entry' = file
      /\ grace' = 0
      /\ buf' = NewBuffer(file, mem)
      /\ mem' = now
      /\ IF mem # now THEN Snapshot("event", now) ELSE UNCHANGED <<dirty, flush>>

DAGDeleted ==
  /\ Head(notes) = "remove" /\ registry # NoDAG
  /\ entry' = NoDAG
  /\ buf' = NoBuffer
  /\ grace' = IF HasWatermark THEN clock + DeletedGrace ELSE grace
  /\ UNCHANGED <<mem, dirty, flush>>

(* A file that cannot be loaded, or a removal of what is not known. *)
Ignored ==
  /\ \/ Head(notes) = "write" /\ file = NoDAG
     \/ Head(notes) = "remove" /\ registry = NoDAG
  /\ UNCHANGED <<entry, buf, grace, mem, dirty, flush>>

handleFSEvent ==
  /\ up
  /\ notes # <<>>
  /\ EntryMuFree
  /\ DAGAdded \/ DAGUpdated \/ DAGDeleted \/ Ignored
  /\ registry' = IF Head(notes) = "remove" THEN NoDAG
                 ELSE IF file = NoDAG THEN registry ELSE file
  /\ notes' = Tail(notes)
  /\ UNCHANGED <<disk, loop, jobs, clock, file, up, repeatable, calls, mishaps, world>>
  /\ UNCHANGED queue

-----------------------------------------------------------------------------
(* The end of a scheduler.  Processes of dag-runs live on. *)

Gone ==
  /\ up' = FALSE
  /\ mem' = EmptyState
  /\ dirty' = FALSE
  /\ flush' = [f \in DOMAIN flush |-> NoState]
  /\ loop' = [Ready EXCEPT !.tick = 0]
  /\ jobs' = {}
  /\ notes' = <<>>
  /\ registry' = NoDAG
  /\ entry' = NoDAG
  /\ buf' = NoBuffer
  /\ grace' = 0
  /\ mishaps' = mishaps + 1
  /\ UNCHANGED <<clock, file, repeatable, calls, world>>
  /\ UNCHANGED queue

Crash ==
  /\ up
  /\ Spend("crash", mishaps, world.maxMishaps)
  /\ Gone
  /\ UNCHANGED disk

(* Stop, at a signal: it waits for the planner's goroutines and flushes. *)
Stop ==
  /\ up
  /\ loop.pc = "wait"
  /\ flush["ticker"] = NoState
  /\ flush["event"] = NoState
  /\ Spend("stop", mishaps, world.maxMishaps)
  /\ disk' = IF dirty THEN mem ELSE disk
  /\ Gone

-----------------------------------------------------------------------------
(* What goes on around it. *)

Others == <<registry, entry, buf, grace, mem, dirty, flush, disk, loop, jobs>>

(* Unless it is slow, the loop is done with a tick, and a process with its  *)
(* start, before the next minute.                                           *)
AdvanceClock ==
  /\ clock < world.until
  /\ \/ May("slow")
     \/ /\ up => loop.tick > clock
        /\ jobs = {}
        /\ \A i \in DOMAIN runs : runs[i].st # "launching"
  /\ clock' = clock + 1
  /\ UNCHANGED <<file, notes, up, repeatable, calls, mishaps, world>>
  /\ UNCHANGED <<Others, queue>>

(* A mutant: two processes with one ID both have their dag-run. *)
BeginAnyway(i) ==
  /\ runs[i].st = "launching"
  /\ runs' = Append(RemoveRun(i), [runs[i] EXCEPT !.st = "running", !.start = clock])
  /\ UNCHANGED suspended
  /\ UNCHANGED <<environment, Others>>

(* The process creates its dag-run, unless there is one with its ID. *)
Begin(i) ==
  /\ runs[i].st = "launching"
  /\ runs' = IF RunExists(runs[i].kind, runs[i].slot) THEN RemoveRun(i)
             ELSE Append(RemoveRun(i), [runs[i] EXCEPT !.st = "running", !.start = clock])
  /\ UNCHANGED suspended
  /\ UNCHANGED <<environment, Others>>

(* It cannot be dispatched to a worker, or fails or is killed beforehand. *)
FailToBegin(i) ==
  /\ Spend("die", mishaps, world.maxMishaps)
  /\ mishaps' = mishaps + 1
  /\ runs[i].st = "launching"
  /\ runs' = RemoveRun(i)
  /\ UNCHANGED <<clock, file, notes, up, suspended, repeatable, calls, world>>
  /\ UNCHANGED Others

(* The queue processor: it starts an item, removes it, or drops it for the   *)
(* suspension of its DAG.                                                    *)
PickItem(i) ==
  /\ up
  /\ runs[i].st = "queued"
  /\ ~suspended
  /\ ~Busy
  /\ runs' = [runs EXCEPT ![i].st = "picked", ![i].start = clock]
  /\ UNCHANGED suspended
  /\ UNCHANGED <<environment, Others>>

RemoveItem(i) ==
  /\ up
  /\ runs[i].st = "picked"
  /\ SetStatus(i, "running")
  /\ UNCHANGED suspended
  /\ UNCHANGED <<environment, Others>>

DropItem(i) ==
  /\ up
  /\ runs[i].st = "queued"
  /\ suspended
  /\ SetStatus(i, "dropped")
  /\ UNCHANGED suspended
  /\ UNCHANGED <<environment, Others>>

Finish(i) ==
  /\ runs[i].st = "running"
  /\ SetStatus(i, "done")
  /\ UNCHANGED suspended
  /\ UNCHANGED <<environment, Others>>

Call(event) ==
  /\ Spend(event, calls, world.maxCalls)
  /\ calls' = calls + 1
  /\ UNCHANGED <<clock, up, repeatable, mishaps, world>>

Edit(dag) ==
  /\ Call("edit")
  /\ file # dag
  /\ file' = dag
  /\ notes' = IF up THEN Append(notes, IF dag = NoDAG THEN "remove" ELSE "write") ELSE notes
  /\ UNCHANGED <<Others, queue>>

Suspend ==
  /\ Call("suspend")
  /\ ~suspended
  /\ suspended' = TRUE
  /\ UNCHANGED <<file, notes, runs>>
  /\ UNCHANGED Others

Resume ==
  /\ suspended
  /\ suspended' = FALSE
  /\ UNCHANGED runs
  /\ UNCHANGED <<environment, Others>>

StartManually ==
  /\ Call("manual")
  /\ runs' = Append(runs, NewRun("manual", 0, "launching"))
  /\ UNCHANGED <<file, notes, suspended>>
  /\ UNCHANGED Others

LoseState ==
  /\ Spend("lost", mishaps, world.maxMishaps)
  /\ mishaps' = mishaps + 1
  /\ ~up
  /\ disk' = EmptyState
  /\ UNCHANGED <<clock, file, notes, up, repeatable, calls, world, registry, entry, buf, grace,
                 mem, dirty, flush, loop, jobs>>
  /\ UNCHANGED queue

-----------------------------------------------------------------------------
(* The scheduler is down; it has run until minute 1, with or without the DAG. *)
Init ==
  /\ world \in Worlds
  /\ clock = 1
  /\ file = IF world.present THEN world.dag ELSE NoDAG
  /\ notes = <<>>
  /\ registry = NoDAG
  /\ entry = NoDAG
  /\ buf = NoBuffer
  /\ grace = 0
  /\ mem = EmptyState
  /\ dirty = FALSE
  /\ flush = [f \in {"ticker", "event", "dispatch"} |-> NoState]
  /\ disk = IF world.present
            THEN reconcileOneOffState([EmptyState EXCEPT !.lastTick = 1, !.last = 1], world.dag)
            ELSE [EmptyState EXCEPT !.lastTick = 1]
  /\ up = FALSE
  /\ loop = [Ready EXCEPT !.tick = 0]
  /\ jobs = {}
  /\ runs = <<>>
  /\ suspended = FALSE
  /\ repeatable = {}
  /\ calls = 0
  /\ mishaps = 0

Tick ==
  Plan \/ PlanCatchup \/ EvaluateStart \/ CheckQueued \/ CheckLatest \/ PlanStopAndRestart
    \/ DispatchInBackground \/ DispatchCatchup \/ EnqueueCatchup \/ Advance

Job == \E j \in jobs : CheckJob(j) \/ DispatchJob(j)

Run(i) == Begin(i) \/ PickItem(i) \/ RemoveItem(i) \/ DropItem(i) \/ Finish(i)

Next ==
  \/ Start
  \/ \E i \in DOMAIN runs : FailToBegin(i)
  \/ Tick
  \/ Job
  \/ Flush
  \/ \E f \in DOMAIN flush : Save(f)
  \/ handleFSEvent
  \/ Crash
  \/ Stop
  \/ AdvanceClock
  \/ \E i \in DOMAIN runs : Run(i)
  \/ \E dag \in world.edits : Edit(dag)
  \/ Suspend
  \/ Resume
  \/ StartManually
  \/ LoseState

(* The scheduler is started again, its goroutines and the processes make     *)
(* progress, a suspension ends.                                              *)
Fairness ==
  /\ WF_vars(Start)
  /\ WF_vars(Tick)
  /\ WF_vars(\E j \in jobs : CheckJob(j))
  /\ WF_vars(\E j \in jobs : DispatchJob(j))
  /\ WF_vars(Flush)
  /\ WF_vars(\E f \in DOMAIN flush : Save(f))
  /\ WF_vars(handleFSEvent)
  /\ WF_vars(AdvanceClock)
  /\ WF_vars(\E i \in DOMAIN runs : Run(i))
  /\ WF_vars(Resume)

Safety == Init /\ [][Next]_vars

Spec == Safety /\ Fairness

-----------------------------------------------------------------------------
(* Properties.  Where events break one, it is stated without them.           *)

Without(events) == world.events \cap events = {}

Slots == UNION {dag.cron : dag \in {world.dag} \union (world.edits \ {NoDAG})}

RunsOf(kinds, slot) == {i \in DOMAIN runs : runs[i].kind \in kinds /\ runs[i].slot = slot}

(* A cron slot gets one dag-run, live or as catch-up, also when the          *)
(* scheduler is stopped or killed and started again: the watermark on disk,  *)
(* the IDs of catch-up runs and the look at the latest status keep what      *)
(* Start finds a trace of from being run again.  A live run that the saved   *)
(* watermark does not cover, or whose process has yet to leave a trace, may  *)
(* be repeated, once; so may the slot of the minute of the restart, if it    *)
(* waits behind another run that ends between the two checks for it.  An     *)
(* edit handled between Plan and Advance puts the slot of the tick into the  *)
(* new catch-up buffer too, a manual run hides the trace from shouldRun, and *)
(* so does a status that cannot be read.                                     *)
AtMostOnce ==
  (Without({"edit", "manual"}) /\ (Without({"crash", "stop"}) \/ Without({"io"}))) =>
    \A t \in Slots :
      Cardinality(RunsOf({"live", "catchup"}, t)) <= IF t \in repeatable THEN 2 ELSE 1

(* A one-off schedule is marked consumed, in memory or on disk, only behind  *)
(* its dispatch: a process has been started for it or its dag-run is there,  *)
(* at whatever step the scheduler is stopped, killed or fails to save.  It   *)
(* is marked before the process has a dag-run, so that one that dies first   *)
(* is not replaced; and a time that never was pending (the watermark is lost *)
(* or the time is edited) is taken as consumed.                              *)
OneOffSound ==
  Without({"lost", "edit", "die"}) =>
    \A w \in {mem, disk} :
      w.one.status = "consumed" => RunsOf({"oneoff"}, w.one.time) # {}

(* A one-off time and a catch-up slot have one dag-run each, whatever        *)
(* happens: a scheduler that was killed between the dispatch and the mark    *)
(* dispatches again, and a failed dispatch is put back into a buffer that an *)
(* edit has filled with the same slot; the ID is derived from the time, and  *)
(* whoever comes second finds it taken.                                      *)
OneRunPerID ==
  \A i, j \in DOMAIN runs : \A kind \in {"oneoff", "catchup"} :
    /\ Recorded(runs[i]) /\ SameID(runs[i], kind, runs[j].slot)
    /\ Recorded(runs[j]) /\ SameID(runs[j], kind, runs[i].slot)
    => i = j

CatchupSlots == {runs[i].slot : i \in {j \in DOMAIN runs : runs[j].kind = "catchup"}}

(* Catch-up runs are created in the order of their slots, also after failed  *)
(* dispatches and restarts.  An edit that is handled while a slot is being   *)
(* dispatched may fill the buffer with earlier ones, and so may a restart    *)
(* that has lost its watermark.                                              *)
Chronological ==
  [][Without({"edit"}) /\ (Without({"lost"}) \/ Without({"crash", "stop"})) =>
       \A t \in CatchupSlots' \ CatchupSlots : \A u \in CatchupSlots : u < t]_vars

(* The slots behind the first watermark. *)
Missable == 2 .. Horizon - 1

Kept(t) == (t \in Range(buf.items) /\ buf.policy = "all") ~> RunsOf({"catchup", "live"}, t) # {}

(* With overlap policy "all", what is in the catch-up buffer is executed,    *)
(* however often the DAG is busy or the dispatch fails.                      *)
CatchupKept == Without({"crash", "stop", "edit", "suspend"}) => \A t \in Missable : Kept(t)

(* A one-off schedule is executed, also when the scheduler is down at its    *)
(* time or dies, the DAG is busy or the dispatch fails.                      *)
OneOffRuns ==
  Without({"lost", "edit", "die"}) => (world.dag.at # 0 ~> RunsOf({"oneoff"}, world.dag.at) # {})

(* Overlap policy "all keeps it in the buffer and retries on the next        *)
(* scheduler tick" (dag.schema.json): CatchupKept, though the scheduler is   *)
(* stopped meanwhile.                                                        *)
RunsKept == \A t \in Missable : Kept(t)
=============================================================================
