------------------------------ MODULE RunQueue ------------------------------
(***************************************************************************)
(* One queue and everyone who works on its dag-runs: the enqueue and       *)
(* dequeue commands, the scheduler's queue processor, the retry            *)
(* subprocesses it starts with their agents and heartbeats, the zombie     *)
(* detector, and whoever enqueues a retry.  They share three file stores   *)
(* and no memory: the attempts of each dag-run with their status files,    *)
(* the queue, and the proc entries with their group lock.                  *)
(*                                                                         *)
(* A step is one access to a store, or one critical section that holds the *)
(* store's own lock for its whole length (CompareAndSwapLatestAttempt-     *)
(* Status, CreateAttempt, the queue's operations).                         *)
(***************************************************************************)
EXTENDS Integers, Sequences, FiniteSets, SequencesExt

CONSTANTS
  Runs,            \* dag-runs of this queue
  MaxAttempts,     \* bound: attempts of one dag-run
  MaxProcs,        \* bound: retry subprocesses at a time
  MaxCalls,        \* bound: dequeue commands and retries
  MaxMishaps,      \* bound: deaths, stalls and slow starts
  Worlds,          \* the queues and combinations of events to consider
  NoRun            \* a model value

ASSUME NoRunAssumption == NoRun \notin Runs

ASSUME WorldsAssumption == \A w \in Worlds : w.maxConcurrency \in Nat \ {0} /\ w.runs \subseteq Runs

VARIABLES
  attempts,  \* [run][n]: the status file of the dag-run's n-th attempt
  queue,     \* item files in the order of their names
  proc,      \* the retry subprocesses, with their proc entries
  lock,      \* who holds the process-group lock
  enqueuing, \* where the enqueue command of each run is
  round,     \* the queue processor: what it listed, then its items in work
  aborter,   \* the dequeue command
  retrier,   \* a caller of EnqueueRetry
  zombie,    \* the zombie detector
  calls,     \* dequeue commands and retries so far
  mishaps,   \* deaths, stalls and slow starts so far
  world      \* maxConcurrency, the runs to enqueue, and what may happen in this behaviour

vars == <<attempts, queue, proc, lock, enqueuing, round, aborter, retrier,
          zombie, calls, mishaps, world>>

clients == <<enqueuing, aborter, retrier, calls>>

environment == <<mishaps, world>>

May(event) == event \in world.events

Mishap(event) ==
  /\ May(event)
  /\ mishaps < MaxMishaps
  /\ mishaps' = mishaps + 1
  /\ UNCHANGED world

Pids == 1 .. MaxProcs

Numbers == 1 .. MaxAttempts

(* crash: a subprocess may die.  stall: a live one may miss its heartbeats   *)
(* for longer than the stale threshold.  slow: a subprocess may not have     *)
(* started when the processor stops waiting.  restart: the scheduler may     *)
(* die.  client: enqueue, dequeue and retry callers may die.  io: writing an *)
(* item or a proc entry, spawning and the agent's setup may fail.  late: the *)
(* agent's running-status goroutine may be slower than the steps.  abort,    *)
(* retry, suspend: someone dequeues or retries a run or suspends the DAG.    *)
Events == {"crash", "stall", "slow", "restart", "client", "io", "late",
           "abort", "retry", "suspend"}

(* The files of an attempt: no directory, no status file yet, a status file  *)
(* without a line, hidden, or the last status written.                       *)
Terminal == {"succeeded", "failed", "aborted"}

Statuses == {"queued", "running"} \cup Terminal

Files == {"nodir", "nofile", "empty", "hidden"} \cup Statuses

Free == 0

Aborter == MaxProcs + 1

Unborn == [run |-> NoRun, pc |-> "unborn", att |-> 0, entry |-> "none",
           attached |-> FALSE, late |-> "done"]

Idle == [pc |-> "idle", run |-> NoRun, att |-> 0, status |-> "none"]

Init ==
  /\ attempts = [r \in Runs |-> [n \in Numbers |-> "nodir"]]
  /\ queue = <<>>
  /\ proc = [p \in Pids |-> Unborn]
  /\ lock = Free
  /\ enqueuing = [r \in Runs |-> "new"]
  /\ round = [pc |-> "idle", items |-> <<>>]
  /\ aborter = Idle
  /\ retrier = Idle
  /\ zombie = Idle
  /\ calls = 0
  /\ mishaps = 0
  /\ world \in Worlds

----------------------------------------------------------------------------
(* The run store.                                                           *)

(* Attempts that LatestAttempt does not skip. *)
Visible(r) == {n \in Numbers : attempts[r][n] \notin {"nodir", "nofile", "hidden"}}

LatestAttempt(r) == IF Visible(r) = {} THEN 0 ELSE Max(Visible(r))

RunDirExists(r) == \E n \in Numbers : attempts[r][n] # "nodir"

(* FindAttempt and then ReadStatus: a status, or the reason there is none. *)
LatestStatus(r) ==
  IF LatestAttempt(r) # 0 THEN attempts[r][LatestAttempt(r)]
  ELSE IF RunDirExists(r) THEN "nodata" ELSE "notfound"

SetFile(r, n, f) == attempts' = [attempts EXCEPT ![r][n] = f]

(* CompareAndSwapLatestAttemptStatus. *)
CanSwap(r, n, st) == LatestAttempt(r) = n /\ n # 0 /\ LatestStatus(r) = st

Swap(r, n, st, new) ==
  IF CanSwap(r, n, st) THEN SetFile(r, n, new) ELSE UNCHANGED attempts

(* Closing an attempt compacts its file: a process that still has the old *)
(* file open writes to it in vain from then on.                           *)
Detach(r, n) ==
  [p \in Pids |-> IF proc[p].run = r /\ proc[p].att = n
                  THEN [proc[p] EXCEPT !.attached = FALSE] ELSE proc[p]]

(* The name of a new attempt is a timestamp and a random identifier: above   *)
(* the others, and nobody has it, even if its directory has been removed.    *)
NextNumber(r) ==
  1 + Max({0} \cup {n \in Numbers : attempts[r][n] # "nodir"}
              \cup {proc[p].att : p \in {q \in Pids : proc[q].run = r}})

----------------------------------------------------------------------------
(* Proc entries.                                                            *)

IsRunAlive(r) == \E p \in Pids : proc[p].run = r /\ proc[p].entry = "fresh"

CountAlive == Cardinality({r \in Runs : IsRunAlive(r)})

Dequeue(r) == queue' = SelectSeq(queue, LAMBDA x : x # r)

----------------------------------------------------------------------------
(* The enqueue command: the Queued status first, then the item.             *)

PersistQueued(r) ==
  /\ enqueuing[r] = "new"
  /\ r \in world.runs
  /\ SetFile(r, 1, "queued")
  /\ enqueuing' = [enqueuing EXCEPT ![r] = "persisted"]
  /\ UNCHANGED <<queue, proc, lock, round, aborter, retrier, calls, zombie, environment>>

EnqueueItem(r) ==
  /\ enqueuing[r] = "persisted"
  /\ enqueuing' = [enqueuing EXCEPT ![r] = "done"]
  /\ queue' = Append(queue, r) \/ (May("io") /\ UNCHANGED queue)
  /\ UNCHANGED <<attempts, proc, lock, round, aborter, retrier, calls, zombie, environment>>

----------------------------------------------------------------------------
(* The queue processor.  A round lists the queue, counts what is alive,     *)
(* takes as many items as there are free slots and waits for all of them,   *)
(* so inflight is zero whenever it is read.                                 *)

NoWork == [pc |-> "idle", items |-> <<>>]

List ==
  /\ round.pc = "idle"
  /\ queue # <<>>
  /\ round' = [pc |-> "count", items |-> queue]
  /\ UNCHANGED <<attempts, queue, proc, lock, clients, zombie, environment>>

freeSlotsOneTooMany == world.maxConcurrency - CountAlive + 1

freeSlots == world.maxConcurrency - CountAlive

(* selectRunnableQueueItems looks up the run of every item it takes; when a *)
(* run has a record but no visible status, the error ends the round.        *)
selectRunnableQueueItems(items, free) ==
  LET taken == SubSeq(items, 1, Min({free, Len(items)}))
  IN  IF \E i \in DOMAIN taken : LatestStatus(taken[i]) = "nodata"
      THEN <<>>
      ELSE [i \in DOMAIN taken |-> [run |-> taken[i], att |-> 0, pc |-> "alive"]]

ProcessQueueItems ==
  /\ round.pc = "count"
  /\ LET taken == IF freeSlots <= 0 THEN <<>>
                  ELSE selectRunnableQueueItems(round.items, freeSlots)
     IN  round' = IF taken = <<>> THEN NoWork ELSE [pc |-> "work", items |-> taken]
  /\ UNCHANGED <<attempts, queue, proc, lock, clients, zombie, environment>>

Item(i, pc) ==
  /\ round.pc = "work"
  /\ i \in DOMAIN round.items
  /\ round.items[i].pc = pc

ItemGoto(i, pc) == round' = [round EXCEPT !.items[i].pc = pc]

(* processDAG, first the liveness of the run. *)
processDAG(i) ==
  /\ Item(i, "alive")
  /\ ItemGoto(i, IF IsRunAlive(round.items[i].run) THEN "dequeue" ELSE "status")
  /\ UNCHANGED <<attempts, queue, proc, lock, clients, zombie, environment>>

(* runtime.Run starts a retry subprocess, or fails to spawn it. *)
ExecuteDAG(i) ==
  \/ \E p \in Pids :
       /\ proc[p].pc = "unborn"
       /\ \A q \in 1 .. (p - 1) : proc[q].pc # "unborn"
       /\ proc' = [proc EXCEPT ![p].run = round.items[i].run, ![p].pc = "read"]
       /\ ItemGoto(i, "await")
  \/ May("io") /\ ItemGoto(i, "done") /\ UNCHANGED proc

LaunchOnly(i) ==
  LET r == round.items[i].run IN
  /\ Item(i, "status")
  /\ \/ LatestStatus(r) # "queued" /\ ItemGoto(i, "done") /\ UNCHANGED proc
     \/ LatestStatus(r) = "queued" /\ ExecuteDAG(i)
  /\ UNCHANGED <<attempts, queue, lock, clients, zombie, environment>>

(* Then its status: a Queued run is launched or, when the DAG is suspended, *)
(* dropped; a run that is not queued loses its item.                        *)
LaunchOrDiscard(i) ==
  LET r == round.items[i].run IN
  /\ Item(i, "status")
  /\ \/ LatestStatus(r) = "nodata" /\ ItemGoto(i, "done") /\ UNCHANGED proc
     \/ LatestStatus(r) \notin {"nodata", "queued"} /\ ItemGoto(i, "dequeue") /\ UNCHANGED proc
     \/ LatestStatus(r) = "queued" /\ ExecuteDAG(i)
     \/ /\ LatestStatus(r) = "queued" /\ May("suspend")
        /\ round' = [round EXCEPT !.items[i].pc = "drop", !.items[i].att = LatestAttempt(r)]
        /\ UNCHANGED proc
  /\ UNCHANGED <<attempts, queue, lock, clients, zombie, environment>>

dropItemOnly(i) ==
  /\ Item(i, "drop")
  /\ ItemGoto(i, "dequeue")
  /\ UNCHANGED <<attempts, queue, proc, lock, clients, zombie, environment>>

dropSuspendedQueuedRun(i) ==
  /\ Item(i, "drop")
  /\ Swap(round.items[i].run, round.items[i].att, "queued", "aborted")
  /\ ItemGoto(i, "dequeue")
  /\ UNCHANGED <<queue, proc, lock, clients, zombie, environment>>

(* checkStartupStatus: a heartbeat, or else a status that is not Queued. *)
checkStartupHeartbeat(i) ==
  /\ Item(i, "await")
  /\ ItemGoto(i, IF IsRunAlive(round.items[i].run) THEN "dequeue" ELSE "awaitStatus")
  /\ UNCHANGED <<attempts, queue, proc, lock, clients, zombie, environment>>

(* Subprocesses of the run that no one can have seen yet. *)
Starting(r) ==
  {p \in Pids : proc[p].run = r /\ proc[p].pc \in {"read", "lock", "ensure", "create", "acquire"}}

checkStartupStatusOnce(i) ==
  LET started == LatestStatus(round.items[i].run) \in Statuses \ {"queued"} IN
  /\ Item(i, "awaitStatus")
  /\ ItemGoto(i, IF started THEN "dequeue" ELSE "done")
  /\ UNCHANGED <<attempts, queue, proc, lock, clients, zombie, environment>>

(* When there is neither, waitForStartup polls again or runs out of retries *)
(* and leaves the item in the queue.                                        *)
checkStartupStatus(i) ==
  LET r == round.items[i].run
      started == LatestStatus(r) \in Statuses \ {"queued"}
  IN
  /\ Item(i, "awaitStatus")
  /\ \/ started /\ ItemGoto(i, "dequeue") /\ UNCHANGED environment
     \/ /\ ~started
        /\ ItemGoto(i, IF Starting(r) # {} \/ IsRunAlive(r) THEN "await" ELSE "done")
        /\ UNCHANGED environment
     \/ ~started /\ Starting(r) # {} /\ ItemGoto(i, "done") /\ Mishap("slow")
  /\ UNCHANGED <<attempts, queue, proc, lock, clients, zombie>>

DequeueByDAGRunID(i) ==
  /\ Item(i, "dequeue")
  /\ Dequeue(round.items[i].run)
  /\ ItemGoto(i, "done")
  /\ UNCHANGED <<attempts, proc, lock, clients, zombie, environment>>

(* wg.Wait returns. *)
RoundEnds ==
  /\ round.pc = "work"
  /\ \A i \in DOMAIN round.items : round.items[i].pc = "done"
  /\ round' = NoWork
  /\ UNCHANGED <<attempts, queue, proc, lock, clients, zombie, environment>>

----------------------------------------------------------------------------
(* A retry subprocess: runRetry prepares an attempt and a proc entry under  *)
(* the process-group lock, and then the agent runs.                         *)

At(p, pc) == proc[p].pc = pc

ProcGoto(p, pc) == proc' = [proc EXCEPT ![p].pc = pc]

Exit(p) == proc' = [proc EXCEPT ![p] = Unborn]

(* The status that runRetry reads before it locks. *)
ReadRetryTarget(p) ==
  /\ At(p, "read")
  /\ IF LatestStatus(proc[p].run) = "queued" THEN ProcGoto(p, "lock") ELSE Exit(p)
  /\ UNCHANGED <<attempts, queue, lock, clients, round, zombie, environment>>

LockProcGroup(p) ==
  /\ At(p, "lock")
  /\ lock = Free
  /\ lock' = p
  /\ ProcGoto(p, "ensure")
  /\ UNCHANGED <<attempts, queue, clients, round, zombie, environment>>

ensureQueueDispatchRetryTarget(p) ==
  /\ At(p, "ensure")
  /\ IF LatestStatus(proc[p].run) = "queued"
     THEN ProcGoto(p, "create") /\ UNCHANGED lock
     ELSE Exit(p) /\ lock' = Free
  /\ UNCHANGED <<attempts, queue, clients, round, zombie, environment>>

(* CreateAttempt makes the directory; the status file comes with Open. *)
CreateAttempt(p) ==
  LET r == proc[p].run IN
  /\ At(p, "create")
  /\ IF RunDirExists(r)
     THEN /\ NextNumber(r) \in Numbers
          /\ SetFile(r, NextNumber(r), "nofile")
          /\ proc' = [proc EXCEPT ![p].att = NextNumber(r), ![p].pc = "acquire"]
          /\ UNCHANGED lock
     ELSE Exit(p) /\ lock' = Free /\ UNCHANGED attempts
  /\ UNCHANGED <<queue, clients, round, zombie, environment>>

(* ProcStore.Acquire writes the proc entry; when it cannot, the attempt is  *)
(* recorded as failed.  prepareLocalExecution ends and unlocks.             *)
AcquireProc(p) ==
  /\ At(p, "acquire")
  /\ lock' = Free
  /\ \/ proc' = [proc EXCEPT ![p].entry = "fresh", ![p].pc = "open"] /\ UNCHANGED attempts
     \/ May("io") /\ Exit(p) /\ SetFile(proc[p].run, proc[p].att, "failed")
  /\ UNCHANGED <<queue, clients, round, zombie, environment>>

(* attempt.Open. *)
OpenAttempt(p) ==
  /\ At(p, "open")
  /\ SetFile(proc[p].run, proc[p].att, "empty")
  /\ proc' = [proc EXCEPT ![p].pc = "start", ![p].attached = TRUE]
  /\ UNCHANGED <<queue, lock, clients, round, zombie, environment>>

WriteStatus(p, st) ==
  IF proc[p].attached THEN SetFile(proc[p].run, proc[p].att, st) ELSE UNCHANGED attempts

(* The first Running status; the mail, registry, directory or S3 settings  *)
(* may fail to evaluate before it, and then the agent just returns.         *)
WriteRunning(p) ==
  /\ At(p, "start")
  /\ \/ /\ WriteStatus(p, "running")
        /\ proc' = [proc EXCEPT ![p].pc = "work",
                               ![p].late = IF May("late") THEN "armed" ELSE "done"]
     \/ May("io") /\ Exit(p) /\ UNCHANGED attempts
  /\ UNCHANGED <<queue, lock, clients, round, zombie, environment>>

(* The goroutine that writes "the first status just after the start" reads *)
(* the status and writes it a moment later, as long as the file is open.   *)
ReadLateStatus(p) ==
  /\ At(p, "work")
  /\ proc[p].late = "armed"
  /\ proc' = [proc EXCEPT ![p].late = "holding"]
  /\ UNCHANGED <<attempts, queue, lock, clients, round, zombie, environment>>

WriteLateStatus(p) ==
  /\ proc[p].pc \in {"work", "written"}
  /\ proc[p].late = "holding"
  /\ WriteStatus(p, "running")
  /\ proc' = [proc EXCEPT ![p].late = "done"]
  /\ UNCHANGED <<queue, lock, clients, round, zombie, environment>>

(* The steps are over and the agent writes the outcome. *)
WriteFinal(p) ==
  /\ At(p, "work")
  /\ \E st \in Terminal : WriteStatus(p, st)
  /\ ProcGoto(p, "written")
  /\ UNCHANGED <<queue, lock, clients, round, zombie, environment>>

(* attempt.Close, Proc.Stop, and the process is gone. *)
StopProc(p) ==
  /\ At(p, "written")
  /\ Exit(p)
  /\ UNCHANGED <<attempts, queue, lock, clients, round, zombie, environment>>

----------------------------------------------------------------------------
(* The dequeue command: AbortQueuedDAGRun and the removal of the items,     *)
(* under the process-group lock.                                            *)

AborterGoto(pc) == aborter' = [aborter EXCEPT !.pc = pc]

AborterReturns == aborter' = Idle /\ lock' = Free

LockForAbort ==
  /\ May("abort")
  /\ aborter = Idle
  /\ calls < MaxCalls
  /\ calls' = calls + 1
  /\ lock = Free
  /\ \E r \in Runs : /\ LatestAttempt(r) # 0
                     /\ aborter' = [Idle EXCEPT !.pc = "swap", !.run = r]
  /\ lock' = Aborter
  /\ UNCHANGED <<attempts, queue, proc, enqueuing, retrier, round, zombie, environment>>

SetAborted ==
  LET r == aborter.run IN
  /\ aborter.pc = "swap"
  /\ SetFile(r, LatestAttempt(r), "aborted")
  /\ aborter' = [aborter EXCEPT !.pc = "hide", !.att = LatestAttempt(r)]
  /\ UNCHANGED <<queue, proc, lock, enqueuing, retrier, calls, round, zombie, environment>>

SwapAborted ==
  LET r == aborter.run IN
  /\ aborter.pc = "swap"
  /\ IF LatestStatus(r) = "queued"
     THEN /\ SetFile(r, LatestAttempt(r), "aborted")
          /\ aborter' = [aborter EXCEPT !.pc = "hide", !.att = LatestAttempt(r)]
          /\ UNCHANGED lock
     ELSE AborterReturns /\ UNCHANGED attempts
  /\ UNCHANGED <<queue, proc, enqueuing, retrier, calls, round, zombie, environment>>

Hide ==
  /\ aborter.pc = "hide"
  /\ SetFile(aborter.run, aborter.att, "hidden")
  /\ AborterGoto("remove")
  /\ UNCHANGED <<queue, proc, lock, enqueuing, retrier, calls, round, zombie, environment>>

(* The record goes when no visible attempt is left. *)
RemoveDAGRun ==
  LET r == aborter.run IN
  /\ aborter.pc = "remove"
  /\ IF LatestStatus(r) = "nodata"
     THEN attempts' = [attempts EXCEPT ![r] = [n \in Numbers |-> "nodir"]]
     ELSE UNCHANGED attempts
  /\ AborterGoto("dequeue")
  /\ UNCHANGED <<queue, proc, lock, enqueuing, retrier, calls, round, zombie, environment>>

DequeueAborted ==
  /\ aborter.pc = "dequeue"
  /\ Dequeue(aborter.run)
  /\ AborterReturns
  /\ UNCHANGED <<attempts, proc, enqueuing, retrier, calls, round, zombie, environment>>

----------------------------------------------------------------------------
(* EnqueueRetry, for the retry scanner, the CLI and the API: the caller has *)
(* read a terminal status some time before.                                 *)

ReadForRetry ==
  /\ May("retry")
  /\ retrier = Idle
  /\ calls < MaxCalls
  /\ \E r \in Runs :
       /\ LatestStatus(r) \in Terminal
       /\ retrier' = [pc |-> "swap", run |-> r, att |-> LatestAttempt(r), status |-> LatestStatus(r)]
  /\ calls' = calls + 1
  /\ UNCHANGED <<attempts, queue, proc, lock, enqueuing, aborter, round, zombie, environment>>

SwapQueued ==
  LET r == retrier.run IN
  /\ retrier.pc = "swap"
  /\ IF CanSwap(r, retrier.att, retrier.status)
     THEN /\ SetFile(r, retrier.att, "queued")
          /\ proc' = Detach(r, retrier.att)
          /\ retrier' = [retrier EXCEPT !.pc = "enqueue"]
     ELSE retrier' = Idle /\ UNCHANGED <<attempts, proc>>
  /\ UNCHANGED <<queue, lock, enqueuing, aborter, calls, round, zombie, environment>>

EnqueueRetry ==
  /\ retrier.pc = "enqueue"
  /\ \/ queue' = Append(queue, retrier.run) /\ retrier' = Idle
     \/ May("io") /\ retrier' = [retrier EXCEPT !.pc = "rollback"] /\ UNCHANGED queue
  /\ UNCHANGED <<attempts, proc, lock, enqueuing, aborter, calls, round, zombie, environment>>

RollBack ==
  /\ retrier.pc = "rollback"
  /\ Swap(retrier.run, retrier.att, "queued", retrier.status)
  /\ retrier' = Idle
  /\ UNCHANGED <<queue, proc, lock, enqueuing, aborter, calls, round, zombie, environment>>

----------------------------------------------------------------------------
(* Heartbeats and the zombie detector.                                      *)

Beating(p) == proc[p].pc \in {"open", "start", "work", "written"}

(* A heartbeat also recreates an entry that someone removed. *)
Heartbeat(p) ==
  /\ Beating(p)
  /\ proc[p].entry # "fresh"
  /\ proc' = [proc EXCEPT ![p].entry = "fresh"]
  /\ UNCHANGED <<attempts, queue, lock, clients, round, zombie, environment>>

GoesStale(p) ==
  /\ proc[p].entry = "fresh"
  /\ \/ At(p, "dead") /\ UNCHANGED environment
     \/ Beating(p) /\ Mishap("stall")
  /\ proc' = [proc EXCEPT ![p].entry = "stale"]
  /\ UNCHANGED <<attempts, queue, lock, clients, round, zombie>>

ZombieGoto(pc) == zombie' = [zombie EXCEPT !.pc = pc]

(* A stale entry is listed, often enough in a row for the threshold, or     *)
(* next to a fresh entry of another attempt.                                *)
ListStale(p) ==
  /\ zombie = Idle
  /\ proc[p].entry = "stale"
  /\ zombie' = [Idle EXCEPT !.run = proc[p].run, !.att = proc[p].att,
                            !.pc = IF IsRunAlive(proc[p].run) THEN "remove" ELSE "status"]
  /\ UNCHANGED <<attempts, queue, proc, lock, clients, round, environment>>

cleanWithoutRepair ==
  /\ zombie.pc = "status"
  /\ IF LatestStatus(zombie.run) = "empty" THEN zombie' = Idle ELSE ZombieGoto("remove")
  /\ UNCHANGED <<attempts, queue, proc, lock, clients, round, environment>>

repairWithoutClean ==
  LET r == zombie.run IN
  /\ zombie.pc = "status"
  /\ IF LatestStatus(r) = "running" /\ LatestAttempt(r) = zombie.att THEN ZombieGoto("read")
     ELSE zombie' = Idle
  /\ UNCHANGED <<attempts, queue, proc, lock, clients, round, environment>>

(* An unreadable status is an error, and the entry stays. *)
checkAndCleanZombie ==
  LET r == zombie.run IN
  /\ zombie.pc = "status"
  /\ \/ LatestStatus(r) = "empty" /\ zombie' = Idle
     \/ LatestStatus(r) = "running" /\ LatestAttempt(r) = zombie.att /\ ZombieGoto("read")
     \/ /\ LatestStatus(r) # "empty"
        /\ LatestStatus(r) # "running" \/ LatestAttempt(r) # zombie.att
        /\ ZombieGoto("remove")
  /\ UNCHANGED <<attempts, queue, proc, lock, clients, round, environment>>

(* RepairStaleLocalRun reads the attempt again and writes without a lock. *)
ReadForRepair ==
  LET f == attempts[zombie.run][zombie.att] IN
  /\ zombie.pc = "read"
  /\ \/ f \in {"running", "queued"} /\ ZombieGoto("write")
     \/ /\ f \notin {"running", "queued"}
        /\ IF f \in Terminal THEN ZombieGoto("remove") ELSE zombie' = Idle
  /\ UNCHANGED <<attempts, queue, proc, lock, clients, round, environment>>

RepairStaleLocalRun ==
  /\ zombie.pc = "write"
  /\ SetFile(zombie.run, zombie.att, "failed")
  /\ proc' = Detach(zombie.run, zombie.att)
  /\ ZombieGoto("remove")
  /\ UNCHANGED <<queue, lock, clients, round, environment>>

(* The entry goes if it is still stale, and with it a dead process. *)
RemoveIfStale ==
  /\ zombie.pc = "remove"
  /\ proc' = [p \in Pids |->
                IF proc[p].run = zombie.run /\ proc[p].att = zombie.att /\ proc[p].entry = "stale"
                THEN IF At(p, "dead") THEN Unborn ELSE [proc[p] EXCEPT !.entry = "none"]
                ELSE proc[p]]
  /\ zombie' = Idle
  /\ UNCHANGED <<attempts, queue, lock, clients, round, environment>>

----------------------------------------------------------------------------
(* Deaths.  A lock whose holder died expires.                               *)

ProcDies(p) ==
  /\ Mishap("crash")
  /\ proc[p].pc \notin {"unborn", "dead"}
  /\ proc' = [proc EXCEPT ![p] = IF @.entry = "none" THEN Unborn
                                 ELSE [@ EXCEPT !.pc = "dead", !.attached = FALSE]]
  /\ lock' = IF lock = p THEN Free ELSE lock
  /\ UNCHANGED <<attempts, queue, clients, round, zombie>>

SchedulerDies ==
  /\ Mishap("restart")
  /\ round' = NoWork
  /\ zombie' = Idle
  /\ UNCHANGED <<attempts, queue, proc, lock, clients>>

ClientDies ==
  /\ Mishap("client")
  /\ \/ \E r \in Runs : /\ enqueuing[r] = "persisted"
                        /\ enqueuing' = [enqueuing EXCEPT ![r] = "done"]
                        /\ UNCHANGED <<aborter, retrier, lock>>
     \/ aborter # Idle /\ AborterReturns /\ UNCHANGED <<enqueuing, retrier>>
     \/ retrier # Idle /\ retrier' = Idle /\ UNCHANGED <<enqueuing, aborter, lock>>
  /\ UNCHANGED <<attempts, queue, proc, calls, round, zombie>>

----------------------------------------------------------------------------
Indices == 1 .. (Cardinality(Runs) + MaxCalls)

Processor ==
  \/ List \/ ProcessQueueItems \/ RoundEnds
  \/ \E i \in Indices :
       \/ processDAG(i) \/ LaunchOrDiscard(i) \/ dropSuspendedQueuedRun(i)
       \/ checkStartupHeartbeat(i) \/ checkStartupStatus(i) \/ DequeueByDAGRunID(i)

Subprocess(p) ==
  \/ ReadRetryTarget(p) \/ LockProcGroup(p) \/ ensureQueueDispatchRetryTarget(p)
  \/ CreateAttempt(p) \/ AcquireProc(p) \/ OpenAttempt(p) \/ WriteRunning(p)
  \/ WriteFinal(p) \/ StopProc(p)

AbortQueuedDAGRun == SwapAborted \/ Hide \/ RemoveDAGRun \/ DequeueAborted

Retrier == SwapQueued \/ EnqueueRetry \/ RollBack

ZombieDetector == checkAndCleanZombie \/ ReadForRepair \/ RepairStaleLocalRun \/ RemoveIfStale

Next ==
  \/ \E r \in Runs : PersistQueued(r) \/ EnqueueItem(r)
  \/ Processor
  \/ \E p \in Pids : \/ Subprocess(p) \/ ReadLateStatus(p) \/ WriteLateStatus(p)
                     \/ Heartbeat(p) \/ GoesStale(p) \/ ListStale(p) \/ ProcDies(p)
  \/ LockForAbort \/ AbortQueuedDAGRun
  \/ ReadForRetry \/ Retrier
  \/ ZombieDetector
  \/ SchedulerDies \/ ClientDies

Executing(p) == proc[p].pc \in {"open", "start", "work", "written"}

(* The processor, the detector and every process go on as long as they live; *)
(* an entry that no one refreshes gets stale.                                *)
Fairness ==
  /\ \A r \in Runs : WF_vars(PersistQueued(r) \/ EnqueueItem(r))
  /\ WF_vars(Processor)
  /\ \A p \in Pids : /\ WF_vars(Subprocess(p)) /\ WF_vars(ListStale(p))
                     /\ WF_vars(Heartbeat(p) \/ (GoesStale(p) /\ At(p, "dead")))
  /\ WF_vars(AbortQueuedDAGRun) /\ WF_vars(Retrier) /\ WF_vars(ZombieDetector)

Spec == Init /\ [][Next]_vars /\ Fairness

----------------------------------------------------------------------------
(* Properties.  Each names the events under which the code does not keep    *)
(* it; the README has a behaviour for each of them.                         *)

Without(events) == world.events \cap events = {}

(* A retry of one of two dag-runs in the same batch, or a failed enqueue of *)
(* it, is enough to break the two limits below.                             *)
SingleFile == May("retry") => world.maxConcurrency = 1 /\ ~May("io")

(* No dag-run is executed by two processes at once: processDAG's look at    *)
(* the proc entries, runRetry's two looks at the status and the group lock  *)
(* around the second leave no gap, unless the scheduler dies, stops waiting *)
(* early or the running process misses its heartbeats.                      *)
Exclusive ==
  Without({"stall", "slow", "restart"}) /\ SingleFile =>
    \A p, q \in Pids : p # q /\ Executing(p) /\ Executing(q) => proc[p].run # proc[q].run

(* No more dag-runs of the queue execute than its maxConcurrency: the       *)
(* processor counts fresh proc entries before it starts anything and waits  *)
(* for the entries of what it has started.                                  *)
Limit ==
  Without({"stall", "slow", "restart"}) /\ SingleFile =>
    Cardinality({p \in Pids : Executing(p)}) <= world.maxConcurrency

TerminalStatusKept ==
  \A r \in Runs, n \in Numbers :
    attempts[r][n] \in Terminal => attempts'[r][n] \in {attempts[r][n], "queued", "hidden", "nodir"}

(* The outcome of an attempt is never overwritten, whoever still holds its  *)
(* file: only a retry makes it Queued again, and only the dequeue command   *)
(* takes an attempt away.                                                   *)
TerminalKept == [][ Without({"late", "stall"}) => TerminalStatusKept ]_vars

(* Someone who will see to the dag-run. *)
Responsible(r) ==
  \/ r \in Range(queue)
  \/ enqueuing[r] = "persisted"
  \/ retrier.run = r \/ aborter.run = r
  \/ \E p \in Pids : proc[p].run = r /\ proc[p].pc # "dead"

AllCared == \A r \in Runs : LatestStatus(r) = "queued" => Responsible(r)

(* A dag-run whose status says Queued has an item in the queue or someone   *)
(* at work on it: the processor gives an item away only for a run that      *)
(* started, ended or was dropped.                                           *)
NotForgotten == Without({"crash", "io", "retry", "client"}) => AllCared

(* Every item leaves the queue again and again, also when its process or    *)
(* the scheduler dies, its heartbeats stop, or the run is dequeued or       *)
(* retried meanwhile; not when an item or an entry cannot be written, or    *)
(* the dequeue command dies half way.                                       *)
QueueDrains == Without({"io", "client"}) => \A r \in Runs : []<>(r \notin Range(queue))

(* The proc entry of a process that died is removed, so that its slot is    *)
(* free again.  One case is left out: the process died before its first     *)
(* status, and the detector cannot read what is not there.                  *)
EntriesCleared ==
  \A p \in Pids : []<>(~At(p, "dead") \/ LatestStatus(proc[p].run) = "empty")

(* No dag-run says Running for ever: its process writes an outcome, or the  *)
(* zombie detector does.  Left out: a late Running after the outcome.       *)
Settled == Without({"late"}) => \A r \in Runs : []<>(LatestStatus(r) # "running")
=============================================================================
