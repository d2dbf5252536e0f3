------------------------------- MODULE Runner -------------------------------
(***************************************************************************)
(* The Runner of internal/runtime: it executes the steps of a DAG.         *)
(*                                                                         *)
(* One goroutine, the event loop of Runner.Run, starts one goroutine per   *)
(* ready node and learns from doneCh which nodes finished.  The node       *)
(* goroutines, the event loop and a third party, the agent's signal        *)
(* routine that stops the run, share the node statuses, the canceled flag  *)
(* and lastError.  Every place where the code releases a lock, waits or    *)
(* calls out is a boundary between two actions here.                       *)
(*                                                                         *)
(* Time is abstracted: a sleep, a backoff or a ticker is an action that    *)
(* may be taken at any later moment.  Exit codes are members of ErrCodes.  *)
(***************************************************************************)
EXTENDS Naturals, Sequences, FiniteSets, Functions

CONSTANTS
  NodeSeq,           \* plan.nodes, in definition order
  DependencyMap,     \* plan.DependencyMap: the nodes a node depends on, in order
  DependantMap,      \* plan.DependantMap: the nodes that depend on a node
  Step,              \* core.Step of every node, see StepConfig
  Restored,          \* the NodeState a node starts with (all NotStarted in a new run)
  ErrCodes,          \* exit codes of failing commands
  MaxActiveSteps,    \* Config.MaxActiveSteps, 0 is unlimited
  HasTimeout,        \* Config.Timeout > 0
  HasPreconditions,  \* the DAG has preconditions
  ExternalRetry,     \* externalStepRetryEnabled: step retries are left to the parent
  Handlers,          \* the lifecycle handlers the DAG defines
  Stoppable          \* stop requests may arrive

Nodes == Range(NodeSeq)

NodeStatus == {"NotStarted", "Running", "Failed", "Aborted", "Succeeded", "Skipped",
               "PartiallySucceeded", "Waiting", "Rejected", "Retrying"}

(***************************************************************************)
(* How one execution ended: with exit code 0, with an error that leaves    *)
(* the exit code at 0 (the executor could not be set up, its output not be *)
(* captured or its status not be determined), with the deadline of the     *)
(* step or of the run, or with the exit code of a failed command.          *)
(***************************************************************************)
Outcome == {"ok", "internal", "deadline"} \union ErrCodes

HandlerType == {"onInit", "onSuccess", "onFailure", "onAbort", "onExit", "onWait"}

(***************************************************************************)
(* What the runner reads of a core.Step.  Boolean fields the code tests    *)
(* for presence; mayPanic, prepareFails and teardownFails say whether the  *)
(* environment may make those calls fail.                                  *)
(***************************************************************************)
StepConfig ==
  [preconditions : BOOLEAN, approval : BOOLEAN, timeout : BOOLEAN,
   determiner : BOOLEAN,              \* executor implements NodeStatusDeterminer
   signalOnStop : BOOLEAN,            \* a signal that does not terminate
   retryLimit : Nat, retryCodes : SUBSET ErrCodes,
   repeatMode : {"", "while", "until"}, repeatLimit : Nat,
   repeatGuarded : BOOLEAN,           \* has a condition or an exit code list
   continueOnFailure : BOOLEAN, continueOnSkipped : BOOLEAN,
   continueOnCodes : SUBSET Outcome, markSuccess : BOOLEAN,
   prepareFails : BOOLEAN, teardownFails : BOOLEAN, mayPanic : BOOLEAN]

NodeState == [status : NodeStatus, exit : Outcome, retryCount : Nat, skippedByRetry : BOOLEAN]

ASSUME PlanAssumption ==
  /\ NodeSeq \in Seq(Nodes)
  /\ DependencyMap \in [Nodes -> Seq(Nodes)]
  /\ DependantMap \in [Nodes -> Seq(Nodes)]
  /\ \A d, n \in Nodes : d \in Range(DependencyMap[n]) <=> n \in Range(DependantMap[d])

(***************************************************************************)
(* Plan.buildEdges rejects cyclic plans.  Stated without paths: every      *)
(* non-empty set of nodes has a member that depends on no member of it.    *)
(***************************************************************************)
ASSUME AcyclicAssumption ==
  \A S \in SUBSET Nodes :
    S # {} => \E n \in S : Range(DependencyMap[n]) \intersect S = {}

ASSUME ConfigAssumption ==
  /\ Step \in [Nodes -> StepConfig]
  /\ Restored \in [Nodes -> NodeState]
  /\ MaxActiveSteps \in Nat
  /\ {HasTimeout, HasPreconditions, ExternalRetry, Stoppable} \subseteq BOOLEAN
  /\ Handlers \subseteq HandlerType
  /\ "1" \in ErrCodes
  /\ ErrCodes \intersect {"ok", "internal", "deadline"} = {}

(* The errors that are not a node's are told apart from the nodes. *)
ASSUME ErrorsAssumption == Nodes \intersect {"nil", "deadlock", "deadline", "handler"} = {}

VARIABLES
  status,       \* NodeState.Status of every node
  pc,           \* where the goroutine of a node is
  cmd,          \* Node.cmd # nil
  proc,         \* the process of the command
  exit,         \* outcome of the last execution: execErr and ExitCode
  retryCount,
  doneCount,
  canceled,     \* Runner.canceled
  lastError,    \* Runner.lastError: whose error it is
  ctx,          \* the context of the run
  loop,         \* where the event loop is
  running,      \* nodes started and not yet received from doneCh
  accept,       \* activeReadyCh # nil
  readyCh,
  doneCh,
  visit,        \* nodes the event loop still has to call isReady on
  todo,         \* handlers still to run
  final,        \* Runner.Status when the handlers were chosen
  planFinished, \* Plan.finishedAt is set
  sigPc,        \* where Agent.signal is
  sig,          \* the signal it sends and whether a node may override it
  sigTodo       \* nodes Runner.Signal has not reached yet

nodeVars == <<status, pc, cmd, proc, exit, retryCount, doneCount>>
chanVars == <<readyCh, doneCh>>
loopVars == <<loop, running, accept, visit, todo, final, planFinished>>
sigVars  == <<sigPc, sig, sigTodo>>
vars == <<nodeVars, canceled, lastError, ctx, chanVars, loopVars, sigVars>>

NoError == "nil"

(***************************************************************************)
(* The stations of a node goroutine.                                       *)
(***************************************************************************)
NodePc == {"none",      \* not started
           "prepare",   \* about to call prepareNode
           "precond",   \* about to evaluate preconditions
           "loop",      \* at the head of the execution loop
           "setup",     \* in Execute, before setupExecutor
           "start",     \* Node.cmd is set, the process is not started
           "exec",      \* waiting for the process
           "timeout",   \* handleTimeout set the status, the exit code is not set yet
           "handle",    \* Execute returned
           "retry",     \* sleeping before an inline retry
           "post",      \* the error is handled, repeat or not
           "clear",     \* about to clear lastError for a repeat
           "final",     \* behind the loop
           "abort",     \* about to set the status Aborted
           "await",     \* about to set the status Waiting
           "succeed",   \* about to set the status Succeeded
           "teardown",
           "send",      \* deferred doneCh <- n
           "panic",     \* deferred doneCh <- n while panicking
           "recover",   \* deferred recoverNodePanic
           "finish",    \* deferred finishNode
           "exited"}

LoopPc == {"precond", "init", "scan", "head", "decide", "select", "visit", "blocked",
           "wait", "status", "onWait", "handlers", "done"}

RunStatus == {"NotStarted", "Running", "Failed", "Aborted", "Succeeded", "Queued",
              "PartiallySucceeded", "Waiting", "Rejected"}

RunErrors == {NoError, "deadlock", "deadline", "handler"} \union Nodes

Init ==
  /\ status = [n \in Nodes |-> Restored[n].status]
  /\ exit = [n \in Nodes |-> Restored[n].exit]
  /\ pc = [n \in Nodes |-> "none"]
  /\ cmd = [n \in Nodes |-> FALSE]
  /\ proc = [n \in Nodes |-> "none"]
  /\ retryCount = [n \in Nodes |-> Restored[n].retryCount]
  /\ doneCount = [n \in Nodes |-> 0]
  /\ canceled = FALSE
  /\ lastError = NoError
  /\ ctx = "live"
  /\ loop = "precond"
  /\ running = 0
  /\ accept = FALSE
  /\ readyCh = <<>>
  /\ doneCh = <<>>
  /\ visit = <<>>
  /\ todo = <<>>
  /\ final = "NotStarted"
  /\ planFinished = FALSE
  /\ sigPc = "idle"
  /\ sig = [kind |-> "TERM", override |-> TRUE]
  /\ sigTodo = <<>>

-----------------------------------------------------------------------------
(* Queries over the plan (plan.go) and the runner. *)

Has(s) == \E n \in Nodes : status[n] = s

CheckFinished == ~Has("Running") /\ ~Has("Retrying") /\ ~Has("NotStarted")

HasActiveNodes == Has("Running") \/ Has("Retrying")

(* NodeState.ExitCode *)
ExitCode(n) == IF exit[n] = "internal" THEN "ok" ELSE exit[n]

(* Node.ShouldContinue of a node in a status that ends its execution. *)
ShouldContinueIn(n, s) ==
  \/ s \in {"Succeeded", "PartiallySucceeded"}
  \/ s = "Failed" /\ (Step[n].continueOnFailure \/ ExitCode(n) \in Step[n].continueOnCodes)
  \/ s = "Skipped" /\ Step[n].continueOnSkipped

ShouldContinue(n) == ShouldContinueIn(n, status[n])

ShouldMarkSuccess(n) == ShouldContinueIn(n, "Failed") /\ Step[n].markSuccess

IsRepetitive(n) == Step[n].repeatMode # ""

isSucceed == \A n \in Nodes : status[n] \in {"Succeeded", "Skipped", "PartiallySucceeded"}

isPartialSuccessLenient ==
  /\ Has("Succeeded") \/ Has("PartiallySucceeded")
  /\ \/ \E n \in Nodes : status[n] = "Failed" /\ ~Step[n].markSuccess
     \/ Has("PartiallySucceeded")

isPartialSuccess ==
  /\ \A n \in Nodes : status[n] = "Failed" => ShouldContinue(n)
  /\ Has("Succeeded") \/ Has("PartiallySucceeded")
  /\ \/ \E n \in Nodes : status[n] = "Failed" /\ ~Step[n].markSuccess
     \/ Has("PartiallySucceeded")

(* Runner.Status: the status of the whole run, first match wins. *)
Status ==
  IF canceled /\ ~isSucceed THEN "Aborted"
  ELSE IF Has("Running") THEN "Running"
  ELSE IF Has("Retrying") THEN "Queued"
  ELSE IF Has("Rejected") THEN "Rejected"
  ELSE IF Has("Waiting") THEN "Waiting"
  ELSE IF Has("NotStarted") /\ ~planFinished THEN "Running"
  ELSE IF isPartialSuccess THEN "PartiallySucceeded"
  ELSE IF lastError # NoError THEN "Failed"
  ELSE "Succeeded"

VerdictFailureForgotten(d) ==
  CASE status[d] \in {"Succeeded", "PartiallySucceeded"} -> "continue"
    [] status[d] = "Failed" -> IF ShouldContinue(d) THEN "continue" ELSE "wait"
    [] status[d] = "Skipped" ->
         IF Restored[d].skippedByRetry \/ ShouldContinue(d) THEN "continue" ELSE "Skipped"
    [] status[d] \in {"Aborted", "Rejected"} -> "Aborted"
    [] OTHER -> "wait"

(***************************************************************************)
(* What isReady concludes from one dependency: go on to the next one, wait *)
(* for it, or give the node the status it returns.                         *)
(***************************************************************************)
Verdict(d) ==
  CASE status[d] \in {"Succeeded", "PartiallySucceeded"} -> "continue"
    [] status[d] = "Failed" -> IF ShouldContinue(d) THEN "continue" ELSE "Aborted"
    [] status[d] = "Skipped" ->
         IF Restored[d].skippedByRetry \/ ShouldContinue(d) THEN "continue" ELSE "Skipped"
    [] status[d] \in {"Aborted", "Rejected"} -> "Aborted"
    [] OTHER -> "wait"

SatisfiedByAny(n) ==
  DependencyMap[n] = <<>> \/ \E i \in DOMAIN DependencyMap[n] : Verdict(DependencyMap[n][i]) = "continue"

SatisfiedWhilePending(n) ==
  \A i \in DOMAIN DependencyMap[n] : Verdict(DependencyMap[n][i]) \in {"continue", "wait"}

(* isReady returns true. *)
Satisfied(n) == \A i \in DOMAIN DependencyMap[n] : Verdict(DependencyMap[n][i]) = "continue"

(* The first dependency of n that is not satisfied decides v. *)
Decides(n, v) ==
  \E i \in DOMAIN DependencyMap[n] :
    /\ Verdict(DependencyMap[n][i]) = v
    /\ v # "continue"
    /\ \A j \in 1 .. i - 1 : Verdict(DependencyMap[n][j]) = "continue"

-----------------------------------------------------------------------------
(* The event loop: Runner.Run. *)

LoopTo(from, to) == loop = from /\ loop' = to

(* The DAG preconditions hold, or Runner.Cancel. *)
EvalPreconditions ==
  /\ LoopTo("precond", "init")
  /\ \/ UNCHANGED <<canceled, status>>
     \/ /\ HasPreconditions
        /\ canceled' = TRUE
        /\ status' = [n \in Nodes |->
             IF status[n] \in {"Running", "Waiting"} THEN "Aborted" ELSE status[n]]
  /\ UNCHANGED <<pc, cmd, proc, exit, retryCount, doneCount, lastError, ctx, chanVars,
                 running, accept, visit, todo, final, planFinished, sigVars>>

(* The init handler; its failure cancels the run. *)
RunInitHandler ==
  /\ LoopTo("init", IF NodeSeq = <<>> THEN "head" ELSE "scan")
  /\ visit' = NodeSeq
  /\ \/ UNCHANGED <<canceled, lastError>>
     \/ /\ ~canceled
        /\ "onInit" \in Handlers
        /\ canceled' = TRUE
        /\ lastError' = "handler"
  /\ UNCHANGED <<nodeVars, ctx, chanVars, running, accept, todo, final, planFinished, sigVars>>

(* The initial scan for ready nodes; statuses set by isReady are not propagated. *)
Scan ==
  /\ loop = "scan"
  /\ LET n == Head(visit) IN
       \/ /\ status[n] = "NotStarted" /\ Satisfied(n)
          /\ readyCh' = Append(readyCh, n)
          /\ UNCHANGED status
       \/ /\ status[n] = "NotStarted" => Decides(n, "wait")
          /\ UNCHANGED <<readyCh, status>>
       \/ \E s \in {"Aborted", "Skipped"} :
            /\ status[n] = "NotStarted" /\ Decides(n, s)
            /\ status' = [status EXCEPT ![n] = s]
            /\ UNCHANGED readyCh
  /\ visit' = Tail(visit)
  /\ loop' = IF visit' = <<>> THEN "head" ELSE "scan"
  /\ UNCHANGED <<pc, cmd, proc, exit, retryCount, doneCount, canceled, lastError, ctx, doneCh,
                 running, accept, todo, final, planFinished, sigVars>>

(* The loop condition and the check for a canceled run without running nodes. *)
LoopHead ==
  /\ loop = "head"
  /\ loop' = IF CheckFinished \/ (canceled /\ running = 0) THEN "wait" ELSE "decide"
  /\ UNCHANGED <<nodeVars, canceled, lastError, ctx, chanVars, running, accept, visit, todo,
                 final, planFinished, sigVars>>

SlotFreeOffByOne == MaxActiveSteps = 0 \/ running <= MaxActiveSteps

SlotFree == MaxActiveSteps = 0 \/ running < MaxActiveSteps

(***************************************************************************)
(* The rest of the loop body before the select: open or close readyCh, end *)
(* the loop for waiting or retrying nodes, detect a deadlock.  canceled is *)
(* read a second time.                                                     *)
(***************************************************************************)
LoopDecide ==
  /\ loop = "decide"
  /\ LET open  == ~canceled /\ SlotFree
         idle  == running = 0 /\ readyCh = <<>>
         pause == idle /\ (Has("Waiting") \/ Has("Retrying"))
         stuck == running = 0 /\ (~open \/ readyCh = <<>>) /\ ~CheckFinished
     IN  /\ accept' = open
         /\ loop' = IF pause \/ stuck THEN "wait" ELSE "select"
         /\ lastError' = IF ~pause /\ stuck THEN "deadlock" ELSE lastError
  /\ UNCHANGED <<nodeVars, canceled, ctx, chanVars, running, visit, todo, final, planFinished,
                 sigVars>>

StartableUnchecked(n) == TRUE

(* The double check against a node that two parents made ready. *)
Startable(n) == status[n] = "NotStarted"

(* case node := <-activeReadyCh: start the node unless it is no longer NotStarted. *)
SelectReady ==
  /\ LoopTo("select", "head")
  /\ accept
  /\ readyCh # <<>>
  /\ readyCh' = Tail(readyCh)
  /\ LET n == Head(readyCh) IN
       IF Startable(n)
       THEN /\ status' = [status EXCEPT ![n] = "Running"]
            /\ pc' = [pc EXCEPT ![n] = "prepare"]
            /\ running' = running + 1
       ELSE UNCHANGED <<status, pc, running>>
  /\ UNCHANGED <<cmd, proc, exit, retryCount, doneCount, canceled, lastError, ctx, doneCh,
                 accept, visit, todo, final, planFinished, sigVars>>

(* case node := <-doneCh: processCompletedNode visits the dependents unless canceled. *)
SelectDone ==
  /\ loop = "select"
  /\ doneCh # <<>>
  /\ doneCh' = Tail(doneCh)
  /\ running' = running - 1
  /\ visit' = IF canceled THEN <<>> ELSE DependantMap[Head(doneCh)]
  /\ loop' = IF visit' = <<>> THEN "head" ELSE "visit"
  /\ UNCHANGED <<nodeVars, canceled, lastError, ctx, readyCh, accept, todo, final, planFinished,
                 sigVars>>

(* case <-ctxDoneCh *)
SelectCtxDone ==
  /\ LoopTo("select", "head")
  /\ ctx = "deadline"
  /\ ctx' = "seen"
  /\ lastError' = IF lastError = NoError THEN "deadline" ELSE lastError
  /\ UNCHANGED <<nodeVars, canceled, chanVars, running, accept, visit, todo, final, planFinished,
                 sigVars>>

UnvisitedDependents(n) == <<>>

(* A dependent that isReady decided joins the queue with its own dependents. *)
QueuedDependents(n) == DependantMap[n]

(***************************************************************************)
(* processCompletedNode, one dependent at a time, breadth first.  A send   *)
(* to a full readyCh blocks for good: the event loop is its only receiver. *)
(***************************************************************************)
Visit ==
  /\ loop = "visit"
  /\ \/ /\ status[Head(visit)] = "NotStarted" /\ Satisfied(Head(visit))
        /\ Len(readyCh) = Len(NodeSeq)
        /\ loop' = "blocked"
        /\ UNCHANGED <<readyCh, visit, status>>
     \/ /\ status[Head(visit)] = "NotStarted" /\ Satisfied(Head(visit))
        /\ Len(readyCh) < Len(NodeSeq)
        /\ readyCh' = Append(readyCh, Head(visit))
        /\ visit' = Tail(visit)
        /\ loop' = IF visit' = <<>> THEN "head" ELSE "visit"
        /\ UNCHANGED status
     \/ /\ status[Head(visit)] = "NotStarted" => Decides(Head(visit), "wait")
        /\ visit' = Tail(visit)
        /\ loop' = IF visit' = <<>> THEN "head" ELSE "visit"
        /\ UNCHANGED <<readyCh, status>>
     \/ \E s \in {"Aborted", "Skipped"} :
          /\ status[Head(visit)] = "NotStarted" /\ Decides(Head(visit), s)
          /\ status' = [status EXCEPT ![Head(visit)] = s]
          /\ visit' = Tail(visit) \o QueuedDependents(Head(visit))
          /\ loop' = IF visit' = <<>> THEN "head" ELSE "visit"
          /\ UNCHANGED readyCh
  /\ UNCHANGED <<pc, cmd, proc, exit, retryCount, doneCount, canceled, lastError, ctx, doneCh,
                 running, accept, todo, final, planFinished, sigVars>>

NotAwaited == TRUE

(* Every started node goroutine has run finishNode. *)
AllFinished == \A n \in Nodes : pc[n] \in {"none", "exited"}

(* wg.Wait *)
WaitGroup ==
  /\ LoopTo("wait", "status")
  /\ AllFinished
  /\ UNCHANGED <<nodeVars, canceled, lastError, ctx, chanVars, running, accept, visit, todo,
                 final, planFinished, sigVars>>

Event(s) ==
  CASE s \in {"Succeeded", "PartiallySucceeded"} -> <<"onSuccess">>
    [] s \in {"Failed", "Rejected"} -> <<"onFailure">>
    [] s = "Aborted" -> <<"onAbort">>
    [] OTHER -> <<>>

(* The switch over Runner.Status that chooses the handlers. *)
ChooseHandlers ==
  /\ loop = "status"
  /\ final' = Status
  /\ loop' = CASE Status = "Waiting" -> "onWait" [] Status = "Queued" -> "done" [] OTHER -> "handlers"
  /\ todo' = IF Status \in {"Waiting", "Queued"} THEN <<>> ELSE Append(Event(Status), "onExit")
  /\ planFinished' = (Status = "Queued")
  /\ UNCHANGED <<nodeVars, canceled, lastError, ctx, chanVars, running, accept, visit, sigVars>>

(* The onWait handler; its failure is only logged. *)
RunWaitHandler ==
  /\ LoopTo("onWait", "done")
  /\ planFinished' = TRUE
  /\ UNCHANGED <<nodeVars, canceled, lastError, ctx, chanVars, running, accept, visit, todo,
                 final, sigVars>>

(* runEventHandler for the next handler: skipped if undefined, it may fail. *)
RunHandler ==
  /\ loop = "handlers"
  /\ todo # <<>>
  /\ todo' = Tail(todo)
  /\ \/ UNCHANGED lastError
     \/ Head(todo) \in Handlers /\ lastError' = "handler"
  /\ UNCHANGED <<nodeVars, canceled, ctx, chanVars, loop, running, accept, visit, final,
                 planFinished, sigVars>>

(* Run returns; the deferred plan.Finish. *)
RunReturns ==
  /\ LoopTo("handlers", "done")
  /\ todo = <<>>
  /\ planFinished' = TRUE
  /\ UNCHANGED <<nodeVars, canceled, lastError, ctx, chanVars, running, accept, visit, todo,
                 final, sigVars>>

(* The deadline of the run's context passes. *)
CtxExpires ==
  /\ HasTimeout /\ ctx = "live"
  /\ ctx' = "deadline"
  /\ UNCHANGED <<nodeVars, canceled, lastError, chanVars, loopVars, sigVars>>

-----------------------------------------------------------------------------
(* The goroutine of a node. *)

Goto(n, from, to) == pc[n] = from /\ pc' = [pc EXCEPT ![n] = to]

SetStatus(n, s) == status' = [status EXCEPT ![n] = s]

(* Everything the goroutine of a node leaves to the others. *)
Others == UNCHANGED <<canceled, ctx, readyCh, loopVars, sigVars>>

PrepareNode(n) ==
  /\ \/ /\ Goto(n, "prepare", "precond")
        /\ UNCHANGED <<status, lastError>>
     \/ /\ Step[n].prepareFails
        /\ Goto(n, "prepare", "send")
        /\ SetStatus(n, "Failed")
        /\ lastError' = n
  /\ UNCHANGED <<cmd, proc, exit, retryCount, doneCount, doneCh>>
  /\ Others

MeetsPreconditions(n) ==
  /\ \/ Goto(n, "precond", "loop") /\ UNCHANGED status
     \/ /\ Step[n].preconditions
        /\ Goto(n, "precond", "send")
        /\ SetStatus(n, "Skipped")
  /\ UNCHANGED <<cmd, proc, exit, retryCount, doneCount, lastError, doneCh>>
  /\ Others

(* for !r.isCanceled() *)
ExecLoop(n) ==
  /\ Goto(n, "loop", IF canceled THEN "final" ELSE "setup")
  /\ UNCHANGED <<status, cmd, proc, exit, retryCount, doneCount, lastError, doneCh>>
  /\ Others

(***************************************************************************)
(* Node.setupExecutor resets the error and sets Node.cmd, or fails, before *)
(* or behind that assignment.  Node.Signal excludes it.                    *)
(***************************************************************************)
SetupExecutor(n) ==
  /\ ~(sigPc = "act" /\ Head(sigTodo) = n)
  /\ \/ /\ Goto(n, "setup", "start")
        /\ cmd' = [cmd EXCEPT ![n] = TRUE]
        /\ exit' = [exit EXCEPT ![n] = "ok"]
     \/ /\ Goto(n, "setup", "handle")
        /\ exit' = [exit EXCEPT ![n] = "internal"]
        /\ \E set \in BOOLEAN : cmd' = [cmd EXCEPT ![n] = @ \/ set]
  /\ UNCHANGED <<status, proc, retryCount, doneCount, lastError, doneCh>>
  /\ Others

(* The executor starts the process, or panics. *)
StartProcess(n) ==
  /\ \/ /\ Goto(n, "start", "exec")
        /\ proc' = [proc EXCEPT ![n] = "alive"]
     \/ /\ Step[n].mayPanic
        /\ Goto(n, "start", "panic")
        /\ UNCHANGED proc
  /\ UNCHANGED <<status, cmd, exit, retryCount, doneCount, lastError, doneCh>>
  /\ Others

(* What determineNodeStatus may set; only a killed executor says Aborted. *)
Determined(n) ==
  IF ~Step[n].determiner THEN {}
  ELSE {"Succeeded", "PartiallySucceeded", "Waiting"} \union (IF canceled THEN {"Aborted"} ELSE {})

(* An executor without a verdict leaves the status alone, and reports an error. *)
ExecuteReturns(n, x) ==
  /\ exit' = [exit EXCEPT ![n] = x]
  /\ \/ \E s \in Determined(n) : SetStatus(n, s)
     \/ (x = "ok" => ~Step[n].determiner) /\ UNCHANGED status

(***************************************************************************)
(* The process ends: runCommand, handleCommandError and the rest of        *)
(* Node.Execute.  Without a step timeout an expired run surfaces as a      *)
(* DeadlineExceeded error.                                                 *)
(***************************************************************************)
ProcessExits(n) ==
  /\ Goto(n, "exec", "handle")
  /\ proc' = [proc EXCEPT ![n] = "none"]
  /\ \E x \in Outcome :
       /\ x = "deadline" => ~Step[n].timeout /\ ctx # "live"
       /\ ExecuteReturns(n, x)
  /\ UNCHANGED <<cmd, retryCount, doneCount, lastError, doneCh>>
  /\ Others

(* handleTimeout marks the node Failed before Execute records exit code 124. *)
StepTimesOut(n) ==
  /\ Step[n].timeout
  /\ Goto(n, "exec", "timeout")
  /\ proc' = [proc EXCEPT ![n] = "none"]
  /\ SetStatus(n, "Failed")
  /\ UNCHANGED <<cmd, exit, retryCount, doneCount, lastError, doneCh>>
  /\ Others

RecordTimeout(n) ==
  /\ Goto(n, "timeout", "handle")
  /\ ExecuteReturns(n, "deadline")
  /\ UNCHANGED <<cmd, proc, retryCount, doneCount, lastError, doneCh>>
  /\ Others

(* RetryPolicy.ShouldRetry; an error without an exit code counts as 1. *)
ShouldRetry(n) ==
  \/ Step[n].retryCodes = {}
  \/ (IF exit[n] = "internal" THEN "1" ELSE exit[n]) \in Step[n].retryCodes

CountRetryDown(n) == retryCount[n] - 1
CountRetryNever(n) == retryCount[n]

(* IncRetryCount *)
CountRetry(n) == retryCount[n] + 1

(* handleNodeExecutionError and shouldRetryNode; the cases in the code's order. *)
HandleError(n) ==
  LET settled == exit[n] = "ok" \/ status[n] \in {"Succeeded", "Aborted", "PartiallySucceeded"}
      expired == exit[n] = "deadline" \/ ctx # "live"
      budget  == Step[n].retryLimit > retryCount[n]
      fail(s) == SetStatus(n, s) /\ lastError' = n /\ Goto(n, "handle", "post") /\ UNCHANGED retryCount
  IN
  /\ \/ /\ settled
        /\ Goto(n, "handle", "post")
        /\ UNCHANGED <<status, lastError, retryCount>>
     \/ /\ ~settled /\ expired
        /\ fail(IF exit[n] = "deadline" /\ Step[n].timeout THEN "Failed" ELSE "Aborted")
     \/ /\ ~settled /\ ~expired /\ canceled
        /\ fail(status[n])
     \/ /\ ~settled /\ ~expired /\ ~canceled /\ budget /\ ~ShouldRetry(n)
        /\ fail("Failed")
     \/ /\ ~settled /\ ~expired /\ ~canceled /\ budget /\ ShouldRetry(n)
        /\ retryCount' = [retryCount EXCEPT ![n] = CountRetry(n)]
        /\ IF ExternalRetry
           THEN Goto(n, "handle", "post") /\ SetStatus(n, "Retrying")
           ELSE Goto(n, "handle", "retry") /\ UNCHANGED status
        /\ UNCHANGED lastError
     \/ /\ ~settled /\ ~expired /\ ~canceled /\ ~budget /\ ~ShouldMarkSuccess(n)
        /\ fail("Failed")
     \/ /\ ~settled /\ ~expired /\ ~canceled /\ ~budget /\ ShouldMarkSuccess(n)
        /\ Goto(n, "handle", "post")
        /\ SetStatus(n, "Succeeded")
        /\ UNCHANGED <<lastError, retryCount>>
  /\ UNCHANGED <<cmd, proc, exit, doneCount, doneCh>>
  /\ Others

(* The end of the retry interval. *)
RetryWakes(n) ==
  /\ Goto(n, "retry", "loop")
  /\ SetStatus(n, "Running")
  /\ UNCHANGED <<cmd, proc, exit, retryCount, doneCount, lastError, doneCh>>
  /\ Others

(* evalWhileCondition, evalUntilCondition: a condition or an exit code list may say anything. *)
RepeatAgain(n) ==
  IF Step[n].repeatMode # "" /\ Step[n].repeatGuarded THEN BOOLEAN
  ELSE CASE Step[n].repeatMode = "" -> {FALSE}
         [] Step[n].repeatMode = "while" -> {exit[n] = "ok"}
         [] Step[n].repeatMode = "until" -> {exit[n] # "ok"}

(***************************************************************************)
(* The rest of the loop body: leave a retry to the parent, count the       *)
(* execution, repeat the node, or leave the loop.  doneCount is only kept  *)
(* for nodes with a repeat limit.  prepareNodeForRepeat clears lastError   *)
(* if it equals the node's error, nil included.                            *)
(***************************************************************************)
AfterExecution(n) ==
  LET limit == Step[n].repeatLimit
      count == IF limit > 0 /\ status[n] # "Aborted" THEN doneCount[n] + 1 ELSE doneCount[n]
      mine  == IF exit[n] = "ok" THEN NoError ELSE n
  IN
  /\ \/ /\ status[n] = "Retrying"
        /\ Goto(n, "post", "send")
        /\ UNCHANGED <<status, doneCount>>
     \/ /\ status[n] # "Retrying"
        /\ doneCount' = [doneCount EXCEPT ![n] = count]
        /\ \E again \in IF limit > 0 /\ count >= limit THEN {FALSE} ELSE RepeatAgain(n) :
             IF again /\ ~canceled
             THEN /\ SetStatus(n, "Running")
                  /\ Goto(n, "post", IF lastError = mine THEN "clear" ELSE "loop")
             ELSE /\ UNCHANGED status
                  /\ Goto(n, "post", IF exit[n] = "ok" THEN "final" ELSE "send")
  /\ UNCHANGED <<cmd, proc, exit, retryCount, lastError, doneCh>>
  /\ Others

(* setLastError(nil) of prepareNodeForRepeat, behind its unlocked comparison. *)
ClearError(n) ==
  /\ Goto(n, "clear", "loop")
  /\ lastError' = NoError
  /\ UNCHANGED <<status, cmd, proc, exit, retryCount, doneCount, doneCh>>
  /\ Others

ApprovalForgotten(n) == FALSE

(* step.Approval != nil *)
NeedsApproval(n) == Step[n].approval

(* The choice of the final status of a node that is still Running. *)
ChooseStatus(n) ==
  /\ Goto(n, "final",
       IF status[n] # "Running" THEN "teardown"
       ELSE IF ~IsRepetitive(n) /\ canceled THEN "abort"
       ELSE IF NeedsApproval(n) THEN "await"
       ELSE "succeed")
  /\ UNCHANGED <<status, cmd, proc, exit, retryCount, doneCount, lastError, doneCh>>
  /\ Others

SettleStatus(n) ==
  /\ \/ Goto(n, "abort", "teardown") /\ SetStatus(n, "Aborted")
     \/ Goto(n, "await", "teardown") /\ SetStatus(n, "Waiting")
     \/ Goto(n, "succeed", "teardown") /\ SetStatus(n, "Succeeded")
  /\ UNCHANGED <<cmd, proc, exit, retryCount, doneCount, lastError, doneCh>>
  /\ Others

(* A step whose executor set Succeeded waits for its approval; then teardownNode. *)
TeardownNode(n) ==
  /\ Goto(n, "teardown", "send")
  /\ \/ /\ SetStatus(n, IF status[n] = "Succeeded" /\ NeedsApproval(n) THEN "Waiting" ELSE status[n])
        /\ UNCHANGED lastError
     \/ /\ Step[n].teardownFails
        /\ SetStatus(n, "Failed")
        /\ lastError' = n
  /\ UNCHANGED <<cmd, proc, exit, retryCount, doneCount, doneCh>>
  /\ Others

(* The deferred functions run in reverse order: doneCh <- n, recover, finishNode. *)
SendDone(n) ==
  /\ \/ Goto(n, "send", "finish")
     \/ Goto(n, "panic", "recover")
  /\ Len(doneCh) < Len(NodeSeq)
  /\ doneCh' = Append(doneCh, n)
  /\ UNCHANGED <<status, cmd, proc, exit, retryCount, doneCount, lastError>>
  /\ Others

(* A mutant: the error is recorded and the status is left to finishNode. *)
RecoverErrorOnly(n) ==
  /\ Goto(n, "recover", "finish")
  /\ lastError' = n
  /\ UNCHANGED <<status, cmd, proc, exit, retryCount, doneCount, doneCh>>
  /\ Others

RecoverNodePanic(n) ==
  /\ Goto(n, "recover", "finish")
  /\ SetStatus(n, "Failed")
  /\ lastError' = n
  /\ UNCHANGED <<cmd, proc, exit, retryCount, doneCount, doneCh>>
  /\ Others

FinishNode(n) ==
  /\ Goto(n, "finish", "exited")
  /\ UNCHANGED <<status, cmd, proc, exit, retryCount, doneCount, lastError, doneCh>>
  /\ Others

-----------------------------------------------------------------------------
(* Agent.signal and the Runner.Signal and Node.Signal it calls. *)

SigTo(from, to) == sigPc = from /\ sigPc' = to

CanceledLater == canceled

(* The canceled flag when Runner.Signal begins to visit the nodes. *)
CanceledFirst == TRUE

(* A stop request or a termination signal. *)
StopRequest ==
  /\ Stoppable
  /\ loop # "done"
  /\ sigPc \in {"idle", "returned"}
  /\ sigPc' = "send"
  /\ \E o \in BOOLEAN : sig' = [kind |-> "TERM", override |-> o]
  /\ sigTodo' = NodeSeq
  /\ canceled' = CanceledFirst
  /\ UNCHANGED <<nodeVars, lastError, ctx, chanVars, loopVars>>

(* Node.Signal reads the status; the loop passes over repetitive nodes. *)
CheckNode ==
  /\ sigPc = "send"
  /\ sigTodo # <<>>
  /\ LET n == Head(sigTodo) IN
       IF ~IsRepetitive(n) /\ status[n] = "Running" /\ cmd[n]
       THEN sigPc' = "act" /\ UNCHANGED sigTodo
       ELSE sigTodo' = Tail(sigTodo) /\ UNCHANGED sigPc
  /\ UNCHANGED <<nodeVars, canceled, lastError, ctx, chanVars, loopVars, sig>>

(* A signal that terminates marks the node Aborted; it is lost without a process. *)
SignalNode ==
  /\ SigTo("act", "send")
  /\ sigTodo' = Tail(sigTodo)
  /\ LET n == Head(sigTodo) IN
       IF sig.override /\ Step[n].signalOnStop
       THEN UNCHANGED <<status, proc>>
       ELSE /\ SetStatus(n, "Aborted")
            /\ proc' = [proc EXCEPT ![n] =
                 IF @ = "none" THEN "none" ELSE IF sig.kind = "KILL" THEN "killed" ELSE "termed"]
  /\ UNCHANGED <<pc, cmd, exit, retryCount, doneCount, canceled, lastError, ctx, chanVars, loopVars,
                 sig>>

(* Runner.Signal returns; Agent.signal goes on waiting unless it sent SIGKILL. *)
SignalSent ==
  /\ SigTo("send", IF sig.kind = "KILL" THEN "returned" ELSE "wait")
  /\ sigTodo = <<>>
  /\ UNCHANGED <<nodeVars, canceled, lastError, ctx, chanVars, loopVars, sig, sigTodo>>

(* No node is active: done or the probe ends Agent.signal. *)
SignalReturns ==
  /\ SigTo("wait", "returned")
  /\ ~HasActiveNodes
  /\ UNCHANGED <<nodeVars, canceled, lastError, ctx, chanVars, loopVars, sig, sigTodo>>

(* The resend ticker repeats the signal, MaxCleanUpTime sends SIGKILL. *)
Resend ==
  /\ SigTo("wait", "send")
  /\ \E k \in {"TERM", "KILL"} : sig' = [kind |-> k, override |-> FALSE]
  /\ sigTodo' = NodeSeq
  /\ UNCHANGED <<nodeVars, canceled, lastError, ctx, chanVars, loopVars>>

-----------------------------------------------------------------------------

EventLoop ==
  \/ EvalPreconditions \/ RunInitHandler \/ Scan
  \/ LoopHead \/ LoopDecide \/ SelectReady \/ SelectDone \/ SelectCtxDone
  \/ Visit \/ WaitGroup \/ ChooseHandlers \/ RunWaitHandler \/ RunHandler \/ RunReturns

(* The steps of a node goroutine that do not wait for the process. *)
NodeStep(n) ==
  \/ PrepareNode(n) \/ MeetsPreconditions(n) \/ ExecLoop(n) \/ SetupExecutor(n)
  \/ StartProcess(n) \/ RecordTimeout(n) \/ HandleError(n) \/ RetryWakes(n)
  \/ AfterExecution(n) \/ ClearError(n) \/ ChooseStatus(n) \/ SettleStatus(n)
  \/ TeardownNode(n) \/ SendDone(n) \/ RecoverNodePanic(n) \/ FinishNode(n)

ProcessEnds(n) == ProcessExits(n) \/ StepTimesOut(n)

Signaller == CheckNode \/ SignalNode \/ SignalSent \/ SignalReturns \/ Resend

(* Run has returned. *)
Terminated == loop = "done" /\ UNCHANGED vars

Next ==
  \/ EventLoop
  \/ \E n \in Nodes : NodeStep(n) \/ ProcessEnds(n)
  \/ CtxExpires
  \/ StopRequest
  \/ Signaller
  \/ Terminated

Spec == Init /\ [][Next]_vars

(***************************************************************************)
(* Fairness.  The Go scheduler runs every goroutine that can run; sleeps   *)
(* and timers end.  A process that ends by itself is a property of the     *)
(* command: FairSpec assumes it, StubbornSpec only of one that got SIGKILL. *)
(***************************************************************************)
Scheduled ==
  /\ WF_vars(EventLoop)
  /\ \A n \in Nodes : WF_vars(NodeStep(n))
  /\ WF_vars(CheckNode \/ SignalNode \/ SignalSent \/ SignalReturns)
  /\ WF_vars(Resend /\ sig'.kind = "KILL")

FairSpec == Spec /\ Scheduled /\ \A n \in Nodes : WF_vars(ProcessEnds(n))

StubbornSpec == Spec /\ Scheduled /\ \A n \in Nodes : WF_vars(proc[n] = "killed" /\ ProcessEnds(n))

-----------------------------------------------------------------------------
(* Properties. *)

(* Every variable has its type. *)
TypeOK ==
  /\ status \in [Nodes -> NodeStatus]
  /\ pc \in [Nodes -> NodePc]
  /\ cmd \in [Nodes -> BOOLEAN]
  /\ proc \in [Nodes -> {"none", "alive", "termed", "killed"}]
  /\ exit \in [Nodes -> Outcome]
  /\ retryCount \in [Nodes -> Nat]
  /\ doneCount \in [Nodes -> Nat]
  /\ canceled \in BOOLEAN
  /\ lastError \in RunErrors
  /\ ctx \in {"live", "deadline", "seen"}
  /\ loop \in LoopPc
  /\ running \in Nat
  /\ accept \in BOOLEAN
  /\ readyCh \in Seq(Nodes)
  /\ doneCh \in Seq(Nodes)
  /\ visit \in Seq(Nodes)
  /\ todo \in Seq(HandlerType)
  /\ final \in RunStatus
  /\ planFinished \in BOOLEAN
  /\ sigPc \in {"idle", "send", "act", "wait", "returned"}
  /\ sig \in [kind : {"TERM", "KILL"}, override : BOOLEAN]
  /\ sigTodo \in Seq(Nodes)

(***************************************************************************)
(* A node is executed by one goroutine, once, although several parents     *)
(* that finish together put it into readyCh several times (the double      *)
(* check in the select of Runner.Run).                                     *)
(***************************************************************************)
NoRelaunch ==
  [][\A n \in Nodes : pc[n] \notin {"none", "prepare"} => pc'[n] # "prepare"]_vars

(* maxActiveSteps bounds the commands that run at the same time (Runner.Run counts goroutines). *)
MaxActive ==
  MaxActiveSteps > 0 => Cardinality({n \in Nodes : proc[n] # "none"}) <= MaxActiveSteps

(***************************************************************************)
(* A node is only started when every dependency ended in a way that lets   *)
(* it run, and none of them leaves that state while the node runs          *)
(* (isReady, called from the event loop while the parents still run).      *)
(***************************************************************************)
DepsHonoured ==
  \A n \in Nodes : pc[n] # "none" =>
    \A d \in Range(DependencyMap[n]) : Verdict(d) = "continue"

(***************************************************************************)
(* No lost wake-up: an uncanceled run leaves the event loop with every     *)
(* node started or decided, unless one waits for an approval or for a      *)
(* retry by the parent, and none runs behind wg.Wait.  It never takes the  *)
(* deadlock exit.                                                          *)
(***************************************************************************)
NoStranding ==
  loop \in {"wait", "status", "onWait", "handlers", "done"} /\ ~canceled =>
    /\ lastError # "deadlock"
    /\ Has("NotStarted") => Has("Waiting") \/ Has("Retrying")
    /\ loop # "wait" => ~Has("Running")

(***************************************************************************)
(* The status that chooses the handlers is backed by the nodes: a          *)
(* successful run has no node that failed without continueOn and none that *)
(* was aborted or not run; a failed run has a reason.                      *)
(***************************************************************************)
ReportSound ==
  /\ final \in {"Succeeded", "PartiallySucceeded"} =>
       \A n \in Nodes : \/ status[n] \in {"Succeeded", "PartiallySucceeded", "Skipped"}
                        \/ status[n] = "Failed" /\ ShouldContinue(n)
  /\ final = "Failed" =>
       \/ Has("Failed") \/ Has("Aborted")
       \/ lastError \in {"deadline", "handler"}

(* Handlers run after every step: no process of a step is left when they start. *)
HandlersAfterSteps ==
  loop \in {"onWait", "handlers", "done"} => \A n \in Nodes : proc[n] = "none"

(* A node behind a step with an approval does not start in the run that reaches the approval. *)
ApprovalGate ==
  \A n \in Nodes : pc[n] # "none" =>
    \A d \in Range(DependencyMap[n]) : Step[d].approval => Restored[d].status # "NotStarted"

(* A run whose commands end ends, with its handlers run. *)
Termination == <>(loop = "done")

(* A stop request ends the run, a node that repeats without limit included. *)
StopEnds == (sigPc # "idle") ~> (loop = "done")

(* A stop request ends every process. *)
StopReachesProcesses == (sigPc # "idle") ~> (\A n \in Nodes : proc[n] = "none")

(***************************************************************************)
(* A panic is settled before anyone relies on it: the done message of a    *)
(* node that panicked overtakes the deferred recoverNodePanic, but not     *)
(* wg.Done, so that behind wg.Wait of a run that was not canceled no node  *)
(* that was started is Running.  A canceled run may leave one so: an error *)
(* of a step that nobody signalled is handled without a new status.        *)
(***************************************************************************)
PanicSettled ==
  loop \in {"status", "onWait", "handlers", "done"} /\ ~canceled =>
    \A n \in Nodes : pc[n] # "none" => status[n] # "Running"

(***************************************************************************)
(* The strengthening that makes the safety theorems inductive.             *)
(***************************************************************************)
InFlight == {n \in Nodes : pc[n] \notin {"none", "recover", "finish", "exited"}}

Sent == {n \in Nodes : pc[n] \in {"recover", "finish", "exited"}}

(* The event loop's running counts the goroutines it has not heard from, each once. *)
CountInv ==
  /\ running = Cardinality(InFlight \union Range(doneCh))
  /\ Range(doneCh) \subseteq Sent
  /\ \A i, j \in DOMAIN doneCh : doneCh[i] = doneCh[j] => i = j

(* A started node never looks NotStarted again. *)
StartedInv == \A n \in Nodes : pc[n] # "none" => status[n] # "NotStarted"

(* The event loop and the signal routine have a node to look at where they look at one. *)
CursorInv ==
  /\ loop \in {"scan", "visit"} => visit # <<>>
  /\ sigPc = "act" => sigTodo # <<>>

(* A process exists only while its node waits for it. *)
ProcInv == \A n \in Nodes : proc[n] # "none" => pc[n] = "exec"

(* readyCh is only open while there is a free slot. *)
LimitInv ==
  MaxActiveSteps > 0 =>
    /\ running <= MaxActiveSteps
    /\ loop = "select" /\ accept => running < MaxActiveSteps

(* Behind wg.Wait no goroutine runs. *)
AwaitInv == loop \in {"status", "onWait", "handlers", "done"} => AllFinished

(***************************************************************************)
(* The loop's bookkeeping is exact: running, the done messages, the cursor *)
(* positions, the slots and the processes agree at every step of the event *)
(* loop, the node goroutines and the signal routine (Runner.Run).          *)
(***************************************************************************)
Bookkeeping == CountInv /\ StartedInv /\ CursorInv /\ ProcInv /\ LimitInv /\ AwaitInv
=============================================================================
