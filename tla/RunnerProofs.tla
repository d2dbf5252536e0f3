---------------------------- MODULE RunnerProofs ----------------------------
(***************************************************************************)
(* Proofs about Runner for every plan, every step configuration and every  *)
(* value of the limits.                                                    *)
(***************************************************************************)
EXTENDS Runner, FiniteSetTheorems, TLAPS

(* The inductive invariant. *)
IInv == TypeOK /\ Bookkeeping

(* Nodes is a finite set: it is the range of the sequence of nodes. *)
LEMMA NodesFinite == IsFiniteSet(Nodes)
<1>1. NodeSeq \in [1 .. Len(NodeSeq) -> Nodes] /\ Len(NodeSeq) \in Nat
  BY PlanAssumption
<1>2. IsFiniteSet(1 .. Len(NodeSeq))
  BY <1>1, FS_Interval
<1>3. \A n \in Nodes : \E i \in 1 .. Len(NodeSeq) : NodeSeq[i] = n
  BY <1>1 DEF Nodes, Range
<1>4. NodeSeq \in Surjection(1 .. Len(NodeSeq), Nodes)
  BY <1>1, <1>3 DEF Surjection
<1> QED
  BY <1>2, <1>4, FS_Surjection

(* The sequence operators the actions use keep sequences of S. *)
LEMMA SeqTypes ==
  ASSUME NEW S
  PROVE  /\ \A s \in Seq(S), x \in S : Append(s, x) \in Seq(S)
         /\ \A s \in Seq(S) : s # <<>> => Head(s) \in S /\ Tail(s) \in Seq(S)
         /\ \A s, t \in Seq(S) : s \o t \in Seq(S)
OBVIOUS

(* Writing one field of a function keeps its type. *)
LEMMA ExceptType ==
  ASSUME NEW S, NEW T, NEW f \in [S -> T], NEW a \in S, NEW v \in T
  PROVE  [f EXCEPT ![a] = v] \in [S -> T]
OBVIOUS

(* Init establishes the types of the variables. *)
LEMMA InitTypes == Init => TypeOK
<1> SUFFICES ASSUME Init PROVE TypeOK
  OBVIOUS
<1>1. /\ status \in [Nodes -> NodeStatus]
      /\ exit \in [Nodes -> Outcome]
      /\ retryCount \in [Nodes -> Nat]
  BY ConfigAssumption DEF Init, NodeState
<1>2. /\ pc \in [Nodes -> NodePc]
      /\ cmd \in [Nodes -> BOOLEAN]
      /\ proc \in [Nodes -> {"none", "alive", "termed", "killed"}]
      /\ doneCount \in [Nodes -> Nat]
  BY DEF Init, NodePc
<1>3. /\ canceled \in BOOLEAN /\ lastError \in RunErrors
      /\ ctx \in {"live", "deadline", "seen"} /\ loop \in LoopPc
      /\ running \in Nat /\ accept \in BOOLEAN
      /\ final \in RunStatus /\ planFinished \in BOOLEAN
  BY DEF Init, RunErrors, RunStatus, LoopPc
<1>4. /\ readyCh \in Seq(Nodes) /\ doneCh \in Seq(Nodes) /\ visit \in Seq(Nodes)
      /\ todo \in Seq(HandlerType) /\ sigTodo \in Seq(Nodes)
      /\ sigPc \in {"idle", "send", "act", "wait", "returned"}
      /\ sig \in [kind : {"TERM", "KILL"}, override : BOOLEAN]
  BY DEF Init
<1> QED
  BY <1>1, <1>2, <1>3, <1>4 DEF TypeOK

(* Steps of the event loop keep the types. *)
LEMMA EventLoopTypes ==
  ASSUME TypeOK, CursorInv, doneCh # <<>> => running > 0, EventLoop
  PROVE  TypeOK'
<1> USE PlanAssumption
<1>1. CASE EvalPreconditions
  BY <1>1 DEF EvalPreconditions, TypeOK, CursorInv, LoopTo, LoopPc, NodeStatus, nodeVars, chanVars, loopVars, sigVars
<1>2. CASE RunInitHandler
  BY <1>2 DEF RunInitHandler, TypeOK, CursorInv, LoopTo, LoopPc, RunErrors, nodeVars, chanVars, loopVars, sigVars
<1>3. CASE Scan
  <2>1. /\ Head(visit) \in Nodes /\ visit' \in Seq(Nodes) /\ loop' \in LoopPc
    BY <1>3, SeqTypes DEF Scan, TypeOK, CursorInv, LoopPc
  <2>2. readyCh' \in Seq(Nodes)
    <3>1. readyCh' = readyCh \/ readyCh' = Append(readyCh, Head(visit))
      BY <1>3 DEF Scan
    <3>2. readyCh \in Seq(Nodes)
      BY DEF TypeOK
    <3> QED
      BY <2>1, <3>1, <3>2, SeqTypes
  <2>3. status' \in [Nodes -> NodeStatus]
    BY <1>3, <2>1 DEF Scan, TypeOK, NodeStatus
  <2>4. UNCHANGED <<pc, cmd, proc, exit, retryCount, doneCount, canceled, lastError, ctx, doneCh,
                    running, accept, todo, final, planFinished, sigVars>>
    BY <1>3 DEF Scan
  <2> QED
    BY <2>1, <2>2, <2>3, <2>4 DEF TypeOK, sigVars
<1>4. CASE LoopHead
  BY <1>4 DEF LoopHead, TypeOK, CursorInv, LoopPc, nodeVars, chanVars, loopVars, sigVars
<1>5. CASE LoopDecide
  BY <1>5 DEF LoopDecide, TypeOK, CursorInv, LoopPc, RunErrors, nodeVars, chanVars, loopVars, sigVars
<1>6. CASE SelectReady
  <2>1. Head(readyCh) \in Nodes /\ readyCh' \in Seq(Nodes) /\ loop' \in LoopPc
    BY <1>6, SeqTypes DEF SelectReady, TypeOK, LoopTo, LoopPc
  <2>2. status' \in [Nodes -> NodeStatus]
    BY <1>6, <2>1 DEF SelectReady, TypeOK, NodeStatus
  <2>3. pc' \in [Nodes -> NodePc]
    BY <1>6, <2>1 DEF SelectReady, TypeOK, NodePc
  <2>5. running' \in Nat
    <3>1. running' = running \/ running' = running + 1
      BY <1>6 DEF SelectReady
    <3>2. running \in Nat
      BY DEF TypeOK
    <3> QED
      BY <3>1, <3>2
  <2>4. UNCHANGED <<cmd, proc, exit, retryCount, doneCount, canceled, lastError, ctx, doneCh,
                    accept, visit, todo, final, planFinished, sigVars>>
    BY <1>6 DEF SelectReady
  <2> QED
    BY <2>1, <2>2, <2>3, <2>4, <2>5 DEF TypeOK, sigVars
<1>7. CASE SelectDone
  <2>1. Head(doneCh) \in Nodes /\ doneCh' \in Seq(Nodes) /\ loop' \in LoopPc
    BY <1>7, SeqTypes DEF SelectDone, TypeOK, LoopPc
  <2>2. running' \in Nat /\ visit' \in Seq(Nodes)
    BY <1>7, <2>1 DEF SelectDone, TypeOK
  <2>3. UNCHANGED <<nodeVars, canceled, lastError, ctx, readyCh, accept, todo, final, planFinished,
                    sigVars>>
    BY <1>7 DEF SelectDone
  <2> QED
    BY <2>1, <2>2, <2>3 DEF TypeOK, nodeVars, sigVars
<1>8. CASE SelectCtxDone
  BY <1>8 DEF SelectCtxDone, TypeOK, CursorInv, LoopTo, LoopPc, RunErrors, nodeVars, chanVars, loopVars, sigVars
<1>9. CASE Visit
  <2>1. Head(visit) \in Nodes /\ Tail(visit) \in Seq(Nodes) /\ loop' \in LoopPc
    BY <1>9, SeqTypes DEF Visit, TypeOK, CursorInv, LoopPc
  <2>2. readyCh' \in Seq(Nodes)
    <3>1. readyCh' = readyCh \/ readyCh' = Append(readyCh, Head(visit))
      BY <1>9 DEF Visit
    <3>2. readyCh \in Seq(Nodes)
      BY DEF TypeOK
    <3> QED
      BY <2>1, <3>1, <3>2, SeqTypes
  <2>3. visit' \in Seq(Nodes)
    <3>1. \/ visit' = visit \/ visit' = Tail(visit)
          \/ visit' = Tail(visit) \o DependantMap[Head(visit)]
      BY <1>9 DEF Visit, QueuedDependents
    <3>2. DependantMap[Head(visit)] \in Seq(Nodes)
      BY <2>1
    <3>3. visit \in Seq(Nodes)
      BY DEF TypeOK
    <3> QED
      BY <2>1, <3>1, <3>2, <3>3, SeqTypes
  <2>4. status' \in [Nodes -> NodeStatus]
    BY <1>9, <2>1 DEF Visit, TypeOK, NodeStatus
  <2>5. UNCHANGED <<pc, cmd, proc, exit, retryCount, doneCount, canceled, lastError, ctx, doneCh,
                    running, accept, todo, final, planFinished, sigVars>>
    BY <1>9 DEF Visit
  <2> QED
    BY <2>1, <2>2, <2>3, <2>4, <2>5 DEF TypeOK, sigVars
<1>10. CASE WaitGroup
  BY <1>10 DEF WaitGroup, TypeOK, CursorInv, LoopTo, LoopPc, nodeVars, chanVars, loopVars, sigVars
<1>11. CASE ChooseHandlers
  <2>1. Status \in RunStatus /\ Event(Status) \in Seq(HandlerType)
    <3>1. Status \in RunStatus
      BY DEF Status, RunStatus
    <3>2. \A s \in RunStatus : Event(s) \in Seq(HandlerType)
      <4>1. \A s \in RunStatus : \/ Event(s) = <<>>
                                \/ \E h \in HandlerType : Event(s) = <<h>>
        BY DEF Event, HandlerType
      <4>2. <<>> \in Seq(HandlerType) /\ \A h \in HandlerType : <<h>> \in Seq(HandlerType)
        OBVIOUS
      <4> QED
        BY <4>1, <4>2
    <3> QED
      BY <3>1, <3>2
  <2>2. final' \in RunStatus /\ loop' \in LoopPc /\ planFinished' \in BOOLEAN
    BY <1>11, <2>1 DEF ChooseHandlers, LoopPc
  <2>3. todo' \in Seq(HandlerType)
    BY <1>11, <2>1, SeqTypes DEF ChooseHandlers, HandlerType
  <2>4. UNCHANGED <<nodeVars, canceled, lastError, ctx, chanVars, running, accept, visit, sigVars>>
    BY <1>11 DEF ChooseHandlers
  <2> QED
    BY <2>2, <2>3, <2>4 DEF TypeOK, nodeVars, chanVars, sigVars
<1>12. CASE RunWaitHandler
  BY <1>12 DEF RunWaitHandler, TypeOK, CursorInv, LoopTo, LoopPc, nodeVars, chanVars, loopVars, sigVars
<1>13. CASE RunHandler
  <2>1. todo' \in Seq(HandlerType) /\ lastError' \in RunErrors
    BY <1>13, SeqTypes DEF RunHandler, TypeOK, RunErrors
  <2>2. UNCHANGED <<nodeVars, canceled, ctx, chanVars, loop, running, accept, visit, final,
                    planFinished, sigVars>>
    BY <1>13 DEF RunHandler
  <2> QED
    BY <2>1, <2>2 DEF TypeOK, nodeVars, chanVars, sigVars
<1>14. CASE RunReturns
  BY <1>14 DEF RunReturns, TypeOK, CursorInv, LoopTo, LoopPc, nodeVars, chanVars, loopVars, sigVars
<1> QED
  BY <1>1, <1>2, <1>3, <1>4, <1>5, <1>6, <1>7, <1>8, <1>9, <1>10, <1>11, <1>12, <1>13, <1>14 DEF EventLoop

(* The variables a node goroutine writes, and those it leaves to the others. *)
WrittenTypes ==
  /\ status \in [Nodes -> NodeStatus]
  /\ pc \in [Nodes -> NodePc]
  /\ cmd \in [Nodes -> BOOLEAN]
  /\ proc \in [Nodes -> {"none", "alive", "termed", "killed"}]
  /\ exit \in [Nodes -> Outcome]
  /\ retryCount \in [Nodes -> Nat]
  /\ doneCount \in [Nodes -> Nat]
  /\ lastError \in RunErrors
  /\ doneCh \in Seq(Nodes)

(* A step that leaves the variables of the others alone only has to type its own. *)
LEMMA OwnTypes ==
  ASSUME TypeOK, Others, WrittenTypes'
  PROVE  TypeOK'
BY DEF TypeOK, Others, WrittenTypes, loopVars, sigVars

(* Every node is a value of lastError. *)
LEMMA ErrorTypes == NoError \in RunErrors /\ \A n \in Nodes : n \in RunErrors
BY DEF RunErrors

(* Steps of a node goroutine keep the types. *)
LEMMA NodeTypes ==
  ASSUME TypeOK, NEW n \in Nodes, NodeStep(n) \/ ProcessEnds(n)
  PROVE  TypeOK'
<1> SUFFICES Others /\ WrittenTypes'
  BY OwnTypes
<1> USE ErrorTypes
<1>0. WrittenTypes
  BY DEF TypeOK, WrittenTypes
<1>1. CASE PrepareNode(n)
  BY <1>0, <1>1 DEF PrepareNode, WrittenTypes, Goto, SetStatus, NodePc, NodeStatus
<1>2. CASE MeetsPreconditions(n)
  BY <1>0, <1>2 DEF MeetsPreconditions, WrittenTypes, Goto, SetStatus, NodePc, NodeStatus
<1>3. CASE ExecLoop(n)
  BY <1>0, <1>3 DEF ExecLoop, WrittenTypes, Goto, SetStatus, NodePc, NodeStatus
<1>4. CASE SetupExecutor(n)
  BY <1>0, <1>4 DEF SetupExecutor, WrittenTypes, Goto, SetStatus, NodePc, NodeStatus, Outcome
<1>5. CASE StartProcess(n)
  BY <1>0, <1>5 DEF StartProcess, WrittenTypes, Goto, SetStatus, NodePc, NodeStatus
<1>6. CASE RecordTimeout(n)
  BY <1>0, <1>6 DEF RecordTimeout, WrittenTypes, Goto, SetStatus, NodePc, NodeStatus, ExecuteReturns, Determined, Outcome
<1>7. CASE HandleError(n)
  <2>1. status' \in [Nodes -> NodeStatus]
    BY <1>0, <1>7 DEF HandleError, WrittenTypes, SetStatus, NodeStatus
  <2>2. pc' \in [Nodes -> NodePc]
    BY <1>0, <1>7 DEF HandleError, WrittenTypes, Goto, NodePc
  <2>3. retryCount' \in [Nodes -> Nat]
    <3>1. \/ retryCount' = retryCount
          \/ retryCount' = [retryCount EXCEPT ![n] = retryCount[n] + 1]
      BY <1>7 DEF HandleError, CountRetry
    <3> QED
      <4>1. retryCount \in [Nodes -> Nat] /\ retryCount[n] \in Nat /\ retryCount[n] + 1 \in Nat
        BY <1>0 DEF WrittenTypes
      <4> QED
        BY <3>1, <4>1, ExceptType
  <2>4. lastError' \in RunErrors
    BY <1>0, <1>7 DEF HandleError, WrittenTypes
  <2>5. Others /\ UNCHANGED <<cmd, proc, exit, doneCount, doneCh>>
    BY <1>7 DEF HandleError
  <2> QED
    BY <1>0, <2>1, <2>2, <2>3, <2>4, <2>5 DEF WrittenTypes
<1>8. CASE RetryWakes(n)
  BY <1>0, <1>8 DEF RetryWakes, WrittenTypes, Goto, SetStatus, NodePc, NodeStatus
<1>9. CASE AfterExecution(n)
  <2>1. status' \in [Nodes -> NodeStatus]
    BY <1>0, <1>9 DEF AfterExecution, WrittenTypes, SetStatus, NodeStatus
  <2>2. pc' \in [Nodes -> NodePc]
    BY <1>0, <1>9 DEF AfterExecution, WrittenTypes, Goto, NodePc
  <2>3. doneCount' \in [Nodes -> Nat]
    <3>1. \/ doneCount' = doneCount
          \/ doneCount' = [doneCount EXCEPT ![n] = doneCount[n] + 1]
          \/ doneCount' = [doneCount EXCEPT ![n] = doneCount[n]]
      BY <1>9 DEF AfterExecution
    <3> QED
      <4>1. doneCount \in [Nodes -> Nat] /\ doneCount[n] \in Nat /\ doneCount[n] + 1 \in Nat
        BY <1>0 DEF WrittenTypes
      <4> QED
        BY <3>1, <4>1, ExceptType
  <2>4. Others /\ UNCHANGED <<cmd, proc, exit, retryCount, lastError, doneCh>>
    BY <1>9 DEF AfterExecution
  <2> QED
    BY <1>0, <2>1, <2>2, <2>3, <2>4 DEF WrittenTypes
<1>10. CASE ClearError(n)
  BY <1>0, <1>10 DEF ClearError, WrittenTypes, Goto, SetStatus, NodePc, NodeStatus
<1>11. CASE ChooseStatus(n)
  BY <1>0, <1>11 DEF ChooseStatus, WrittenTypes, Goto, SetStatus, NodePc, NodeStatus
<1>12. CASE SettleStatus(n)
  BY <1>0, <1>12 DEF SettleStatus, WrittenTypes, Goto, SetStatus, NodePc, NodeStatus
<1>13. CASE TeardownNode(n)
  BY <1>0, <1>13 DEF TeardownNode, WrittenTypes, Goto, SetStatus, NodePc, NodeStatus
<1>14. CASE SendDone(n)
  BY <1>0, <1>14, SeqTypes DEF SendDone, WrittenTypes, Goto, NodePc
<1>15. CASE RecoverNodePanic(n)
  BY <1>0, <1>15 DEF RecoverNodePanic, WrittenTypes, Goto, SetStatus, NodePc, NodeStatus
<1>16. CASE FinishNode(n)
  BY <1>0, <1>16 DEF FinishNode, WrittenTypes, Goto, SetStatus, NodePc, NodeStatus
<1>17. CASE ProcessExits(n)
  <2>1. status' \in [Nodes -> NodeStatus]
    BY <1>0, <1>17 DEF ProcessExits, WrittenTypes, ExecuteReturns, Determined, SetStatus, NodeStatus
  <2>2. pc' \in [Nodes -> NodePc]
    BY <1>0, <1>17 DEF ProcessExits, WrittenTypes, Goto, NodePc
  <2>3. exit' \in [Nodes -> Outcome]
    BY <1>0, <1>17 DEF ProcessExits, WrittenTypes, ExecuteReturns
  <2>4. proc' \in [Nodes -> {"none", "alive", "termed", "killed"}]
    BY <1>0, <1>17 DEF ProcessExits, WrittenTypes
  <2>5. Others /\ UNCHANGED <<cmd, retryCount, doneCount, lastError, doneCh>>
    BY <1>17 DEF ProcessExits
  <2> QED
    BY <1>0, <2>1, <2>2, <2>3, <2>4, <2>5 DEF WrittenTypes
<1>18. CASE StepTimesOut(n)
  BY <1>0, <1>18 DEF StepTimesOut, WrittenTypes, Goto, SetStatus, NodePc, NodeStatus
<1> QED
  BY <1>1, <1>2, <1>3, <1>4, <1>5, <1>6, <1>7, <1>8, <1>9, <1>10, <1>11, <1>12, <1>13, <1>14, <1>15, <1>16, <1>17, <1>18 DEF NodeStep, ProcessEnds

(* Steps of the signal routine keep the types. *)
LEMMA SignalTypes ==
  ASSUME TypeOK, CursorInv, StopRequest \/ Signaller
  PROVE  TypeOK'
<1> USE PlanAssumption
<1>1. CASE StopRequest
  <2>1. canceled' \in BOOLEAN /\ sigPc' = "send" /\ sigTodo' \in Seq(Nodes)
    BY <1>1 DEF StopRequest, CanceledFirst
  <2>2. sig' \in [kind : {"TERM", "KILL"}, override : BOOLEAN]
    BY <1>1 DEF StopRequest
  <2>3. UNCHANGED <<nodeVars, lastError, ctx, chanVars, loopVars>>
    BY <1>1 DEF StopRequest
  <2> QED
    BY <2>1, <2>2, <2>3 DEF TypeOK, nodeVars, chanVars, loopVars
<1>2. CASE CheckNode
  <2>1. sigTodo' \in Seq(Nodes) /\ sigPc' \in {"act", "send"}
    <3>1. sigTodo' = sigTodo \/ sigTodo' = Tail(sigTodo)
      BY <1>2 DEF CheckNode
    <3>2. sigTodo # <<>> /\ sigPc' \in {"act", "send"}
      BY <1>2 DEF CheckNode
    <3>3. sigTodo \in Seq(Nodes)
      BY DEF TypeOK
    <3> QED
      BY <3>1, <3>2, <3>3, SeqTypes
  <2>2. UNCHANGED <<nodeVars, canceled, lastError, ctx, chanVars, loopVars, sig>>
    BY <1>2 DEF CheckNode
  <2> QED
    BY <2>1, <2>2 DEF TypeOK, nodeVars, chanVars, loopVars
<1>3. CASE SignalNode
  <2>1. Head(sigTodo) \in Nodes /\ sigTodo' \in Seq(Nodes) /\ sigPc' = "send"
    BY <1>3, SeqTypes DEF SignalNode, TypeOK, CursorInv, SigTo
  <2>2. status' \in [Nodes -> NodeStatus]
    BY <1>3, <2>1 DEF SignalNode, TypeOK, SetStatus, NodeStatus
  <2>3. proc' \in [Nodes -> {"none", "alive", "termed", "killed"}]
    BY <1>3, <2>1 DEF SignalNode, TypeOK
  <2>4. UNCHANGED <<pc, cmd, exit, retryCount, doneCount, canceled, lastError, ctx, chanVars, loopVars,
                    sig>>
    BY <1>3 DEF SignalNode
  <2> QED
    BY <2>1, <2>2, <2>3, <2>4 DEF TypeOK, chanVars, loopVars
<1>4. CASE SignalSent
  BY <1>4 DEF SignalSent, TypeOK, CursorInv, SigTo, SetStatus, NodeStatus, nodeVars, chanVars, loopVars, sigVars
<1>5. CASE SignalReturns
  BY <1>5 DEF SignalReturns, TypeOK, CursorInv, SigTo, SetStatus, NodeStatus, nodeVars, chanVars, loopVars, sigVars
<1>6. CASE Resend
  BY <1>6 DEF Resend, TypeOK, CursorInv, SigTo, SetStatus, NodeStatus, nodeVars, chanVars, loopVars, sigVars
<1> QED
  BY <1>1, <1>2, <1>3, <1>4, <1>5, <1>6 DEF Signaller

-----------------------------------------------------------------------------
(* The bookkeeping of the event loop. *)

(* The stations of a goroutine between its start and its done message. *)
Active == NodePc \ {"none", "recover", "finish", "exited"}

(* What a node goroutine may do to its station, to doneCh, to its status and to its process. *)
LEMMA NodeSummary ==
  ASSUME TypeOK, StartedInv, ProcInv, NEW n \in Nodes, NodeStep(n) \/ ProcessEnds(n)
  PROVE  /\ Others
         /\ pc[n] # "none"
         /\ \A m \in Nodes \ {n} : pc'[m] = pc[m] /\ status'[m] = status[m] /\ proc'[m] = proc[m]
         /\ \/ doneCh' = doneCh /\ pc[n] \in Active /\ pc'[n] \in Active
            \/ /\ doneCh' = doneCh
               /\ pc[n] \in {"recover", "finish"} /\ pc'[n] \in {"finish", "exited"}
            \/ /\ doneCh' = Append(doneCh, n)
               /\ pc[n] \in {"send", "panic"} /\ pc'[n] \in {"recover", "finish"}
         /\ status'[n] # "NotStarted"
         /\ proc'[n] # "none" => pc'[n] = "exec"
<1> DEFINE Goal ==
         /\ Others
         /\ pc[n] # "none"
         /\ \A m \in Nodes \ {n} : pc'[m] = pc[m] /\ status'[m] = status[m] /\ proc'[m] = proc[m]
         /\ \/ doneCh' = doneCh /\ pc[n] \in Active /\ pc'[n] \in Active
            \/ /\ doneCh' = doneCh
               /\ pc[n] \in {"recover", "finish"} /\ pc'[n] \in {"finish", "exited"}
            \/ /\ doneCh' = Append(doneCh, n)
               /\ pc[n] \in {"send", "panic"} /\ pc'[n] \in {"recover", "finish"}
         /\ status'[n] # "NotStarted"
         /\ proc'[n] # "none" => pc'[n] = "exec"
<1> SUFFICES Goal
  OBVIOUS
<1>0. /\ status \in [Nodes -> NodeStatus] /\ pc \in [Nodes -> NodePc]
      /\ proc \in [Nodes -> {"none", "alive", "termed", "killed"}]
      /\ pc[n] # "none" => status[n] # "NotStarted"
      /\ proc[n] # "none" => pc[n] = "exec"
  BY DEF TypeOK, StartedInv, ProcInv
<1>1. CASE PrepareNode(n)
  BY <1>0, <1>1 DEF PrepareNode, Goto, SetStatus, Active, NodePc
<1>2. CASE MeetsPreconditions(n)
  BY <1>0, <1>2 DEF MeetsPreconditions, Goto, SetStatus, Active, NodePc
<1>3. CASE ExecLoop(n)
  BY <1>0, <1>3 DEF ExecLoop, Goto, SetStatus, Active, NodePc
<1>4. CASE SetupExecutor(n)
  BY <1>0, <1>4 DEF SetupExecutor, Goto, SetStatus, Active, NodePc
<1>5. CASE StartProcess(n)
  BY <1>0, <1>5 DEF StartProcess, Goto, SetStatus, Active, NodePc
<1>6. CASE RecordTimeout(n)
  BY <1>0, <1>6 DEF RecordTimeout, Goto, SetStatus, Active, NodePc, ExecuteReturns, Determined
<1>7. CASE HandleError(n)
  BY <1>0, <1>7 DEF HandleError, Goto, SetStatus, Active, NodePc
<1>8. CASE RetryWakes(n)
  BY <1>0, <1>8 DEF RetryWakes, Goto, SetStatus, Active, NodePc
<1>9. CASE AfterExecution(n)
  BY <1>0, <1>9 DEF AfterExecution, Goto, SetStatus, Active, NodePc
<1>10. CASE ClearError(n)
  BY <1>0, <1>10 DEF ClearError, Goto, SetStatus, Active, NodePc
<1>11. CASE ChooseStatus(n)
  BY <1>0, <1>11 DEF ChooseStatus, Goto, SetStatus, Active, NodePc
<1>12. CASE SettleStatus(n)
  BY <1>0, <1>12 DEF SettleStatus, Goto, SetStatus, Active, NodePc
<1>13. CASE TeardownNode(n)
  BY <1>0, <1>13 DEF TeardownNode, Goto, SetStatus, Active, NodePc
<1>14. CASE SendDone(n)
  BY <1>0, <1>14 DEF SendDone, Goto, SetStatus, Active, NodePc
<1>15. CASE RecoverNodePanic(n)
  BY <1>0, <1>15 DEF RecoverNodePanic, Goto, SetStatus, Active, NodePc
<1>16. CASE FinishNode(n)
  BY <1>0, <1>16 DEF FinishNode, Goto, SetStatus, Active, NodePc
<1>17. CASE ProcessExits(n)
  BY <1>0, <1>17 DEF ProcessExits, Goto, SetStatus, Active, NodePc, ExecuteReturns, Determined
<1>18. CASE StepTimesOut(n)
  BY <1>0, <1>18 DEF StepTimesOut, Goto, SetStatus, Active, NodePc
<1> QED
  BY <1>1, <1>2, <1>3, <1>4, <1>5, <1>6, <1>7, <1>8, <1>9, <1>10, <1>11, <1>12, <1>13, <1>14, <1>15, <1>16, <1>17, <1>18
    DEF NodeStep, ProcessEnds

(* What Append and Tail do to the elements of a sequence. *)
LEMMA RangeFacts ==
  ASSUME NEW S, NEW s \in Seq(S)
  PROVE  /\ Range(s) \subseteq S
         /\ \A x \in S : Range(Append(s, x)) = Range(s) \union {x}
         /\ s # <<>> => Head(s) \in Range(s) /\ Range(s) = {Head(s)} \union Range(Tail(s))
<1>1. Range(s) \subseteq S
  BY DEF Range
<1>2. ASSUME NEW x \in S PROVE Range(Append(s, x)) = Range(s) \union {x}
  <2>1. /\ DOMAIN Append(s, x) = 1 .. Len(s) + 1
        /\ Append(s, x)[Len(s) + 1] = x
        /\ \A i \in 1 .. Len(s) : Append(s, x)[i] = s[i]
        /\ DOMAIN s = 1 .. Len(s) /\ Len(s) \in Nat
    OBVIOUS
  <2>2. \A i \in 1 .. Len(s) + 1 : i \in 1 .. Len(s) \/ i = Len(s) + 1
    BY <2>1
  <2>3. 1 .. Len(s) \subseteq 1 .. Len(s) + 1 /\ Len(s) + 1 \in 1 .. Len(s) + 1
    BY <2>1
  <2> QED
    BY <2>1, <2>2, <2>3 DEF Range
<1>3. ASSUME s # <<>> PROVE Head(s) \in Range(s) /\ Range(s) = {Head(s)} \union Range(Tail(s))
  <2>1. /\ DOMAIN s = 1 .. Len(s) /\ Len(s) \in Nat /\ Len(s) >= 1 /\ Head(s) = s[1]
        /\ DOMAIN Tail(s) = 1 .. Len(s) - 1
        /\ \A i \in 1 .. Len(s) - 1 : Tail(s)[i] = s[i + 1]
    BY <1>3
  <2>2. \A i \in 1 .. Len(s) : i = 1 \/ (i - 1 \in 1 .. Len(s) - 1 /\ s[i] = Tail(s)[i - 1])
    BY <2>1
  <2>3. \A i \in 1 .. Len(s) - 1 : i + 1 \in 1 .. Len(s)
    BY <2>1
  <2>4. 1 \in 1 .. Len(s) /\ Head(s) \in Range(s)
    BY <2>1 DEF Range
  <2>5. ASSUME NEW x \in Range(s), x # Head(s) PROVE x \in Range(Tail(s))
    <3>1. PICK i \in 1 .. Len(s) : s[i] = x
      BY <2>1 DEF Range
    <3>2. i - 1 \in DOMAIN Tail(s) /\ Tail(s)[i - 1] = x
      BY <2>1, <2>2, <2>5, <3>1
    <3> QED
      BY <3>2 DEF Range
  <2>6. \A x \in Range(Tail(s)) : x \in Range(s)
    BY <2>1, <2>3 DEF Range
  <2> QED
    BY <2>4, <2>5, <2>6
<1> QED
  BY <1>1, <1>2, <1>3

(* No two places of a sequence hold the same element. *)
Distinct(s) == \A i, j \in DOMAIN s : s[i] = s[j] => i = j

(* Append of a new element and Tail keep a sequence without duplicates. *)
LEMMA DistinctFacts ==
  ASSUME NEW S, NEW s \in Seq(S), Distinct(s)
  PROVE  /\ \A x \in S : x \notin Range(s) => Distinct(Append(s, x))
         /\ s # <<>> => Distinct(Tail(s)) /\ Head(s) \notin Range(Tail(s))
<1>1. ASSUME NEW x \in S, x \notin Range(s) PROVE Distinct(Append(s, x))
  <2>1. /\ DOMAIN Append(s, x) = 1 .. Len(s) + 1
        /\ Append(s, x)[Len(s) + 1] = x
        /\ \A i \in 1 .. Len(s) : Append(s, x)[i] = s[i]
        /\ DOMAIN s = 1 .. Len(s) /\ Len(s) \in Nat
    OBVIOUS
  <2>2. \A i \in 1 .. Len(s) + 1 : i \in 1 .. Len(s) \/ i = Len(s) + 1
    BY <2>1
  <2>3. \A i \in 1 .. Len(s) : s[i] # x
    BY <1>1, <2>1 DEF Range
  <2> QED
    BY <2>1, <2>2, <2>3 DEF Distinct
<1>2. ASSUME s # <<>> PROVE Distinct(Tail(s)) /\ Head(s) \notin Range(Tail(s))
  <2>1. /\ DOMAIN s = 1 .. Len(s) /\ Len(s) \in Nat /\ Len(s) >= 1 /\ Head(s) = s[1]
        /\ DOMAIN Tail(s) = 1 .. Len(s) - 1
        /\ \A i \in 1 .. Len(s) - 1 : Tail(s)[i] = s[i + 1]
    BY <1>2
  <2>2. \A i \in 1 .. Len(s) - 1 : i + 1 \in 1 .. Len(s) /\ i + 1 # 1
    BY <2>1
  <2>3. \A i, j \in 1 .. Len(s) - 1 : i + 1 = j + 1 => i = j
    BY <2>1
  <2>4. 1 \in 1 .. Len(s)
    BY <2>1
  <2>5. \A i \in 1 .. Len(s) - 1 : Tail(s)[i] # Head(s)
    BY <2>1, <2>2, <2>4 DEF Distinct
  <2>6. \A i, j \in 1 .. Len(s) - 1 : Tail(s)[i] = Tail(s)[j] => i = j
    BY <2>1, <2>2, <2>3 DEF Distinct
  <2>7. Distinct(Tail(s))
    BY <2>1, <2>6 DEF Distinct
  <2>8. Head(s) \notin Range(Tail(s))
    BY <2>1, <2>5 DEF Range
  <2> QED
    BY <2>7, <2>8
<1> QED
  BY <1>1, <1>2

(* The nodes the event loop has not heard from. *)
Pending == InFlight \union Range(doneCh)

(* Pending is a finite set of nodes. *)
LEMMA PendingFinite ==
  ASSUME TypeOK
  PROVE  IsFiniteSet(Pending) /\ Cardinality(Pending) \in Nat
<1>1. Pending \subseteq Nodes
  BY RangeFacts DEF Pending, InFlight, TypeOK
<1> QED
  BY <1>1, NodesFinite, FS_Subset, FS_CardinalityType

(* A done message stands for a running node. *)
LEMMA DoneMeansRunning ==
  ASSUME TypeOK, CountInv
  PROVE  doneCh # <<>> => running > 0
<1> SUFFICES ASSUME doneCh # <<>> PROVE running > 0
  OBVIOUS
<1>1. Pending # {}
  BY RangeFacts DEF Pending, TypeOK
<1>2. running = Cardinality(Pending)
  BY DEF CountInv, Pending
<1> QED
  BY <1>1, <1>2, PendingFinite, FS_EmptySet

(* A step that leaves the goroutines, doneCh and running alone keeps CountInv. *)
LEMMA CountUnchanged ==
  ASSUME CountInv, UNCHANGED <<pc, doneCh, running>>
  PROVE  CountInv'
BY DEF CountInv, InFlight, Sent

(* SelectReady starts a node nobody started: one more goroutine to hear from. *)
LEMMA CountSelectReady ==
  ASSUME TypeOK, CountInv, StartedInv, SelectReady
  PROVE  CountInv'
<1>0. Head(readyCh) \in Nodes /\ doneCh' = doneCh
  BY SeqTypes DEF SelectReady, TypeOK
<1>1. CASE ~Startable(Head(readyCh))
  <2>1. UNCHANGED <<pc, doneCh, running>>
    BY <1>1 DEF SelectReady
  <2> QED
    BY <2>1, CountUnchanged
<1>2. CASE Startable(Head(readyCh))
  <2> DEFINE n == Head(readyCh)
  <2>1. /\ pc[n] = "none" /\ pc' = [pc EXCEPT ![n] = "prepare"]
        /\ running' = running + 1
    BY <1>0, <1>2 DEF SelectReady, Startable, StartedInv
  <2>2. InFlight' = InFlight \union {n}
    BY <1>0, <2>1 DEF InFlight, TypeOK
  <2>3. Sent' = Sent /\ n \notin Sent
    BY <1>0, <2>1 DEF Sent, TypeOK
  <2>4. n \notin Pending /\ Pending' = Pending \union {n}
    BY <1>0, <2>1, <2>2, <2>3 DEF Pending, CountInv, InFlight
  <2>5. Cardinality(Pending') = Cardinality(Pending) + 1
    BY <2>4, PendingFinite, FS_AddElement
  <2> QED
    BY <1>0, <2>1, <2>3, <2>5 DEF CountInv, Pending
<1> QED
  BY <1>1, <1>2

(* SelectDone hears from one goroutine; its message was the only one of that node. *)
LEMMA CountSelectDone ==
  ASSUME TypeOK, CountInv, SelectDone
  PROVE  CountInv'
<1> DEFINE n == Head(doneCh)
<1>1. /\ doneCh # <<>> /\ doneCh \in Seq(Nodes) /\ doneCh' = Tail(doneCh)
      /\ running' = running - 1 /\ pc' = pc
  BY DEF SelectDone, TypeOK, nodeVars
<1>2. Distinct(doneCh)
  BY DEF CountInv, Distinct
<1>3. /\ n \in Range(doneCh) /\ Range(doneCh) = {n} \union Range(doneCh')
      /\ n \notin Range(doneCh') /\ Distinct(doneCh')
  <2>1. n \in Range(doneCh) /\ Range(doneCh) = {n} \union Range(Tail(doneCh))
    BY <1>1, RangeFacts
  <2>2. n \notin Range(Tail(doneCh)) /\ Distinct(Tail(doneCh))
    BY <1>1, <1>2, DistinctFacts
  <2> QED
    BY <1>1, <2>1, <2>2
<1>4. n \in Sent /\ n \notin InFlight /\ InFlight' = InFlight /\ Sent' = Sent
  BY <1>1, <1>3 DEF CountInv, Sent, InFlight
<1>5. n \in Pending /\ Pending' = Pending \ {n}
  BY <1>3, <1>4 DEF Pending
<1>6. Cardinality(Pending') = Cardinality(Pending) - 1
  BY <1>5, PendingFinite, FS_RemoveElement
<1> QED
  BY <1>1, <1>3, <1>4, <1>6 DEF CountInv, Pending, Distinct

(* A node goroutine leaves the number of goroutines to hear from alone. *)
LEMMA CountNode ==
  ASSUME TypeOK, CountInv, StartedInv, ProcInv, NEW n \in Nodes, NodeStep(n) \/ ProcessEnds(n)
  PROVE  CountInv'
<1>1. running' = running /\ pc' \in [Nodes -> NodePc] /\ pc \in [Nodes -> NodePc]
  BY NodeSummary, NodeTypes DEF Others, loopVars, TypeOK
<1>2. \A m \in Nodes \ {n} : pc'[m] = pc[m]
  BY NodeSummary
<1>3. CASE doneCh' = doneCh /\ pc[n] \in Active /\ pc'[n] \in Active
  <2>1. InFlight' = InFlight /\ Sent' = Sent
    BY <1>1, <1>2, <1>3 DEF InFlight, Sent, Active
  <2> QED
    BY <1>1, <1>3, <2>1 DEF CountInv
<1>4. CASE doneCh' = doneCh /\ pc[n] \in {"recover", "finish"} /\ pc'[n] \in {"finish", "exited"}
  <2>1. InFlight' = InFlight /\ Sent' = Sent
    BY <1>1, <1>2, <1>4 DEF InFlight, Sent
  <2> QED
    BY <1>1, <1>4, <2>1 DEF CountInv
<1>5. CASE /\ doneCh' = Append(doneCh, n)
           /\ pc[n] \in {"send", "panic"} /\ pc'[n] \in {"recover", "finish"}
  <2>1. n \in InFlight /\ n \notin Sent /\ InFlight' = InFlight \ {n} /\ Sent' = Sent \union {n}
    BY <1>1, <1>2, <1>5 DEF InFlight, Sent
  <2>2. doneCh \in Seq(Nodes) /\ Distinct(doneCh) /\ n \notin Range(doneCh)
    BY <2>1 DEF CountInv, Distinct, TypeOK
  <2>3. Range(doneCh') = Range(doneCh) \union {n} /\ Distinct(doneCh')
    <3>1. Range(Append(doneCh, n)) = Range(doneCh) \union {n}
      BY <2>2, RangeFacts
    <3>2. Distinct(Append(doneCh, n))
      BY <2>2, DistinctFacts
    <3> QED
      BY <1>5, <3>1, <3>2
  <2>4. Pending' = Pending
    BY <2>1, <2>3 DEF Pending
  <2> QED
    BY <1>1, <2>1, <2>3, <2>4 DEF CountInv, Pending, Distinct
<1> QED
  BY <1>3, <1>4, <1>5, NodeSummary

(* Steps of the event loop keep the bookkeeping. *)
LEMMA EventLoopKeeps ==
  ASSUME TypeOK, Bookkeeping, EventLoop
  PROVE  Bookkeeping'
<1>0. CountInv /\ StartedInv /\ CursorInv /\ ProcInv /\ LimitInv /\ AwaitInv
  BY DEF Bookkeeping
<1>1. CountInv'
  <2>1. CASE SelectReady
    BY <1>0, <2>1, CountSelectReady
  <2>2. CASE SelectDone
    BY <1>0, <2>2, CountSelectDone
  <2>3. CASE ~SelectReady /\ ~SelectDone
    <3>1. UNCHANGED <<pc, doneCh, running>>
      BY <2>3 DEF EventLoop, EvalPreconditions, RunInitHandler, Scan, LoopHead, LoopDecide,
                  SelectCtxDone, Visit, WaitGroup, ChooseHandlers, RunWaitHandler, RunHandler,
                  RunReturns, nodeVars, chanVars
    <3> QED
      BY <1>0, <3>1, CountUnchanged
  <2> QED
    BY <2>1, <2>2, <2>3
<1>2. StartedInv'
  <2>1. /\ status \in [Nodes -> NodeStatus] /\ pc \in [Nodes -> NodePc]
        /\ \A n \in Nodes : pc[n] # "none" => status[n] # "NotStarted"
    BY <1>0 DEF TypeOK, StartedInv
  <2>2. CASE EvalPreconditions
    BY <2>1, <2>2 DEF EvalPreconditions, StartedInv
  <2>3. CASE Scan
    <3>1. Head(visit) \in Nodes
      BY <1>0, <2>3, SeqTypes DEF Scan, TypeOK, CursorInv
    <3> QED
      BY <2>1, <2>3, <3>1 DEF Scan, StartedInv
  <2>4. CASE SelectReady
    <3>1. Head(readyCh) \in Nodes
      BY <2>4, SeqTypes DEF SelectReady, TypeOK
    <3> QED
      BY <2>1, <2>4, <3>1 DEF SelectReady, StartedInv
  <2>5. CASE Visit
    <3>1. Head(visit) \in Nodes
      BY <1>0, <2>5, SeqTypes DEF Visit, TypeOK, CursorInv
    <3> QED
      BY <2>1, <2>5, <3>1 DEF Visit, StartedInv
  <2>6. CASE ~EvalPreconditions /\ ~Scan /\ ~SelectReady /\ ~Visit
    <3>1. UNCHANGED <<pc, status>>
      BY <2>6 DEF EventLoop, RunInitHandler, LoopHead, LoopDecide, SelectDone,
                  SelectCtxDone, WaitGroup, ChooseHandlers, RunWaitHandler, RunHandler,
                  RunReturns, nodeVars
    <3> QED
      BY <2>1, <3>1 DEF StartedInv
  <2> QED
    BY <2>2, <2>3, <2>4, <2>5, <2>6
<1>3. CursorInv'
  <2>1. UNCHANGED sigVars
    BY DEF EventLoop, EvalPreconditions, RunInitHandler, Scan, LoopHead, LoopDecide, SelectReady,
           SelectDone, SelectCtxDone, Visit, WaitGroup, ChooseHandlers, RunWaitHandler, RunHandler,
           RunReturns
  <2>2. loop' \in {"scan", "visit"} => visit' # <<>>
    BY <1>0 DEF EventLoop, EvalPreconditions, RunInitHandler, Scan, LoopHead, LoopDecide,
           SelectReady, SelectDone, SelectCtxDone, Visit, WaitGroup, ChooseHandlers,
           RunWaitHandler, RunHandler, RunReturns, LoopTo, CursorInv
  <2> QED
    BY <1>0, <2>1, <2>2 DEF CursorInv, sigVars
<1>4. ProcInv'
  <2>1. CASE SelectReady
    <3>1. Head(readyCh) \in Nodes /\ proc' = proc
      BY <2>1, SeqTypes DEF SelectReady, TypeOK
    <3>2. CASE Startable(Head(readyCh))
      <4>1. pc[Head(readyCh)] = "none" /\ pc' = [pc EXCEPT ![Head(readyCh)] = "prepare"]
        BY <1>0, <2>1, <3>1, <3>2 DEF SelectReady, Startable, StartedInv
      <4> QED
        BY <1>0, <3>1, <4>1 DEF ProcInv, TypeOK
    <3>3. CASE ~Startable(Head(readyCh))
      BY <1>0, <2>1, <3>1, <3>3 DEF SelectReady, ProcInv
    <3> QED
      BY <3>2, <3>3
  <2>2. CASE ~SelectReady
    <3>1. UNCHANGED <<pc, proc>>
      BY <2>2 DEF EventLoop, EvalPreconditions, RunInitHandler, Scan, LoopHead, LoopDecide,
                  SelectDone, SelectCtxDone, Visit, WaitGroup, ChooseHandlers, RunWaitHandler,
                  RunHandler, RunReturns, nodeVars
    <3> QED
      BY <1>0, <3>1 DEF ProcInv
  <2> QED
    BY <2>1, <2>2
<1>5. LimitInv'
  <2> SUFFICES ASSUME MaxActiveSteps > 0
               PROVE  running' <= MaxActiveSteps /\ (loop' = "select" /\ accept' => running' < MaxActiveSteps)
    BY DEF LimitInv
  <2>0. /\ running \in Nat /\ MaxActiveSteps \in Nat /\ running <= MaxActiveSteps
        /\ loop = "select" /\ accept => running < MaxActiveSteps
    BY <1>0, ConfigAssumption DEF LimitInv, TypeOK
  <2>1. CASE SelectReady
    <3>1. loop = "select" /\ accept /\ loop' = "head" /\ running' \in {running, running + 1}
      BY <2>1 DEF SelectReady, LoopTo
    <3> QED
      BY <2>0, <3>1
  <2>2. CASE SelectDone
    BY <2>0, <2>2 DEF SelectDone
  <2>3. CASE LoopDecide
    <3>1. running' = running /\ (accept' => SlotFree)
      BY <2>3 DEF LoopDecide
    <3>2. SlotFree => running < MaxActiveSteps
      BY <2>0 DEF SlotFree
    <3> QED
      BY <2>0, <3>1, <3>2
  <2>4. CASE ~SelectReady /\ ~SelectDone /\ ~LoopDecide
    <3>1. running' = running /\ loop' # "select"
      BY <2>4 DEF EventLoop, EvalPreconditions, RunInitHandler, Scan, LoopHead, SelectCtxDone,
                  Visit, WaitGroup, ChooseHandlers, RunWaitHandler, RunHandler, RunReturns, LoopTo
    <3> QED
      BY <2>0, <3>1
  <2> QED
    BY <2>1, <2>2, <2>3, <2>4
<1>6. AwaitInv'
  <2>1. CASE SelectReady
    BY <2>1 DEF SelectReady, LoopTo, AwaitInv
  <2>2. CASE ~SelectReady
    <3>1. pc' = pc
      BY <2>2 DEF EventLoop, EvalPreconditions, RunInitHandler, Scan, LoopHead, LoopDecide,
                  SelectDone, SelectCtxDone, Visit, WaitGroup, ChooseHandlers, RunWaitHandler,
                  RunHandler, RunReturns, nodeVars
    <3>2. loop' \in {"status", "onWait", "handlers", "done"} =>
            loop \in {"status", "onWait", "handlers"} \/ AllFinished
      BY <2>2 DEF EventLoop, EvalPreconditions, RunInitHandler, Scan, LoopHead, LoopDecide,
                  SelectDone, SelectCtxDone, Visit, WaitGroup, ChooseHandlers, RunWaitHandler,
                  RunHandler, RunReturns, LoopTo
    <3> QED
      BY <1>0, <3>1, <3>2 DEF AwaitInv, AllFinished
  <2> QED
    BY <2>1, <2>2
<1> QED
  BY <1>1, <1>2, <1>3, <1>4, <1>5, <1>6 DEF Bookkeeping

(* Steps of a node goroutine keep the bookkeeping. *)
LEMMA NodeKeeps ==
  ASSUME TypeOK, Bookkeeping, NEW n \in Nodes, NodeStep(n) \/ ProcessEnds(n)
  PROVE  Bookkeeping'
<1>0. CountInv /\ StartedInv /\ CursorInv /\ ProcInv /\ LimitInv /\ AwaitInv
  BY DEF Bookkeeping
<1>1. CountInv'
  BY <1>0, CountNode
<1>2. StartedInv' /\ ProcInv'
  <2>1. /\ \A m \in Nodes \ {n} : pc'[m] = pc[m] /\ status'[m] = status[m] /\ proc'[m] = proc[m]
        /\ status'[n] # "NotStarted"
        /\ proc'[n] # "none" => pc'[n] = "exec"
    BY <1>0, NodeSummary
  <2> QED
    BY <1>0, <2>1 DEF StartedInv, ProcInv
<1>3. UNCHANGED <<loop, running, accept, visit, sigPc, sigTodo>>
  BY <1>0, NodeSummary DEF Others, loopVars, sigVars
<1>4. CursorInv' /\ LimitInv'
  BY <1>0, <1>3 DEF CursorInv, LimitInv
<1>5. AwaitInv'
  <2>1. pc[n] \notin {"none", "exited"}
    BY <1>0, NodeSummary DEF Active
  <2>2. ~AllFinished
    BY <2>1 DEF AllFinished
  <2> QED
    BY <1>0, <1>3, <2>2 DEF AwaitInv
<1> QED
  BY <1>1, <1>2, <1>4, <1>5 DEF Bookkeeping

(* Steps of the signal routine keep the bookkeeping. *)
LEMMA SignalKeeps ==
  ASSUME TypeOK, Bookkeeping, StopRequest \/ Signaller
  PROVE  Bookkeeping'
<1>0. CountInv /\ StartedInv /\ CursorInv /\ ProcInv /\ LimitInv /\ AwaitInv
  BY DEF Bookkeeping
<1>1. UNCHANGED <<pc, doneCh, running, loop, accept, visit>>
  BY DEF StopRequest, Signaller, CheckNode, SignalNode, SignalSent, SignalReturns, Resend,
         nodeVars, chanVars, loopVars
<1>2. CountInv' /\ LimitInv' /\ AwaitInv'
  BY <1>0, <1>1, CountUnchanged DEF LimitInv, AwaitInv, AllFinished
<1>3. StartedInv' /\ ProcInv'
  <2>1. CASE SignalNode
    <3>1. Head(sigTodo) \in Nodes
      BY <1>0, <2>1, SeqTypes DEF SignalNode, SigTo, TypeOK, CursorInv
    <3>2. \A m \in Nodes : status'[m] \in {status[m], "Aborted"}
      BY <2>1, <3>1 DEF SignalNode, SetStatus, TypeOK
    <3>3. \A m \in Nodes : proc[m] = "none" => proc'[m] = "none"
      <4>1. proc \in [Nodes -> {"none", "alive", "termed", "killed"}]
        BY DEF TypeOK
      <4> DEFINE n == Head(sigTodo)
                 x == IF proc[n] = "none" THEN "none" ELSE IF sig.kind = "KILL" THEN "killed" ELSE "termed"
      <4>2. proc' = proc \/ proc' = [proc EXCEPT ![n] = x]
        BY <2>1 DEF SignalNode
      <4>3. proc[n] = "none" => x = "none"
        OBVIOUS
      <4> HIDE DEF x
      <4> QED
        BY <3>1, <4>1, <4>2, <4>3
    <3> QED
      BY <1>0, <1>1, <3>2, <3>3 DEF StartedInv, ProcInv
  <2>2. CASE ~SignalNode
    <3>1. UNCHANGED <<status, proc>>
      BY <2>2 DEF StopRequest, Signaller, CheckNode, SignalSent, SignalReturns, Resend, nodeVars
    <3> QED
      BY <1>0, <1>1, <3>1 DEF StartedInv, ProcInv
  <2> QED
    BY <2>1, <2>2
<1>4. CursorInv'
  <2>1. sigPc' = "act" => sigTodo' # <<>>
    BY DEF StopRequest, Signaller, CheckNode, SignalNode, SignalSent, SignalReturns, Resend, SigTo
  <2> QED
    BY <1>0, <1>1, <2>1 DEF CursorInv
<1> QED
  BY <1>2, <1>3, <1>4 DEF Bookkeeping

(* Init establishes the bookkeeping. *)
LEMMA InitBookkeeping == Init => Bookkeeping
<1> SUFFICES ASSUME Init PROVE Bookkeeping
  OBVIOUS
<1>1. InFlight = {} /\ Range(doneCh) = {} /\ DOMAIN doneCh = {} /\ running = 0
  BY DEF Init, InFlight, Range
<1>2. CountInv
  BY <1>1, FS_EmptySet DEF CountInv
<1>3. StartedInv /\ CursorInv /\ ProcInv /\ AwaitInv
  BY DEF Init, StartedInv, CursorInv, ProcInv, AwaitInv
<1>4. LimitInv
  BY ConfigAssumption DEF Init, LimitInv
<1> QED
  BY <1>2, <1>3, <1>4 DEF Bookkeeping

(* Every step keeps the inductive invariant. *)
LEMMA Inductive == IInv /\ [Next]_vars => IInv'
<1> SUFFICES ASSUME TypeOK, Bookkeeping, [Next]_vars PROVE TypeOK' /\ Bookkeeping'
  BY DEF IInv
<1>0. CursorInv /\ (doneCh # <<>> => running > 0)
  BY DoneMeansRunning DEF Bookkeeping
<1>1. CASE EventLoop
  BY <1>0, <1>1, EventLoopTypes, EventLoopKeeps
<1>2. CASE \E n \in Nodes : NodeStep(n) \/ ProcessEnds(n)
  BY <1>2, NodeTypes, NodeKeeps
<1>3. CASE StopRequest \/ Signaller
  BY <1>0, <1>3, SignalTypes, SignalKeeps
<1>4. CASE CtxExpires
  <2>1. /\ ctx' = "deadline"
        /\ UNCHANGED <<nodeVars, canceled, lastError, chanVars, loopVars, sigVars>>
    BY <1>4 DEF CtxExpires
  <2>2. TypeOK'
    BY <2>1 DEF TypeOK, nodeVars, chanVars, loopVars, sigVars
  <2>3. Bookkeeping'
    BY <2>1 DEF Bookkeeping, CountInv, InFlight, Sent, StartedInv, CursorInv, ProcInv, LimitInv,
                AwaitInv, AllFinished, nodeVars, chanVars, loopVars, sigVars
  <2> QED
    BY <2>2, <2>3
<1>5. CASE UNCHANGED vars
  <2>1. UNCHANGED <<nodeVars, canceled, lastError, ctx, chanVars, loopVars, sigVars>>
    BY <1>5 DEF vars
  <2>2. TypeOK'
    BY <2>1 DEF TypeOK, nodeVars, chanVars, loopVars, sigVars
  <2>3. Bookkeeping'
    BY <2>1 DEF Bookkeeping, CountInv, InFlight, Sent, StartedInv, CursorInv, ProcInv, LimitInv,
                AwaitInv, AllFinished, nodeVars, chanVars, loopVars, sigVars
  <2> QED
    BY <2>2, <2>3
<1> QED
  BY <1>1, <1>2, <1>3, <1>4, <1>5 DEF Next, Terminated

(***************************************************************************)
(* The types of the variables and the bookkeeping of the event loop hold   *)
(* in every reachable state, whatever the plan, the steps and the limits.  *)
(***************************************************************************)
THEOREM InvariantHolds == Spec => []IInv
<1>1. Init => IInv
  BY InitTypes, InitBookkeeping DEF IInv
<1> QED
  BY <1>1, Inductive, PTL DEF Spec

(* Every variable keeps its type in every run of Runner.Run. *)
THEOREM TypeCorrect == Spec => []TypeOK
BY InvariantHolds, PTL DEF IInv

(***************************************************************************)
(* running, doneCh, the cursors, the slots and the processes agree in      *)
(* every state of Runner.Run.                                              *)
(***************************************************************************)
THEOREM BookkeepingHolds == Spec => []Bookkeeping
BY InvariantHolds, PTL DEF IInv

(***************************************************************************)
(* maxActiveSteps bounds the processes of the run: every process belongs   *)
(* to a goroutine that running counts, and running keeps the limit.        *)
(***************************************************************************)
THEOREM MaxActiveHolds == Spec => []MaxActive
<1>1. IInv => MaxActive
  <2> SUFFICES ASSUME IInv, MaxActiveSteps > 0
               PROVE  Cardinality({n \in Nodes : proc[n] # "none"}) <= MaxActiveSteps
    BY DEF MaxActive
  <2> DEFINE Procs == {n \in Nodes : proc[n] # "none"}
  <2>1. Procs \subseteq Pending
    BY DEF IInv, Bookkeeping, ProcInv, Pending, InFlight
  <2>2. Cardinality(Procs) \in Nat /\ Cardinality(Procs) <= Cardinality(Pending)
    BY <2>1, PendingFinite, FS_Subset, FS_CardinalityType DEF IInv
  <2>3. Cardinality(Pending) = running /\ running <= MaxActiveSteps
    BY DEF IInv, Bookkeeping, CountInv, Pending, LimitInv
  <2> QED
    BY <2>2, <2>3, PendingFinite, ConfigAssumption DEF IInv
<1> QED
  BY <1>1, InvariantHolds, PTL

(***************************************************************************)
(* No node is started twice: a started node is never NotStarted again, so  *)
(* the double check behind readyCh turns every further entry away.         *)
(***************************************************************************)
THEOREM NoRelaunchHolds == Spec => NoRelaunch
<1>1. IInv /\ [Next]_vars =>
        [\A n \in Nodes : pc[n] \notin {"none", "prepare"} => pc'[n] # "prepare"]_vars
  <2> SUFFICES ASSUME IInv, Next, NEW n \in Nodes, pc[n] \notin {"none", "prepare"}
               PROVE  pc'[n] # "prepare"
    OBVIOUS
  <2>0. TypeOK /\ StartedInv /\ ProcInv
    BY DEF IInv, Bookkeeping
  <2>1. CASE SelectReady
    <3>1. Head(readyCh) \in Nodes
      BY <2>0, <2>1, SeqTypes DEF SelectReady, TypeOK
    <3>2. Startable(Head(readyCh)) => Head(readyCh) # n
      BY <2>0, <3>1 DEF Startable, StartedInv
    <3> QED
      BY <2>0, <2>1, <3>1, <3>2 DEF SelectReady, TypeOK
  <2>2. ASSUME NEW m \in Nodes, NodeStep(m) \/ ProcessEnds(m) PROVE pc'[n] # "prepare"
    <3>1. CASE m # n
      BY <2>0, <2>2, <3>1, NodeSummary
    <3>2. CASE m = n
      BY <2>0, <2>2, <3>2 DEF NodeStep, ProcessEnds, PrepareNode, MeetsPreconditions, ExecLoop,
           SetupExecutor, StartProcess, RecordTimeout, HandleError, RetryWakes, AfterExecution,
           ClearError, ChooseStatus, SettleStatus, TeardownNode, SendDone, RecoverNodePanic,
           FinishNode, ProcessExits, StepTimesOut, Goto, TypeOK
    <3> QED
      BY <3>1, <3>2
  <2>3. CASE EventLoop /\ ~SelectReady
    BY <2>3 DEF EventLoop, EvalPreconditions, RunInitHandler, Scan, LoopHead, LoopDecide,
                SelectDone, SelectCtxDone, Visit, WaitGroup, ChooseHandlers, RunWaitHandler,
                RunHandler, RunReturns, nodeVars
  <2>4. CASE CtxExpires \/ StopRequest \/ Signaller \/ Terminated
    BY <2>4 DEF CtxExpires, StopRequest, Signaller, CheckNode, SignalNode, SignalSent,
                SignalReturns, Resend, Terminated, vars, nodeVars
  <2> QED
    BY <2>1, <2>2, <2>3, <2>4 DEF Next
<1> QED
  BY <1>1, InvariantHolds, PTL DEF Spec, NoRelaunch

(***************************************************************************)
(* No process of a step is left when Runner.Run starts the handlers, stop  *)
(* requests and panics included: wg.Wait waits for every goroutine.        *)
(***************************************************************************)
THEOREM HandlersAfterStepsHolds == Spec => []HandlersAfterSteps
<1>1. IInv => HandlersAfterSteps
  BY DEF IInv, Bookkeeping, AwaitInv, ProcInv, AllFinished, HandlersAfterSteps
<1> QED
  BY <1>1, InvariantHolds, PTL
=============================================================================
