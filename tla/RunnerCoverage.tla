--------------------------- MODULE RunnerCoverage ---------------------------
(***************************************************************************)
(* No lost wake-up in Runner.Run: the event loop of a run that nobody      *)
(* stops never leaves a node behind, for every plan whose steps do not     *)
(* panic and were not left Running, every step configuration and every     *)
(* value of the limits.  For every plan, no step that was started is left  *)
(* Running behind wg.Wait.                                                 *)
(***************************************************************************)
EXTENDS RunnerProofs

(* No step panics. *)
NoPanic == \A n \in Nodes : ~Step[n].mayPanic

(* No node was left Running by the run that is retried. *)
NoneRunning == \A n \in Nodes : Restored[n].status # "Running"

(* The first scan has nothing to pass on, or meets every node behind its dependencies. *)
ScanOrder ==
  \/ \A n \in Nodes : Restored[n].status = "NotStarted"
  \/ \A i, j \in DOMAIN NodeSeq : NodeSeq[i] \in Range(DependencyMap[NodeSeq[j]]) => i < j

Deps(n) == Range(DependencyMap[n])

(* A stop request comes behind the canceled flag. *)
StopInv == sigPc # "idle" => canceled

(* Where a goroutine may be while its node is Running. *)
RunningInv ==
  \A n \in Nodes :
    /\ pc[n] \in {"teardown", "send", "finish", "exited"} => status[n] # "Running"
    /\ pc[n] = "post" /\ exit[n] # "ok" => status[n] # "Running"

(* What a panic or a restored plan may spoil. *)
QuietInv ==
  \A n \in Nodes : pc[n] \notin {"panic", "recover"} /\ (pc[n] = "none" => status[n] # "Running")

(* Someone will look at an undecided node again. *)
Covered(n) ==
  \/ n \in Range(readyCh) \union Range(visit)
  \/ \E d \in Deps(n) : d \in Pending \/ status[d] \in {"NotStarted", "Waiting", "Retrying"}

Outside == {"wait", "status", "onWait", "handlers", "done"}

(* The event loop. *)
CoverInv ==
  /\ loop \notin {"precond", "init"} \union Outside =>
       \A n \in Nodes : status[n] = "NotStarted" => Covered(n)
  /\ loop \notin {"scan", "visit", "blocked"} => visit = <<>>
  /\ loop \in {"precond", "init", "scan"} =>
       \/ \A n \in Nodes : status[n] = "NotStarted"
       \/ \A i, j \in DOMAIN NodeSeq : NodeSeq[i] \in Range(DependencyMap[NodeSeq[j]]) => i < j
  /\ loop = "scan" => /\ Len(visit) <= Len(NodeSeq)
                      /\ \A i \in DOMAIN visit : visit[i] = NodeSeq[Len(NodeSeq) - Len(visit) + i]
  /\ lastError # "deadlock"
  /\ loop \in Outside => \/ ~Has("NotStarted")
                         \/ running = 0 /\ (Has("Waiting") \/ Has("Retrying"))

SettledInv == StopInv /\ (canceled \/ RunningInv)

SInv == StopInv /\ (canceled \/ (RunningInv /\ QuietInv /\ CoverInv))
----------------------------------------------------------------------------
(* The stop request and the node goroutines.                                *)

(* Nobody takes the canceled flag back, and a signal follows it (Runner.Signal). *)
LEMMA StopKept ==
  ASSUME IInv, StopInv, [Next]_vars
  PROVE  StopInv' /\ (canceled => canceled')
<1>1. CASE EventLoop
  BY <1>1 DEF EventLoop, EvalPreconditions, RunInitHandler, Scan, LoopHead, LoopDecide, SelectReady,
     SelectDone, SelectCtxDone, Visit, WaitGroup, ChooseHandlers, RunWaitHandler, RunHandler,
     RunReturns, StopInv, sigVars
<1>2. ASSUME NEW n \in Nodes, NodeStep(n) \/ ProcessEnds(n) PROVE StopInv' /\ (canceled => canceled')
  <2>1. Others
    BY <1>2, NodeSummary DEF IInv, Bookkeeping
  <2> QED
    BY <2>1 DEF Others, StopInv, sigVars
<1>3. CASE CtxExpires \/ UNCHANGED vars
  BY <1>3 DEF CtxExpires, StopInv, sigVars, vars
<1>4. CASE StopRequest
  BY <1>4 DEF StopRequest, CanceledFirst, StopInv
<1>5. CASE Signaller
  BY <1>5 DEF Signaller, CheckNode, SignalNode, SignalSent, SignalReturns, Resend, SigTo, StopInv
<1> QED
  BY <1>1, <1>2, <1>3, <1>4, <1>5 DEF Next, Terminated

(* What a node goroutine does to its status: none that has left the execution *)
(* loop for good is Running, and none changes behind its done message but to  *)
(* settle a panic.                                                            *)
LEMMA NodeRuns ==
  ASSUME TypeOK, RunningInv, ~canceled, NEW n \in Nodes, NodeStep(n) \/ ProcessEnds(n)
  PROVE  /\ RunningInv'
         /\ pc[n] = "finish" => status' = status
         /\ lastError # "deadlock" => lastError' # "deadlock"
         /\ NoPanic /\ QuietInv => QuietInv'
<1> DEFINE Goal ==
      /\ pc'[n] \in {"teardown", "send", "finish", "exited"} => status'[n] # "Running"
      /\ pc'[n] = "post" /\ exit'[n] # "ok" => status'[n] # "Running"
      /\ pc'[n] # "none"
      /\ pc'[n] \in {"panic", "recover"} => pc[n] \in {"panic", "recover"} \/ Step[n].mayPanic
      /\ pc[n] = "finish" => status' = status
      /\ lastError # "deadlock" => lastError' # "deadlock"
      /\ \A m \in Nodes \ {n} : pc'[m] = pc[m] /\ status'[m] = status[m] /\ exit'[m] = exit[m]
<1> SUFFICES Goal
  BY DEF RunningInv, QuietInv, NoPanic
<1>0. /\ status \in [Nodes -> NodeStatus] /\ pc \in [Nodes -> NodePc] /\ exit \in [Nodes -> Outcome]
      /\ pc[n] \in {"teardown", "send", "finish", "exited"} => status[n] # "Running"
      /\ pc[n] = "post" /\ exit[n] # "ok" => status[n] # "Running"
      /\ n # "deadlock" /\ NoError # "deadlock"
  BY ErrorsAssumption DEF TypeOK, RunningInv, NoError
<1>1. CASE PrepareNode(n)
  BY <1>0, <1>1 DEF PrepareNode, Goto, SetStatus
<1>2. CASE MeetsPreconditions(n)
  BY <1>0, <1>2 DEF MeetsPreconditions, Goto, SetStatus
<1>3. CASE ExecLoop(n)
  BY <1>0, <1>3 DEF ExecLoop, Goto
<1>4. CASE SetupExecutor(n)
  BY <1>0, <1>4 DEF SetupExecutor, Goto
<1>5. CASE StartProcess(n)
  BY <1>0, <1>5 DEF StartProcess, Goto
<1>6. CASE RecordTimeout(n)
  BY <1>0, <1>6 DEF RecordTimeout, Goto, SetStatus, ExecuteReturns, Determined
<1>7. CASE HandleError(n)
  BY <1>0, <1>7 DEF HandleError, Goto, SetStatus
<1>8. CASE RetryWakes(n)
  BY <1>0, <1>8 DEF RetryWakes, Goto, SetStatus
<1>9. CASE AfterExecution(n)
  BY <1>0, <1>9 DEF AfterExecution, Goto, SetStatus
<1>10. CASE ClearError(n)
  BY <1>0, <1>10 DEF ClearError, Goto
<1>11. CASE ChooseStatus(n)
  BY <1>0, <1>11 DEF ChooseStatus, Goto
<1>12. CASE SettleStatus(n)
  BY <1>0, <1>12 DEF SettleStatus, Goto, SetStatus
<1>13. CASE TeardownNode(n)
  BY <1>0, <1>13 DEF TeardownNode, Goto, SetStatus
<1>14. CASE SendDone(n)
  BY <1>0, <1>14 DEF SendDone, Goto
<1>15. CASE RecoverNodePanic(n)
  BY <1>0, <1>15 DEF RecoverNodePanic, Goto, SetStatus
<1>16. CASE FinishNode(n)
  BY <1>0, <1>16 DEF FinishNode, Goto
<1>17. CASE ProcessExits(n)
  BY <1>0, <1>17 DEF ProcessExits, Goto, SetStatus, ExecuteReturns, Determined
<1>18. CASE StepTimesOut(n)
  BY <1>0, <1>18 DEF StepTimesOut, Goto, SetStatus
<1> QED
  BY <1>1, <1>2, <1>3, <1>4, <1>5, <1>6, <1>7, <1>8, <1>9, <1>10, <1>11, <1>12, <1>13, <1>14, <1>15,
     <1>16, <1>17, <1>18 DEF NodeStep, ProcessEnds
(* A node goroutine stays among those the event loop has to hear from until it is heard. *)
LEMMA PendingNode ==
  ASSUME IInv, NEW n \in Nodes, NodeStep(n) \/ ProcessEnds(n)
  PROVE  Pending' = Pending /\ (pc[n] \in {"recover", "finish"} \/ n \in InFlight)
<1>1. /\ pc \in [Nodes -> NodePc] /\ doneCh \in Seq(Nodes)
      /\ \A m \in Nodes \ {n} : pc'[m] = pc[m]
      /\ \/ doneCh' = doneCh /\ pc[n] \in Active /\ pc'[n] \in Active
         \/ /\ doneCh' = doneCh
            /\ pc[n] \in {"recover", "finish"} /\ pc'[n] \in {"finish", "exited"}
         \/ /\ doneCh' = Append(doneCh, n)
            /\ pc[n] \in {"send", "panic"} /\ pc'[n] \in {"recover", "finish"}
  BY NodeSummary DEF IInv, Bookkeeping, TypeOK
<1>2. CASE doneCh' = doneCh
  BY <1>1, <1>2 DEF Pending, InFlight, Active
<1>3. CASE doneCh' = Append(doneCh, n) /\ pc[n] \in {"send", "panic"} /\ pc'[n] \in {"recover", "finish"}
  <2>1. Range(doneCh') = Range(doneCh) \union {n}
    BY <1>1, <1>3, RangeFacts
  <2>2. n \in InFlight /\ InFlight' = InFlight \ {n}
    BY <1>1, <1>3 DEF InFlight
  <2> QED
    BY <2>1, <2>2 DEF Pending
<1> QED
  BY <1>1, <1>2, <1>3

(* Without goroutines to hear from, the others have sent their done message. *)
LEMMA NobodyPending ==
  ASSUME IInv, running = 0
  PROVE  Pending = {}
<1>1. Cardinality(Pending) = 0
  BY DEF IInv, Bookkeeping, CountInv, Pending
<1> QED
  BY <1>1, PendingFinite, FS_EmptySet DEF IInv

(* A node goroutine keeps the undecided nodes covered: whatever it does to the *)
(* status of its node, the event loop is still going to hear from it.          *)
LEMMA NodeCovers ==
  ASSUME IInv, RunningInv, QuietInv, CoverInv, ~canceled, NEW n \in Nodes,
         NodeStep(n) \/ ProcessEnds(n)
  PROVE  CoverInv'
<1>1. /\ UNCHANGED <<loop, running, visit, readyCh>> /\ pc[n] # "none"
      /\ status'[n] # "NotStarted" /\ status[n] # "NotStarted"
      /\ \A m \in Nodes \ {n} : status'[m] = status[m]
  BY NodeSummary DEF IInv, Bookkeeping, Others, loopVars, StartedInv
<1>2. lastError' # "deadlock" /\ (pc[n] = "finish" => status' = status)
  BY NodeRuns DEF IInv, CoverInv
<1>3. Pending' = Pending /\ (n \in Pending \/ status' = status)
  BY <1>2, PendingNode DEF QuietInv, Pending
<1>4. \A m \in Nodes : status'[m] = "NotStarted" => status[m] = "NotStarted"
  BY <1>1
<1>5. \A m \in Nodes : Covered(m) => Covered(m)'
  <2> SUFFICES ASSUME NEW m \in Nodes, NEW d \in Deps(m),
                      d \in Pending \/ status[d] \in {"NotStarted", "Waiting", "Retrying"}
               PROVE  d \in Pending' \/ status'[d] \in {"NotStarted", "Waiting", "Retrying"}
    BY <1>1 DEF Covered
  <2>1. d \in Nodes
    BY PlanAssumption, RangeFacts DEF Deps
  <2> QED
    BY <1>1, <1>3, <2>1
<1>6. loop \in {"precond", "init", "scan"} =>
        \A i, j \in DOMAIN NodeSeq : NodeSeq[i] \in Range(DependencyMap[NodeSeq[j]]) => i < j
  BY <1>1 DEF CoverInv
<1>7. loop \in Outside => \/ ~Has("NotStarted")'
                          \/ running' = 0 /\ (Has("Waiting")' \/ Has("Retrying")')
  <2>1. CASE running = 0
    <3>1. status' = status
      BY <1>3, <2>1, NobodyPending
    <3> QED
      BY <1>1, <3>1 DEF CoverInv, Has
  <2>2. CASE running # 0
    BY <1>4, <2>2 DEF CoverInv, Has
  <2> QED
    BY <2>1, <2>2
<1> QED
  BY <1>1, <1>2, <1>4, <1>5, <1>6, <1>7 DEF CoverInv
----------------------------------------------------------------------------
(* The event loop.                                                          *)

(* What a dependency that isReady waits for is doing. *)
LEMMA WaitCovers ==
  ASSUME IInv, RunningInv, QuietInv, NEW n \in Nodes, Decides(n, "wait")
  PROVE  \E d \in Deps(n) : d \in Pending \/ status[d] \in {"NotStarted", "Waiting", "Retrying"}
<1>1. PICK d \in Deps(n) : Verdict(d) = "wait"
  BY DEF Decides, Deps, Range
<1>2. d \in Nodes
  BY PlanAssumption, RangeFacts DEF Deps
<1>3. status[d] \in {"NotStarted", "Running", "Waiting", "Retrying"}
  <2>1. status[d] \in NodeStatus
    BY <1>2 DEF IInv, TypeOK
  <2> QED
    BY <1>1, <2>1 DEF Verdict, NodeStatus
<1>4. status[d] = "Running" => d \in Pending
  BY <1>2 DEF RunningInv, QuietInv, Pending, InFlight
<1> QED
  BY <1>3, <1>4

(* isReady decides a node only behind a dependency that is decided itself. *)
LEMMA DecidedBehind ==
  ASSUME NEW n \in Nodes, NEW s \in {"Aborted", "Skipped"}, Decides(n, s)
  PROVE  \E d \in Nodes : status[d] # "NotStarted"
<1>1. PICK d \in Deps(n) : Verdict(d) = s
  BY DEF Decides, Deps, Range
<1>2. d \in Nodes
  BY PlanAssumption, RangeFacts DEF Deps
<1> QED
  BY <1>1, <1>2 DEF Verdict

(* A dependent is in the list that processCompletedNode visits. *)
LEMMA DependentsListed ==
  ASSUME NEW m \in Nodes, NEW d \in Deps(m)
  PROVE  d \in Nodes /\ m \in Range(DependantMap[d])
BY PlanAssumption, RangeFacts DEF Deps

(* The first scan keeps the undecided nodes covered. *)
LEMMA ScanCovers ==
  ASSUME IInv, RunningInv, QuietInv, CoverInv, Scan
  PROVE  CoverInv' /\ RunningInv' /\ QuietInv'
<1> DEFINE n == Head(visit)
<1>1. /\ n \in Nodes /\ visit \in Seq(Nodes) /\ visit # <<>> /\ visit' = Tail(visit)
      /\ loop = "scan" /\ loop' = (IF visit' = <<>> THEN "head" ELSE "scan")
      /\ UNCHANGED <<pc, exit, lastError, doneCh, running>>
      /\ readyCh \in Seq(Nodes) /\ NodeSeq \in Seq(Nodes) /\ status \in [Nodes -> NodeStatus]
  BY PlanAssumption, SeqTypes DEF Scan, IInv, TypeOK, Bookkeeping, CursorInv
<1>2. Range(visit) = {n} \union Range(visit') /\ Pending' = Pending
  BY <1>1, RangeFacts DEF Pending, InFlight
<1>3. /\ Len(visit') <= Len(NodeSeq)
      /\ \A i \in DOMAIN visit' : visit'[i] = NodeSeq[Len(NodeSeq) - Len(visit') + i]
  <2>1. /\ Len(visit) <= Len(NodeSeq) /\ Len(visit) \in Nat /\ Len(visit) >= 1 /\ Len(NodeSeq) \in Nat
        /\ \A i \in 1 .. Len(visit) : visit[i] = NodeSeq[Len(NodeSeq) - Len(visit) + i]
    BY <1>1 DEF CoverInv
  <2>2. /\ Len(visit') = Len(visit) - 1 /\ DOMAIN visit' = 1 .. Len(visit) - 1
        /\ \A i \in 1 .. Len(visit) - 1 : visit'[i] = visit[i + 1]
    BY <1>1
  <2>3. \A i \in 1 .. Len(visit) - 1 :
          /\ i + 1 \in 1 .. Len(visit)
          /\ Len(NodeSeq) - Len(visit) + (i + 1) = Len(NodeSeq) - (Len(visit) - 1) + i
    BY <2>1
  <2>4. ASSUME NEW i \in 1 .. Len(visit) - 1
        PROVE  visit'[i] = NodeSeq[Len(NodeSeq) - Len(visit') + i]
    <3>1. visit'[i] = NodeSeq[Len(NodeSeq) - Len(visit) + (i + 1)]
      BY <2>1, <2>2, <2>3
    <3> QED
      BY <2>2, <2>3, <3>1
  <2>5. Len(visit') <= Len(NodeSeq)
    BY <2>1, <2>2
  <2> QED
    BY <2>2, <2>4, <2>5
<1>4. CASE status' = status /\ (readyCh' = Append(readyCh, n) \/ readyCh' = readyCh)
  <2>1. Range(readyCh) \subseteq Range(readyCh')
    <3>1. Range(Append(readyCh, n)) = Range(readyCh) \union {n}
      BY <1>1, RangeFacts
    <3> QED
      BY <1>4, <3>1
  <2>2. \/ n \in Range(readyCh') \/ status[n] # "NotStarted"
        \/ \E d \in Deps(n) : d \in Pending \/ status[d] \in {"NotStarted", "Waiting", "Retrying"}
    <3>1. readyCh' = Append(readyCh, n) => n \in Range(readyCh')
      BY <1>1, <1>4, RangeFacts
    <3>2. \/ readyCh' = Append(readyCh, n) \/ status[n] # "NotStarted" \/ Decides(n, "wait")
          \/ status' # status
      <4>1. \A s \in {"Aborted", "Skipped"} : status[n] = "NotStarted" => [status EXCEPT ![n] = s] # status
        BY <1>1
      <4> QED
        BY <4>1 DEF Scan
    <3> QED
      BY <1>1, <1>4, <3>1, <3>2, WaitCovers
  <2>3. \A m \in Nodes : status'[m] = "NotStarted" => Covered(m)'
    BY <1>1, <1>2, <1>4, <2>1, <2>2 DEF CoverInv, Covered, Outside
  <2> QED
    BY <1>1, <1>3, <1>4, <2>3 DEF CoverInv, RunningInv, QuietInv, Outside
<1>5. CASE readyCh' = readyCh /\ \E s \in {"Aborted", "Skipped"} :
             Decides(n, s) /\ status' = [status EXCEPT ![n] = s]
  <2>1. \A i, j \in DOMAIN NodeSeq : NodeSeq[i] \in Range(DependencyMap[NodeSeq[j]]) => i < j
    BY <1>1, <1>5, DecidedBehind DEF CoverInv
  <2>2. ASSUME NEW m \in Nodes, n \in Deps(m) PROVE m \in Range(visit')
    <3>1. PICK j \in DOMAIN NodeSeq : NodeSeq[j] = m
      BY DEF Nodes, Range
    <3> DEFINE k == Len(NodeSeq) - Len(visit) + 1
    <3>2. /\ Len(visit) <= Len(NodeSeq) /\ Len(visit) \in Nat /\ Len(visit) >= 1
          /\ Len(NodeSeq) \in Nat /\ DOMAIN NodeSeq = 1 .. Len(NodeSeq)
          /\ n = visit[1] /\ visit[1] = NodeSeq[Len(NodeSeq) - Len(visit) + 1]
      BY <1>1 DEF CoverInv
    <3>3. k \in DOMAIN NodeSeq /\ NodeSeq[k] = n
      BY <3>2
    <3>4. k < j
      BY <2>1, <2>2, <3>1, <3>3 DEF Deps
    <3>5. Len(visit') = Len(visit) - 1 /\ DOMAIN visit' = 1 .. Len(visit) - 1
      BY <1>1
    <3>6. j - k \in 1 .. Len(visit) - 1 /\ Len(NodeSeq) - (Len(visit) - 1) + (j - k) = j
      BY <3>1, <3>2, <3>4
    <3>7. visit'[j - k] = m
      BY <1>3, <3>1, <3>5, <3>6
    <3> QED
      BY <3>5, <3>6, <3>7 DEF Range
  <2>3. status'[n] \in {"Aborted", "Skipped"} /\ \A m \in Nodes : m # n => status'[m] = status[m]
    BY <1>1, <1>5
  <2>4. ASSUME NEW m \in Nodes, status'[m] = "NotStarted" PROVE Covered(m)'
    <3>1. m # n /\ status[m] = "NotStarted" /\ Covered(m)
      BY <1>1, <2>3, <2>4 DEF CoverInv, Outside
    <3>2. CASE m \in Range(readyCh) \union Range(visit)
      BY <1>2, <1>5, <3>1, <3>2 DEF Covered
    <3>3. ASSUME NEW d \in Deps(m), d \in Pending \/ status[d] \in {"NotStarted", "Waiting", "Retrying"}
          PROVE  Covered(m)'
      <4>1. d \in Nodes
        BY DependentsListed
      <4> QED
        BY <1>2, <2>2, <2>3, <3>3, <4>1 DEF Covered
    <3> QED
      BY <3>1, <3>2, <3>3 DEF Covered
  <2> QED
    BY <1>1, <1>3, <2>1, <2>3, <2>4 DEF CoverInv, RunningInv, QuietInv, Outside
<1> QED
  BY <1>4, <1>5 DEF Scan
(* What concatenation does to the elements of two sequences. *)
LEMMA RangeConcat ==
  ASSUME NEW S, NEW s \in Seq(S), NEW t \in Seq(S)
  PROVE  Range(s \o t) = Range(s) \union Range(t)
<1>1. /\ DOMAIN (s \o t) = 1 .. Len(s) + Len(t) /\ Len(s) \in Nat /\ Len(t) \in Nat
      /\ \A i \in 1 .. Len(s) + Len(t) : (s \o t)[i] = IF i <= Len(s) THEN s[i] ELSE t[i - Len(s)]
      /\ DOMAIN s = 1 .. Len(s) /\ DOMAIN t = 1 .. Len(t)
  OBVIOUS
<1>2. ASSUME NEW x \in Range(s \o t) PROVE x \in Range(s) \union Range(t)
  <2>1. PICK i \in 1 .. Len(s) + Len(t) : x = (s \o t)[i]
    BY <1>1 DEF Range
  <2>2. i \in 1 .. Len(s) \/ (i - Len(s) \in 1 .. Len(t) /\ ~ (i <= Len(s)))
    BY <1>1
  <2> QED
    BY <1>1, <2>1, <2>2 DEF Range
<1>3. ASSUME NEW x \in Range(s) PROVE x \in Range(s \o t)
  <2>1. PICK i \in 1 .. Len(s) : x = s[i]
    BY <1>1 DEF Range
  <2>2. i \in 1 .. Len(s) + Len(t) /\ i <= Len(s)
    BY <1>1
  <2> QED
    BY <1>1, <2>1, <2>2 DEF Range
<1>4. ASSUME NEW x \in Range(t) PROVE x \in Range(s \o t)
  <2>1. PICK i \in 1 .. Len(t) : x = t[i]
    BY <1>1 DEF Range
  <2>2. i + Len(s) \in 1 .. Len(s) + Len(t) /\ ~ (i + Len(s) <= Len(s)) /\ (i + Len(s)) - Len(s) = i
    BY <1>1
  <2> QED
    BY <1>1, <2>1, <2>2 DEF Range
<1> QED
  BY <1>2, <1>3, <1>4

(* processCompletedNode keeps the undecided nodes covered: it visits the     *)
(* dependents of a node that is heard from or decided.                       *)
LEMMA VisitCovers ==
  ASSUME IInv, RunningInv, QuietInv, CoverInv, Visit
  PROVE  CoverInv' /\ RunningInv' /\ QuietInv'
<1> DEFINE n == Head(visit)
<1>1. /\ n \in Nodes /\ visit \in Seq(Nodes) /\ visit # <<>> /\ loop = "visit"
      /\ UNCHANGED <<pc, exit, lastError, doneCh, running>>
      /\ readyCh \in Seq(Nodes) /\ status \in [Nodes -> NodeStatus] /\ Tail(visit) \in Seq(Nodes)
      /\ DependantMap[n] \in Seq(Nodes)
  <2>1. n \in Nodes /\ Tail(visit) \in Seq(Nodes) /\ visit # <<>>
    BY SeqTypes DEF Visit, IInv, TypeOK, Bookkeeping, CursorInv
  <2> QED
    BY <2>1, PlanAssumption DEF Visit, IInv, TypeOK
<1>2. Range(visit) = {n} \union Range(Tail(visit)) /\ Pending' = Pending
  BY <1>1, RangeFacts DEF Pending, InFlight
<1>3. CASE UNCHANGED <<readyCh, visit, status>> /\ loop' = "blocked"
  BY <1>1, <1>2, <1>3 DEF CoverInv, RunningInv, QuietInv, Covered, Outside
<1>4. CASE /\ visit' = Tail(visit) /\ status' = status
           /\ loop' = IF visit' = <<>> THEN "head" ELSE "visit"
           /\ \/ readyCh' = Append(readyCh, n)
              \/ readyCh' = readyCh /\ (status[n] = "NotStarted" => Decides(n, "wait"))
  <2>1. Range(Append(readyCh, n)) = Range(readyCh) \union {n}
    BY <1>1, RangeFacts
  <2>2. \/ n \in Range(readyCh') \/ status[n] # "NotStarted"
        \/ \E d \in Deps(n) : d \in Pending \/ status[d] \in {"NotStarted", "Waiting", "Retrying"}
    BY <1>1, <1>4, <2>1, WaitCovers
  <2>3. \A m \in Nodes : status'[m] = "NotStarted" => Covered(m)'
    BY <1>1, <1>2, <1>4, <2>1, <2>2 DEF CoverInv, Covered, Outside
  <2> QED
    BY <1>1, <1>4, <2>3 DEF CoverInv, RunningInv, QuietInv, Outside
<1>5. CASE /\ visit' = Tail(visit) \o DependantMap[n] /\ readyCh' = readyCh
           /\ loop' = IF visit' = <<>> THEN "head" ELSE "visit"
           /\ \E s \in {"Aborted", "Skipped"} : status' = [status EXCEPT ![n] = s]
  <2>1. status'[n] \in {"Aborted", "Skipped"} /\ \A m \in Nodes : m # n => status'[m] = status[m]
    BY <1>1, <1>5
  <2>2. Range(visit') = Range(Tail(visit)) \union Range(DependantMap[n])
    <3>1. \A s, t \in Seq(Nodes) : Range(s \o t) = Range(s) \union Range(t)
      BY RangeConcat
    <3> QED
      BY <1>1, <1>5, <3>1
  <2>3. ASSUME NEW m \in Nodes, status'[m] = "NotStarted" PROVE Covered(m)'
    <3>1. m # n /\ status[m] = "NotStarted" /\ Covered(m)
      BY <1>1, <2>1, <2>3 DEF CoverInv, Outside
    <3>2. CASE m \in Range(readyCh) \union Range(visit)
      BY <1>2, <1>5, <2>2, <3>1, <3>2 DEF Covered
    <3>3. ASSUME NEW d \in Deps(m), d \in Pending \/ status[d] \in {"NotStarted", "Waiting", "Retrying"}
          PROVE  Covered(m)'
      <4>1. d \in Nodes /\ m \in Range(DependantMap[d])
        BY DependentsListed
      <4> QED
        BY <1>2, <2>1, <2>2, <3>3, <4>1 DEF Covered
    <3> QED
      BY <3>1, <3>2, <3>3 DEF Covered
  <2> QED
    BY <1>1, <1>5, <2>1, <2>3 DEF CoverInv, RunningInv, QuietInv, Outside
<1> QED
  BY <1>3, <1>4, <1>5 DEF Visit, QueuedDependents

(* case node := <-doneCh: the dependents of the node that is heard from are visited. *)
LEMMA SelectDoneCovers ==
  ASSUME IInv, RunningInv, QuietInv, CoverInv, ~canceled, SelectDone
  PROVE  CoverInv' /\ RunningInv' /\ QuietInv'
<1> DEFINE n == Head(doneCh)
<1>1. /\ doneCh # <<>> /\ doneCh \in Seq(Nodes) /\ doneCh' = Tail(doneCh) /\ loop = "select"
      /\ visit' = DependantMap[n] /\ loop' = (IF visit' = <<>> THEN "head" ELSE "visit")
      /\ UNCHANGED <<status, pc, exit, lastError, readyCh>>
  BY DEF SelectDone, IInv, TypeOK, nodeVars
<1>2. Pending \subseteq {n} \union Pending'
  BY <1>1, RangeFacts DEF Pending, InFlight
<1>3. ASSUME NEW m \in Nodes, status'[m] = "NotStarted" PROVE Covered(m)'
  <2>1. status[m] = "NotStarted" /\ Covered(m) /\ visit = <<>>
    BY <1>1, <1>3 DEF CoverInv, Outside
  <2>2. Range(visit) = {}
    BY <2>1 DEF Range
  <2>3. ASSUME NEW d \in Deps(m), d \in Pending \/ status[d] \in {"NotStarted", "Waiting", "Retrying"}
        PROVE  Covered(m)'
    BY <1>1, <1>2, <2>3, DependentsListed DEF Covered
  <2> QED
    BY <1>1, <2>1, <2>2, <2>3 DEF Covered
<1> QED
  BY <1>1, <1>3 DEF CoverInv, RunningInv, QuietInv, Outside

(* case node := <-activeReadyCh: the node is started, or is decided already. *)
LEMMA SelectReadyCovers ==
  ASSUME IInv, RunningInv, QuietInv, CoverInv, SelectReady
  PROVE  CoverInv' /\ RunningInv' /\ QuietInv'
<1> DEFINE n == Head(readyCh)
<1>1. /\ readyCh # <<>> /\ readyCh \in Seq(Nodes) /\ readyCh' = Tail(readyCh) /\ n \in Nodes
      /\ loop = "select" /\ loop' = "head"
      /\ UNCHANGED <<exit, lastError, doneCh, visit>>
      /\ status \in [Nodes -> NodeStatus] /\ pc \in [Nodes -> NodePc]
  BY SeqTypes DEF SelectReady, LoopTo, IInv, TypeOK
<1>2. Range(readyCh) = {n} \union Range(readyCh')
  BY <1>1, RangeFacts
<1>3. \/ status[n] # "NotStarted" /\ UNCHANGED <<status, pc>>
      \/ /\ status' = [status EXCEPT ![n] = "Running"]
         /\ pc' = [pc EXCEPT ![n] = "prepare"] /\ status[n] = "NotStarted"
  BY DEF SelectReady, Startable
<1>4. /\ status'[n] # "NotStarted" /\ \A m \in Nodes : m # n => status'[m] = status[m] /\ pc'[m] = pc[m]
      /\ status'[n] = status[n] \/ n \in Pending'
      /\ Pending \subseteq Pending'
  <2>1. InFlight \subseteq InFlight' /\ (status'[n] = status[n] \/ n \in InFlight')
    BY <1>1, <1>3 DEF InFlight
  <2> QED
    BY <1>1, <1>3, <2>1 DEF Pending
<1>5. ASSUME NEW m \in Nodes, status'[m] = "NotStarted" PROVE Covered(m)'
  <2>1. m # n /\ status[m] = "NotStarted" /\ Covered(m)
    BY <1>1, <1>4, <1>5 DEF CoverInv, Outside
  <2>2. ASSUME NEW d \in Deps(m), d \in Pending \/ status[d] \in {"NotStarted", "Waiting", "Retrying"}
        PROVE  Covered(m)'
    BY <1>4, <2>2, DependentsListed DEF Covered
  <2> QED
    BY <1>1, <1>2, <2>1, <2>2 DEF Covered
<1>6. RunningInv' /\ QuietInv'
  BY <1>1, <1>3 DEF RunningInv, QuietInv
<1> QED
  BY <1>1, <1>5, <1>6 DEF CoverInv, Outside
(* An idle loop has nothing left to do: the nodes that are not decided would *)
(* include one whose dependencies are, and nobody looks at it.               *)
LEMMA NotStuck ==
  ASSUME IInv, RunningInv, QuietInv, CoverInv, loop = "decide", running = 0, readyCh = <<>>, ~CheckFinished
  PROVE  Has("Waiting") \/ Has("Retrying")
<1> SUFFICES ASSUME ~Has("Waiting"), ~Has("Retrying") PROVE FALSE
  OBVIOUS
<1> DEFINE S == {n \in Nodes : status[n] = "NotStarted"}
<1>1. Pending = {}
  BY NobodyPending
<1>2. ~Has("Running")
  BY <1>1 DEF Has, RunningInv, QuietInv, Pending, InFlight
<1>3. S # {}
  BY <1>2 DEF CheckFinished, Has
<1>4. PICK n \in S : Deps(n) \intersect S = {}
  BY <1>3, AcyclicAssumption DEF Deps
<1>5. Covered(n) /\ Range(visit) = {} /\ Range(readyCh) = {}
  BY DEF CoverInv, Outside, Range
<1>6. PICK d \in Deps(n) : d \in Pending \/ status[d] \in {"NotStarted", "Waiting", "Retrying"}
  BY <1>5 DEF Covered
<1>7. d \in Nodes
  BY DependentsListed
<1> QED
  BY <1>1, <1>4, <1>6, <1>7 DEF Has

(* The loop condition, the deadlock check and the select over the deadline. *)
LEMMA LoopCovers ==
  ASSUME IInv, RunningInv, QuietInv, CoverInv, ~canceled, LoopHead \/ LoopDecide \/ SelectCtxDone
  PROVE  CoverInv' /\ RunningInv' /\ QuietInv'
<1>1. /\ UNCHANGED <<status, pc, exit, readyCh, doneCh, running, visit>>
      /\ loop \in {"head", "decide", "select"}
  BY DEF LoopHead, LoopDecide, SelectCtxDone, LoopTo, nodeVars, chanVars
<1>2. RunningInv' /\ QuietInv' /\ Pending' = Pending /\ \A n \in Nodes : Covered(n)' <=> Covered(n)
  BY <1>1 DEF RunningInv, QuietInv, Pending, InFlight, Covered
<1>3. CASE LoopHead
  BY <1>1, <1>2, <1>3 DEF LoopHead, CoverInv, CheckFinished, Has, Outside
<1>4. CASE LoopDecide
  <2>1. SlotFree \/ running # 0
    BY ConfigAssumption DEF SlotFree, IInv, TypeOK
  <2>2. /\ lastError' = lastError
        /\ \/ loop' = "select"
           \/ loop' = "wait" /\ running = 0 /\ (Has("Waiting") \/ Has("Retrying"))
    BY <1>4, <2>1, NotStuck DEF LoopDecide
  <2> QED
    BY <1>1, <1>2, <1>4, <2>2 DEF LoopDecide, CoverInv, Has, Outside
<1>5. CASE SelectCtxDone
  BY <1>1, <1>2, <1>5 DEF SelectCtxDone, LoopTo, CoverInv, Outside
<1> QED
  BY <1>3, <1>4, <1>5

(* Steps of the event loop keep the undecided nodes covered. *)
LEMMA EventLoopCovers ==
  ASSUME IInv, RunningInv, QuietInv, CoverInv, ~canceled, ~canceled', EventLoop
  PROVE  CoverInv' /\ RunningInv' /\ QuietInv'
<1>1. CASE EvalPreconditions
  BY <1>1 DEF EvalPreconditions, LoopTo, CoverInv, RunningInv, QuietInv, Outside
<1>2. CASE RunInitHandler
  <2>1. /\ UNCHANGED <<status, pc, exit, readyCh, doneCh, running, lastError>> /\ visit' = NodeSeq
        /\ loop = "init" /\ loop' = IF NodeSeq = <<>> THEN "head" ELSE "scan"
    BY <1>2 DEF RunInitHandler, LoopTo, nodeVars, chanVars
  <2>2. \A n \in Nodes : Covered(n)'
    BY <2>1 DEF Covered, Nodes
  <2>3. Len(NodeSeq) <= Len(NodeSeq) /\ \A i \in DOMAIN NodeSeq : Len(NodeSeq) - Len(NodeSeq) + i = i
    BY PlanAssumption
  <2> QED
    BY <2>1, <2>2, <2>3 DEF CoverInv, RunningInv, QuietInv, Outside
<1>3. CASE Scan \/ Visit \/ SelectDone \/ SelectReady
  BY <1>3, ScanCovers, VisitCovers, SelectDoneCovers, SelectReadyCovers
<1>4. CASE LoopHead \/ LoopDecide \/ SelectCtxDone
  BY <1>4, LoopCovers
<1>5. CASE WaitGroup \/ ChooseHandlers \/ RunWaitHandler \/ RunHandler \/ RunReturns
  <2>1. /\ UNCHANGED <<status, pc, exit, running, visit>> /\ loop \in Outside /\ loop' \in Outside
        /\ lastError' \in {lastError, "handler"}
    BY <1>5 DEF WaitGroup, ChooseHandlers, RunWaitHandler, RunHandler, RunReturns, LoopTo, Outside, nodeVars
  <2> QED
    BY <2>1 DEF CoverInv, RunningInv, QuietInv, Has, Outside
<1> QED
  BY <1>1, <1>2, <1>3, <1>4, <1>5 DEF EventLoop

----------------------------------------------------------------------------
(* The event loop only starts and decides nodes that nobody has started yet. *)
LEMMA EventLoopSettles ==
  ASSUME IInv, RunningInv, ~canceled', EventLoop
  PROVE  RunningInv'
<1>1. CASE SelectReady \/ SelectDone \/ Scan \/ Visit
  <2>1. /\ status \in [Nodes -> NodeStatus] /\ pc \in [Nodes -> NodePc]
        /\ visit \in Seq(Nodes) /\ readyCh \in Seq(Nodes)
        /\ loop \in {"scan", "visit"} => visit # <<>>
    BY DEF IInv, TypeOK, Bookkeeping, CursorInv
  <2>2. CASE SelectReady
    BY <2>1, <2>2 DEF SelectReady, RunningInv
  <2>3. CASE SelectDone
    BY <2>1, <2>3 DEF SelectDone, RunningInv, nodeVars
  <2>4. CASE Scan
    BY <2>1, <2>4 DEF Scan, RunningInv
  <2>5. CASE Visit
    BY <2>1, <2>5 DEF Visit, RunningInv
  <2> QED
    BY <1>1, <2>2, <2>3, <2>4, <2>5
<1>2. CASE ~(SelectReady \/ SelectDone \/ Scan \/ Visit)
  <2>1. UNCHANGED <<status, pc, exit>>
    BY <1>2 DEF EventLoop, EvalPreconditions, RunInitHandler, LoopHead, LoopDecide, SelectCtxDone,
       WaitGroup, ChooseHandlers, RunWaitHandler, RunHandler, RunReturns, nodeVars
  <2> QED
    BY <2>1 DEF RunningInv
<1> QED
  BY <1>1, <1>2

(* Init establishes the invariants. *)
LEMMA InitCovers ==
  ASSUME Init
  PROVE  SettledInv /\ (NoneRunning /\ ScanOrder => SInv)
<1>1. StopInv /\ RunningInv
  BY DEF Init, StopInv, RunningInv
<1>2. NoneRunning => QuietInv
  BY ConfigAssumption DEF Init, QuietInv, NoneRunning
<1>3. ScanOrder => CoverInv
  BY ConfigAssumption DEF Init, CoverInv, ScanOrder, Outside, NoError
<1> QED
  BY <1>1, <1>2, <1>3 DEF SInv, SettledInv

(* What is left of a step of a run that is not canceled. *)
LEMMA Uncanceled ==
  ASSUME IInv, StopInv, [Next]_vars, ~canceled'
  PROVE  /\ ~canceled
         /\ \/ EventLoop
            \/ \E n \in Nodes : NodeStep(n) \/ ProcessEnds(n)
            \/ UNCHANGED <<status, pc, exit, lastError, readyCh, doneCh, loop, running, visit>>
<1>1. ~canceled /\ sigPc = "idle"
  BY StopKept DEF StopInv
<1>2. CASE CtxExpires \/ UNCHANGED vars
  BY <1>2 DEF CtxExpires, vars, nodeVars, chanVars, loopVars
<1>3. ~StopRequest /\ ~Signaller
  BY <1>1 DEF StopRequest, CanceledFirst, Signaller, CheckNode, SignalNode, SignalSent,
     SignalReturns, Resend, SigTo
<1> QED
  BY <1>1, <1>2, <1>3 DEF Next, Terminated

(* Every step of a run keeps the invariant. *)
LEMMA CoverInductive ==
  ASSUME NoPanic, IInv, SInv, [Next]_vars
  PROVE  SInv'
<1>1. StopInv' /\ (canceled => canceled')
  BY StopKept DEF SInv
<1>2. ASSUME ~canceled' PROVE RunningInv' /\ QuietInv' /\ CoverInv'
  <2>1. ~canceled /\ RunningInv /\ QuietInv /\ CoverInv
    BY <1>1, <1>2 DEF SInv
  <2>2. CASE EventLoop
    BY <1>2, <2>1, <2>2, EventLoopCovers
  <2>3. ASSUME NEW n \in Nodes, NodeStep(n) \/ ProcessEnds(n)
        PROVE  RunningInv' /\ QuietInv' /\ CoverInv'
    BY <2>1, <2>3, NodeRuns, NodeCovers DEF IInv
  <2>4. CASE UNCHANGED <<status, pc, exit, lastError, readyCh, doneCh, loop, running, visit>>
    <3>1. Pending' = Pending /\ \A n \in Nodes : Covered(n)' <=> Covered(n)
      BY <2>4 DEF Pending, InFlight, Covered
    <3> QED
      BY <2>1, <2>4, <3>1 DEF RunningInv, QuietInv, CoverInv, Has
  <2> QED
    BY <1>2, <2>2, <2>3, <2>4, Uncanceled DEF SInv
<1> QED
  BY <1>1, <1>2 DEF SInv

(* So does the part of it that neither panics nor restored nodes disturb. *)
LEMMA SettledInductive ==
  ASSUME IInv, SettledInv, [Next]_vars
  PROVE  SettledInv'
<1>1. StopInv' /\ (canceled => canceled')
  BY StopKept DEF SettledInv
<1>2. ASSUME ~canceled' PROVE RunningInv'
  <2>1. ~canceled /\ RunningInv
    BY <1>1, <1>2 DEF SettledInv
  <2>2. CASE EventLoop
    BY <1>2, <2>1, <2>2, EventLoopSettles
  <2>3. ASSUME NEW n \in Nodes, NodeStep(n) \/ ProcessEnds(n) PROVE RunningInv'
    BY <2>1, <2>3, NodeRuns DEF IInv
  <2>4. CASE UNCHANGED <<status, pc, exit, lastError, readyCh, doneCh, loop, running, visit>>
    BY <2>1, <2>4 DEF RunningInv
  <2> QED
    BY <1>2, <2>2, <2>3, <2>4, Uncanceled DEF SettledInv
<1> QED
  BY <1>1, <1>2 DEF SettledInv

(***************************************************************************)
(* The invariant holds in every run of a plan whose steps do not panic,    *)
(* none of which was left Running, and whose first scan meets no decision  *)
(* it would have to pass on (Runner.Run, processCompletedNode).            *)
(***************************************************************************)
THEOREM CoverageHolds ==
  ASSUME NoPanic, NoneRunning, ScanOrder
  PROVE  Spec => []SInv
<1>1. Init => SInv
  BY InitCovers
<1>2. IInv /\ SInv /\ [Next]_vars => SInv'
  BY CoverInductive
<1> QED
  BY <1>1, <1>2, InvariantHolds, PTL DEF Spec

(***************************************************************************)
(* No lost wake-up: a run that nobody stops leaves the event loop with     *)
(* every node started or decided, unless one waits for an approval or for  *)
(* a retry by the parent, and never through the deadlock check (Runner.Run, *)
(* isReady, processCompletedNode).                                         *)
(***************************************************************************)
THEOREM NoStrandingHolds ==
  ASSUME NoPanic, NoneRunning, ScanOrder
  PROVE  Spec => []NoStranding
<1>1. IInv /\ SInv => NoStranding
  <2> SUFFICES ASSUME IInv, SInv, ~canceled, loop \in Outside
               PROVE  /\ lastError # "deadlock"
                      /\ Has("NotStarted") => Has("Waiting") \/ Has("Retrying")
                      /\ loop # "wait" => ~Has("Running")
    BY DEF NoStranding, Outside
  <2>1. RunningInv /\ QuietInv /\ CoverInv
    BY DEF SInv
  <2>2. loop # "wait" => AllFinished
    BY DEF IInv, Bookkeeping, AwaitInv, Outside
  <2>3. loop # "wait" => ~Has("Running")
    BY <2>1, <2>2 DEF RunningInv, QuietInv, AllFinished, Has
  <2> QED
    BY <2>1, <2>3 DEF CoverInv
<1> QED
  BY <1>1, CoverageHolds, InvariantHolds, PTL

(***************************************************************************)
(* No step that was started is left Running behind wg.Wait of a run that   *)
(* nobody stops, whatever its steps do, panics included, and whatever its  *)
(* nodes were restored to (recoverNodePanic, finishNode, Runner.Run).      *)
(***************************************************************************)
THEOREM PanicSettledHolds == Spec => []PanicSettled
<1>1. Init => SettledInv
  BY InitCovers
<1>2. IInv /\ SettledInv /\ [Next]_vars => SettledInv'
  BY SettledInductive
<1>3. IInv /\ SettledInv => PanicSettled
  BY DEF PanicSettled, SettledInv, RunningInv, IInv, Bookkeeping, AwaitInv, AllFinished
<1> QED
  BY <1>1, <1>2, <1>3, InvariantHolds, PTL DEF Spec
=============================================================================
