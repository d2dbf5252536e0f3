-------------------------------- MODULE Plan --------------------------------
(***************************************************************************)
(* The construction of an execution plan: NewPlan, CreateRetryPlan,        *)
(* CreateStepRetryPlan and NewPlanFromNodes.  Each builds the edges, looks *)
(* for a cycle with Kahn's algorithm and then, for a retry, clears the     *)
(* state of the nodes that are to be executed again.                       *)
(*                                                                         *)
(* A step is one turn of a loop.  Edge lists, the queue and the levels of  *)
(* the search are sets, taken in any order.  A node that is listed twice   *)
(* in a level is visited once: the second visit finds its dependants in    *)
(* the next level already.                                                 *)
(***************************************************************************)
EXTENDS Integers, FiniteSets

CONSTANTS
  Names,      \* names of steps
  Requests    \* what plans are asked for

Modes == {"new", "nodes", "retry", "step"}

Statuses == {"none", "running", "succeeded", "skipped", "partly", "waiting",
             "failed", "retrying", "aborted", "rejected"}

(* The DAG's steps with what they depend on, the restored nodes with their   *)
(* statuses and retry counts, and the step that is to be retried.            *)
RequestType ==
  [mode : Modes, steps : SUBSET Names, depends : [Names -> SUBSET Names],
   nodes : SUBSET Names, status : [Names -> Statuses], retries : [Names -> Nat],
   target : Names]

ASSUME NamesAssumption == IsFiniteSet(Names)

ASSUME RequestsAssumption == Requests \subseteq RequestType

VARIABLES
  request,
  pc,
  status,
  retries,
  inDegrees,
  queue,
  processedCount,
  toRetry,
  frontier,
  next,
  processed,      \* history: the nodes that left the queue
  visited         \* history: the nodes the search has met

vars == <<request, pc, status, retries, inDegrees, queue, processedCount, toRetry,
          frontier, next, processed, visited>>

kahn == <<inDegrees, queue, processedCount, processed>>

search == <<toRetry, frontier, next, visited>>

nodes == request.nodes

DependencyMap(n) == request.depends[n]

DependantMap(u) == {v \in nodes : u \in DependencyMap(v)}

Init ==
  /\ request \in Requests
  /\ pc = "bind"
  /\ status = request.status
  /\ retries = request.retries
  /\ inDegrees = [n \in nodes |-> 0]
  /\ queue = {}
  /\ processedCount = 0
  /\ processed = {}
  /\ toRetry = {}
  /\ frontier = {}
  /\ next = {}
  /\ visited = {}

-----------------------------------------------------------------------------
rebindRetryNodesToSteps ==
  /\ pc = "bind"
  /\ pc' = IF request.mode \in {"retry", "step"} /\ ~ (nodes \subseteq request.steps)
           THEN "missing" ELSE "edges"
  /\ UNCHANGED <<request, status, retries, kahn, search>>

(* buildEdges, and isCyclic up to its loop. *)
buildEdges ==
  /\ pc = "edges"
  /\ pc' = IF \E n \in nodes : ~ (DependencyMap(n) \subseteq nodes) THEN "missing" ELSE "kahn"
  /\ inDegrees' = [n \in nodes |-> Cardinality(DependencyMap(n))]
  /\ queue' = {n \in nodes : DependencyMap(n) = {}}
  /\ UNCHANGED <<request, status, retries, processedCount, processed, search>>

(* A mutant: a node is queued as soon as one dependency is processed. *)
ProcessEagerly ==
  /\ pc = "kahn"
  /\ \E u \in queue :
       /\ inDegrees' = [v \in nodes |-> inDegrees[v] - IF v \in DependantMap(u) THEN 1 ELSE 0]
       /\ queue' = (queue \ {u}) \cup (DependantMap(u) \ processed)
       /\ processed' = processed \cup {u}
  /\ processedCount' = processedCount + 1
  /\ UNCHANGED <<request, pc, status, retries, search>>

(* isCyclic: the loop. *)
Process ==
  /\ pc = "kahn"
  /\ \E u \in queue :
       /\ inDegrees' = [v \in nodes |-> inDegrees[v] - IF v \in DependantMap(u) THEN 1 ELSE 0]
       /\ queue' = (queue \ {u}) \cup {v \in DependantMap(u) : inDegrees'[v] = 0}
       /\ processed' = processed \cup {u}
  /\ processedCount' = processedCount + 1
  /\ UNCHANGED <<request, pc, status, retries, search>>

(* ClearState keeps the retry count of a step that is retried on its own. *)
retryStep ==
  IF request.target \in nodes
  THEN pc' = "ready" /\ status' = [status EXCEPT ![request.target] = "none"]
  ELSE pc' = "missing" /\ UNCHANGED status

(* A mutant: a plan with a cycle passes. *)
IgnoreCycle ==
  /\ pc = "kahn"
  /\ queue = {}
  /\ IF request.mode = "step" THEN retryStep
     ELSE pc' = (IF request.mode = "retry" THEN "retry" ELSE "ready") /\ UNCHANGED status
  /\ frontier' = {n \in nodes : DependencyMap(n) = {}}
  /\ UNCHANGED <<request, retries, kahn, toRetry, next, visited>>

(* isCyclic: the verdict; the caller goes on. *)
isCyclic ==
  /\ pc = "kahn"
  /\ queue = {}
  /\ CASE processedCount # Cardinality(nodes) -> pc' = "cyclic" /\ UNCHANGED status
       [] processedCount = Cardinality(nodes) /\ request.mode = "step" -> retryStep
       [] OTHER -> pc' = (IF request.mode = "retry" THEN "retry" ELSE "ready") /\ UNCHANGED status
  /\ frontier' = {n \in nodes : DependencyMap(n) = {}}
  /\ UNCHANGED <<request, retries, kahn, toRetry, next, visited>>

-----------------------------------------------------------------------------
(* setupRetry. *)

shouldRetry(u) ==
  u \in toRetry \/ request.status[u] \in {"failed", "retrying", "aborted", "rejected"}

(* A mutant: the search does not come back to a node. *)
VisitOnce(u) ==
  /\ pc = "retry"
  /\ u \in frontier
  /\ IF shouldRetry(u)
     THEN /\ status' = [status EXCEPT ![u] = "none"]
          /\ retries' = [retries EXCEPT ![u] = 0]
          /\ toRetry' = toRetry \cup {u} \cup DependantMap(u)
     ELSE UNCHANGED <<status, retries, toRetry>>
  /\ next' = next \cup (DependantMap(u) \ visited)
  /\ frontier' = frontier \ {u}
  /\ visited' = visited \cup {u}
  /\ UNCHANGED <<request, pc, kahn>>

Visit(u) ==
  /\ pc = "retry"
  /\ u \in frontier
  /\ IF shouldRetry(u)
     THEN /\ status' = [status EXCEPT ![u] = "none"]
          /\ retries' = [retries EXCEPT ![u] = 0]
          /\ toRetry' = toRetry \cup {u} \cup DependantMap(u)
     ELSE UNCHANGED <<status, retries, toRetry>>
  /\ next' = next \cup DependantMap(u)
  /\ frontier' = frontier \ {u}
  /\ visited' = visited \cup {u}
  /\ UNCHANGED <<request, pc, kahn>>

NextLevel ==
  /\ pc = "retry"
  /\ frontier = {}
  /\ frontier' = next
  /\ next' = {}
  /\ pc' = IF next = {} THEN "ready" ELSE pc
  /\ UNCHANGED <<request, status, retries, kahn, toRetry, visited>>

Finished == pc \in {"ready", "cyclic", "missing"}

Next ==
  \/ rebindRetryNodesToSteps
  \/ buildEdges
  \/ Process
  \/ isCyclic
  \/ \E u \in Names : Visit(u)
  \/ NextLevel

Spec == Init /\ [][Next]_vars /\ WF_vars(Next)

-----------------------------------------------------------------------------
(* No node of a set without a cycle waits for the others only: every part of *)
(* it has a node that depends on none of the part.                           *)
Acyclic(S) ==
  \A T \in SUBSET S : T # {} => \E x \in T : DependencyMap(x) \cap T = {}

(* isCyclic says that there is a cycle iff there is one: counting the        *)
(* dependencies that remain tells the nodes on a cycle, and those after one, *)
(* from all others, in whatever order the queue is served.                   *)
CycleCheck ==
  /\ pc = "cyclic" => ~Acyclic(nodes)
  /\ pc \in {"retry", "ready"} => Acyclic(nodes)

Closed(S) == \A u \in S : DependantMap(u) \subseteq S

(* What failed, and what depends on it directly or through others. *)
MustRetry ==
  {n \in nodes : \A S \in SUBSET nodes :
     (Closed(S) /\ \A u \in nodes : request.status[u] \in {"failed", "retrying", "aborted", "rejected"} => u \in S)
     => n \in S}

(* setupRetry clears the nodes that failed and all that depend on them, and  *)
(* keeps every other node as it was, although it visits a node before all of *)
(* the node's dependencies are decided.                                      *)
RetryExact ==
  (pc = "ready" /\ request.mode = "retry") =>
    \A n \in nodes : /\ status[n] = IF n \in MustRetry THEN "none" ELSE request.status[n]
                     /\ retries[n] = IF n \in MustRetry THEN 0 ELSE request.retries[n]

(* The search, which keeps no record of the nodes it has visited, comes to   *)
(* an end, because plans with a cycle are refused before.                    *)
Termination == <>Finished

=============================================================================
