----------------------------- MODULE PlanProofs -----------------------------
(***************************************************************************)
(* For every finite plan, every set of failed nodes and every order of the *)
(* queue and of the levels: the cycle check is right, and a retry plan     *)
(* clears exactly what failed and what depends on it.                      *)
(***************************************************************************)
EXTENDS Plan, FiniteSetTheorems, TLAPS

Failing(n) == request.status[n] \in {"failed", "retrying", "aborted", "rejected"}

Types ==
  /\ request \in Requests
  /\ status \in [Names -> Statuses]
  /\ retries \in [Names -> Nat]
  /\ queue \subseteq nodes
  /\ processed \subseteq nodes
  /\ processedCount = Cardinality(processed)
  /\ inDegrees \in [nodes -> Int]
  /\ toRetry \subseteq nodes
  /\ frontier \subseteq nodes
  /\ next \subseteq nodes
  /\ visited \subseteq nodes

(* Before the cycle check nothing has been processed, before the search      *)
(* nothing has been cleared.                                                 *)
Untouched ==
  /\ pc \in {"bind", "edges"} => processed = {}
  /\ pc \in {"bind", "edges", "kahn"} =>
       /\ toRetry = {} /\ visited = {} /\ next = {}
       /\ status = request.status /\ retries = request.retries

EdgesKnown ==
  pc \in {"kahn", "cyclic", "retry", "ready"} => \A n \in nodes : DependencyMap(n) \subseteq nodes

(* What the in-degrees count and the queue holds. *)
Counted ==
  pc = "kahn" =>
    /\ \A v \in nodes : inDegrees[v] = Cardinality(DependencyMap(v) \ processed)
    /\ queue = {n \in nodes \ processed : DependencyMap(n) \subseteq processed}
    /\ \A n \in processed : DependencyMap(n) \subseteq processed
    /\ Acyclic(processed)

Searching == pc = "retry" \/ (pc = "ready" /\ request.mode = "retry")

Pending == frontier \cup next

(* What the search still has to do is among the nodes it is about to visit. *)
Searched ==
  Searching =>
    /\ \A u \in toRetry : DependantMap(u) \subseteq toRetry \/ u \in Pending
    /\ \A n \in nodes : n \in toRetry => (status[n] = "none" /\ retries[n] = 0) \/ n \in Pending
    /\ \A n \in nodes : n \notin toRetry => status[n] = request.status[n] /\ retries[n] = request.retries[n]
    /\ \A n \in nodes : Failing(n) => n \in toRetry \/ n \notin visited
    /\ \A n \in nodes \ visited : n \in Pending \/ \E d \in DependencyMap(n) : d \notin visited
    /\ toRetry \subseteq MustRetry
    /\ pc = "ready" => Pending = {}

IInv == Types /\ Untouched /\ EdgesKnown /\ Counted /\ CycleCheck /\ Searched

-----------------------------------------------------------------------------
(* The nodes and what they depend on are finite sets. *)
LEMMA Finite ==
  ASSUME Types
  PROVE  /\ IsFiniteSet(nodes)
         /\ nodes \subseteq Names
         /\ \A n \in Names : DependencyMap(n) \subseteq Names /\ IsFiniteSet(DependencyMap(n))
<1>1. nodes \subseteq Names /\ \A n \in Names : DependencyMap(n) \subseteq Names
  BY RequestsAssumption DEF Types, RequestType, nodes, DependencyMap
<1>2. \A S \in SUBSET Names : IsFiniteSet(S)
  BY FS_Subset, NamesAssumption
<1>. QED  BY <1>1, <1>2

(* Init establishes the invariant. *)
LEMMA Initially == Init => IInv
<1>. SUFFICES ASSUME Init PROVE IInv
  OBVIOUS
<1>1. Types
  <2>1. Cardinality({}) = 0
    BY FS_EmptySet
  <2>2. request.status \in [Names -> Statuses] /\ request.retries \in [Names -> Nat]
    BY RequestsAssumption DEF Init, RequestType
  <2>. QED  BY <2>1, <2>2 DEF Init, Types
<1>. QED  BY <1>1 DEF Init, IInv, Untouched, EdgesKnown, Counted, CycleCheck, Searched, Searching

LEMMA BindStep == IInv /\ rebindRetryNodesToSteps => IInv'
<1>. SUFFICES ASSUME IInv, rebindRetryNodesToSteps PROVE IInv'
  OBVIOUS
<1>0. pc = "bind" /\ pc' \in {"missing", "edges"} /\ UNCHANGED <<request, status, retries, kahn, search>>
  BY DEF rebindRetryNodesToSteps
<1>1. Types'
  BY <1>0 DEF IInv, Types, nodes, kahn, search
<1>2. Untouched'
  BY <1>0 DEF IInv, Untouched, kahn, search
<1>. QED  BY <1>0, <1>1, <1>2 DEF IInv, EdgesKnown, Counted, CycleCheck, Searched, Searching

LEMMA EdgesStep == IInv /\ buildEdges => IInv'
<1>. SUFFICES ASSUME IInv, buildEdges PROVE IInv'
  OBVIOUS
<1>0. /\ pc = "edges" /\ pc' \in {"missing", "kahn"}
      /\ UNCHANGED <<request, status, retries, processedCount, processed, search>>
      /\ processed = {}
      /\ pc' = "kahn" => \A n \in nodes : DependencyMap(n) \subseteq nodes
      /\ inDegrees' = [n \in nodes |-> Cardinality(DependencyMap(n))]
      /\ queue' = {n \in nodes : DependencyMap(n) = {}}
  BY DEF buildEdges, IInv, Untouched
<1>1. Types'
  <2>1. \A n \in nodes : Cardinality(DependencyMap(n)) \in Int
    BY Finite, FS_CardinalityType DEF IInv
  <2>. QED  BY <1>0, <2>1 DEF IInv, Types, nodes, search
<1>2. Untouched' /\ EdgesKnown'
  BY <1>0 DEF IInv, Untouched, EdgesKnown, search, nodes, DependencyMap
<1>3. Counted'
  <2>1. \A v \in nodes' : inDegrees'[v] = Cardinality(DependencyMap(v)' \ processed')
    <3>1. \A v \in nodes : DependencyMap(v) \ {} = DependencyMap(v)
      OBVIOUS
    <3>. QED  BY <1>0, <3>1 DEF nodes, DependencyMap
  <2>2. Acyclic(processed)'
    BY <1>0 DEF Acyclic
  <2>3. queue' = {n \in nodes' \ processed' : DependencyMap(n)' \subseteq processed'}
    BY <1>0 DEF nodes, DependencyMap
  <2>. QED  BY <1>0, <2>1, <2>2, <2>3 DEF Counted
<1>. QED  BY <1>0, <1>1, <1>2, <1>3 DEF IInv, CycleCheck, Searched, Searching

(* Removing one element of a finite set: the number that remains, and when   *)
(* none does.                                                                *)
LEMMA RemoveOne ==
  ASSUME NEW S, IsFiniteSet(S), NEW x
  PROVE  /\ Cardinality(S \ {x}) = Cardinality(S) - (IF x \in S THEN 1 ELSE 0)
         /\ Cardinality(S \ {x}) = 0 <=> S \subseteq {x}
<1>1. IsFiniteSet(S \ {x}) /\ Cardinality(S) \in Nat
  BY FS_RemoveElement, FS_CardinalityType
<1>2. Cardinality(S \ {x}) = Cardinality(S) - (IF x \in S THEN 1 ELSE 0)
  BY FS_RemoveElement, <1>1
<1>3. Cardinality(S \ {x}) = 0 <=> S \ {x} = {}
  BY FS_EmptySet, <1>1
<1>. QED  BY <1>2, <1>3

LEMMA ProcessStep == IInv /\ Process => IInv'
<1>. SUFFICES ASSUME IInv, Process PROVE IInv'
  OBVIOUS
<1>0. /\ pc = "kahn" /\ pc' = "kahn"
      /\ processedCount' = processedCount + 1
      /\ UNCHANGED <<request, status, retries, search>>
  BY DEF Process
<1>u. PICK u \in queue :
       /\ inDegrees' = [v \in nodes |-> inDegrees[v] - IF v \in DependantMap(u) THEN 1 ELSE 0]
       /\ queue' = (queue \ {u}) \cup {v \in DependantMap(u) : inDegrees'[v] = 0}
       /\ processed' = processed \cup {u}
  BY DEF Process
<1>f. /\ IsFiniteSet(nodes) /\ nodes \subseteq Names
      /\ \A n \in Names : IsFiniteSet(DependencyMap(n))
  BY Finite DEF IInv
<1>c. /\ \A v \in nodes : inDegrees[v] = Cardinality(DependencyMap(v) \ processed)
      /\ queue = {n \in nodes \ processed : DependencyMap(n) \subseteq processed}
      /\ \A n \in processed : DependencyMap(n) \subseteq processed
      /\ Acyclic(processed)
  BY <1>0 DEF IInv, Counted
<1>e. \A n \in nodes : DependencyMap(n) \subseteq nodes
  BY <1>0 DEF IInv, EdgesKnown
<1>w. u \in nodes /\ u \notin processed /\ DependencyMap(u) \subseteq processed
  BY <1>c, <1>u
<1>r. \A v \in nodes : /\ DependencyMap(v) \ processed' = (DependencyMap(v) \ processed) \ {u}
                       /\ IsFiniteSet(DependencyMap(v) \ processed)
  <2>1. \A v \in nodes : IsFiniteSet(DependencyMap(v) \ processed)
    BY <1>f, FS_Subset
  <2>. QED  BY <2>1, <1>u
<1>d. \A v \in nodes :
        /\ inDegrees'[v] = Cardinality(DependencyMap(v) \ processed')
        /\ inDegrees'[v] = 0 <=> DependencyMap(v) \ processed \subseteq {u}
        /\ inDegrees'[v] \in Int
  <2>. SUFFICES ASSUME NEW v \in nodes
       PROVE  /\ inDegrees'[v] = Cardinality(DependencyMap(v) \ processed')
              /\ inDegrees'[v] = 0 <=> DependencyMap(v) \ processed \subseteq {u}
              /\ inDegrees'[v] \in Int
    OBVIOUS
  <2>. DEFINE rest == DependencyMap(v) \ processed
  <2>1. v \in DependantMap(u) <=> u \in rest
    BY <1>w DEF DependantMap
  <2>2. inDegrees'[v] = inDegrees[v] - (IF u \in rest THEN 1 ELSE 0)
    BY <1>u, <2>1
  <2>3. inDegrees[v] \in Int /\ inDegrees[v] = Cardinality(rest)
    BY <1>c DEF IInv, Types
  <2>4. IsFiniteSet(rest) /\ DependencyMap(v) \ processed' = rest \ {u}
    BY <1>r
  <2>. HIDE DEF rest
  <2>5. /\ Cardinality(rest \ {u}) = Cardinality(rest) - (IF u \in rest THEN 1 ELSE 0)
        /\ Cardinality(rest \ {u}) = 0 <=> rest \subseteq {u}
    BY <2>4, RemoveOne
  <2>6. inDegrees'[v] = Cardinality(rest \ {u}) /\ inDegrees'[v] \in Int
    BY <2>2, <2>3, <2>5
  <2>. QED  BY <2>4, <2>5, <2>6 DEF rest
<1>q. queue' = {n \in nodes \ processed' : DependencyMap(n) \subseteq processed'}
  <2>1. ASSUME NEW n PROVE n \in queue' => n \in nodes \ processed' /\ DependencyMap(n) \subseteq processed'
    <3>1. CASE n \in queue \ {u}
      BY <3>1, <1>c, <1>u
    <3>2. CASE n \in DependantMap(u) /\ inDegrees'[n] = 0
      <4>1. n \in nodes /\ u \in DependencyMap(n)
        BY <3>2 DEF DependantMap
      <4>2. n \notin processed /\ n # u
        BY <4>1, <1>c, <1>w
      <4>3. DependencyMap(n) \ processed \subseteq {u}
        BY <1>d, <3>2, <4>1
      <4>. QED  BY <4>1, <4>2, <4>3, <1>u
    <3>. QED  BY <3>1, <3>2, <1>u
  <2>2. ASSUME NEW n \in nodes \ processed', DependencyMap(n) \subseteq processed' PROVE n \in queue'
    <3>1. CASE DependencyMap(n) \subseteq processed
      BY <3>1, <2>2, <1>c, <1>u
    <3>2. CASE ~ (DependencyMap(n) \subseteq processed)
      <4>1. u \in DependencyMap(n) /\ DependencyMap(n) \ processed \subseteq {u}
        BY <3>2, <2>2, <1>u
      <4>2. n \in DependantMap(u) /\ inDegrees'[n] = 0
        BY <4>1, <1>d DEF DependantMap
      <4>. QED  BY <4>2, <1>u
    <3>. QED  BY <3>1, <3>2
  <2>. QED  BY <2>1, <2>2
<1>a. Acyclic(processed')
  <2>. SUFFICES ASSUME NEW T \in SUBSET processed', T # {}
       PROVE  \E x \in T : DependencyMap(x) \cap T = {}
    BY DEF Acyclic
  <2>1. CASE T \ {u} = {}
    <3>1. T = {u}
      BY <2>1
    <3>. QED  BY <3>1, <1>w
  <2>2. CASE T \ {u} # {}
    <3>1. T \ {u} \in SUBSET processed
      BY <1>u
    <3>2. PICK x \in T \ {u} : DependencyMap(x) \cap (T \ {u}) = {}
      BY <3>1, <2>2, <1>c DEF Acyclic
    <3>3. u \notin DependencyMap(x)
      BY <3>1, <1>c, <1>w
    <3>. QED  BY <3>2, <3>3
  <2>. QED  BY <2>1, <2>2
<1>1. Types'
  <2>1. inDegrees' \in [nodes -> Int] /\ queue' \subseteq nodes /\ processed' \subseteq nodes
    BY <1>u, <1>d, <1>q, <1>w DEF IInv, Types
  <2>2. processedCount' = Cardinality(processed')
    <3>1. IsFiniteSet(processed)
      BY <1>f, FS_Subset DEF IInv, Types
    <3>. QED  BY <3>1, <1>0, <1>u, <1>w, FS_AddElement DEF IInv, Types
  <2>. QED  BY <2>1, <2>2, <1>0 DEF IInv, Types, nodes, search
<1>2. Untouched' /\ EdgesKnown'
  BY <1>0, <1>e DEF IInv, Untouched, search, EdgesKnown, nodes, DependencyMap
<1>3. Counted'
  <2>1. nodes' = nodes /\ \A n : DependencyMap(n)' = DependencyMap(n)
    BY <1>0 DEF nodes, DependencyMap
  <2>2. Acyclic(processed)'
    BY <1>a, <2>1 DEF Acyclic
  <2>3. \A n \in processed' : DependencyMap(n) \subseteq processed'
    BY <1>c, <1>u, <1>w
  <2>. QED  BY <2>1, <2>2, <2>3, <1>d, <1>q DEF Counted
<1>. QED  BY <1>0, <1>1, <1>2, <1>3 DEF IInv, CycleCheck, Searched, Searching

(* A plan all of whose nodes could be processed has no cycle, one with nodes *)
(* left over has.                                                            *)
LEMMA Verdict ==
  ASSUME IInv, pc = "kahn", queue = {}
  PROVE  processedCount = Cardinality(nodes) <=> Acyclic(nodes)
<1>c. /\ queue = {n \in nodes \ processed : DependencyMap(n) \subseteq processed}
      /\ Acyclic(processed)
  BY DEF IInv, Counted
<1>e. \A n \in nodes : DependencyMap(n) \subseteq nodes
  BY DEF IInv, EdgesKnown
<1>1. processedCount = Cardinality(nodes) <=> processed = nodes
  <2>1. IsFiniteSet(nodes) /\ processed \in SUBSET nodes /\ processedCount = Cardinality(processed)
    BY Finite DEF IInv, Types
  <2>. HIDE DEF nodes
  <2>. QED  BY <2>1, FS_Subset
<1>2. processed = nodes => Acyclic(nodes)
  BY <1>c
<1>3. ASSUME processed # nodes PROVE ~Acyclic(nodes)
  <2>. DEFINE T == nodes \ processed
  <2>1. T # {} /\ T \in SUBSET nodes
    BY <1>3 DEF IInv, Types
  <2>2. \A x \in T : DependencyMap(x) \cap T # {}
    BY <1>c, <1>e
  <2>. QED  BY <2>1, <2>2 DEF Acyclic
<1>. QED  BY <1>1, <1>2, <1>3

LEMMA CyclicStep == IInv /\ isCyclic => IInv'
<1>. SUFFICES ASSUME IInv, isCyclic PROVE IInv'
  OBVIOUS
<1>0. /\ pc = "kahn" /\ queue = {}
      /\ frontier' = {n \in nodes : DependencyMap(n) = {}}
      /\ UNCHANGED <<request, retries, kahn, toRetry, next, visited>>
      /\ toRetry = {} /\ visited = {} /\ next = {}
      /\ status = request.status /\ retries = request.retries
      /\ \A n \in nodes : DependencyMap(n) \subseteq nodes
  BY DEF isCyclic, IInv, Untouched, EdgesKnown
<1>1. /\ pc' \in {"cyclic", "retry", "ready", "missing"}
      /\ pc' = "cyclic" <=> processedCount # Cardinality(nodes)
      /\ status' \in [Names -> Statuses]
      /\ pc' = "retry" => status' = status
      /\ pc' = "ready" => request.mode # "retry"
  <2>1. status \in [Names -> Statuses]
    BY DEF IInv, Types
  <2>2. CASE processedCount # Cardinality(nodes)
    BY <2>1, <2>2 DEF isCyclic
  <2>3. CASE processedCount = Cardinality(nodes) /\ request.mode = "step"
    <3>1. retryStep
      BY <2>3 DEF isCyclic
    <3>. QED  BY <2>1, <2>3, <3>1 DEF retryStep, Statuses
  <2>4. CASE processedCount = Cardinality(nodes) /\ request.mode # "step"
    BY <2>1, <2>4 DEF isCyclic
  <2>. QED  BY <2>2, <2>3, <2>4
<1>s. nodes' = nodes /\ \A n : DependencyMap(n)' = DependencyMap(n)
  BY <1>0 DEF nodes, DependencyMap
<1>2. Types'
  BY <1>0, <1>1, <1>s DEF IInv, Types, kahn
<1>3. CycleCheck'
  <2>1. pc' = "cyclic" <=> ~Acyclic(nodes)
    BY <1>0, <1>1, Verdict
  <2>2. Acyclic(nodes)' <=> Acyclic(nodes)
    BY <1>s DEF Acyclic
  <2>. QED  BY <2>1, <2>2, <1>1 DEF CycleCheck
<1>4. Searched'
  <2>1. ASSUME Searching' PROVE pc' = "retry" /\ status' = request.status
    BY <2>1, <1>0, <1>1 DEF Searching
  <2>2. \A n \in nodes \ visited' : n \in Pending' \/ \E d \in DependencyMap(n) : d \notin visited'
    BY <1>0 DEF Pending
  <2>. QED  BY <2>1, <2>2, <1>0, <1>s DEF Searched
<1>. QED  BY <1>0, <1>1, <1>2, <1>3, <1>4, <1>s DEF IInv, Untouched, EdgesKnown, Counted

-----------------------------------------------------------------------------
(* MustRetry is closed, and contains what failed. *)
LEMMA MustRetryClosed ==
  /\ \A n \in nodes : Failing(n) => n \in MustRetry
  /\ \A u \in MustRetry : DependantMap(u) \subseteq MustRetry
<1>1. \A n \in nodes : Failing(n) => n \in MustRetry
  BY DEF MustRetry, Failing
<1>2. ASSUME NEW u \in MustRetry, NEW v \in DependantMap(u) PROVE v \in MustRetry
  <2>1. v \in nodes
    BY DEF DependantMap
  <2>2. ASSUME NEW S \in SUBSET nodes, Closed(S), \A n \in nodes : Failing(n) => n \in S PROVE v \in S
    <3>1. u \in S
      BY <2>2 DEF MustRetry, Failing
    <3>. QED  BY <3>1, <2>2 DEF Closed
  <2>. QED  BY <2>1, <2>2 DEF MustRetry, Failing
<1>. QED  BY <1>1, <1>2

LEMMA VisitStep == ASSUME IInv, NEW u \in Names, Visit(u) PROVE IInv'
<1>0. /\ pc = "retry" /\ pc' = "retry" /\ u \in frontier
      /\ next' = next \cup DependantMap(u)
      /\ frontier' = frontier \ {u}
      /\ visited' = visited \cup {u}
      /\ UNCHANGED <<request, kahn>>
  BY DEF Visit
<1>s. nodes' = nodes /\ (\A n : DependencyMap(n)' = DependencyMap(n)) /\ \A n : DependantMap(n)' = DependantMap(n)
  BY <1>0 DEF nodes, DependencyMap, DependantMap
<1>m. MustRetry' = MustRetry /\ \A n : Failing(n)' <=> Failing(n)
  BY <1>0, <1>s DEF MustRetry, Closed, Failing
<1>t. /\ u \in nodes /\ DependantMap(u) \subseteq nodes
      /\ status \in [Names -> Statuses] /\ retries \in [Names -> Nat]
  BY <1>0 DEF IInv, Types, DependantMap
<1>1. CASE shouldRetry(u)
  <2>0. /\ status' = [status EXCEPT ![u] = "none"]
        /\ retries' = [retries EXCEPT ![u] = 0]
        /\ toRetry' = toRetry \cup {u} \cup DependantMap(u)
    BY <1>1 DEF Visit
  <2>1. Types'
    BY <1>0, <1>s, <1>t, <2>0 DEF IInv, Types, kahn, Statuses
  <2>2. u \in MustRetry /\ DependantMap(u) \subseteq MustRetry
    BY <1>1, <1>t, MustRetryClosed, <1>0 DEF shouldRetry, IInv, Searched, Searching, Failing
  <2>3. Searched'
    <3>. USE <1>0, <1>s, <1>m, <1>t, <2>0 DEF Pending
    <3>1. \A x \in toRetry' : DependantMap(x)' \subseteq toRetry' \/ x \in Pending'
      BY DEF IInv, Searched, Searching
    <3>2. \A n \in nodes' : n \in toRetry' => (status'[n] = "none" /\ retries'[n] = 0) \/ n \in Pending'
      BY RequestsAssumption DEF IInv, Searched, Searching, Types, RequestType, nodes
    <3>3. \A n \in nodes' : n \notin toRetry' => status'[n] = request'.status[n] /\ retries'[n] = request'.retries[n]
      BY RequestsAssumption DEF IInv, Searched, Searching, Types, RequestType, nodes
    <3>4. \A n \in nodes' : Failing(n)' => n \in toRetry' \/ n \notin visited'
      BY DEF IInv, Searched, Searching
    <3>5. \A n \in nodes' \ visited' : n \in Pending' \/ \E d \in DependencyMap(n)' : d \notin visited'
      BY DEF IInv, Searched, Searching, DependantMap
    <3>6. toRetry' \subseteq MustRetry'
      BY <2>2 DEF IInv, Searched, Searching
    <3>. QED  BY <3>1, <3>2, <3>3, <3>4, <3>5, <3>6 DEF Searched
  <2>. QED  BY <1>0, <1>s, <2>1, <2>3 DEF IInv, Untouched, EdgesKnown, Counted, CycleCheck, Acyclic
<1>2. CASE ~shouldRetry(u)
  <2>0. UNCHANGED <<status, retries, toRetry>> /\ u \notin toRetry /\ ~Failing(u)
    BY <1>2 DEF Visit, shouldRetry, Failing
  <2>1. Types'
    BY <1>0, <1>s, <1>t, <2>0 DEF IInv, Types, kahn
  <2>3. Searched'
    <3>. USE <1>0, <1>s, <1>m, <1>t, <2>0 DEF Pending
    <3>1. \A x \in toRetry' : DependantMap(x)' \subseteq toRetry' \/ x \in Pending'
      BY DEF IInv, Searched, Searching
    <3>2. \A n \in nodes' : n \in toRetry' => (status'[n] = "none" /\ retries'[n] = 0) \/ n \in Pending'
      BY DEF IInv, Searched, Searching
    <3>3. \A n \in nodes' : n \notin toRetry' => status'[n] = request'.status[n] /\ retries'[n] = request'.retries[n]
      BY DEF IInv, Searched, Searching
    <3>4. \A n \in nodes' : Failing(n)' => n \in toRetry' \/ n \notin visited'
      BY DEF IInv, Searched, Searching
    <3>5. \A n \in nodes' \ visited' : n \in Pending' \/ \E d \in DependencyMap(n)' : d \notin visited'
      BY DEF IInv, Searched, Searching, DependantMap
    <3>6. toRetry' \subseteq MustRetry'
      BY DEF IInv, Searched, Searching
    <3>. QED  BY <3>1, <3>2, <3>3, <3>4, <3>5, <3>6 DEF Searched
  <2>. QED  BY <1>0, <1>s, <2>1, <2>3 DEF IInv, Untouched, EdgesKnown, Counted, CycleCheck, Acyclic
<1>. QED  BY <1>1, <1>2

LEMMA LevelStep == IInv /\ NextLevel => IInv'
<1>. SUFFICES ASSUME IInv, NextLevel PROVE IInv'
  OBVIOUS
<1>0. /\ pc = "retry" /\ pc' \in {"retry", "ready"} /\ (pc' = "ready" => next = {})
      /\ Pending' = Pending
      /\ frontier' = next /\ next' = {}
      /\ UNCHANGED <<request, status, retries, kahn, toRetry, visited>>
  BY DEF NextLevel, Pending
<1>s. nodes' = nodes /\ (\A n : DependencyMap(n)' = DependencyMap(n)) /\ \A n : DependantMap(n)' = DependantMap(n)
  BY <1>0 DEF nodes, DependencyMap, DependantMap
<1>m. MustRetry' = MustRetry /\ \A n : Failing(n)' <=> Failing(n)
  BY <1>0, <1>s DEF MustRetry, Closed, Failing
<1>1. Types'
  BY <1>0, <1>s DEF IInv, Types, kahn
<1>2. Searched'
  BY <1>0, <1>s, <1>m DEF IInv, Searched, Searching, Pending
<1>. QED  BY <1>0, <1>s, <1>1, <1>2 DEF IInv, Untouched, EdgesKnown, Counted, CycleCheck, Acyclic

LEMMA Stuttering == IInv /\ UNCHANGED vars => IInv'
<1>. SUFFICES ASSUME IInv, UNCHANGED vars PROVE IInv'
  OBVIOUS
<1>s. nodes' = nodes /\ (\A n : DependencyMap(n)' = DependencyMap(n)) /\ \A n : DependantMap(n)' = DependantMap(n)
  BY DEF nodes, DependencyMap, DependantMap, vars
<1>1. Types' /\ Untouched' /\ EdgesKnown'
  BY <1>s DEF IInv, Types, Untouched, EdgesKnown, vars
<1>2. Counted' /\ CycleCheck'
  BY <1>s DEF IInv, Counted, CycleCheck, Acyclic, vars
<1>3. Searched'
  <2>1. MustRetry' = MustRetry /\ \A n : Failing(n)' <=> Failing(n)
    BY <1>s DEF MustRetry, Closed, Failing, vars
  <2>. QED  BY <2>1, <1>s DEF IInv, Searched, Searching, Pending, vars
<1>. QED  BY <1>1, <1>2, <1>3 DEF IInv

(* The invariant holds throughout the construction of a plan. *)
THEOREM InvariantHolds == Spec => []IInv
<1>1. Init => IInv
  BY Initially
<1>2. IInv /\ [Next]_vars => IInv'
  BY BindStep, EdgesStep, ProcessStep, CyclicStep, VisitStep, LevelStep, Stuttering DEF Next
<1>. QED  BY <1>1, <1>2, PTL DEF Spec

(* isCyclic is right about every finite plan. *)
THEOREM CycleCheckHolds == Spec => []CycleCheck
<1>1. IInv => CycleCheck
  BY DEF IInv
<1>. QED  BY <1>1, InvariantHolds, PTL

(* When the search is over it has met every node: of the nodes it has not    *)
(* met, one would depend on none of them.                                    *)
LEMMA AllVisited ==
  ASSUME IInv, pc = "ready", request.mode = "retry"
  PROVE  visited = nodes
<1>. DEFINE T == nodes \ visited
<1>1. \A n \in T : \E d \in DependencyMap(n) : d \notin visited
  BY DEF IInv, Searched, Searching
<1>2. \A n \in T : DependencyMap(n) \cap T # {}
  BY <1>1 DEF IInv, EdgesKnown
<1>3. Acyclic(nodes)
  BY DEF IInv, CycleCheck
<1>4. T = {}
  BY <1>2, <1>3 DEF Acyclic
<1>. QED  BY <1>4 DEF IInv, Types

(* setupRetry clears exactly what failed and what depends on it, in every    *)
(* finite plan.                                                              *)
THEOREM RetryExactHolds == Spec => []RetryExact
<1>1. IInv => RetryExact
  <2>. SUFFICES ASSUME IInv, pc = "ready", request.mode = "retry"
       PROVE  \A n \in nodes : /\ status[n] = IF n \in MustRetry THEN "none" ELSE request.status[n]
                               /\ retries[n] = IF n \in MustRetry THEN 0 ELSE request.retries[n]
    BY DEF RetryExact
  <2>1. /\ \A x \in toRetry : DependantMap(x) \subseteq toRetry
        /\ \A n \in nodes : n \in toRetry => status[n] = "none" /\ retries[n] = 0
        /\ \A n \in nodes : n \notin toRetry => status[n] = request.status[n] /\ retries[n] = request.retries[n]
        /\ toRetry \subseteq MustRetry
    BY DEF IInv, Searched, Searching
  <2>2. \A n \in nodes : Failing(n) => n \in toRetry
    BY AllVisited DEF IInv, Searched, Searching
  <2>3. toRetry \in SUBSET nodes /\ Closed(toRetry)
    BY <2>1 DEF IInv, Types, Closed
  <2>4. MustRetry \subseteq toRetry
    BY <2>2, <2>3 DEF MustRetry, Failing
  <2>. QED  BY <2>1, <2>4
<1>. QED  BY <1>1, InvariantHolds, PTL

=============================================================================
