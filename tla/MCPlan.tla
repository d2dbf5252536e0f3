------------------------------- MODULE MCPlan -------------------------------
(* Instances of Plan for TLC. *)
EXTENDS Plan, TLC

Ask(mode, steps, depends, restored, st, n, target) ==
  [mode |-> mode, steps |-> steps, depends |-> depends, nodes |-> restored,
   status |-> st, retries |-> [x \in Names |-> n], target |-> target]

AllSucceeded == [x \in Names |-> "succeeded"]

(* Every graph of three nodes, cycles and edges to the node itself included,  *)
(* with every choice of failed nodes.                                         *)
Small ==
  {Ask("retry", 1 .. 3, d @@ (4 :> {}), 1 .. 3, s @@ (4 :> "none"), 1, 4) :
     d \in [1 .. 3 -> SUBSET (1 .. 3)], s \in [1 .. 3 -> {"succeeded", "failed"}]}

(* Every graph of four nodes with edges to smaller numbers. *)
Ordered ==
  {Ask("retry", 1 .. 4, d, 1 .. 4, s, 1, 4) :
     d \in {e \in [1 .. 4 -> SUBSET (1 .. 3)] : \A n \in 1 .. 4 : e[n] \subseteq 1 .. (n - 1)},
     s \in [1 .. 4 -> {"skipped", "rejected"}]}

(* Fresh plans, with a dependency on a step that there is not, too. *)
Fresh ==
  {Ask("new", s, d, s, [x \in Names |-> "none"], 0, 4) :
     s \in {1 .. 2, 1 .. 3}, d \in [Names -> {{}, {1}, {3}}]}

(* Nodes without a step, dependencies without a node, one step retried. *)
Other ==
  {Ask(m, s, [x \in Names |-> d[x]], r, [AllSucceeded EXCEPT ![2] = st], 1, t) :
     m \in Modes \ {"new"}, s \in {1 .. 2, 1 .. 3}, r \in {1 .. 3, {1, 3}}, t \in 2 .. 3,
     d \in {<<{}, {1}, {2}, {}>>, <<{}, {1}, {1}, {}>>, <<{2}, {1}, {}, {}>>},
     st \in {"aborted", "retrying", "succeeded"}}

MCRequests == Small \cup Ordered \cup Fresh \cup Other
=============================================================================
