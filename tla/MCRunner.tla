------------------------------ MODULE MCRunner ------------------------------
(***************************************************************************)
(* Small plans for Runner: node sequences, their dependencies and the      *)
(* configuration of their steps.                                           *)
(***************************************************************************)
EXTENDS Runner

None == <<>>

(* Plan.addEdge: dependents in definition order. *)
Dependants(seq, deps) ==
  [d \in Range(seq) |-> SelectSeq(seq, LAMBDA n : d \in Range(deps[n]))]

Default ==
  [preconditions |-> FALSE, approval |-> FALSE, timeout |-> FALSE, determiner |-> FALSE,
   signalOnStop |-> FALSE, retryLimit |-> 0, retryCodes |-> {}, repeatMode |-> "",
   repeatLimit |-> 0, repeatGuarded |-> FALSE, continueOnFailure |-> FALSE,
   continueOnSkipped |-> FALSE, continueOnCodes |-> {}, markSuccess |-> FALSE,
   prepareFails |-> FALSE, teardownFails |-> FALSE, mayPanic |-> FALSE]

Cleared == [status |-> "NotStarted", exit |-> "ok", retryCount |-> 0, skippedByRetry |-> FALSE]

Fresh == [n \in Nodes |-> Cleared]

PlainSteps == [n \in Nodes |-> Default]

(* Three independent steps, one of them a sub-DAG whose retry is left to the *)
(* coordinator, and a fourth that depends on all of them.                    *)
Join == <<"a", "b", "c", "d">>
JoinDeps == [n \in Range(Join) |-> IF n = "d" THEN <<"a", "b", "c">> ELSE None]
JoinDependants == Dependants(Join, JoinDeps)
JoinSteps == [n \in Range(Join) |->
  CASE n = "a" -> [Default EXCEPT !.continueOnFailure = TRUE, !.prepareFails = TRUE]
    [] n = "b" -> [Default EXCEPT !.preconditions = TRUE, !.continueOnSkipped = TRUE]
    [] n = "c" -> [Default EXCEPT !.determiner = TRUE, !.retryLimit = 1]
    [] OTHER -> Default]

(* A chain declared in reverse order, with a retried and a timed step, and a *)
(* step with an approval that the last one waits for, too.                   *)
Chain == <<"c", "b", "a", "g">>
ChainDeps == [n \in Range(Chain) |->
  CASE n = "a" -> None [] n = "b" -> <<"a">> [] n = "g" -> <<"a">> [] OTHER -> <<"b", "g">>]
ChainDependants == Dependants(Chain, ChainDeps)
ChainSteps == [n \in Range(Chain) |->
  CASE n = "a" -> [Default EXCEPT !.retryLimit = 1, !.retryCodes = {"1"}, !.timeout = TRUE]
    [] n = "b" -> [Default EXCEPT !.continueOnCodes = {"1"}, !.markSuccess = TRUE]
    [] n = "g" -> [Default EXCEPT !.approval = TRUE]
    [] OTHER -> [Default EXCEPT !.teardownFails = TRUE, !.preconditions = TRUE]]

(* One step, for the stop request that its process ignores. *)
One == <<"a">>
OneDeps == [n \in Range(One) |-> None]

(* A retry: p was Skipped and passes that on to q when the plan is scanned; a *)
(* retries, repeats without limit and may panic, and b depends on it.         *)
Pair == <<"p", "q", "a", "b">>
PairDeps == [n \in Range(Pair) |-> CASE n = "q" -> <<"p">> [] n = "b" -> <<"a">> [] OTHER -> None]
PairDependants == Dependants(Pair, PairDeps)
PairStates == [n \in Range(Pair) |-> IF n = "p" THEN [Cleared EXCEPT !.status = "Skipped"] ELSE Cleared]
StopSteps == [n \in Range(Pair) |->
  CASE n = "a" -> [Default EXCEPT !.retryLimit = 1, !.mayPanic = TRUE, !.repeatMode = "while",
                                  !.repeatGuarded = TRUE]
    [] n = "b" -> [Default EXCEPT !.signalOnStop = TRUE, !.retryLimit = 1]
    [] OTHER -> Default]

(* A retry of a run that has left r Running.  Two parents of four children  *)
(* each: eight entries for a channel of seven places.                       *)
Bipartite == <<"a", "b", "w", "x", "y", "z", "r">>
BipartiteDeps == [n \in Range(Bipartite) |-> IF n \in {"a", "b", "r"} THEN None ELSE <<"a", "b">>]
BipartiteDependants == Dependants(Bipartite, BipartiteDeps)
BipartiteStates == [n \in Range(Bipartite) |->
  IF n = "r" THEN [Cleared EXCEPT !.status = "Running"] ELSE Cleared]

(* Bound: the children are followed to the evaluation of their preconditions. *)
ChildrenStart == \A n \in {"w", "x", "y", "z"} : pc[n] \in {"none", "prepare", "precond"}
=============================================================================
