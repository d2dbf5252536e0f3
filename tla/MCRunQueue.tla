---------------------------- MODULE MCRunQueue ----------------------------
(* Instances of RunQueue for TLC. *)
EXTENDS RunQueue

Queue(n, runs, E) == {[maxConcurrency |-> n, runs |-> runs, events |-> e] : e \in E}

(* Two runs at a time for the quiet regimes, one after the other for those  *)
(* with more to go wrong, and one run, with room for two processes, for the *)
(* regime that lets entries of live processes go stale.                     *)
MCWorlds ==
  Queue(2, Runs, {{}, {"suspend"}}) \cup
  Queue(1, Runs, {{"crash"}, {"slow"}, {"restart"}, {"late"}, {"abort"}, {"retry"},
                  {"io", "retry"}, {"client", "abort"}, {"client", "retry"}}) \cup
  Queue(2, {CHOOSE r \in Runs : TRUE}, {{"stall"}})
===========================================================================
