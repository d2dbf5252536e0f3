---------------------------- MODULE MCTickPlanner ----------------------------
(* Instances of TickPlanner for TLC. *)
EXTENDS TickPlanner

(* Two slots to catch up with, and none. *)
Every(policy) ==
  [cron |-> {2, 3}, at |-> 0, window |-> 3, policy |-> policy, stop |-> {}, restart |-> {}]

(* A one-off time alone, and one that is also a cron slot. *)
Only(t) == [Every("skip") EXCEPT !.cron = {}, !.at = t, !.window = 0]

Once == [Only(2) EXCEPT !.cron = {2}]

Stopping == [Every("skip") EXCEPT !.cron = {2}, !.window = 0, !.stop = {3}, !.restart = {3}]

World(dag, edits, distributed, E) ==
  {[dag |-> dag, edits |-> edits, distributed |-> distributed, events |-> e,
    present |-> TRUE, until |-> 4, maxCalls |-> 1, maxMishaps |-> 1] : e \in E}

(* The DAG has yet to be written. *)
New(dag, edits, n, E) ==
  {[w EXCEPT !.present = FALSE, !.maxCalls = n] : w \in World(dag, edits, FALSE, E)}

(* More slots than the buffer holds. *)
Many == [Every("all") EXCEPT !.cron = {2, 3, 4}, !.window = 4]

(* A slot before the one that is waiting comes with the edit. *)
Late == [Every("all") EXCEPT !.cron = {3}]

(* A one-off time at which an earlier run may keep the DAG busy. *)
Behind == [Only(3) EXCEPT !.cron = {2}]

Single == [Every("all") EXCEPT !.cron = {2}]

Until(t, worlds) == {[w EXCEPT !.until = t] : w \in worlds}

MCWorlds ==
  UNION {
    World(Every("skip"), {}, FALSE, {{}, {"lost"}}),
    World(Every("latest"), {}, FALSE, {{}}),
    World(Every("all"), {}, FALSE, {{"io"}, {"slow"}, {"stop"}, {"die"}}),
    World(Every("all"), {}, TRUE, {{}}),
    Until(5, World(Many, {}, FALSE, {{}})),
    World(Single, {}, FALSE, {{"crash"}, {"suspend"}}),
    World(Late, {Every("all")}, FALSE, {{"edit", "io"}}),
    Until(3, World(Once, {}, FALSE, {{"crash"}})),
    Until(3, World(Only(2), {}, FALSE, {{"io"}, {"stop"}})),
    World(Behind, {}, FALSE, {{}}),
    World(Only(2), {Only(3)}, FALSE, {{"edit"}}),
    New(Only(3), {Only(3), NoDAG}, 2, {{"edit"}}),
    New(Only(2), {Only(2)}, 1, {{"edit", "io"}}),
    World(Stopping, {}, FALSE, {{"io"}, {"manual"}})}

StopWorlds == World(Every("all"), {}, FALSE, {{"stop"}})
==============================================================================
