----------------------------- MODULE MCDispatch -----------------------------
(* Instances of Dispatch for TLC. *)
EXTENDS Dispatch

CONSTANTS w1, w2

Both == {w1, w2}

Queued(slots, workers, E) ==
  {[queued |-> TRUE, slots |-> slots, workers |-> workers, events |-> e] : e \in E}

Direct(workers, E) ==
  {[queued |-> FALSE, slots |-> 1, workers |-> workers, events |-> e] : e \in E}

(* Both workers where one may be gone for good; one is enough for most of   *)
(* the others.                                                              *)
MCWorlds ==
  UNION {
    Queued(1, Both, {{"crash"}, {"restart"}, {"io"}, {"cancel"}}),
    Queued(1, {w1}, {{"lose"}, {"slow"}, {"stall"}, {"read"}, {"retry", "cancel"}}),
    Queued(2, Both, {{}}),
    Direct(Both, {{"crash"}, {"cut"}, {"restart"}, {"lose"}, {"io"}, {"stall"}, {"cancel"}}),
    Direct({w1}, {{"slow"}, {"read", "retry"}, {"io", "retry"}, {"cancel", "retry"}})}

StallWorlds == Direct({w1}, {{"stall"}})
=============================================================================
