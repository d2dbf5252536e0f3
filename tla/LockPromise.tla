----------------------------- MODULE LockPromise -----------------------------
(***************************************************************************)
(* What a directory lock promises its users: the clients that believe to   *)
(* hold it.  Two of them believe so at the same time only where the lock   *)
(* is unreliable (its holder may stall past the stale threshold, may have  *)
(* crashed or may be forced out), and such a split does not last.          *)
(***************************************************************************)
EXTENDS FiniteSets, Integers

CONSTANT Clients
VARIABLES holders, unreliable

vars == <<holders, unreliable>>

Init == holders = {} /\ unreliable \in BOOLEAN

Acquire(c) ==
  /\ c \notin holders
  /\ holders = {} \/ unreliable
  /\ holders' = holders \union {c}
  /\ UNCHANGED unreliable

(* Released, lost and noticed, or gone with the process. *)
Leave(c) ==
  /\ c \in holders
  /\ holders' = holders \ {c}
  /\ UNCHANGED unreliable

Split == \E c, d \in holders : c # d

Next == \E c \in Clients : Acquire(c) \/ Leave(c)

SafeSpec == Init /\ [][Next]_vars

Spec == SafeSpec /\ WF_vars(Split /\ \E c \in Clients : Leave(c))
=============================================================================
