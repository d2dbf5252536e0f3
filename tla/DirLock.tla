------------------------------- MODULE DirLock -------------------------------
(***************************************************************************)
(* The directory lock of internal/cmn/dirlock: a directory .dagu_lock that *)
(* holds a file "owner" with the token of its holder.  Every access to the *)
(* file system goes by path and is one step; the fields of a lock instance *)
(* are guarded by its own mutex and change with the step that decides.     *)
(*                                                                         *)
(* A token is drawn anew for each acquisition.  A client writes one only   *)
(* after its own Mkdir, when no older token of it is left, so the client   *)
(* stands for its current token.                                           *)
(***************************************************************************)
EXTENDS Integers, FiniteSets

CONSTANTS Clients, Nobody

ASSUME NobodyAssumption == Nobody \notin Clients

VARIABLES
  dir,      \* the lock directory: NoDir, or its owner file and whether its mtime is old
  pc,       \* where each client is
  op,       \* what a RemoveAll in progress is for
  blocking, \* the client is in Lock, not in a single TryLock
  held,     \* dirLock.isHeld
  faults    \* what may go wrong in this behaviour

vars == <<dir, pc, op, blocking, held, faults>>

NoDir == [owner |-> Nobody, stale |-> FALSE, exists |-> FALSE]

Dir(owner, stale) == [owner |-> owner, stale |-> stale, exists |-> TRUE]

(* io: WriteFile may fail.  crash: a client may die and start anew.  stall:  *)
(* a client may be slower than StaleThreshold while it holds the lock.       *)
(* force: an operator may remove a lock.                                     *)
Faults == {"io", "crash", "stall", "force"}

Init ==
  /\ dir = NoDir
  /\ pc = [c \in Clients |-> "idle"]
  /\ op = [c \in Clients |-> "none"]
  /\ blocking = [c \in Clients |-> FALSE]
  /\ held = [c \in Clients |-> FALSE]
  /\ faults \in SUBSET Faults

Goto(c, p) == pc' = [pc EXCEPT ![c] = p]

(* The call returns. *)
Return(c) ==
  /\ Goto(c, "idle")
  /\ blocking' = [blocking EXCEPT ![c] = FALSE]

(* ErrLockConflict: TryLock returns it, Lock waits for its ticker. *)
Conflict(c) ==
  /\ Goto(c, IF blocking'[c] THEN "wait" ELSE "idle")
  /\ UNCHANGED <<dir, op, held>>

RemoveAll(c, why) ==
  /\ Goto(c, "unlink")
  /\ op' = [op EXCEPT ![c] = why]

----------------------------------------------------------------------------
(* TryLock, and the rounds of Lock.                                         *)

NeverStale(d) == FALSE

isStaleInfo(d) == d.stale

(* os.Stat and what follows from it. *)
Stat(c) ==
  /\ ~held[c]
  /\ \/ pc[c] = "idle" /\ \E b \in BOOLEAN : blocking' = [blocking EXCEPT ![c] = b]
     \/ pc[c] = "wait" /\ UNCHANGED blocking
  /\ \/ ~dir.exists /\ Goto(c, "mkdir") /\ UNCHANGED <<dir, op, held>>
     \/ dir.exists /\ isStaleInfo(dir) /\ RemoveAll(c, "steal") /\ UNCHANGED <<dir, held>>
     \/ dir.exists /\ ~isStaleInfo(dir) /\ Conflict(c)
  /\ UNCHANGED faults

(* Lock's context is cancelled. *)
GiveUp(c) ==
  /\ pc[c] = "wait"
  /\ Return(c)
  /\ UNCHANGED <<dir, op, held, faults>>

MkdirAnyway(c) ==
  /\ pc[c] = "mkdir"
  /\ dir' = Dir(Nobody, FALSE)
  /\ Goto(c, "write")
  /\ UNCHANGED <<op, blocking, held, faults>>

Mkdir(c) ==
  /\ pc[c] = "mkdir"
  /\ \/ ~dir.exists /\ dir' = Dir(Nobody, FALSE) /\ Goto(c, "write") /\ UNCHANGED <<op, blocking, held>>
     \/ dir.exists /\ UNCHANGED blocking /\ Conflict(c)
  /\ UNCHANGED faults

(* WriteFile by path: it creates the owner file, which renews the mtime of *)
(* the directory, or overwrites the one it finds there.                    *)
Write(c) ==
  /\ pc[c] = "write"
  /\ \/ /\ dir.exists
        /\ dir' = Dir(c, dir.stale /\ dir.owner # Nobody)
        /\ held' = [held EXCEPT ![c] = TRUE]
        /\ Return(c)
        /\ UNCHANGED op
     \/ /\ ~dir.exists \/ "io" \in faults
        /\ RemoveAll(c, "cleanup")
        /\ UNCHANGED <<dir, blocking, held>>
  /\ UNCHANGED faults

----------------------------------------------------------------------------
(* Heartbeat, IsHeldByMe and Unlock.                                        *)

OwnsUnchecked(c) == dir.exists

Owns(c) == dir.exists /\ dir.owner = c

(* The token is gone or another one: isHeld is cleared. *)
Fenced(c) ==
  /\ ~Owns(c)
  /\ held' = [held EXCEPT ![c] = FALSE]
  /\ UNCHANGED <<dir, pc, op, blocking, faults>>

Heartbeat(c) ==
  /\ held[c] /\ pc[c] = "idle"
  /\ \/ Fenced(c)
     \/ Owns(c) /\ Goto(c, "touch") /\ UNCHANGED <<dir, op, blocking, held, faults>>

(* Chtimes, which fails without the directory and leaves isHeld as it is. *)
Touch(c) ==
  /\ pc[c] = "touch"
  /\ dir' = IF dir.exists THEN [dir EXCEPT !.stale = FALSE] ELSE dir
  /\ Goto(c, "idle")
  /\ UNCHANGED <<op, blocking, held, faults>>

IsHeldByMe(c) ==
  /\ held[c] /\ pc[c] = "idle"
  /\ Fenced(c)

Unlock(c) ==
  /\ held[c] /\ pc[c] = "idle"
  /\ \/ Fenced(c)
     \/ Owns(c) /\ RemoveAll(c, "release") /\ UNCHANGED <<dir, blocking, held, faults>>

(* Another process removes the lock, whoever holds it. *)
ForceUnlock(c) ==
  /\ "force" \in faults
  /\ ~held[c] /\ pc[c] = "idle"
  /\ RemoveAll(c, "force")
  /\ UNCHANGED <<dir, blocking, held, faults>>

----------------------------------------------------------------------------
(* os.RemoveAll of the lock directory: the owner file, then the directory.  *)
(* It fails when an owner file appeared in between.                         *)

Removed(c) ==
  /\ op' = [op EXCEPT ![c] = "none"]
  /\ held' = [held EXCEPT ![c] = @ /\ op[c] # "release"]
  /\ IF op[c] = "steal" THEN Goto(c, "mkdir") /\ UNCHANGED blocking ELSE Return(c)
  /\ UNCHANGED faults

(* TryLock and Unlock return the error; Unlock leaves isHeld set. *)
NotRemoved(c) ==
  /\ op' = [op EXCEPT ![c] = "none"]
  /\ Return(c)
  /\ UNCHANGED <<held, faults>>

Unlink(c) ==
  /\ pc[c] = "unlink"
  /\ \/ ~dir.exists /\ Removed(c) /\ UNCHANGED dir
     \/ dir.exists /\ dir.owner = Nobody /\ dir' = NoDir /\ Removed(c)
     \/ /\ dir.exists /\ dir.owner # Nobody
        /\ dir' = Dir(Nobody, FALSE)
        /\ Goto(c, "rmdir")
        /\ UNCHANGED <<op, blocking, held, faults>>

Rmdir(c) ==
  /\ pc[c] = "rmdir"
  /\ \/ ~dir.exists /\ Removed(c) /\ UNCHANGED dir
     \/ dir.exists /\ dir.owner = Nobody /\ dir' = NoDir /\ Removed(c)
     \/ dir.exists /\ dir.owner # Nobody /\ NotRemoved(c) /\ UNCHANGED dir

----------------------------------------------------------------------------
(* The environment.                                                         *)

(* A live client is in charge of the directory. *)
Tended == \E c \in Clients : (held[c] /\ Owns(c)) \/ pc[c] \in {"write", "unlink", "rmdir"}

(* The mtime is now older than StaleThreshold. *)
GoesStale ==
  /\ dir.exists /\ ~dir.stale
  /\ ~Tended \/ "stall" \in faults
  /\ dir' = [dir EXCEPT !.stale = TRUE]
  /\ UNCHANGED <<pc, op, blocking, held, faults>>

(* The process dies; a new one takes its place. *)
Crash(c) ==
  /\ "crash" \in faults
  /\ held[c] \/ pc[c] # "idle"
  /\ Return(c)
  /\ op' = [op EXCEPT ![c] = "none"]
  /\ held' = [held EXCEPT ![c] = FALSE]
  /\ UNCHANGED <<dir, faults>>

Continue(c) == Mkdir(c) \/ Write(c) \/ Touch(c) \/ Unlink(c) \/ Rmdir(c)

Next ==
  \/ GoesStale
  \/ \E c \in Clients : \/ Stat(c) \/ GiveUp(c) \/ Heartbeat(c) \/ IsHeldByMe(c) \/ Unlock(c)
                        \/ ForceUnlock(c) \/ Continue(c) \/ Crash(c)

SafeSpec == Init /\ [][Next]_vars

(* A call goes on, a waiting Lock polls, a holder checks in or unlocks, and *)
(* time passes for a directory nobody tends.                                *)
Fairness ==
  /\ WF_vars(GoesStale /\ ~Tended)
  /\ \A c \in Clients : /\ WF_vars(Continue(c))
                        /\ WF_vars(pc[c] = "wait" /\ Stat(c))
                        /\ WF_vars(Heartbeat(c) \/ Unlock(c))

Spec == SafeSpec /\ Fairness

----------------------------------------------------------------------------
(* Properties.                                                              *)

TypeOK ==
  /\ dir \in [owner : Clients \union {Nobody}, stale : BOOLEAN, exists : BOOLEAN]
  /\ pc \in [Clients -> {"idle", "wait", "mkdir", "write", "touch", "unlink", "rmdir"}]
  /\ op \in [Clients -> {"none", "steal", "cleanup", "release", "force"}]
  /\ blocking \in [Clients -> BOOLEAN]
  /\ held \in [Clients -> BOOLEAN]
  /\ faults \in SUBSET Faults

(* With processes that neither stall past the stale threshold nor crash, and *)
(* no ForceUnlock, at most one instance has isHeld set, whatever TryLock,    *)
(* Lock, Unlock and failed token writes interleave.                          *)
MutualExclusion ==
  faults \subseteq {"io"} => \A c, d \in Clients : held[c] /\ held[d] => c = d

Lock == INSTANCE LockPromise WITH
  holders <- {c \in Clients : held[c]},
  unreliable <- faults \intersect {"crash", "stall", "force"} # {}

(* The lock keeps its promise: exclusive while reliable, and otherwise two  *)
(* instances that both have isHeld set do not both keep it, because the     *)
(* next Heartbeat or Unlock of one of them meets a foreign token.           *)
LockRefined == Lock!Spec

(* A directory that nobody tends, left by a crash at any step of TryLock or *)
(* Unlock, does not keep those out who wait in Lock.                        *)
OrphanRecovered ==
  (dir.exists /\ ~Tended) ~> (~dir.exists \/ Tended \/ \A c \in Clients : pc[c] # "wait")
=============================================================================
