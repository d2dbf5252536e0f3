---------------------------- MODULE DirLockProofs ----------------------------
(***************************************************************************)
(* Mutual exclusion of the directory lock, and its refinement of           *)
(* LockPromise, for any set of clients.                                    *)
(***************************************************************************)
EXTENDS DirLock, TLAPS

Reliable == faults \subseteq {"io"}

(* The client is in charge of the directory: it holds the lock, or is between *)
(* Mkdir and the end of its call.                                             *)
Busy(c) == held[c] \/ pc[c] \in {"write", "unlink", "rmdir"}

(* The owner file, as the place of the client in charge determines it. *)
Placed(c) ==
  /\ Busy(c) => dir.exists
  /\ held[c] => pc[c] \in {"idle", "touch", "unlink", "rmdir"}
  /\ held[c] /\ pc[c] # "rmdir" => dir.owner = c
  /\ pc[c] \in {"write", "rmdir"} => dir.owner = Nobody
  /\ pc[c] \in {"unlink", "rmdir"} => op[c] = IF held[c] THEN "release" ELSE "cleanup"
  /\ pc[c] = "unlink" /\ ~held[c] => dir.owner = Nobody
  /\ pc[c] = "touch" => held[c]

(* One client at most is in charge, one is whenever the directory exists, and *)
(* the directory is never old.                                                *)
Sound ==
  /\ ~dir.stale
  /\ dir.exists => \E c \in Clients : Busy(c)
  /\ \A c, d \in Clients : Busy(c) /\ Busy(d) => c = d
  /\ \A c \in Clients : Placed(c)

IInv == TypeOK /\ (Reliable => Sound)

DirType == [owner : Clients \union {Nobody}, stale : BOOLEAN, exists : BOOLEAN]

LEMMA DirTyped ==
  /\ NoDir \in DirType
  /\ Dir(Nobody, FALSE) \in DirType
  /\ \A o \in Clients \union {Nobody}, b \in BOOLEAN : Dir(o, b) \in DirType
  BY DEF NoDir, Dir, DirType

LEMMA TypeInit == Init => TypeOK
  BY NobodyAssumption DEF Init, TypeOK, NoDir, Faults

LEMMA TypeStep == TypeOK /\ [Next]_vars => TypeOK'
<1> SUFFICES ASSUME TypeOK, [Next]_vars PROVE TypeOK'
  OBVIOUS
<1>0. dir \in DirType
  BY DEF TypeOK, DirType
<1>1. CASE UNCHANGED vars
  BY <1>1 DEF TypeOK, vars
<1>2. CASE GoesStale
  BY <1>2 DEF TypeOK, GoesStale
<1>3. ASSUME NEW c \in Clients, Stat(c) PROVE TypeOK'
  BY <1>3 DEF TypeOK, Stat, Goto, RemoveAll, Conflict
<1>4. ASSUME NEW c \in Clients, GiveUp(c) \/ Crash(c) PROVE TypeOK'
  BY <1>4 DEF TypeOK, GiveUp, Crash, Goto, Return
<1>5. ASSUME NEW c \in Clients, Heartbeat(c) \/ IsHeldByMe(c) \/ Unlock(c) \/ ForceUnlock(c) PROVE TypeOK'
  BY <1>5 DEF TypeOK, Heartbeat, IsHeldByMe, Unlock, ForceUnlock, Fenced, RemoveAll, Goto
<1>6. ASSUME NEW c \in Clients, Mkdir(c) PROVE TypeOK'
  <2>1. dir' \in DirType
    BY <1>6, DirTyped, <1>0, Zenon DEF Mkdir, Conflict
  <2> QED
    BY <1>6, <2>1 DEF TypeOK, DirType, Mkdir, Conflict, Goto
<1>7. ASSUME NEW c \in Clients, Touch(c) PROVE TypeOK'
  <2>1. dir' \in DirType
    BY <1>7 DEF TypeOK, DirType, Touch
  <2> QED
    BY <1>7, <2>1 DEF TypeOK, DirType, Touch, Goto
<1>8. ASSUME NEW c \in Clients, Write(c) PROVE TypeOK'
  <2>1. dir' \in DirType
    <3>1. (dir.stale /\ dir.owner # Nobody) \in BOOLEAN
      OBVIOUS
    <3>2. Dir(c, dir.stale /\ dir.owner # Nobody) \in DirType
      BY <3>1, DirTyped
    <3> QED
      BY <1>8, <3>2, <1>0, Zenon DEF Write
  <2>2. held' \in [Clients -> BOOLEAN] /\ blocking' \in [Clients -> BOOLEAN]
    BY <1>8 DEF TypeOK, Write, Return
  <2> QED
    BY <1>8, <2>1, <2>2 DEF TypeOK, DirType, Write, RemoveAll, Goto, Return
<1>9. ASSUME NEW c \in Clients, Unlink(c) \/ Rmdir(c) PROVE TypeOK'
  <2>1. dir' \in DirType
    BY <1>9, <1>0, DirTyped, Zenon DEF Unlink, Rmdir
  <2>2. held' \in [Clients -> BOOLEAN]
    <3>1. \A b : (b /\ op[c] # "release") \in BOOLEAN
      OBVIOUS
    <3> QED
      BY <1>9, <3>1 DEF TypeOK, Unlink, Rmdir, Removed, NotRemoved
  <2>3. blocking' \in [Clients -> BOOLEAN]
    BY <1>9 DEF TypeOK, Unlink, Rmdir, Removed, NotRemoved, Return
  <2> QED
    BY <1>9, <2>1, <2>2, <2>3 DEF TypeOK, DirType, Unlink, Rmdir, Removed, NotRemoved, Goto, Return
<1> QED
  BY <1>1, <1>2, <1>3, <1>4, <1>5, <1>6, <1>7, <1>8, <1>9 DEF Next, Continue

----------------------------------------------------------------------------

LEMMA SoundInit == Init => Sound
  BY DEF Init, Sound, Placed, Busy, NoDir

(* A directory that exists is tended by the client in charge. *)
LEMMA NoneStale == ASSUME TypeOK, Reliable, Sound PROVE ~GoesStale
<1> SUFFICES ASSUME dir.exists, ~Tended PROVE FALSE
  BY DEF GoesStale, Reliable
<1>1. PICK c \in Clients : Busy(c)
  BY DEF Sound
<1> QED
  BY <1>1 DEF Sound, Placed, Busy, Tended, Owns

LEMMA SoundStep == ASSUME TypeOK, Reliable, Sound, [Next]_vars PROVE Sound'
<1> USE DEF TypeOK, Sound, Placed, Busy
<1>1. CASE UNCHANGED vars
  BY <1>1 DEF vars
<1>2. CASE GoesStale
  BY <1>2, NoneStale
<1>3. ASSUME NEW c \in Clients, Stat(c) PROVE Sound'
  BY <1>3 DEF Stat, Goto, Conflict, isStaleInfo
<1>4. ASSUME NEW c \in Clients, GiveUp(c) PROVE Sound'
  BY <1>4 DEF GiveUp, Goto, Return
<1>5. ASSUME NEW c \in Clients, Crash(c) \/ ForceUnlock(c) PROVE Sound'
  BY <1>5 DEF Crash, ForceUnlock, Reliable
<1>6. ASSUME NEW c \in Clients, Heartbeat(c) \/ IsHeldByMe(c) \/ Unlock(c) PROVE Sound'
  BY <1>6 DEF Heartbeat, IsHeldByMe, Unlock, Fenced, Owns, RemoveAll, Goto
<1>7. ASSUME NEW c \in Clients, Mkdir(c) PROVE Sound'
  BY <1>7 DEF Mkdir, Conflict, Dir, Goto
<1>8. ASSUME NEW c \in Clients, Touch(c) PROVE Sound'
  BY <1>8 DEF Touch, Goto
<1>9. ASSUME NEW c \in Clients, Write(c) PROVE Sound'
  BY <1>9, NobodyAssumption DEF Write, RemoveAll, Dir, Goto, Return
<1>10. ASSUME NEW c \in Clients, Unlink(c) PROVE Sound'
  BY <1>10, NobodyAssumption DEF Unlink, Removed, NoDir, Dir, Goto, Return
<1>11. ASSUME NEW c \in Clients, Rmdir(c) PROVE Sound'
  BY <1>11, NobodyAssumption DEF Rmdir, Removed, NotRemoved, NoDir, Goto, Return
<1> QED
  BY <1>1, <1>2, <1>3, <1>4, <1>5, <1>6, <1>7, <1>8, <1>9, <1>10, <1>11 DEF Next, Continue

LEMMA FaultsKept == [Next]_vars => faults' = faults
  BY Zenon DEF Next, Continue, vars, GoesStale, Stat, GiveUp, Heartbeat, IsHeldByMe, Unlock, ForceUnlock, Mkdir, Write,
       Touch, Unlink, Rmdir, Crash, Fenced, Removed, NotRemoved

(* The inductive invariant holds in every reachable state.  It records, for  *)
(* a reliable environment, which client is in charge of .dagu_lock at each   *)
(* step of TryLock, Heartbeat and Unlock (dirlock.go).                       *)
THEOREM InvariantHolds == SafeSpec => []IInv
<1>1. Init => IInv
  BY TypeInit, SoundInit DEF IInv
<1>2. IInv /\ [Next]_vars => IInv'
  <2> SUFFICES ASSUME IInv, [Next]_vars PROVE IInv'
    OBVIOUS
  <2>1. TypeOK'
    BY TypeStep DEF IInv
  <2>2. ASSUME Reliable' PROVE Sound'
    BY <2>2, FaultsKept, SoundStep DEF IInv, Reliable
  <2> QED
    BY <2>1, <2>2 DEF IInv
<1> QED
  BY <1>1, <1>2, PTL DEF SafeSpec

(* At most one instance has isHeld set, for any number of instances, as long *)
(* as none crashes, stalls past StaleThreshold or is forced out (dirlock.go). *)
THEOREM MutualExclusionHolds == SafeSpec => []MutualExclusion
<1>1. IInv => MutualExclusion
  BY DEF IInv, MutualExclusion, Reliable, Sound, Busy
<1> QED
  BY <1>1, InvariantHolds, PTL

(* Every step of dirlock.go is a step that LockPromise allows, or none that  *)
(* its users can see: with all faults, an instance takes the lock or leaves  *)
(* it one at a time, and takes it from nobody in a reliable environment.     *)
THEOREM PromiseKept == SafeSpec => Lock!SafeSpec
<1> DEFINE H == {c \in Clients : held[c]}
           U == faults \intersect {"crash", "stall", "force"} # {}
<1>1. Init => Lock!Init
  BY DEF Init, Lock!Init
<1>2. IInv /\ [Next]_vars => [Lock!Next]_(Lock!vars)
  <2> SUFFICES ASSUME IInv, [Next]_vars PROVE [Lock!Next]_(Lock!vars)
    OBVIOUS
  <2>1. U' = U
    BY FaultsKept
  <2>2. CASE held' = held
    BY <2>1, <2>2 DEF Lock!vars
  <2>3. ASSUME NEW c \in Clients, held' = [held EXCEPT ![c] = FALSE] PROVE [Lock!Next]_(Lock!vars)
    <3>1. H' = H \ {c}
      BY <2>3 DEF IInv, TypeOK
    <3> QED
      BY <3>1, <2>1 DEF Lock!Next, Lock!Leave, Lock!vars
  <2>4. ASSUME NEW c \in Clients, Write(c), held' = [held EXCEPT ![c] = TRUE] PROVE [Lock!Next]_(Lock!vars)
    <3>1. H' = H \union {c}
      BY <2>4 DEF IInv, TypeOK
    <3>2. CASE U
      BY <3>1, <3>2, <2>1 DEF Lock!Next, Lock!Acquire, Lock!vars
    <3>3. CASE ~U
      <4>1. Reliable
        BY <3>3 DEF Reliable, IInv, TypeOK, Faults
      <4>2. H = {}
        BY <4>1, <2>4 DEF IInv, Sound, Placed, Busy, Write
      <4> QED
        BY <4>2, <3>1, <2>1 DEF Lock!Next, Lock!Acquire, Lock!vars
    <3> QED
      BY <3>2, <3>3
  <2>5. ASSUME NEW c \in Clients, Unlink(c) \/ Rmdir(c) PROVE held' = held \/ held' = [held EXCEPT ![c] = FALSE]
    <3>1. held \in [Clients -> BOOLEAN]
      BY DEF IInv, TypeOK
    <3>2. held' = held \/ held' = [held EXCEPT ![c] = @ /\ op[c] # "release"]
      BY <2>5, Zenon DEF Unlink, Rmdir, Removed, NotRemoved
    <3>3. CASE op[c] = "release"
      <4>1. (held[c] /\ op[c] # "release") = FALSE
        BY <3>3
      <4> QED
        BY <3>2, <4>1, Zenon
    <3>4. CASE op[c] # "release"
      <4>1. (held[c] /\ op[c] # "release") = held[c]
        BY <3>1, <3>4
      <4>2. [held EXCEPT ![c] = held[c]] = held
        BY <3>1
      <4> QED
        BY <3>2, <4>1, <4>2, Zenon
    <3> QED
      BY <3>3, <3>4
  <2>6. GoesStale \/ UNCHANGED vars => held' = held
    BY DEF GoesStale, vars
  <2>7. ASSUME NEW c \in Clients, Stat(c) \/ GiveUp(c) \/ Mkdir(c) \/ Touch(c) \/ ForceUnlock(c) PROVE held' = held
    BY <2>7, Zenon DEF Stat, GiveUp, Mkdir, Touch, ForceUnlock, Conflict
  <2>8. ASSUME NEW c \in Clients, Heartbeat(c) \/ IsHeldByMe(c) \/ Unlock(c) \/ Crash(c)
        PROVE held' = held \/ held' = [held EXCEPT ![c] = FALSE]
    BY <2>8, Zenon DEF Heartbeat, IsHeldByMe, Unlock, Crash, Fenced
  <2>9. ASSUME NEW c \in Clients, Write(c) PROVE held' = held \/ held' = [held EXCEPT ![c] = TRUE]
    BY <2>9, Zenon DEF Write
  <2> QED
    BY <2>2, <2>3, <2>4, <2>5, <2>6, <2>7, <2>8, <2>9, Zenon DEF Next, Continue
<1> QED
  BY <1>1, <1>2, InvariantHolds, PTL DEF SafeSpec, Lock!SafeSpec
=============================================================================
