------------------------------- MODULE SpinLock -------------------------------
(***************************************************************************)
(* SpinLock (src/src/SpinLock.h): threads that lock and unlock one atomic  *)
(* flag, each of them again and again.  Every load, store and              *)
(* compare-and-swap of lock_ is a step of its own; the pauses and sleeps   *)
(* between the loads only take time.                                       *)
(***************************************************************************)
CONSTANT Thread      (* the threads that share the lock                    *)

VARIABLES
  lock,              (* lock_                                              *)
  pc                 (* where each thread is in lock() or unlock()         *)

vars == <<lock, pc>>

Init ==
  /\ lock = "FREE"
  /\ pc = [t \in Thread |-> "out"]

GoTo(t, label) == pc' = [pc EXCEPT ![t] = label]

Lock(t) ==
  /\ pc[t] = "out"
  /\ GoTo(t, "cas")
  /\ UNCHANGED lock

(* A slip: what was in the flag is not compared.                           *)
CasWins(seen) == TRUE

(* compare_exchange_strong(&lock_, FREE, ...) succeeds on what it sees.    *)
Cas(seen) == seen = "FREE"

TryLock(t) ==
  /\ pc[t] = "cas"
  /\ IF Cas(lock)
     THEN lock' = "LOCKED" /\ GoTo(t, "assertLocked")
     ELSE GoTo(t, "spin") /\ UNCHANGED lock

(* The inner loop ends when a load sees the flag down.                     *)
SpinEnds(t) ==
  /\ pc[t] = "spin"
  /\ lock # "LOCKED"
  /\ GoTo(t, "cas")
  /\ UNCHANGED lock

(* The asserts at the end of lock() and the beginning of unlock().         *)
AssertLocked(t, here, next) ==
  /\ pc[t] = here
  /\ GoTo(t, IF lock = "LOCKED" THEN next ELSE "failed")
  /\ UNCHANGED lock

Locked(t) == AssertLocked(t, "assertLocked", "in")

Unlock(t) == AssertLocked(t, "in", "store")

Release(t) ==
  /\ pc[t] = "store"
  /\ lock' = "FREE"
  /\ GoTo(t, "out")

(* A step of a thread that has begun to lock and has not yet unlocked.     *)
Step(t) == TryLock(t) \/ SpinEnds(t) \/ Locked(t) \/ Unlock(t) \/ Release(t)

Next == \E t \in Thread : Lock(t) \/ Step(t)

Spec == Init /\ [][Next]_vars

-----------------------------------------------------------------------------
(* Properties.                                                             *)

TypeOK ==
  /\ lock \in {"FREE", "LOCKED"}
  /\ pc \in [Thread -> {"out", "cas", "spin", "assertLocked", "in", "store", "failed"}]

(* A thread holds the lock from its compare-and-swap to its store.         *)
Holds(t) == pc[t] \in {"assertLocked", "in", "store"}

(* Two threads never hold the lock, so the store of one cannot let a third *)
(* in on the other, and the asserts on lock_ do not fail.                  *)
MutualExclusion ==
  /\ \A t, u \in Thread : Holds(t) /\ Holds(u) => t = u
  /\ \A t \in Thread : pc[t] # "failed"
=============================================================================
