-------------------------------- MODULE Lock --------------------------------
(***************************************************************************)
(* lualib/lock.lua: the re-entrant FIFO lock between the coroutines of one  *)
(* skynet service.  A service runs one coroutine at a time and switches only *)
(* where a coroutine yields, so each call is one step; Skynet.wait splits    *)
(* lock() in two.  unlock() hands the lock to the first waiter BEFORE that   *)
(* coroutine runs again, and Skynet.wakeup only makes it runnable, so any    *)
(* coroutine may call lock() between the hand-over and the waiter's resume.  *)
(*                                                                         *)
(* Every unlock() of the repository is the one in lock_func, after its own   *)
(* lock() returned; the function run in between may nest lock_func, may      *)
(* yield, and may raise: xpcall makes unlock() follow in every case.         *)
(***************************************************************************)
EXTENDS Integers, Sequences, SequencesExt

CONSTANTS
  Co,          \* the coroutines of the service
  None,        \* the Lua value false of the field "locked"
  MaxDepth     \* bound: how deep calls of lock_func nest

ASSUME CoAssumption == None \notin Co
ASSUME MaxDepthAssumption == MaxDepth \in Nat \ {0}

VARIABLES
  locked,      \* owner of the lock, or None
  lock_count,  \* how many times the owner locked it, NilCount after a release
  lock_waiter, \* coroutines suspended in lock(), oldest first
  pc,          \* where each coroutine is
  depth        \* lock() calls of each coroutine not yet matched by unlock()

vars == << locked, lock_count, lock_waiter, pc, depth >>

NilCount == -1   \* the Lua nil that unlock() leaves in lock_count

\* "out": not in lock_func; "wait": suspended in Skynet.wait; "woken": made
\* runnable by Skynet.wakeup; "in": lock() returned; "error": an assert failed.
PC == {"out", "wait", "woken", "in", "error"}

Init ==
  /\ locked = None
  /\ lock_count = 0
  /\ lock_waiter = << >>
  /\ pc = [co \in Co |-> "out"]
  /\ depth = [co \in Co |-> 0]

-----------------------------------------------------------------------------
(* Mutated forms of the operations below, one bug each, which the           *)
(* properties must notice; the specification does not use them.             *)

\* the nested call is not counted
MutLockReenter(co) ==
  /\ locked = co
  /\ pc' = [pc EXCEPT ![co] = "in"]
  /\ depth' = [depth EXCEPT ![co] = @ + 1]
  /\ UNCHANGED << locked, lock_count, lock_waiter >>

\* the early return no longer depends on the count: never released
MutUnlockNested(co) ==
  /\ lock_count' = lock_count - 1
  /\ depth' = [depth EXCEPT ![co] = @ - 1]
  /\ UNCHANGED << locked, lock_waiter, pc >>

\* the waiter is woken to compete for a lock left free
MutReleaseNoHandOver(co) ==
  /\ lock_waiter # << >>
  /\ locked' = None
  /\ lock_count' = NilCount
  /\ lock_waiter' = Tail(lock_waiter)
  /\ pc' = [pc EXCEPT ![co] = "out", ![Head(lock_waiter)] = "woken"]

\* Skynet.wakeup is forgotten
MutReleaseNoWakeup(co) ==
  /\ lock_waiter # << >>
  /\ locked' = Head(lock_waiter)
  /\ lock_count' = 1
  /\ lock_waiter' = Tail(lock_waiter)
  /\ pc' = [pc EXCEPT ![co] = "out"]

\* table.remove without the index 1 takes the newest waiter
MutReleaseToNewest(co) ==
  /\ lock_waiter # << >>
  /\ locked' = Last(lock_waiter)
  /\ lock_count' = 1
  /\ lock_waiter' = Front(lock_waiter)
  /\ pc' = [pc EXCEPT ![co] = "out", ![Last(lock_waiter)] = "woken"]

\* the waiters are not looked at
MutReleaseToNobody(co) ==
  /\ locked' = None
  /\ lock_count' = NilCount
  /\ pc' = [pc EXCEPT ![co] = "out"]
  /\ UNCHANGED lock_waiter

-----------------------------------------------------------------------------

(* _lock(co): asserts that the lock is free, then takes it for co.          *)
TakeFor(co) ==
  /\ locked' = co
  /\ lock_count' = 1

(* lock(), the owner again: only the count grows.                           *)
LockReenter(co) ==
  /\ locked = co
  /\ lock_count' = lock_count + 1
  /\ pc' = [pc EXCEPT ![co] = "in"]
  /\ depth' = [depth EXCEPT ![co] = @ + 1]
  /\ UNCHANGED << locked, lock_waiter >>

(* lock(), nobody owns it.                                                  *)
LockFree(co) ==
  /\ locked = None
  /\ TakeFor(co)
  /\ pc' = [pc EXCEPT ![co] = "in"]
  /\ depth' = [depth EXCEPT ![co] = @ + 1]
  /\ UNCHANGED lock_waiter

(* lock(), somebody else owns it: join the waiters and yield.               *)
LockWait(co) ==
  /\ locked \notin {co, None}
  /\ lock_waiter' = Append(lock_waiter, co)
  /\ pc' = [pc EXCEPT ![co] = "wait"]
  /\ depth' = [depth EXCEPT ![co] = @ + 1]
  /\ UNCHANGED << locked, lock_count >>

lock(co) ==
  /\ pc[co] \in {"out", "in"}
  /\ depth[co] < MaxDepth
  /\ \/ LockReenter(co)
     \/ LockFree(co)
     \/ LockWait(co)

(* lock() after Skynet.wait: assert(self.locked == co).                     *)
LockResume(co) ==
  /\ pc[co] = "woken"
  /\ pc' = [pc EXCEPT ![co] = IF locked = co THEN "in" ELSE "error"]
  /\ UNCHANGED << locked, lock_count, lock_waiter, depth >>

(* unlock() of a nested lock().                                             *)
UnlockNested(co) ==
  /\ lock_count > 1
  /\ lock_count' = lock_count - 1
  /\ depth' = [depth EXCEPT ![co] = @ - 1]
  /\ UNCHANGED << locked, lock_waiter, pc >>

(* The outermost unlock(), nobody waits.                                    *)
ReleaseToNobody(co) ==
  /\ lock_waiter = << >>
  /\ locked' = None
  /\ lock_count' = NilCount
  /\ pc' = [pc EXCEPT ![co] = "out"]
  /\ UNCHANGED lock_waiter

(* The outermost unlock(): the oldest waiter owns the lock at once and is   *)
(* made runnable.                                                           *)
ReleaseToWaiter(co) ==
  /\ lock_waiter # << >>
  /\ TakeFor(Head(lock_waiter))
  /\ lock_waiter' = Tail(lock_waiter)
  /\ pc' = [pc EXCEPT ![co] = "out", ![Head(lock_waiter)] = "woken"]

Release(co) ==
  /\ lock_count <= 1
  /\ depth' = [depth EXCEPT ![co] = @ - 1]
  /\ ReleaseToNobody(co) \/ ReleaseToWaiter(co)

(* unlock(): assert(self.locked == co), then one level less.                *)
unlock(co) ==
  /\ pc[co] = "in"
  /\ IF locked = co
       THEN UnlockNested(co) \/ Release(co)
       ELSE /\ pc' = [pc EXCEPT ![co] = "error"]
            /\ UNCHANGED << locked, lock_count, lock_waiter, depth >>

Next == \E co \in Co : lock(co) \/ LockResume(co) \/ unlock(co)

(* A woken coroutine is scheduled; a function run under the lock comes to   *)
(* its end, even if it nests any number of other calls first.               *)
Fairness ==
  \A co \in Co :
    /\ WF_vars(LockResume(co))
    /\ WF_vars(unlock(co))
    /\ SF_vars(unlock(co) /\ lock_count <= 1)

Spec == Init /\ [][Next]_vars
FairSpec == Spec /\ Fairness

-----------------------------------------------------------------------------

TypeOK ==
  /\ locked \in Co \cup {None}
  /\ lock_count \in Nat \cup {NilCount}
  /\ lock_waiter \in Seq(Co)
  /\ pc \in [Co -> PC]
  /\ depth \in [Co -> Nat]

(* lock.lua:13, 31, 36: no assert of the lock fails, whatever the order in   *)
(* which coroutines call it, block and are resumed.                         *)
NoAssertFails == \A co \in Co : pc[co] # "error"

(* Two coroutines never run under the lock together, and the one that does   *)
(* has as many unlock() calls ahead of it as lock_count says: a nested call  *)
(* never frees the lock under its caller.                                   *)
MutualExclusion ==
  \A co \in Co : pc[co] = "in" => locked = co /\ lock_count = depth[co]

(* No wakeup is lost: a coroutine is suspended only while it is queued,     *)
(* exactly once, behind an owner that runs or has been made runnable.       *)
NoLostWakeup ==
  /\ \A co \in Co : pc[co] = "wait" <=> co \in ToSet(lock_waiter)
  /\ \A i, j \in DOMAIN lock_waiter :
       lock_waiter[i] = lock_waiter[j] => i = j
  /\ lock_waiter # << >> => locked # None
  /\ locked # None => pc[locked] \in {"in", "woken"}

(* The line of FifoLine: the owner, then the waiters.                       *)
LineOf == IF locked = None THEN << >> ELSE << locked >> \o lock_waiter

Line == INSTANCE FifoLine WITH line <- LineOf

(* lock.lua serves the coroutines first come, first served: its steps are   *)
(* those of the line, so a coroutine that calls lock() between a hand-over   *)
(* and the new owner's resume cannot overtake anybody.                      *)
ImplementsFifoLine == Line!Spec

(* lock.lua:30: every coroutine suspended in lock() returns from it, as     *)
(* long as the functions run under the lock come to their end.              *)
WaiterGetsLock == \A co \in Co : pc[co] = "wait" ~> pc[co] = "in"
=============================================================================
