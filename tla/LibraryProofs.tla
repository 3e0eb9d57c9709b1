----------------------------- MODULE LibraryProofs -----------------------------
(***************************************************************************)
(* Proofs about the library, for constants of any size.  lock.lua (module     *)
(* Lock): no assert of the lock fails, at most one coroutine runs under it,   *)
(* no wakeup is lost, and the lock implements FifoLine's line.                *)
(* session_lock.lua (module SessionLock): sessions and the one lock_quit use  *)
(* the lock as its contract allows, so all that is shown of the lock holds    *)
(* under them; and lock_quit is the last to get it.  timer.lua (module Timer): *)
(* callbacks are called when they are due.  lua-array.c (module SparseArray): *)
(* a traversal returns all that stays.                                      *)
(***************************************************************************)
EXTENDS SessionLock, Parts, SequenceTheorems, WellFoundedInduction, TLAPS

Distinct(s) == \A i, j \in DOMAIN s : s[i] = s[j] => i = j

(* What the program counters say of the owner and of the nesting: together  *)
(* with the three invariants of Lock this is inductive.  A woken coroutine   *)
(* already owns the lock, locked once; without this the assert after         *)
(* Skynet.wait could not be shown to hold.                                  *)
Placement ==
  \A co \in Co :
    /\ pc[co] = "out" => depth[co] = 0
    /\ pc[co] \in {"wait", "woken"} => depth[co] = 1
    /\ pc[co] = "in" => depth[co] > 0
    /\ pc[co] = "woken" => locked = co /\ lock_count = 1

IInv ==
  /\ TypeOK
  /\ NoAssertFails
  /\ MutualExclusion
  /\ NoLostWakeup
  /\ Placement

-----------------------------------------------------------------------------

(* table.insert at the end of a queue adds one member and, if it is new,    *)
(* keeps the members distinct.                                              *)
LEMMA AppendMember ==
  ASSUME NEW S, NEW s \in Seq(S), NEW e \in S
  PROVE  /\ Append(s, e) \in Seq(S)
         /\ Append(s, e) # << >>
         /\ ToSet(Append(s, e)) = ToSet(s) \cup {e}
         /\ Distinct(s) /\ e \notin ToSet(s) => Distinct(Append(s, e))
<1> DEFINE t == Append(s, e)
<1>1. /\ t \in Seq(S)
      /\ Len(t) = Len(s) + 1
      /\ t # << >>
      /\ DOMAIN s = 1 .. Len(s)
      /\ DOMAIN t = 1 .. Len(s) + 1
      /\ Len(s) \in Nat
  OBVIOUS
<1>2. \A i \in 1 .. Len(s) : t[i] = s[i]
  OBVIOUS
<1>3. t[Len(s) + 1] = e
  OBVIOUS
<1> HIDE DEF t
<1>4. ToSet(t) = ToSet(s) \cup {e}
  <2>1. ASSUME NEW x \in ToSet(t) PROVE x \in ToSet(s) \cup {e}
    <3>1. PICK i \in 1 .. Len(s) + 1 : x = t[i]
      BY <2>1, <1>1 DEF ToSet
    <3>2. CASE i = Len(s) + 1
      BY <3>1, <3>2, <1>3
    <3>3. CASE i \in 1 .. Len(s)
      BY <3>1, <3>3, <1>1, <1>2 DEF ToSet
    <3> QED
      BY <3>2, <3>3, <1>1
  <2>2. ASSUME NEW x \in ToSet(s) PROVE x \in ToSet(t)
    <3>1. PICK i \in 1 .. Len(s) : x = s[i]
      BY <2>2, <1>1 DEF ToSet
    <3>2. i \in DOMAIN t /\ x = t[i]
      BY <3>1, <1>1, <1>2
    <3> QED
      BY <3>2 DEF ToSet
  <2>3. e \in ToSet(t)
    <3>1. Len(s) + 1 \in DOMAIN t
      BY <1>1
    <3> QED
      BY <3>1, <1>3 DEF ToSet
  <2> QED
    BY <2>1, <2>2, <2>3
<1>5. ASSUME Distinct(s), e \notin ToSet(s) PROVE Distinct(t)
  <2>1. \A i \in 1 .. Len(s) : s[i] # e
    BY <1>5, <1>1 DEF ToSet
  <2> QED
    BY <1>1, <1>2, <1>3, <1>5, <2>1 DEF Distinct
<1> QED
  BY <1>1, <1>4, <1>5 DEF t

(* table.remove(queue, 1) takes exactly the head out of a queue without     *)
(* repetitions.                                                             *)
LEMMA TailMember ==
  ASSUME NEW S, NEW s \in Seq(S), s # << >>, Distinct(s)
  PROVE  /\ Head(s) \in S
         /\ Head(s) \in ToSet(s)
         /\ Tail(s) \in Seq(S)
         /\ ToSet(Tail(s)) = ToSet(s) \ {Head(s)}
         /\ Distinct(Tail(s))
<1> DEFINE t == Tail(s)
<1>1. /\ t \in Seq(S)
      /\ Len(s) \in Nat /\ Len(s) > 0
      /\ Len(t) = Len(s) - 1
      /\ DOMAIN s = 1 .. Len(s)
      /\ DOMAIN t = 1 .. Len(s) - 1
      /\ Head(s) = s[1]
      /\ Head(s) \in S
  OBVIOUS
<1>2. \A i \in 1 .. Len(s) - 1 : t[i] = s[i + 1]
  OBVIOUS
<1> HIDE DEF t
<1>3. Head(s) \in ToSet(s)
  <2>1. 1 \in DOMAIN s
    BY <1>1
  <2> QED
    BY <2>1, <1>1 DEF ToSet
<1>4. ToSet(t) = ToSet(s) \ {Head(s)}
  <2>1. ASSUME NEW x \in ToSet(t) PROVE x \in ToSet(s) /\ x # Head(s)
    <3>1. PICK i \in 1 .. Len(s) - 1 : x = t[i]
      BY <2>1, <1>1 DEF ToSet
    <3>2. i + 1 \in DOMAIN s /\ 1 \in DOMAIN s /\ i + 1 # 1 /\ x = s[i + 1]
      BY <3>1, <1>1, <1>2
    <3>3. x # s[1]
      BY <3>2 DEF Distinct
    <3> QED
      BY <3>2, <3>3, <1>1 DEF ToSet
  <2>2. ASSUME NEW x \in ToSet(s), x # Head(s) PROVE x \in ToSet(t)
    <3>1. PICK i \in 1 .. Len(s) : x = s[i]
      BY <2>2, <1>1 DEF ToSet
    <3>2. i # 1
      BY <3>1, <2>2, <1>1
    <3>3. i - 1 \in DOMAIN t /\ x = t[i - 1]
      BY <3>1, <3>2, <1>1, <1>2
    <3> QED
      BY <3>3 DEF ToSet
  <2> QED
    BY <2>1, <2>2
<1>5. Distinct(t)
  <2> SUFFICES ASSUME NEW i \in DOMAIN t, NEW j \in DOMAIN t, t[i] = t[j]
               PROVE  i = j
    BY DEF Distinct
  <2>1. /\ i + 1 \in DOMAIN s /\ t[i] = s[i + 1]
        /\ j + 1 \in DOMAIN s /\ t[j] = s[j + 1]
    BY <1>1, <1>2
  <2>2. i + 1 = j + 1
    BY <2>1 DEF Distinct
  <2> QED
    BY <2>2, <1>1
<1> QED
  BY <1>1, <1>3, <1>4, <1>5 DEF t

(* Appending commutes with putting a prefix in front.                       *)
LEMMA ConcatAppend ==
  ASSUME NEW S, NEW s \in Seq(S), NEW t \in Seq(S), NEW e \in S
  PROVE  s \o Append(t, e) = Append(s \o t, e)
<1> DEFINE a == s \o Append(t, e)
           b == Append(s \o t, e)
<1>1. a \in Seq(S) /\ b \in Seq(S)
  OBVIOUS
<1>2. Len(a) = Len(s) + Len(t) + 1 /\ Len(b) = Len(s) + Len(t) + 1
  OBVIOUS
<1>3. ASSUME NEW i \in 1 .. Len(s) + Len(t) + 1 PROVE a[i] = b[i]
  <2>1. CASE i <= Len(s)
    BY <2>1
  <2>2. CASE i > Len(s) /\ i <= Len(s) + Len(t)
    BY <2>2
  <2>3. CASE i = Len(s) + Len(t) + 1
    BY <2>3
  <2> QED
    BY <2>1, <2>2, <2>3
<1> HIDE DEF a, b
<1>4. a = b
  BY <1>1, <1>2, <1>3, SeqEqual
<1> QED
  BY <1>4 DEF a, b

-----------------------------------------------------------------------------

LEMMA InitIInv == Init => IInv
BY CoAssumption
   DEF Init, IInv, TypeOK, NoAssertFails, MutualExclusion, NoLostWakeup,
       Placement, PC, NilCount, ToSet

(* lock() preserves the invariant.                                          *)
LEMMA LockStep ==
  ASSUME IInv, NEW co \in Co, lock(co)
  PROVE  IInv'
<1> USE CoAssumption
<1>0. /\ TypeOK /\ NoAssertFails /\ MutualExclusion /\ NoLostWakeup /\ Placement
      /\ pc[co] \in {"out", "in"}
  BY DEF IInv, lock
<1>1. CASE LockReenter(co)
  <2>1. TypeOK'
    BY <1>0, <1>1 DEF LockReenter, TypeOK, PC, NilCount, MutualExclusion, Placement, NoLostWakeup
  <2>2. (NoAssertFails /\ MutualExclusion)'
    BY <1>0, <1>1 DEF LockReenter, TypeOK, NoAssertFails, MutualExclusion, NoLostWakeup, Placement
  <2>3. NoLostWakeup'
    BY <1>0, <1>1 DEF LockReenter, TypeOK, NoLostWakeup, MutualExclusion
  <2>4. Placement'
    BY <1>0, <1>1 DEF LockReenter, TypeOK, Placement, MutualExclusion, NoLostWakeup
  <2> QED
    BY <2>1, <2>2, <2>3, <2>4 DEF IInv
<1>2. CASE LockFree(co)
  <2>0. pc[co] = "out" /\ lock_waiter = << >>
    BY <1>0, <1>2 DEF LockFree, MutualExclusion, NoLostWakeup
  <2>1. TypeOK'
    BY <1>0, <1>2 DEF LockFree, TakeFor, TypeOK, PC, NilCount
  <2>2. (NoAssertFails /\ MutualExclusion)'
    BY <1>0, <1>2, <2>0 DEF LockFree, TakeFor, TypeOK, NoAssertFails, MutualExclusion, Placement
  <2>3. NoLostWakeup'
    BY <1>0, <1>2, <2>0 DEF LockFree, TakeFor, TypeOK, NoLostWakeup
  <2>4. Placement'
    BY <1>0, <1>2, <2>0 DEF LockFree, TakeFor, TypeOK, Placement
  <2> QED
    BY <2>1, <2>2, <2>3, <2>4 DEF IInv
<1>3. CASE LockWait(co)
  <2>0. pc[co] = "out" /\ locked \in Co /\ locked # co
    BY <1>0, <1>3 DEF LockWait, MutualExclusion, TypeOK
  <2>a. /\ lock_waiter \in Seq(Co)
        /\ Distinct(lock_waiter)
        /\ co \notin ToSet(lock_waiter)
    BY <1>0, <2>0 DEF TypeOK, NoLostWakeup, Distinct
  <2>b. /\ lock_waiter' \in Seq(Co)
        /\ lock_waiter' # << >>
        /\ ToSet(lock_waiter') = ToSet(lock_waiter) \cup {co}
        /\ Distinct(lock_waiter')
    BY <2>a, <1>3, AppendMember DEF LockWait
  <2>1. TypeOK'
    BY <1>0, <1>3, <2>b DEF LockWait, TypeOK, PC
  <2>2. (NoAssertFails /\ MutualExclusion)'
    BY <1>0, <1>3, <2>0 DEF LockWait, TypeOK, NoAssertFails, MutualExclusion
  <2>3. NoLostWakeup'
    <3>1. (\A c \in Co : pc[c] = "wait" <=> c \in ToSet(lock_waiter))'
      BY <1>0, <1>3, <2>b DEF LockWait, TypeOK, NoLostWakeup
    <3>2. (\A i, j \in DOMAIN lock_waiter : lock_waiter[i] = lock_waiter[j] => i = j)'
      BY <2>b DEF Distinct
    <3>3. (locked # None /\ pc[locked] \in {"in", "woken"})'
      BY <1>0, <1>3, <2>0 DEF LockWait, TypeOK, NoLostWakeup
    <3> QED
      BY <3>1, <3>2, <3>3 DEF NoLostWakeup
  <2>4. Placement'
    BY <1>0, <1>3, <2>0 DEF LockWait, TypeOK, Placement
  <2> QED
    BY <2>1, <2>2, <2>3, <2>4 DEF IInv
<1> QED
  BY <1>1, <1>2, <1>3 DEF lock

(* The second half of lock(), after Skynet.wait.                            *)
LEMMA LockResumeStep ==
  ASSUME IInv, NEW co \in Co, LockResume(co)
  PROVE  IInv'
<1>0. /\ TypeOK /\ NoAssertFails /\ MutualExclusion /\ NoLostWakeup /\ Placement
      /\ pc[co] = "woken"
  BY DEF IInv, LockResume
<1>1. locked = co /\ lock_count = 1 /\ depth[co] = 1
  BY <1>0 DEF Placement
<1>2. /\ pc' = [pc EXCEPT ![co] = "in"]
      /\ UNCHANGED << locked, lock_count, lock_waiter, depth >>
  BY <1>1 DEF LockResume
<1>3. TypeOK'
  BY <1>0, <1>2 DEF TypeOK, PC
<1>4. (NoAssertFails /\ MutualExclusion)'
  BY <1>0, <1>1, <1>2 DEF TypeOK, NoAssertFails, MutualExclusion
<1>5. NoLostWakeup'
  BY <1>0, <1>1, <1>2 DEF TypeOK, NoLostWakeup
<1>6. Placement'
  BY <1>0, <1>1, <1>2 DEF TypeOK, Placement
<1> QED
  BY <1>3, <1>4, <1>5, <1>6 DEF IInv

(* unlock() preserves the invariant.                                        *)
LEMMA UnlockStep ==
  ASSUME IInv, NEW co \in Co, unlock(co)
  PROVE  IInv'
<1> USE CoAssumption
<1>0. /\ TypeOK /\ NoAssertFails /\ MutualExclusion /\ NoLostWakeup /\ Placement
      /\ pc[co] = "in" /\ locked = co
      /\ lock_count = depth[co] /\ lock_count \in Nat /\ lock_count > 0
  <2>1. /\ TypeOK /\ NoAssertFails /\ MutualExclusion /\ NoLostWakeup /\ Placement
        /\ pc[co] = "in"
    BY DEF IInv, unlock
  <2> QED
    BY <2>1 DEF MutualExclusion, Placement, TypeOK
<1>1. UnlockNested(co) \/ Release(co)
  BY <1>0 DEF unlock
<1>2. CASE UnlockNested(co)
  <2>1. TypeOK'
    BY <1>0, <1>2 DEF UnlockNested, TypeOK
  <2>2. (NoAssertFails /\ MutualExclusion)'
    BY <1>0, <1>2 DEF UnlockNested, TypeOK, NoAssertFails, MutualExclusion
  <2>3. NoLostWakeup'
    BY <1>0, <1>2 DEF UnlockNested, TypeOK, NoLostWakeup
  <2>4. Placement'
    BY <1>0, <1>2 DEF UnlockNested, TypeOK, Placement
  <2> QED
    BY <2>1, <2>2, <2>3, <2>4 DEF IInv
<1>3. CASE Release(co) /\ ReleaseToNobody(co)
  <2>0. depth' = [depth EXCEPT ![co] = 0] /\ lock_count = 1
    <3>1. lock_count = 1
      BY <1>0, <1>3 DEF Release
    <3>2. depth[co] - 1 = 0
      BY <3>1, <1>0
    <3> QED
      BY <3>1, <3>2, <1>3 DEF Release
  <2>1. TypeOK'
    BY <1>0, <1>3, <2>0 DEF ReleaseToNobody, TypeOK, PC, NilCount
  <2>2. (NoAssertFails /\ MutualExclusion)'
    BY <1>0, <1>3, <2>0 DEF ReleaseToNobody, TypeOK, NoAssertFails, MutualExclusion
  <2>3. NoLostWakeup'
    BY <1>0, <1>3 DEF ReleaseToNobody, TypeOK, NoLostWakeup
  <2>4. Placement'
    BY <1>0, <1>3, <2>0 DEF ReleaseToNobody, TypeOK, Placement
  <2> QED
    BY <2>1, <2>2, <2>3, <2>4 DEF IInv
<1>4. CASE Release(co) /\ ReleaseToWaiter(co)
  <2> DEFINE h == Head(lock_waiter)
  <2>0. depth' = [depth EXCEPT ![co] = 0] /\ lock_count = 1
    <3>1. lock_count = 1
      BY <1>0, <1>4 DEF Release
    <3>2. depth[co] - 1 = 0
      BY <3>1, <1>0
    <3> QED
      BY <3>1, <3>2, <1>4 DEF Release
  <2>a. lock_waiter \in Seq(Co) /\ lock_waiter # << >> /\ Distinct(lock_waiter)
    BY <1>0, <1>4 DEF ReleaseToWaiter, TypeOK, NoLostWakeup, Distinct
  <2>b. /\ h \in Co /\ h \in ToSet(lock_waiter)
        /\ Tail(lock_waiter) \in Seq(Co)
        /\ ToSet(Tail(lock_waiter)) = ToSet(lock_waiter) \ {h}
        /\ Distinct(Tail(lock_waiter))
    BY <2>a, TailMember
  <2>c. /\ locked' = h /\ lock_count' = 1
        /\ lock_waiter' = Tail(lock_waiter)
        /\ pc' = [pc EXCEPT ![co] = "out", ![h] = "woken"]
    BY <1>4 DEF ReleaseToWaiter, TakeFor
  <2> HIDE DEF h
  <2>d. pc[h] = "wait" /\ h # co /\ depth[h] = 1 /\ h # None
    BY <2>b, <1>0 DEF NoLostWakeup, Placement
  <2>1. TypeOK'
    BY <1>0, <2>0, <2>b, <2>c DEF TypeOK, PC, NilCount
  <2>2. (NoAssertFails /\ MutualExclusion)'
    BY <1>0, <2>0, <2>b, <2>c, <2>d DEF TypeOK, NoAssertFails, MutualExclusion
  <2>3. NoLostWakeup'
    <3>1. (\A c \in Co : pc[c] = "wait" <=> c \in ToSet(lock_waiter))'
      BY <1>0, <2>b, <2>c, <2>d DEF TypeOK, NoLostWakeup
    <3>2. (\A i, j \in DOMAIN lock_waiter : lock_waiter[i] = lock_waiter[j] => i = j)'
      BY <2>b, <2>c DEF Distinct
    <3>3. (locked # None /\ pc[locked] \in {"in", "woken"})'
      BY <1>0, <2>b, <2>c, <2>d DEF TypeOK
    <3> QED
      BY <3>1, <3>2, <3>3 DEF NoLostWakeup
  <2>4. Placement'
    BY <1>0, <2>0, <2>b, <2>c, <2>d DEF TypeOK, Placement, MutualExclusion
  <2> QED
    BY <2>1, <2>2, <2>3, <2>4 DEF IInv
<1> QED
  BY <1>1, <1>2, <1>3, <1>4 DEF Release

LEMMA StutterStep == IInv /\ UNCHANGED vars => IInv'
BY DEF IInv, TypeOK, NoAssertFails, MutualExclusion, NoLostWakeup, Placement, vars

(* lock.lua: the conjunction of the invariants is inductive.                *)
THEOREM Inductive == Spec => []IInv
<1>1. Init => IInv
  BY InitIInv
<1>2. IInv /\ [Next]_vars => IInv'
  BY LockStep, LockResumeStep, UnlockStep, StutterStep DEF Next
<1> QED
  BY <1>1, <1>2, PTL DEF Spec

(* lock.lua:7-9: the lock's fields keep their types in every reachable       *)
(* state, for any number of coroutines.                                     *)
THEOREM TypeCorrect == Spec => []TypeOK
BY Inductive, PTL DEF IInv

(* lock.lua:31, 36: neither the assert after Skynet.wait nor the one of     *)
(* unlock() ever fails.                                                     *)
THEOREM AssertsHold == Spec => []NoAssertFails
BY Inductive, PTL DEF IInv

(* lock.lua:18-49: only the owner runs under the lock and its nesting is    *)
(* counted exactly.                                                         *)
THEOREM Exclusive == Spec => []MutualExclusion
BY Inductive, PTL DEF IInv

(* lock.lua:29-30, 44-47: whoever is suspended is queued once, behind an    *)
(* owner that runs or is runnable.                                          *)
THEOREM WakeupsKept == Spec => []NoLostWakeup
BY Inductive, PTL DEF IInv

-----------------------------------------------------------------------------

(* The members of the line: the owner and the waiters.                      *)
LEMMA LineMembers ==
  ASSUME TypeOK, locked # None
  PROVE  /\ LineOf = << locked >> \o lock_waiter
         /\ LineOf # << >>
         /\ Head(LineOf) = locked
         /\ Tail(LineOf) = lock_waiter
         /\ ToSet(LineOf) = {locked} \cup ToSet(lock_waiter)
<1> DEFINE l == << locked >> \o lock_waiter
<1>1. /\ locked \in Co
      /\ lock_waiter \in Seq(Co)
      /\ Len(lock_waiter) \in Nat
      /\ DOMAIN lock_waiter = 1 .. Len(lock_waiter)
  BY DEF TypeOK
<1>2. /\ l \in Seq(Co)
      /\ Len(l) = Len(lock_waiter) + 1
      /\ DOMAIN l = 1 .. Len(lock_waiter) + 1
      /\ l[1] = locked
      /\ \A i \in 1 .. Len(lock_waiter) : l[i + 1] = lock_waiter[i]
  BY <1>1
<1>3. LineOf = l
  BY DEF LineOf
<1>4. l # << >> /\ Head(l) = locked /\ Tail(l) = lock_waiter
  BY <1>1, <1>2
<1> HIDE DEF l
<1>5. ToSet(l) = {locked} \cup ToSet(lock_waiter)
  <2>1. ASSUME NEW x \in ToSet(l) PROVE x \in {locked} \cup ToSet(lock_waiter)
    <3>1. PICK i \in 1 .. Len(lock_waiter) + 1 : x = l[i]
      BY <2>1, <1>2 DEF ToSet
    <3>2. CASE i = 1
      BY <3>1, <3>2, <1>2
    <3>3. CASE i # 1
      <4>1. i - 1 \in DOMAIN lock_waiter /\ x = lock_waiter[i - 1]
        <5>1. i - 1 \in 1 .. Len(lock_waiter) /\ (i - 1) + 1 = i
          BY <3>1, <3>3, <1>1
        <5> QED
          BY <5>1, <3>1, <1>1, <1>2
      <4> QED
        BY <4>1 DEF ToSet
    <3> QED
      BY <3>2, <3>3
  <2>2. locked \in ToSet(l)
    <3>1. 1 \in DOMAIN l
      BY <1>1, <1>2
    <3> QED
      BY <3>1, <1>2 DEF ToSet
  <2>3. ASSUME NEW x \in ToSet(lock_waiter) PROVE x \in ToSet(l)
    <3>1. PICK i \in 1 .. Len(lock_waiter) : x = lock_waiter[i]
      BY <2>3, <1>1 DEF ToSet
    <3>2. i + 1 \in DOMAIN l /\ l[i + 1] = x
      BY <3>1, <1>1, <1>2
    <3> QED
      BY <3>2 DEF ToSet
  <2> QED
    BY <2>1, <2>2, <2>3
<1> QED
  BY <1>3, <1>4, <1>5 DEF l

(* Every step of the lock is a step of the line or leaves the line alone.   *)
LEMMA LineStep ==
  ASSUME IInv, IInv', [Next]_vars
  PROVE  [Line!Next]_LineOf
<1> USE CoAssumption
<1>0. /\ TypeOK /\ MutualExclusion /\ NoLostWakeup /\ Placement
      /\ TypeOK' /\ NoLostWakeup'
  BY DEF IInv
<1>1. CASE UNCHANGED vars
  BY <1>1 DEF vars, LineOf
<1>2. ASSUME NEW co \in Co, lock(co) PROVE [Line!Next]_LineOf
  <2>1. CASE LockReenter(co)
    BY <2>1 DEF LockReenter, LineOf
  <2>2. CASE LockFree(co)
    <3>1. lock_waiter = << >> /\ LineOf = << >> /\ locked' = co
      BY <1>0, <2>2 DEF LockFree, TakeFor, NoLostWakeup, LineOf
    <3>2. LineOf' = << co >>
      BY <3>1, <2>2 DEF LockFree, LineOf
    <3>3. LineOf' = Append(LineOf, co) /\ co \notin ToSet(LineOf)
      BY <3>1, <3>2 DEF ToSet
    <3> QED
      BY <3>3 DEF Line!Next, Line!Join, Line!ToSet, ToSet
  <2>3. CASE LockWait(co)
    <3>1. locked \in Co /\ locked # co /\ locked # None /\ pc[co] # "wait"
      BY <1>0, <1>2, <2>3 DEF LockWait, TypeOK, lock
    <3>2. ToSet(LineOf) = {locked} \cup ToSet(lock_waiter)
      BY <3>1, <1>0, LineMembers
    <3>3. co \notin ToSet(LineOf)
      BY <3>1, <3>2, <1>0 DEF NoLostWakeup
    <3>4. LineOf' = Append(LineOf, co)
      <4>1. LineOf = << locked >> \o lock_waiter
        BY <3>1 DEF LineOf
      <4>2. LineOf' = << locked >> \o Append(lock_waiter, co)
        BY <3>1, <2>3 DEF LineOf, LockWait
      <4>3. << locked >> \o Append(lock_waiter, co) = Append(<< locked >> \o lock_waiter, co)
        <5>1. lock_waiter \in Seq(Co) /\ << locked >> \in Seq(Co)
          BY <3>1, <1>0 DEF TypeOK
        <5> QED
          BY <5>1, ConcatAppend
      <4> QED
        BY <4>1, <4>2, <4>3
    <3> QED
      BY <3>3, <3>4 DEF Line!Next, Line!Join, Line!ToSet, ToSet
  <2> QED
    BY <1>2, <2>1, <2>2, <2>3 DEF lock
<1>3. ASSUME NEW co \in Co, LockResume(co) PROVE [Line!Next]_LineOf
  BY <1>3 DEF LockResume, LineOf
<1>4. ASSUME NEW co \in Co, unlock(co) PROVE [Line!Next]_LineOf
  <2>1. locked = co /\ locked # None /\ (UnlockNested(co) \/ Release(co))
    BY <1>0, <1>4 DEF unlock, MutualExclusion
  <2>2. CASE UnlockNested(co)
    BY <2>2 DEF UnlockNested, LineOf
  <2>3. LineOf # << >> /\ Tail(LineOf) = lock_waiter
    BY <2>1, <1>0, LineMembers
  <2>4. CASE ReleaseToNobody(co)
    <3>1. LineOf' = Tail(LineOf)
      BY <2>3, <2>4 DEF ReleaseToNobody, LineOf
    <3> QED
      BY <2>3, <3>1 DEF Line!Next, Line!Leave
  <2>5. CASE ReleaseToWaiter(co)
    <3>1. /\ lock_waiter # << >> /\ lock_waiter \in Seq(Co)
          /\ locked' = Head(lock_waiter) /\ lock_waiter' = Tail(lock_waiter)
      BY <1>0, <2>5 DEF ReleaseToWaiter, TakeFor, TypeOK
    <3>2. lock_waiter = << Head(lock_waiter) >> \o Tail(lock_waiter)
      BY <3>1
    <3>3. Head(lock_waiter) \in Co
      BY <3>1
    <3>4. LineOf' = lock_waiter
      BY <3>1, <3>2, <3>3 DEF LineOf
    <3> QED
      BY <2>3, <3>4 DEF Line!Next, Line!Leave
  <2> QED
    BY <2>1, <2>2, <2>4, <2>5 DEF Release
<1> QED
  BY <1>1, <1>2, <1>3, <1>4 DEF Next

(* lock.lua implements the FIFO line for any number of coroutines: nobody   *)
(* overtakes, not even between a hand-over and the new owner's resume.      *)
THEOREM Refinement == Spec => ImplementsFifoLine
<1>1. Init => Line!Init
  BY DEF Init, Line!Init, LineOf
<1>2. IInv /\ IInv' /\ [Next]_vars => [Line!Next]_LineOf
  BY LineStep
<1> QED
  BY <1>1, <1>2, Inductive, PTL DEF Spec, ImplementsFifoLine, Line!Spec

-----------------------------------------------------------------------------
(* The session lock.                                                        *)

STypeOK ==
  /\ quit \in BOOLEAN
  /\ pending \subseteq Co
  /\ quitter \in Co \cup {None}

(* Why nothing comes after lock_quit.  The coroutine that called it is never *)
(* out of the lock again; while it waits it is the last in the queue, and    *)
(* when it owns the lock the queue is empty, since whoever could be queued   *)
(* behind it is turned away by the flag it has set.                         *)
QuitPlaced ==
  /\ quit <=> quitter # None
  /\ quitter # None =>
       /\ pc[quitter] # "out"
       /\ pc[quitter] = "wait" => Last(lock_waiter) = quitter
       /\ locked = quitter => lock_waiter = << >>

SInv == IInv /\ STypeOK /\ QuitPlaced

-----------------------------------------------------------------------------

(* Each step of the sessions does one operation of the lock, or nothing.    *)
LEMMA SessionStepIsLockStep ==
  ASSUME [SNext]_svars
  PROVE  [Next]_vars
<1>1. CASE UNCHANGED svars
  BY <1>1 DEF svars, vars
<1>2. ASSUME NEW co \in Co,
             \/ LockSessionRefused(co)
             \/ LockSession(co)
             \/ SessionReturns(co)
             \/ SessionRaises(co)
             \/ LockQuit(co)
             \/ Resume(co)
      PROVE  [Next]_vars
  <2>1. CASE LockSessionRefused(co)
    BY <2>1 DEF LockSessionRefused, svars, vars
  <2>2. CASE LockSession(co) \/ LockQuit(co)
    BY <2>2 DEF LockSession, LockQuit, Next
  <2>3. CASE SessionReturns(co) \/ SessionRaises(co)
    BY <2>3 DEF SessionReturns, SessionRaises, Next
  <2>4. CASE Resume(co)
    BY <2>4 DEF Resume, Next
  <2> QED
    BY <1>2, <2>1, <2>2, <2>3, <2>4
<1> QED
  BY <1>1, <1>2 DEF SNext

(* session_lock.lua uses lock.lua within its contract: a behaviour of the   *)
(* sessions, seen from the lock, is a behaviour of the lock.                *)
THEOREM SessionsUseLock == SSpec => Spec
<1>1. SInit => Init
  BY DEF SInit
<1>2. [SNext]_svars => [Next]_vars
  BY SessionStepIsLockStep
<1> QED
  BY <1>1, <1>2, PTL DEF SSpec, Spec

-----------------------------------------------------------------------------

(* Taking the head off a queue without repetitions keeps its last member,   *)
(* or the head was the only one.                                            *)
LEMMA TailLast ==
  ASSUME NEW S, NEW s \in Seq(S), s # << >>, Distinct(s)
  PROVE  /\ Head(s) = Last(s) => Tail(s) = << >>
         /\ Head(s) # Last(s) => Last(Tail(s)) = Last(s)
<1>1. /\ Len(s) \in Nat /\ Len(s) > 0
      /\ DOMAIN s = 1 .. Len(s)
      /\ Head(s) = s[1]
      /\ Last(s) = s[Len(s)]
      /\ Tail(s) \in Seq(S)
      /\ Len(Tail(s)) = Len(s) - 1
  BY DEF Last
<1>2. CASE Len(s) = 1
  <2>1. Head(s) = Last(s)
    BY <1>1, <1>2
  <2>2. Len(Tail(s)) = 0
    BY <1>1, <1>2
  <2>3. Tail(s) = << >>
    BY <2>2, <1>1, EmptySeq
  <2> QED
    BY <2>1, <2>3
<1>3. CASE Len(s) > 1
  <2>1. Last(Tail(s)) = s[Len(s)]
    <3>1. Last(Tail(s)) = Tail(s)[Len(s) - 1]
      BY <1>1 DEF Last
    <3>2. Tail(s)[Len(s) - 1] = s[(Len(s) - 1) + 1]
      BY <1>1, <1>3
    <3>3. (Len(s) - 1) + 1 = Len(s)
      BY <1>1
    <3> QED
      BY <3>1, <3>2, <3>3
  <2>2. Head(s) # Last(s)
    <3>1. 1 \in DOMAIN s /\ Len(s) \in DOMAIN s /\ Len(s) # 1
      BY <1>1, <1>3
    <3> QED
      BY <3>1, <1>1 DEF Distinct
  <2> QED
    BY <2>1, <2>2, <1>1
<1> QED
  BY <1>1, <1>2, <1>3

LEMMA InitSInv == SInit => SInv
BY InitIInv, CoAssumption DEF SInit, SInv, STypeOK, QuitPlaced, Init

(* lock_quit: the caller gets the lock at once, with nobody behind it, or    *)
(* becomes the last of those that wait.                                     *)
LEMMA LockQuitStep ==
  ASSUME SInv, NEW co \in Co, LockQuit(co)
  PROVE  QuitPlaced'
<1> USE CoAssumption
<1>0. /\ TypeOK /\ MutualExclusion /\ NoLostWakeup
      /\ pc[co] = "out" /\ lock(co)
      /\ quit' = TRUE /\ quitter' = co
  BY DEF SInv, IInv, LockQuit
<1>1. ~LockReenter(co)
  BY <1>0 DEF LockReenter, NoLostWakeup
<1>2. CASE LockFree(co)
  <2>1. pc'[co] = "in" /\ lock_waiter' = << >>
    BY <1>0, <1>2 DEF LockFree, TypeOK, NoLostWakeup
  <2> QED
    BY <1>0, <2>1 DEF QuitPlaced
<1>3. CASE LockWait(co)
  <2>1. pc'[co] = "wait" /\ locked' # co
    BY <1>0, <1>3 DEF LockWait, TypeOK
  <2>2. Last(lock_waiter') = co
    <3>1. lock_waiter \in Seq(Co) /\ lock_waiter' = Append(lock_waiter, co)
      BY <1>0, <1>3 DEF LockWait, TypeOK
    <3> QED
      BY <3>1 DEF Last
  <2> QED
    BY <1>0, <2>1, <2>2 DEF QuitPlaced
<1> QED
  BY <1>0, <1>1, <1>2, <1>3 DEF lock

(* A session function ends after lock_quit was called: the lock goes to the  *)
(* next in line, the caller of lock_quit stays the last.                    *)
LEMMA SessionEndStep ==
  ASSUME SInv, NEW co \in Co, co # quitter, unlock(co), UNCHANGED << quit, quitter >>
  PROVE  QuitPlaced'
<1> USE CoAssumption
<1>0. /\ TypeOK /\ NoAssertFails /\ MutualExclusion /\ NoLostWakeup /\ Placement
      /\ STypeOK /\ QuitPlaced
      /\ pc[co] = "in" /\ locked = co
  BY DEF SInv, IInv, unlock, MutualExclusion
<1>1. CASE quitter = None
  BY <1>0, <1>1 DEF QuitPlaced
<1>2. CASE quitter # None
  <2>1. quitter \in Co /\ pc[quitter] = "wait" /\ Last(lock_waiter) = quitter
    BY <1>0, <1>2 DEF STypeOK, QuitPlaced, TypeOK, PC, NoAssertFails, MutualExclusion, Placement
  <2>2. lock_waiter # << >> /\ lock_waiter \in Seq(Co) /\ Distinct(lock_waiter)
    BY <1>0, <2>1 DEF TypeOK, NoLostWakeup, ToSet, Distinct
  <2>3. CASE UnlockNested(co)
    BY <1>0, <1>2, <2>1, <2>3 DEF UnlockNested, QuitPlaced
  <2>4. CASE ReleaseToWaiter(co)
    <3>1. /\ locked' = Head(lock_waiter) /\ lock_waiter' = Tail(lock_waiter)
          /\ Head(lock_waiter) \in Co /\ Head(lock_waiter) # co
          /\ pc' = [pc EXCEPT ![co] = "out", ![Head(lock_waiter)] = "woken"]
      <4>1. Head(lock_waiter) \in ToSet(lock_waiter) /\ Head(lock_waiter) \in Co
        BY <2>2, TailMember
      <4> QED
        BY <4>1, <1>0, <2>4 DEF ReleaseToWaiter, TakeFor, NoLostWakeup
    <3>2. CASE Head(lock_waiter) = quitter
      <4>1. Tail(lock_waiter) = << >>
        BY <2>1, <2>2, <3>2, TailLast
      <4>2. pc'[quitter] = "woken"
        BY <1>0, <3>1, <3>2 DEF TypeOK
      <4> QED
        BY <1>0, <1>2, <3>1, <4>1, <4>2 DEF QuitPlaced
    <3>3. CASE Head(lock_waiter) # quitter
      <4>1. Last(Tail(lock_waiter)) = quitter
        BY <2>1, <2>2, <3>3, TailLast
      <4>2. pc'[quitter] = "wait"
        BY <1>0, <2>1, <3>1, <3>3 DEF TypeOK
      <4> QED
        BY <1>0, <1>2, <3>1, <3>3, <4>1, <4>2 DEF QuitPlaced
    <3> QED
      BY <3>2, <3>3
  <2>5. ~ReleaseToNobody(co)
    BY <2>2 DEF ReleaseToNobody
  <2> QED
    BY <1>0, <2>3, <2>4, <2>5 DEF unlock, Release
<1> QED
  BY <1>1, <1>2

LEMMA SessionStep == SInv /\ [SNext]_svars => SInv'
<1> SUFFICES ASSUME SInv, [SNext]_svars PROVE SInv'
  OBVIOUS
<1> USE CoAssumption
<1>1. IInv'
  BY SessionStepIsLockStep, LockStep, LockResumeStep, UnlockStep, StutterStep DEF Next, SInv
<1>2. CASE UNCHANGED svars
  BY <1>1, <1>2 DEF SInv, STypeOK, QuitPlaced, svars
<1>3. ASSUME NEW co \in Co, LockSessionRefused(co) PROVE SInv'
  BY <1>1, <1>3 DEF LockSessionRefused, SInv, STypeOK, QuitPlaced, svars
<1>4. ASSUME NEW co \in Co, LockSession(co) PROVE SInv'
  BY <1>1, <1>4 DEF LockSession, SInv, STypeOK, QuitPlaced
<1>5. ASSUME NEW co \in Co, SessionReturns(co) \/ SessionRaises(co) PROVE SInv'
  <2>1. STypeOK'
    BY <1>5 DEF SessionReturns, SessionRaises, SInv, STypeOK
  <2>2. QuitPlaced'
    BY <1>5, SessionEndStep DEF SessionReturns, SessionRaises
  <2> QED
    BY <1>1, <2>1, <2>2 DEF SInv
<1>6. ASSUME NEW co \in Co, LockQuit(co) PROVE SInv'
  <2>1. STypeOK'
    BY <1>6 DEF LockQuit, SInv, STypeOK
  <2> QED
    BY <1>1, <1>6, <2>1, LockQuitStep DEF SInv
<1>7. ASSUME NEW co \in Co, Resume(co) PROVE SInv'
  <2>1. STypeOK' /\ UNCHANGED << locked, lock_waiter, quit, quitter >>
    BY <1>7 DEF Resume, LockResume, SInv, STypeOK
  <2>2. /\ pc[co] = "woken" /\ pc \in [Co -> PC]
        /\ pc' = [pc EXCEPT ![co] = IF locked = co THEN "in" ELSE "error"]
    BY <1>7 DEF Resume, LockResume, SInv, IInv, TypeOK
  <2>3. QuitPlaced'
    BY <2>1, <2>2 DEF SInv, STypeOK, QuitPlaced
  <2> QED
    BY <1>1, <2>1, <2>3 DEF SInv
<1> QED
  BY <1>2, <1>3, <1>4, <1>5, <1>6, <1>7 DEF SNext

(* session_lock.lua: the lock's invariant together with the place of the     *)
(* coroutine that called lock_quit is inductive.                            *)
THEOREM SessionInductive == SSpec => []SInv
BY InitSInv, SessionStep, PTL DEF SSpec

(* role.lua:112-116: once lock_quit returned every other coroutine is out of *)
(* the lock and stays out: the row saved next is final, and no request is   *)
(* left suspended.                                                          *)
THEOREM QuitLast == SSpec => []QuitIsLast
<1>1. SInv => QuitIsLast
  <2> SUFFICES ASSUME SInv, quitter # None, locked = quitter,
                      NEW co \in Co \ {quitter}
               PROVE  SInv /\ pc[co] = "out"
    BY DEF QuitIsLast, SInv, QuitPlaced
  <2>1. co \notin ToSet(lock_waiter)
    BY DEF SInv, QuitPlaced, ToSet
  <2> QED
    BY <2>1 DEF SInv, IInv, TypeOK, PC, NoAssertFails, MutualExclusion, NoLostWakeup, Placement
<1> QED
  BY <1>1, SessionInductive, PTL

(* role.lua:113-116: what lock_quit got is never lost again: from then on no *)
(* step of any session takes the lock or waits for it.                      *)
THEOREM QuitKeepsLock ==
  SSpec => [][quitter # None /\ locked = quitter =>
                UNCHANGED << locked, lock_waiter, quitter >>]_svars
<1>1. SInv /\ [SNext]_svars =>
        [quitter # None /\ locked = quitter =>
           UNCHANGED << locked, lock_waiter, quitter >>]_svars
  <2> SUFFICES ASSUME SInv, SNext, quitter # None, locked = quitter
               PROVE  UNCHANGED << locked, lock_waiter, quitter >>
    BY DEF svars
  <2>1. quit /\ \A co \in Co : pc[co] = "in" => co = quitter
    BY DEF SInv, IInv, QuitPlaced, MutualExclusion
  <2>2. ASSUME NEW co \in Co
        PROVE  ~LockSession(co) /\ ~SessionReturns(co) /\ ~SessionRaises(co) /\ ~LockQuit(co)
    BY <2>1 DEF LockSession, SessionReturns, SessionRaises, LockQuit, unlock
  <2>3. ASSUME NEW co \in Co, LockSessionRefused(co) \/ Resume(co)
        PROVE  UNCHANGED << locked, lock_waiter, quitter >>
    BY <2>3 DEF LockSessionRefused, Resume, LockResume, svars
  <2> QED
    BY <2>2, <2>3 DEF SNext
<1> QED
  BY <1>1, SessionInductive, PTL DEF SSpec

-----------------------------------------------------------------------------
(* The timer.                                                              *)

LEMMA Quotient ==
  ASSUME NEW a \in Nat, NEW i \in Nat \ {0}, NEW k \in Nat, k * i <= a
  PROVE  k <= a \div i
<1>1. a = i * (a \div i) + (a % i) /\ a % i \in 0 .. i - 1 /\ a \div i \in Nat
  OBVIOUS
<1> DEFINE q == a \div i
<1> HIDE DEF q
<1>2. q \in Nat /\ a < i * (q + 1)
  BY <1>1 DEF q
<1>3. k * i < i * (q + 1)
  BY <1>2
<1>4. k < q + 1
  BY <1>2, <1>3
<1> QED
  BY <1>2, <1>4 DEF q

TimerRec == [interval : Nat \ {0}, wakeup : Nat, times : Nat, timestamp : Nat,
             added : [immediate : BOOLEAN, times : Nat]]

TimersTyped ==
  /\ now \in Nat /\ handle \in 0 .. MaxHandle
  /\ timer \in [Timers!Handle -> TimerRec] /\ fired \in [Timers!Handle -> Nat]
  /\ alarms \subseteq Timers!Handle /\ alarms \subseteq 1 .. handle
  /\ timers \subseteq alarms /\ to_deleted \subseteq alarms
  /\ pass \in [todo : SUBSET alarms, second : Nat, in : alarms \cup {0}, begun : BOOLEAN]

\* Between passes nothing is left of the last one; the timer whose callback
\* waits was visited, and no timer that is visited is among the dead.
PassInv ==
  /\ ~pass.begun => pass.todo = {} /\ pass.in = 0
  /\ pass.in \notin pass.todo
  /\ pass.second <= now
  /\ dead \subseteq to_deleted /\ (pass.todo \cup {pass.in}) \cap dead = {}

\* The next call is due as many intervals after the timer was added as calls
\* came before it, one less if it began at once; the last one was due.
WakeupOf(t, n) == n * t.interval + (IF t.added.immediate THEN 0 ELSE t.interval)

InTime(h) ==
  /\ timer[h].timestamp <= now
  /\ timer[h].wakeup = WakeupOf(timer[h], fired[h])
  /\ fired[h] # 0 => timer[h].wakeup <= (now - timer[h].timestamp) + timer[h].interval

\* The callback that waits has been counted in fired and not yet in times; a
\* timer that has run out is to be deleted, and was visited.
Waits(h) == IF pass.in = h THEN 1 ELSE 0

Counted(h) ==
  timer[h].added.times # 0 =>
    /\ timer[h].times >= 1
    /\ \/ timer[h].times + fired[h] = timer[h].added.times + Waits(h)
       \/ /\ h \in to_deleted \ pass.todo /\ pass.in # h
          /\ fired[h] = timer[h].added.times

TimersInv ==
  /\ TimersTyped /\ PassInv
  /\ \A h \in Timers!Handle : h > handle => fired[h] = 0
  /\ \A h \in alarms : InTime(h) /\ Counted(h)

LEMMA TimersRight ==
  ASSUME TimersInv
  PROVE  Timers!NeverWrong
<1> SUFFICES ASSUME NEW h \in alarms
             PROVE  /\ fired[h] <= Timers!Owed(h, now)
                    /\ timer[h].added.times # 0 => fired[h] <= timer[h].added.times
                    /\ pass.in = h => h \notin dead
  BY DEF Timers!NeverWrong
<1>0. InTime(h) /\ Counted(h) /\ TimersTyped /\ PassInv
  BY DEF TimersInv
<1>1. h \in Timers!Handle /\ timer[h] \in TimerRec /\ fired[h] \in Nat /\ now \in Nat
  BY <1>0 DEF TimersTyped, Timers!Handle
<1>2. PICK i \in Nat \ {0}, f \in Nat, a \in Nat, im \in BOOLEAN :
        /\ i = timer[h].interval /\ f = fired[h] /\ a = now - timer[h].timestamp
        /\ im = timer[h].added.immediate
        /\ f # 0 => f * i + (IF im THEN 0 ELSE i) <= a + i
  <2>1. timer[h].interval \in Nat \ {0} /\ now - timer[h].timestamp \in Nat
        /\ timer[h].added.immediate \in BOOLEAN
    BY <1>0, <1>1 DEF InTime, TimerRec
  <2> QED
    BY <1>0, <1>1, <2>1 DEF InTime, WakeupOf
<1>3. f <= (a \div i) + (IF im THEN 1 ELSE 0)
  <2>1. a \div i \in Nat
    OBVIOUS
  <2>2. CASE f = 0
    BY <2>1, <2>2
  <2>3. CASE f # 0 /\ ~im
    <3>1. f * i <= a
      BY <1>2, <2>3
    <3> QED
      BY <2>3, <3>1, Quotient
  <2>4. CASE f # 0 /\ im
    <3>1. PICK k \in Nat : f = k + 1
      <4>1. f - 1 \in Nat /\ f = (f - 1) + 1
        BY <2>4
      <4> QED
        BY <4>1
    <3>2. k * i <= a
      <4>1. f * i = k * i + i /\ k * i \in Nat
        BY <3>1
      <4> QED
        BY <1>2, <2>4, <4>1
    <3>3. k <= a \div i
      BY <3>2, Quotient
    <3> QED
      BY <2>1, <2>4, <3>1, <3>3
  <2> QED
    BY <2>2, <2>3, <2>4
<1>4. fired[h] <= Timers!Owed(h, now)
  BY <1>2, <1>3 DEF Timers!Owed
<1>5. timer[h].added.times # 0 => fired[h] <= timer[h].added.times
  BY <1>0, <1>1 DEF Counted, Waits, TimerRec
<1>6. pass.in = h => h \notin dead
  BY <1>0 DEF PassInv
<1> QED
  BY <1>4, <1>5, <1>6

LEMMA TimersInit == Timers!Constants /\ Timers!Init => TimersInv
<1> SUFFICES ASSUME Timers!Constants, Timers!Init PROVE TimersInv
  OBVIOUS
<1>1. Timers!NoTimer \in TimerRec
  BY DEF Timers!NoTimer, TimerRec
<1>2. TimersTyped
  BY <1>1 DEF Timers!Constants, Timers!Init, TimersTyped, Timers!Asleep
<1> QED
  BY <1>2 DEF Timers!Init, TimersInv, PassInv, Timers!Asleep

LEMMA AddTimer ==
  ASSUME Timers!Constants, TimersInv,
         NEW i \in Interval, NEW im \in BOOLEAN, NEW t \in Times, Timers!add_timer(i, im, t)
  PROVE  TimersInv'
<1> DEFINE rec == [interval |-> i, wakeup |-> IF im THEN 0 ELSE i, times |-> t,
                   timestamp |-> now, added |-> [immediate |-> im, times |-> t]]
<1>0. /\ TimersTyped /\ PassInv /\ handle < MaxHandle /\ handle' = handle + 1
      /\ timer' = [timer EXCEPT ![handle + 1] = rec] /\ alarms' = alarms \cup {handle + 1}
      /\ UNCHANGED << now, timers, to_deleted, pass, fired, dead >>
  BY DEF TimersInv, Timers!add_timer
<1>1. rec \in TimerRec /\ handle \in Nat /\ handle + 1 \in Timers!Handle
  BY <1>0 DEF Timers!Constants, TimersTyped, TimerRec, Timers!Handle
<1>2. TimersTyped' /\ PassInv'
  <2> HIDE DEF rec
  <2>1. pass \in [todo : SUBSET alarms', second : Nat, in : alarms' \cup {0}, begun : BOOLEAN]
    BY <1>0 DEF TimersTyped
  <2>2. timer' \in [Timers!Handle -> TimerRec]
    BY <1>0, <1>1 DEF TimersTyped
  <2>3. handle + 1 \in 0 .. MaxHandle /\ alarms' \subseteq Timers!Handle
        /\ alarms' \subseteq 1 .. handle + 1
    BY <1>0, <1>1 DEF TimersTyped, Timers!Handle
  <2>4. TimersTyped'
    BY <1>0, <2>1, <2>2, <2>3 DEF TimersTyped
  <2> QED
    BY <1>0, <2>4 DEF PassInv
<1>3. ASSUME NEW h \in alarms' PROVE InTime(h)' /\ Counted(h)'
  <2>1. CASE h \in alarms
    <3>1. h \in Timers!Handle /\ h # handle + 1
      BY <1>0, <2>1 DEF TimersTyped, Timers!Handle
    <3>2. timer'[h] = timer[h]
      BY <1>0, <3>1 DEF TimersTyped
    <3> QED
      BY <1>0, <2>1, <3>2 DEF TimersInv, InTime, Counted, Waits, WakeupOf
  <2>2. CASE h = handle + 1
    <3>1. fired[h] = 0 /\ timer'[h] = rec
      BY <1>0, <1>1, <2>2 DEF TimersInv, TimersTyped
    <3>2. pass.in # h
      BY <1>0, <2>2 DEF TimersTyped
    <3>3. rec.times = t /\ rec.added.times = t /\ rec.timestamp = now /\ rec.added.immediate = im
          /\ rec.interval = i /\ rec.wakeup = (IF im THEN 0 ELSE i)
      OBVIOUS
    <3>4. t \in Nat /\ i \in Nat /\ now \in Nat
      BY <1>0 DEF Timers!Constants, TimersTyped
    <3> HIDE DEF rec
    <3>5. WakeupOf(rec, 0) = rec.wakeup
      BY <3>3, <3>4 DEF WakeupOf
    <3>6. InTime(h)'
      BY <1>0, <3>1, <3>3, <3>4, <3>5 DEF InTime
    <3>7. Counted(h)'
      BY <1>0, <3>1, <3>2, <3>3, <3>4 DEF Counted, Waits
    <3> QED
      BY <3>6, <3>7
  <2> QED
    BY <1>0, <2>1, <2>2
<1>4. \A h \in Timers!Handle : h > handle' => fired'[h] = 0
  BY <1>0, <1>1 DEF TimersInv, Timers!Handle
<1> QED
  BY <1>2, <1>3, <1>4 DEF TimersInv

\* Removals and the stop.
LEMMA RemoveTimer ==
  ASSUME TimersInv, (\E h \in Timers!Handle : Timers!remove_timer(h)) \/ Timers!stop
  PROVE  TimersInv'
<1>0. /\ TimersTyped /\ PassInv
      /\ to_deleted \subseteq to_deleted' /\ to_deleted' \subseteq alarms
      /\ UNCHANGED << now, handle, timer, alarms, timers, pass, fired, dead >>
  BY DEF TimersInv, Timers!remove_timer, Timers!stop, TimersTyped
<1>1. TimersTyped' /\ PassInv'
  BY <1>0 DEF TimersTyped, PassInv
<1>2. \A h \in alarms : InTime(h)' /\ Counted(h)'
  BY <1>0 DEF TimersInv, InTime, Counted, Waits, WakeupOf
<1> QED
  BY <1>0, <1>1, <1>2 DEF TimersInv

LEMMA PassBegins ==
  ASSUME TimersInv, Timers!Begin
  PROVE  TimersInv'
<1>0. /\ TimersTyped /\ PassInv /\ ~pass.begun
      /\ timers' = Timers!TakeIn /\ dead' = to_deleted
      /\ pass' = [todo |-> timers', second |-> now, in |-> 0, begun |-> TRUE]
      /\ UNCHANGED << now, handle, timer, alarms, to_deleted, fired >>
  BY DEF TimersInv, Timers!Begin
<1>1. timers' \subseteq alarms /\ timers' \cap to_deleted = {}
  BY <1>0 DEF Timers!TakeIn, TimersTyped
<1>2. pass'.todo = timers' /\ pass'.in = 0 /\ pass'.second = now /\ pass'.begun
  BY <1>0
<1>3. pass' \in [todo : SUBSET alarms, second : Nat, in : alarms \cup {0}, begun : BOOLEAN]
  BY <1>0, <1>1 DEF TimersTyped
<1>4. TimersTyped'
  BY <1>0, <1>1, <1>3 DEF TimersTyped
<1>5. 0 \notin alarms /\ pass.in = 0
  BY <1>0 DEF TimersTyped, PassInv
<1>6. PassInv'
  BY <1>0, <1>1, <1>2, <1>5 DEF PassInv, TimersTyped
<1>7. ASSUME NEW h \in alarms PROVE InTime(h)' /\ Counted(h)'
  <2>1. InTime(h) /\ Counted(h) /\ h # 0
    BY <1>5 DEF TimersInv
  <2>2. InTime(h)'
    BY <1>0, <2>1 DEF InTime, WakeupOf
  <2>3. Waits(h)' = Waits(h)
    BY <1>2, <1>5 DEF Waits
  <2>4. Counted(h)'
    BY <1>0, <1>1, <1>2, <1>5, <2>1, <2>3 DEF Counted
  <2> QED
    BY <2>2, <2>4
<1> QED
  BY <1>0, <1>4, <1>6, <1>7 DEF TimersInv

LEMMA TimerVisited ==
  ASSUME TimersInv, NEW h \in Timers!Handle, Timers!Visit(h)
  PROVE  TimersInv'
<1>0. /\ TimersTyped /\ PassInv /\ pass.in = 0 /\ h \in pass.todo
      /\ UNCHANGED << now, handle, alarms, timers, to_deleted, dead >>
  BY DEF TimersInv, Timers!Visit
<1>1. h \in alarms /\ pass.begun /\ h # 0 /\ h \notin dead /\ 0 \notin alarms
  BY <1>0 DEF TimersTyped, PassInv
<1>2. CASE Timers!Due(h)
  <2>0. /\ pass' = [pass EXCEPT !.todo = pass.todo \ {h}, !.in = h]
        /\ timer' = [timer EXCEPT ![h].wakeup = timer[h].wakeup + timer[h].interval]
        /\ fired' = [fired EXCEPT ![h] = fired[h] + 1]
    BY <1>2 DEF Timers!Visit
  <2>1. /\ pass'.todo = pass.todo \ {h} /\ pass'.in = h /\ pass'.second = pass.second
        /\ pass'.begun = pass.begun
        /\ pass' \in [todo : SUBSET alarms, second : Nat, in : alarms \cup {0}, begun : BOOLEAN]
    BY <1>0, <1>1, <2>0 DEF TimersTyped
  <2>2. /\ timer[h] \in TimerRec /\ fired[h] \in Nat
        /\ timer'[h] = [timer[h] EXCEPT !.wakeup = timer[h].wakeup + timer[h].interval]
        /\ fired'[h] = fired[h] + 1
        /\ \A k \in Timers!Handle : k # h => timer'[k] = timer[k] /\ fired'[k] = fired[k]
    BY <1>0, <2>0 DEF TimersTyped
  <2>3. timer'[h] \in TimerRec
    BY <2>2 DEF TimerRec
  <2>4. timer' \in [Timers!Handle -> TimerRec] /\ fired' \in [Timers!Handle -> Nat]
    <3>1. DOMAIN timer' = Timers!Handle /\ \A k \in Timers!Handle : timer'[k] \in TimerRec
      BY <1>0, <2>0, <2>2, <2>3 DEF TimersTyped
    <3>2. timer' = [k \in Timers!Handle |-> timer'[k]]
      BY <1>0, <2>0 DEF TimersTyped
    <3> QED
      BY <1>0, <2>0, <2>2, <3>1, <3>2 DEF TimersTyped
  <2>5. TimersTyped'
    BY <1>0, <2>1, <2>4 DEF TimersTyped
  <2>6. PassInv'
    BY <1>0, <1>1, <2>1 DEF PassInv
  <2>7. InTime(h)' /\ Counted(h)'
    <3>1. InTime(h) /\ Counted(h) /\ Timers!Due(h)
      BY <1>1, <1>2 DEF TimersInv
    <3>2. /\ timer'[h].interval = timer[h].interval /\ timer'[h].timestamp = timer[h].timestamp
          /\ timer'[h].added = timer[h].added /\ timer'[h].times = timer[h].times
          /\ timer'[h].wakeup = timer[h].wakeup + timer[h].interval
      BY <2>2 DEF TimerRec
    <3>3. PICK w \in Nat, i \in Nat \ {0}, f \in Nat, n \in Nat, ts \in Nat, s \in Nat :
            /\ w = timer[h].wakeup /\ i = timer[h].interval /\ f = fired[h] /\ n = now
            /\ ts = timer[h].timestamp /\ s = pass.second
      BY <1>0, <2>2 DEF TimerRec, TimersTyped
    <3>4. w <= s - ts /\ s <= n /\ ts <= n
      BY <1>0, <3>1, <3>3 DEF Timers!Due, PassInv, InTime
    <3>5. (f + 1) * i = f * i + i /\ f * i \in Nat
      BY <3>3
    <3>6. WakeupOf(timer'[h], f + 1) = WakeupOf(timer[h], f) + i
      BY <2>2, <3>2, <3>3, <3>5 DEF WakeupOf, TimerRec
    <3>7. InTime(h)'
      <4>1. w + i = WakeupOf(timer'[h], f + 1)
        BY <3>1, <3>3, <3>6 DEF InTime
      <4>2. w + i <= (n - ts) + i
        BY <3>4
      <4> QED
        BY <1>0, <2>2, <3>2, <3>3, <3>4, <4>1, <4>2 DEF InTime
    <3>8. Counted(h)'
      <4>1. Waits(h)' = 1 /\ Waits(h) = 0
        BY <1>0, <1>1, <2>1 DEF Waits
      <4>2. timer[h].times \in Nat /\ timer[h].added.times \in Nat
        BY <2>2 DEF TimerRec
      <4> QED
        BY <1>0, <2>2, <3>1, <3>2, <4>1, <4>2 DEF Counted
    <3> QED
      BY <3>7, <3>8
  <2>8. ASSUME NEW k \in alarms, k # h PROVE InTime(k)' /\ Counted(k)'
    <3>1. timer'[k] = timer[k] /\ fired'[k] = fired[k] /\ k # 0 /\ pass.in # k /\ pass'.in # k
      BY <1>0, <1>1, <2>1, <2>2, <2>8 DEF TimersTyped, Timers!Handle
    <3> QED
      BY <1>0, <2>1, <2>8, <3>1 DEF TimersInv, InTime, Counted, Waits, WakeupOf
  <2>9. \A k \in Timers!Handle : k > handle' => fired'[k] = 0
    BY <1>0, <1>1, <2>2 DEF TimersInv, TimersTyped
  <2> QED
    BY <1>0, <2>5, <2>6, <2>7, <2>8, <2>9 DEF TimersInv
<1>3. CASE ~Timers!Due(h)
  <2>0. pass' = [pass EXCEPT !.todo = pass.todo \ {h}] /\ UNCHANGED << timer, fired >>
    BY <1>3 DEF Timers!Visit
  <2>1. /\ pass'.todo = pass.todo \ {h} /\ pass'.in = pass.in /\ pass'.second = pass.second
        /\ pass'.begun = pass.begun
        /\ pass' \in [todo : SUBSET alarms, second : Nat, in : alarms \cup {0}, begun : BOOLEAN]
    BY <1>0, <1>1, <2>0 DEF TimersTyped
  <2>2. TimersTyped' /\ PassInv'
    BY <1>0, <2>0, <2>1 DEF TimersTyped, PassInv
  <2>3. \A k \in alarms : InTime(k)' /\ Counted(k)'
    BY <1>0, <2>0, <2>1 DEF TimersInv, InTime, Counted, Waits, WakeupOf
  <2> QED
    BY <1>0, <2>0, <2>2, <2>3 DEF TimersInv
<1> QED
  BY <1>2, <1>3

LEMMA CallReturned ==
  ASSUME TimersInv, Timers!Returned
  PROVE  TimersInv'
<1>h. PICK h \in alarms : h = pass.in /\ h # 0
  BY DEF TimersInv, TimersTyped, Timers!Returned
<1>0. /\ TimersTyped /\ PassInv
      /\ timer' = IF timer[h].times > 1 THEN [timer EXCEPT ![h].times = timer[h].times - 1]
                                        ELSE timer
      /\ to_deleted' = IF timer[h].times = 1 THEN to_deleted \cup {h} ELSE to_deleted
      /\ pass' = [pass EXCEPT !.in = 0]
      /\ UNCHANGED << now, running, handle, alarms, timers, fired, dead >>
  BY <1>h DEF TimersInv, Timers!Returned
<1>1. /\ pass'.todo = pass.todo /\ pass'.in = 0 /\ pass'.second = pass.second
      /\ pass'.begun = pass.begun
      /\ pass' \in [todo : SUBSET alarms, second : Nat, in : alarms \cup {0}, begun : BOOLEAN]
  BY <1>0 DEF TimersTyped
<1>2. h \in Timers!Handle /\ timer[h] \in TimerRec /\ fired[h] \in Nat /\ 0 \notin alarms
  BY <1>0 DEF TimersTyped, Timers!Handle
<1>3. /\ timer'[h] = IF timer[h].times > 1 THEN [timer[h] EXCEPT !.times = timer[h].times - 1]
                                            ELSE timer[h]
      /\ \A k \in Timers!Handle : k # h => timer'[k] = timer[k]
      /\ DOMAIN timer' = Timers!Handle /\ timer' = [k \in Timers!Handle |-> timer'[k]]
  BY <1>0, <1>2 DEF TimersTyped
<1>4. /\ timer'[h] \in TimerRec
      /\ timer'[h].interval = timer[h].interval /\ timer'[h].timestamp = timer[h].timestamp
      /\ timer'[h].added = timer[h].added /\ timer'[h].wakeup = timer[h].wakeup
      /\ timer'[h].times = IF timer[h].times > 1 THEN timer[h].times - 1 ELSE timer[h].times
  <2>1. CASE timer[h].times > 1
    <3>1. timer[h].times - 1 \in Nat
      BY <1>2, <2>1 DEF TimerRec
    <3> QED
      BY <1>2, <1>3, <2>1, <3>1 DEF TimerRec
  <2>2. CASE ~ (timer[h].times > 1)
    BY <1>2, <1>3, <2>2
  <2> QED
    BY <2>1, <2>2
<1>5. timer' \in [Timers!Handle -> TimerRec]
  <2>1. \A k \in Timers!Handle : timer'[k] \in TimerRec
    BY <1>0, <1>3, <1>4 DEF TimersTyped
  <2> QED
    BY <1>3, <2>1
<1>6. to_deleted \subseteq to_deleted' /\ to_deleted' \subseteq alarms
  BY <1>0 DEF TimersTyped
<1>7. TimersTyped'
  BY <1>0, <1>1, <1>5, <1>6 DEF TimersTyped
<1>8. PassInv'
  <2>1. 0 \notin pass.todo /\ 0 \notin to_deleted
    BY <1>h, <1>0, <1>2 DEF TimersTyped
  <2> QED
    BY <1>0, <1>1, <1>6, <2>1 DEF PassInv
<1>9. InTime(h)' /\ Counted(h)'
  <2>1. InTime(h) /\ Counted(h)
    BY <1>0 DEF TimersInv
  <2>2. InTime(h)'
    BY <1>0, <1>4, <2>1 DEF InTime, WakeupOf
  <2>3. Waits(h) = 1 /\ Waits(h)' = 0
    BY <1>h, <1>0, <1>1 DEF Waits
  <2>4. h \notin pass.todo
    BY <1>h, <1>0 DEF PassInv
  <2>5. timer[h].times \in Nat /\ timer[h].added.times \in Nat
    BY <1>2 DEF TimerRec
  <2>7. timer[h].added.times # 0 =>
          timer[h].times >= 1 /\ timer[h].times + fired[h] = timer[h].added.times + 1
    BY <1>h, <2>1, <2>3 DEF Counted
  <2>8. timer[h].added.times # 0 =>
          \/ timer[h].times > 1 /\ timer'[h].times = timer[h].times - 1
          \/ timer[h].times = 1 /\ timer'[h].times = 1 /\ h \in to_deleted'
    BY <1>0, <1>4, <2>5, <2>7
  <2>9. Counted(h)'
    BY <1>0, <1>1, <1>2, <1>4, <2>3, <2>4, <2>5, <2>7, <2>8 DEF Counted
  <2> QED
    BY <2>2, <2>9
<1>10. ASSUME NEW k \in alarms, k # h PROVE InTime(k)' /\ Counted(k)'
  <2>1. timer'[k] = timer[k] /\ k # 0 /\ pass.in # k
    BY <1>h, <1>0, <1>2, <1>3, <1>10 DEF TimersTyped
  <2>2. Waits(k)' = Waits(k)
    BY <1>1, <2>1 DEF Waits
  <2> QED
    BY <1>0, <1>1, <1>6, <2>1, <2>2 DEF TimersInv, InTime, Counted, WakeupOf
<1> QED
  BY <1>0, <1>7, <1>8, <1>9, <1>10 DEF TimersInv

LEMMA PassOver ==
  ASSUME TimersInv, Timers!Over
  PROVE  TimersInv'
<1>0. /\ TimersTyped /\ PassInv /\ pass.in = 0 /\ pass.todo = {} /\ pass' = Timers!Asleep
      /\ UNCHANGED << now, handle, timer, alarms, timers, to_deleted, fired, dead >>
  BY DEF TimersInv, Timers!Over
<1>1. /\ pass'.todo = {} /\ pass'.in = 0 /\ pass'.second = 0 /\ ~pass'.begun
      /\ pass' \in [todo : SUBSET alarms, second : Nat, in : alarms \cup {0}, begun : BOOLEAN]
  BY <1>0 DEF Timers!Asleep
<1>2. TimersTyped' /\ PassInv'
  BY <1>0, <1>1 DEF TimersTyped, PassInv
<1> QED
  BY <1>0, <1>1, <1>2 DEF TimersInv, InTime, Counted, Waits, WakeupOf

LEMMA TimeGoesOn ==
  ASSUME TimersInv, Timers!Tick
  PROVE  TimersInv'
<1>0. /\ TimersTyped /\ PassInv /\ now' = now + 1 /\ now \in Nat
      /\ UNCHANGED << handle, timer, alarms, timers, to_deleted, pass, fired, dead >>
  BY DEF TimersInv, Timers!Tick, TimersTyped
<1>1. TimersTyped' /\ PassInv'
  BY <1>0 DEF TimersTyped, PassInv
<1>2. ASSUME NEW h \in alarms PROVE InTime(h)' /\ Counted(h)'
  <2>1. timer[h] \in TimerRec
    BY <1>0 DEF TimersTyped, Timers!Handle
  <2>2. InTime(h)'
    BY <1>0, <2>1 DEF TimersInv, InTime, WakeupOf, TimerRec
  <2>3. Counted(h)'
    BY <1>0 DEF TimersInv, Counted, Waits
  <2> QED
    BY <2>2, <2>3
<1> QED
  BY <1>0, <1>1, <1>2 DEF TimersInv

LEMMA TimersKept ==
  ASSUME Timers!Constants, TimersInv, [Timers!Next]_Timers!vars
  PROVE  TimersInv'
<1>1. CASE UNCHANGED Timers!vars
  BY <1>1 DEF Timers!vars, TimersInv, TimersTyped, PassInv, InTime, Counted, Waits, WakeupOf
<1> QED
  BY <1>1, AddTimer, RemoveTimer, PassBegins, TimerVisited, CallReturned, PassOver, TimeGoesOn
     DEF Timers!Next, Timers!Loop

(* Types, when each call is due, how many are left, and what a pass may        *)
(* still visit.                                                             *)
THEOREM TimersInductive == MSpec => [](part = "timer" => TimersInv)
<1>0. Timers!Constants
  BY PartsAssumption
<1>1. MInit => (part = "timer" => TimersInv)
  BY <1>0, TimersInit DEF MInit
<1>2. (part = "timer" => TimersInv) /\ [MNext]_mvars => (part = "timer" => TimersInv)'
  <2> SUFFICES ASSUME part = "timer" => TimersInv, [MNext]_mvars, part' = "timer"
               PROVE  TimersInv'
    OBVIOUS
  <2>1. part = "timer" /\ [Timers!Next]_Timers!vars
    BY DEF MNext, mvars, times, Timers!vars
  <2> QED
    BY <1>0, <2>1, TimersKept
<1> QED
  BY <1>1, <1>2, PTL DEF MSpec

(* timer.lua:37-62: for any intervals, timers and times of calls, whatever is  *)
(* added and removed while a callback yields: no callback is called before    *)
(* it is due or more often than it was added for, and none in a pass that     *)
(* began after its timer was removed.                                       *)
THEOREM TimersFireRight == MSpec => [](part = "timer" => Timers!NeverWrong)
<1>1. TimersInv => Timers!NeverWrong
  BY TimersRight
<1> QED
  BY <1>1, TimersInductive, PTL

-----------------------------------------------------------------------------
(* The array.                                                              *)

(* Induction over the natural numbers in a set.                             *)
LEMMA SetInduction ==
  ASSUME NEW S, 0 \in S, \A n \in Nat : n \in S => n + 1 \in S
  PROVE  Nat \subseteq S
<1> DEFINE R == {ss \in Nat \X Nat : ss[1] < ss[2]}
           T == Nat \ S
<1>1. IsWellFoundedOn(R, Nat)
  BY NatLessThanWellFounded DEF OpToRel
<1>2. SUFFICES ASSUME T # {} PROVE FALSE
  OBVIOUS
<1>3. PICK x \in T : \A y \in T : ~ (<<y, x>> \in R)
  <2> HIDE DEF R, T
  <2>1. T \subseteq Nat
    BY DEF T
  <2> QED
    BY <1>1, <1>2, <2>1, WFMin
<1>4. x # 0 /\ x - 1 \in Nat
  OBVIOUS
<1>5. <<x - 1, x>> \in R
  BY <1>4
<1>6. x - 1 \in S
  BY <1>3, <1>4, <1>5
<1> QED
  BY <1>4, <1>6

(* The least of a set of numbers is in it and none is less.                  *)
LEMMA LeastIn ==
  ASSUME NEW S, S \subseteq Nat, S # {}
  PROVE  Array!Min(S) \in S /\ \A y \in S : Array!Min(S) <= y
<1> DEFINE R == {ss \in Nat \X Nat : ss[1] < ss[2]}
<1>1. IsWellFoundedOn(R, Nat)
  BY NatLessThanWellFounded DEF OpToRel
<1>2. PICK x \in S : \A y \in S : ~ (<<y, x>> \in R)
  <2> HIDE DEF R
  <2> QED
    BY <1>1, WFMin
<1>3. ASSUME NEW y \in S PROVE x <= y
  <2>1. x \in Nat /\ y \in Nat /\ ~ (<<y, x>> \in R)
    BY <1>2
  <2>2. ~ (y < x)
    BY <2>1
  <2> QED
    BY <2>1, <2>2
<1> QED
  BY <1>2, <1>3 DEF Array!Min

-----------------------------------------------------------------------------
(* Binary search.                                                           *)

Rising(s) == \A i, j \in 1 .. Len(s) : i < j => s[i] < s[j]

Window(n) == [begin : 0 .. n, end : 0 .. n]
Mid(w) == (w.begin + w.end) \div 2

\* In the part of s behind b up to e, what is less than key ends at p.
Cut(s, key, b, e, p) ==
  /\ p \in b .. e
  /\ \A i \in b + 1 .. p : s[i] < key
  /\ \A i \in p + 1 .. e : s[i] > key

Has(s, key, b, e) == \E i \in b + 1 .. e : s[i] = key

SearchVal(f, s, key, w) ==
  IF w.begin >= w.end THEN w.end
  ELSE IF s[Mid(w) + 1] = key THEN Array!Found
  ELSE IF s[Mid(w) + 1] < key THEN f[[w EXCEPT !.begin = Mid(w) + 1]]
  ELSE f[[w EXCEPT !.end = Mid(w)]]

SearchFcn(f, s, key, n) ==
  f = [w \in Window(n) |->
        SearchVal(f, s, key, w)]

LEMMA MidIn ==
  ASSUME NEW n \in Nat, NEW w \in Window(n), w.begin < w.end
  PROVE  /\ Mid(w) \in w.begin .. w.end - 1 /\ Mid(w) \in Nat
         /\ [w EXCEPT !.begin = Mid(w) + 1] = [begin |-> Mid(w) + 1, end |-> w.end]
         /\ [w EXCEPT !.end = Mid(w)] = [begin |-> w.begin, end |-> Mid(w)]
<1>1. w.begin \in Nat /\ w.end \in Nat /\ w = [begin |-> w.begin, end |-> w.end]
  BY DEF Window
<1>2. Mid(w) \in w.begin .. w.end - 1
  BY <1>1 DEF Mid
<1> HIDE DEF Mid
<1> QED
  BY <1>1, <1>2 DEF Window

LEMMA SearchAt ==
  ASSUME NEW s, NEW key, NEW n \in Nat, NEW f, SearchFcn(f, s, key, n)
  PROVE  \A w \in Window(n) :
           f[w] = SearchVal(f, s, key, w)
<1>1. PICK h : h = [w \in Window(n) |->
        SearchVal(f, s, key, w)]
  OBVIOUS
<1>2. \A w \in Window(n) :
        h[w] = SearchVal(f, s, key, w)
  BY <1>1
<1>3. f = h
  BY <1>1 DEF SearchFcn
<1> QED
  BY <1>2, <1>3

LEMMA CutExists ==
  ASSUME NEW s \in Seq(Nat), Rising(s), NEW key \in Nat, NEW b \in Nat, NEW e \in Nat,
         b <= e, e <= Len(s), ~Has(s, key, b, e)
  PROVE  \E p : Cut(s, key, b, e, p)
<1>0. Len(s) \in Nat /\ \A i \in 1 .. Len(s) : s[i] \in Nat
  OBVIOUS
<1> DEFINE S == {i \in b .. e : i = e \/ s[i + 1] > key}
<1>1. S \subseteq Nat /\ S # {}
  <2>1. e \in S /\ S \subseteq Nat
    OBVIOUS
  <2> HIDE DEF S
  <2> QED
    BY <2>1
<1>2. PICK p \in S : \A y \in S : p <= y
  <2> HIDE DEF S
  <2> QED
    BY <1>1, LeastIn
<1>3. ASSUME NEW i \in b + 1 .. p PROVE s[i] < key
  <2>1. i - 1 \in b .. e /\ i - 1 < p /\ i - 1 # e /\ i \in 1 .. Len(s) /\ i \in b + 1 .. e
    BY <1>0
  <2>2. ~ (s[i] > key)
    <3>1. i - 1 \notin S
      <4>1. p \in Nat /\ ~ (p <= i - 1)
        BY <1>1, <2>1
      <4> HIDE DEF S
      <4> QED
        BY <1>2, <4>1
    <3> QED
      BY <2>1, <3>1
  <2> QED
    BY <1>0, <2>1, <2>2 DEF Has
<1>4. ASSUME NEW i \in p + 1 .. e PROVE s[i] > key
  <2>1. p \in b .. e /\ p # e /\ s[p + 1] > key
    OBVIOUS
  <2>2. p + 1 \in 1 .. Len(s) /\ i \in 1 .. Len(s) /\ p + 1 <= i
    BY <1>0, <2>1
  <2>3. s[p + 1] <= s[i]
    BY <1>0, <2>2 DEF Rising
  <2> QED
    BY <1>0, <2>1, <2>2, <2>3
<1> QED
  BY <1>3, <1>4 DEF Cut

LEMMA CutUnique ==
  ASSUME NEW s \in Seq(Nat), NEW key \in Nat, NEW b \in Nat, NEW e \in Nat, e <= Len(s),
         NEW p, NEW q, Cut(s, key, b, e, p), Cut(s, key, b, e, q)
  PROVE  p = q
<1>0. Len(s) \in Nat /\ (\A i \in 1 .. Len(s) : s[i] \in Nat) /\ p \in b .. e /\ q \in b .. e
  BY DEF Cut
<1>1. ASSUME p < q PROVE FALSE
  <2>1. q \in p + 1 .. e /\ q \in b + 1 .. q /\ q \in 1 .. Len(s)
    BY <1>0, <1>1
  <2>2. s[q] > key /\ s[q] < key
    BY <2>1 DEF Cut
  <2> QED
    BY <1>0, <2>1, <2>2
<1>2. ASSUME q < p PROVE FALSE
  <2>1. p \in q + 1 .. e /\ p \in b + 1 .. p /\ p \in 1 .. Len(s)
    BY <1>0, <1>2
  <2>2. s[p] > key /\ s[p] < key
    BY <2>1 DEF Cut
  <2> QED
    BY <1>0, <2>1, <2>2
<1> QED
  BY <1>0, <1>1, <1>2

\* What the search of a window comes to.
Answer(s, key, b, e, r) == IF Has(s, key, b, e) THEN r = Array!Found ELSE Cut(s, key, b, e, r)

(* The answer of one half is that of the window.                             *)
LEMMA HalfAnswers ==
  ASSUME NEW s \in Seq(Nat), Rising(s), NEW key \in Nat, NEW b \in Nat, NEW e \in Nat,
         e <= Len(s), NEW m \in b .. e - 1, NEW r
  PROVE  /\ s[m + 1] < key /\ Answer(s, key, m + 1, e, r) => Answer(s, key, b, e, r)
         /\ s[m + 1] > key /\ Answer(s, key, b, m, r) => Answer(s, key, b, e, r)
<1>0. Len(s) \in Nat /\ (\A i \in 1 .. Len(s) : s[i] \in Nat) /\ m + 1 \in 1 .. Len(s)
  OBVIOUS
<1>1. ASSUME s[m + 1] < key, Answer(s, key, m + 1, e, r) PROVE Answer(s, key, b, e, r)
  <2>1. \A i \in b + 1 .. m + 1 : s[i] < key
    BY <1>0, <1>1 DEF Rising
  <2>2. Has(s, key, b, e) <=> Has(s, key, m + 1, e)
    <3>1. ASSUME NEW i \in b + 1 .. e, s[i] = key PROVE i \in m + 2 .. e
      BY <1>0, <2>1, <3>1
    <3>2. \A i \in (m + 1) + 1 .. e : i \in b + 1 .. e
      OBVIOUS
    <3> QED
      BY <3>1, <3>2 DEF Has
  <2>3. Cut(s, key, m + 1, e, r) => Cut(s, key, b, e, r)
    BY <2>1 DEF Cut
  <2> QED
    BY <1>1, <2>2, <2>3 DEF Answer
<1>2. ASSUME s[m + 1] > key, Answer(s, key, b, m, r) PROVE Answer(s, key, b, e, r)
  <2>1. ASSUME NEW i \in m + 1 .. e PROVE s[i] > key
    <3>1. i \in 1 .. Len(s) /\ (i = m + 1 \/ m + 1 < i)
      BY <1>0
    <3>2. s[m + 1] <= s[i]
      BY <1>0, <3>1 DEF Rising
    <3> QED
      BY <1>0, <1>2, <3>1, <3>2
  <2>2. Has(s, key, b, e) <=> Has(s, key, b, m)
    <3>1. ASSUME NEW i \in b + 1 .. e, s[i] = key PROVE i \in b + 1 .. m
      BY <1>0, <2>1, <3>1
    <3> QED
      BY <3>1 DEF Has
  <2>3. Cut(s, key, b, m, r) => Cut(s, key, b, e, r)
    BY <2>1 DEF Cut
  <2> QED
    BY <1>2, <2>2, <2>3 DEF Answer
<1> QED
  BY <1>1, <1>2

\* A function that does what the search does: the answer of each window.
LEMMA SearchExists ==
  ASSUME NEW s \in Seq(Nat), Rising(s), NEW key \in Nat
  PROVE  \E f : SearchFcn(f, s, key, Len(s))
<1>0. PICK n \in Nat : n = Len(s) /\ \A i \in 1 .. n : s[i] \in Nat
  OBVIOUS
<1> DEFINE V(w) == IF w.begin >= w.end THEN w.end
                   ELSE IF Has(s, key, w.begin, w.end) THEN Array!Found
                   ELSE CHOOSE p : Cut(s, key, w.begin, w.end, p)
<1>1. PICK f : f = [w \in Window(n) |-> V(w)]
  OBVIOUS
<1>2. ASSUME NEW w \in Window(n), NEW r, w.begin <= w.end, Answer(s, key, w.begin, w.end, r)
      PROVE  f[w] = r
  <2>0. w.begin \in Nat /\ w.end \in Nat /\ w.end <= n
    BY DEF Window
  <2>1. f[w] = V(w)
    BY <1>1
  <2>2. CASE w.begin = w.end
    <3>1. ~Has(s, key, w.begin, w.end)
      BY <2>0, <2>2 DEF Has
    <3>2. r = w.end
      BY <1>2, <2>0, <2>2, <3>1 DEF Answer, Cut
    <3> QED
      BY <2>0, <2>1, <2>2, <3>2
  <2>3. CASE w.begin < w.end /\ Has(s, key, w.begin, w.end)
    BY <1>2, <2>0, <2>1, <2>3 DEF Answer
  <2>4. CASE w.begin < w.end /\ ~Has(s, key, w.begin, w.end)
    <3>1. Cut(s, key, w.begin, w.end, r)
      BY <1>2, <2>4 DEF Answer
    <3>2. PICK q : q = CHOOSE p : Cut(s, key, w.begin, w.end, p)
      OBVIOUS
    <3>3. Cut(s, key, w.begin, w.end, q)
      BY <3>1, <3>2
    <3>4. q = r
      BY <1>0, <2>0, <3>1, <3>3, CutUnique
    <3>5. V(w) = q
      BY <2>0, <2>4, <3>2
    <3> QED
      BY <2>1, <3>4, <3>5
  <2> QED
    BY <1>2, <2>0, <2>2, <2>3, <2>4
<1>3. ASSUME NEW w \in Window(n), w.begin < w.end PROVE Answer(s, key, w.begin, w.end, f[w])
  <2>0. w.begin \in Nat /\ w.end \in Nat /\ w.end <= n
    BY DEF Window
  <2>1. CASE Has(s, key, w.begin, w.end)
    <3>1. Answer(s, key, w.begin, w.end, Array!Found)
      BY <2>1 DEF Answer
    <3> QED
      BY <1>2, <1>3, <2>0, <3>1
  <2>2. CASE ~Has(s, key, w.begin, w.end)
    <3>1. PICK p : Cut(s, key, w.begin, w.end, p)
      BY <1>0, <1>3, <2>0, <2>2, CutExists
    <3>2. Answer(s, key, w.begin, w.end, p)
      BY <2>2, <3>1 DEF Answer
    <3>3. f[w] = p
      <4>1. w.begin <= w.end
        BY <1>3, <2>0
      <4> QED
        BY ONLY <1>2, <3>2, <4>1, w \in Window(n)
    <3> QED
      BY <3>2, <3>3
  <2> QED
    BY <2>1, <2>2
<1> HIDE DEF V
<1>4. ASSUME NEW w \in Window(n)
      PROVE  f[w] = SearchVal(f, s, key, w)
  <2>0. w.begin \in Nat /\ w.end \in Nat /\ w.end <= n
    BY DEF Window
  <2>1. CASE w.begin >= w.end
    <3>1. f[w] = w.end
      BY <1>1, <2>1 DEF V
    <3> QED
      BY <2>1, <3>1 DEF SearchVal
  <2>2. CASE w.begin < w.end
    <3>1. PICK m \in w.begin .. w.end - 1 :
            /\ m = Mid(w) /\ m \in Nat
            /\ [w EXCEPT !.begin = Mid(w) + 1] = [begin |-> m + 1, end |-> w.end]
            /\ [w EXCEPT !.end = Mid(w)] = [begin |-> w.begin, end |-> m]
      BY <2>2, MidIn
    <3>2. m + 1 \in 1 .. n /\ s[m + 1] \in Nat /\ m + 1 <= w.end
      BY <1>0, <2>0
    <3>3. PICK up \in Window(n) : up = [begin |-> m + 1, end |-> w.end]
      BY <2>0, <3>1 DEF Window
    <3>4. PICK lo \in Window(n) : lo = [begin |-> w.begin, end |-> m]
      BY <2>0, <3>1 DEF Window
    <3>5. up.begin = m + 1 /\ up.end = w.end /\ lo.begin = w.begin /\ lo.end = m
      BY <3>3, <3>4
    <3>6. CASE s[m + 1] = key
      <4>1. Has(s, key, w.begin, w.end)
        <5>1. m + 1 \in w.begin + 1 .. w.end
          BY <2>0
        <5> QED
          BY <3>6, <5>1 DEF Has
      <4>2. f[w] = Array!Found
        BY <1>3, <2>2, <4>1 DEF Answer
      <4> QED
        BY <2>0, <2>2, <3>1, <3>6, <4>2 DEF SearchVal
    <3>7. CASE s[m + 1] < key
      <4>1. Answer(s, key, w.begin, w.end, f[up])
        <5>1. Answer(s, key, m + 1, w.end, f[up])
          <6>1. CASE m + 1 < w.end
            BY <1>3, <3>5, <6>1
          <6>2. CASE m + 1 = w.end
            <7>1. f[up] = w.end
              BY <1>1, <2>0, <3>5, <6>2 DEF V
            <7> QED
              BY <2>0, <6>2, <7>1 DEF Answer, Has, Cut
          <6> QED
            BY <2>0, <3>2, <6>1, <6>2
        <5> QED
          BY <1>0, <2>0, <3>7, <5>1, HalfAnswers
      <4>2. f[w] = f[up]
        <5>1. w.begin <= w.end
          BY <2>0, <2>2
        <5> QED
          BY ONLY <1>2, <4>1, <5>1, w \in Window(n)
      <4>3. s[m + 1] # key
        BY <3>2, <3>7
      <4> QED
        BY <2>0, <2>2, <3>1, <3>3, <3>7, <4>2, <4>3 DEF SearchVal
    <3>8. CASE s[m + 1] > key
      <4>1. Answer(s, key, w.begin, w.end, f[lo])
        <5>1. Answer(s, key, w.begin, m, f[lo])
          <6>1. CASE w.begin < m
            BY <1>3, <3>5, <6>1
          <6>2. CASE w.begin = m
            <7>1. f[lo] = m
              BY <1>1, <2>0, <3>5, <6>2 DEF V
            <7> QED
              BY <2>0, <6>2, <7>1 DEF Answer, Has, Cut
          <6> QED
            BY <2>0, <6>1, <6>2
        <5> QED
          BY <1>0, <2>0, <3>8, <5>1, HalfAnswers
      <4>2. f[w] = f[lo]
        <5>1. w.begin <= w.end
          BY <2>0, <2>2
        <5> QED
          BY ONLY <1>2, <4>1, <5>1, w \in Window(n)
      <4>3. s[m + 1] # key /\ ~ (s[m + 1] < key)
        BY <3>2, <3>8
      <4> QED
        BY <2>0, <2>2, <3>1, <3>4, <4>2, <4>3 DEF SearchVal
    <3> QED
      BY <3>2, <3>6, <3>7, <3>8
  <2> QED
    BY <2>0, <2>1, <2>2
<1>5. SearchFcn(f, s, key, n)
  BY <1>1, <1>4 DEF SearchFcn
<1> QED
  BY <1>0, <1>5

LEMMA WindowAnswers ==
  ASSUME NEW s \in Seq(Nat), Rising(s), NEW key \in Nat, NEW n \in Nat, n = Len(s),
         NEW f, SearchFcn(f, s, key, n)
  PROVE  \A w \in Window(n) : w.begin <= w.end => Answer(s, key, w.begin, w.end, f[w])
<1> DEFINE S == {d \in Nat : \A w \in Window(n) :
                   w.begin <= w.end /\ w.end - w.begin <= d => Answer(s, key, w.begin, w.end, f[w])}
<1>0. \A i \in 1 .. n : s[i] \in Nat
  OBVIOUS
<1>4. \A w \in Window(n) :
        f[w] = SearchVal(f, s, key, w)
  BY ONLY SearchFcn(f, s, key, n), n \in Nat, SearchAt
<1>1. ASSUME NEW w \in Window(n), w.begin = w.end PROVE Answer(s, key, w.begin, w.end, f[w])
  <2>0. w.begin \in Nat /\ w.end \in Nat /\ w.end <= n
    BY DEF Window
  <2>1. f[w] = w.end
    <3>1. w.begin >= w.end
      BY <1>1, <2>0
    <3> QED
      BY ONLY <1>4, <3>1, w \in Window(n) DEF SearchVal
  <2> QED
    BY <1>1, <2>0, <2>1 DEF Answer, Has, Cut
<1>2. 0 \in S
  <2>1. \A w \in Window(n) : w.begin <= w.end /\ w.end - w.begin <= 0 => w.begin = w.end
    BY DEF Window
  <2> QED
    BY <1>1, <2>1
<1>3. ASSUME NEW d \in Nat, d \in S PROVE d + 1 \in S
  <2> SUFFICES ASSUME NEW w \in Window(n), w.begin < w.end, w.end - w.begin <= d + 1
               PROVE  Answer(s, key, w.begin, w.end, f[w])
    <3>1. \A w \in Window(n) : w.begin <= w.end => w.begin = w.end \/ w.begin < w.end
      BY DEF Window
    <3> QED
      BY <1>1, <3>1
  <2>0. w.begin \in Nat /\ w.end \in Nat /\ w.end <= n
    BY DEF Window
  <2>1. PICK m \in w.begin .. w.end - 1 :
          /\ m = Mid(w) /\ m \in Nat
          /\ [w EXCEPT !.begin = Mid(w) + 1] = [begin |-> m + 1, end |-> w.end]
          /\ [w EXCEPT !.end = Mid(w)] = [begin |-> w.begin, end |-> m]
    BY MidIn
  <2>2. m + 1 \in 1 .. n /\ s[m + 1] \in Nat
    BY <1>0, <2>0
  <2>a. w.begin \in 0 .. n /\ w.end \in 0 .. n /\ m \in 0 .. n /\ m + 1 \in 0 .. n
    BY ONLY n \in Nat, m \in w.begin .. w.end - 1, <2>0
  <2>3. PICK up \in Window(n) : up = [begin |-> m + 1, end |-> w.end]
    BY ONLY <2>a DEF Window
  <2>4. PICK lo \in Window(n) : lo = [begin |-> w.begin, end |-> m]
    BY ONLY <2>a DEF Window
  <2>5. up.begin = m + 1 /\ up.end = w.end /\ lo.begin = w.begin /\ lo.end = m
    BY <2>3, <2>4
  <2>6. Answer(s, key, m + 1, w.end, f[up]) /\ Answer(s, key, w.begin, m, f[lo])
    <3>1. up.begin <= up.end /\ up.end - up.begin <= d /\ lo.begin <= lo.end /\ lo.end - lo.begin <= d
      BY <2>0, <2>5
    <3> QED
      BY <1>3, <2>5, <3>1
  <2>7. f[w] = IF s[m + 1] = key THEN Array!Found
               ELSE IF s[m + 1] < key THEN f[up] ELSE f[lo]
    <3>1. ~ (w.begin >= w.end)
      BY <2>0
    <3>2. f[w] = SearchVal(f, s, key, w)
      BY <1>4
    <3> QED
      BY <2>1, <2>3, <2>4, <3>1, <3>2 DEF SearchVal
  <2>8. CASE s[m + 1] = key
    <3>1. Has(s, key, w.begin, w.end)
      <4>1. m + 1 \in w.begin + 1 .. w.end
        BY <2>0
      <4> QED
        BY <2>8, <4>1 DEF Has
    <3> QED
      BY <2>7, <2>8, <3>1 DEF Answer
  <2>9. CASE s[m + 1] < key
    <3>1. f[w] = f[up]
      BY <2>2, <2>7, <2>9
    <3> QED
      BY <2>0, <2>6, <2>9, <3>1, HalfAnswers
  <2>10. CASE s[m + 1] > key
    <3>1. f[w] = f[lo]
      BY <2>2, <2>7, <2>10
    <3> QED
      BY <2>0, <2>6, <2>10, <3>1, HalfAnswers
  <2> QED
    BY <2>2, <2>8, <2>9, <2>10
<1>5. Nat \subseteq S
  <2> HIDE DEF S
  <2> QED
    BY <1>2, <1>3, SetInduction
<1> QED
  <2>1. \A w \in Window(n) : w.begin <= w.end =>
          w.end - w.begin \in Nat /\ w.end - w.begin <= w.end - w.begin
    BY DEF Window
  <2> QED
    BY <1>5, <2>1

(* Search finds a key, or the number of those before it.                     *)
LEMMA SearchRight ==
  ASSUME NEW s \in Seq(Nat), Rising(s), NEW key \in Nat
  PROVE  Answer(s, key, 0, Len(s), Array!Search(s, key))
<1>1. PICK n \in Nat : n = Len(s)
  OBVIOUS
<1>2. PICK g : g = CHOOSE f : SearchFcn(f, s, key, n)
  OBVIOUS
<1>3. SearchFcn(g, s, key, n)
  BY <1>1, <1>2, SearchExists
<1>4. PICK w : w = [begin |-> 0, end |-> n]
  OBVIOUS
<1>5. w \in Window(n) /\ w.begin = 0 /\ w.end = n
  <2>1. 0 \in 0 .. n /\ n \in 0 .. n
    OBVIOUS
  <2> QED
    BY <1>4, <2>1 DEF Window
<1>6. Array!Search(s, key) = g[w]
  BY <1>1, <1>2, <1>4 DEF Array!Search, SearchFcn, SearchVal, Window, Mid
<1>7. Answer(s, key, w.begin, w.end, g[w])
  BY <1>1, <1>3, <1>5, WindowAnswers
<1> QED
  BY <1>1, <1>5, <1>6, <1>7

-----------------------------------------------------------------------------
(* The sorted indices.                                                     *)

LEMMA Members == \A s \in Seq(Nat) : Array!ToSet(s) = {s[i] : i \in 1 .. Len(s)}
BY DEF Array!ToSet

LEMMA PlaceRight ==
  ASSUME NEW s \in Seq(Nat), Rising(s), NEW idx \in Nat
  PROVE  /\ Array!Place(s, idx) \in 1 .. Len(s) + 1
         /\ \A i \in 1 .. Len(s) : i < Array!Place(s, idx) => s[i] < idx
         /\ \A i \in 1 .. Len(s) : i >= Array!Place(s, idx) => s[i] >= idx
<1>0. PICK n \in Nat : n = Len(s) /\ (\A i \in 1 .. n : s[i] \in Nat) /\ DOMAIN s = 1 .. n
  OBVIOUS
<1>1. PICK p : p = Array!Place(s, idx)
  OBVIOUS
<1>2. CASE idx \in Array!ToSet(s)
  <2>1. \E i \in DOMAIN s : s[i] = idx
    BY <1>2 DEF Array!ToSet
  <2>2. p = CHOOSE i \in DOMAIN s : s[i] = idx
    BY <1>1, <1>2 DEF Array!Place
  <2>3. p \in 1 .. n /\ s[p] = idx
    BY <1>0, <2>1, <2>2
  <2> QED
    BY <1>0, <1>1, <2>3 DEF Rising
<1>3. CASE idx \notin Array!ToSet(s)
  <2>1. ~Has(s, idx, 0, n)
    BY <1>0, <1>3 DEF Has, Array!ToSet
  <2>2. PICK q : q = Array!Search(s, idx) /\ Cut(s, idx, 0, n, q)
    BY <1>0, <2>1, SearchRight DEF Answer
  <2>3. p = q + 1 /\ q \in 0 .. n
    BY <1>1, <1>3, <2>2 DEF Array!Place, Cut
  <2>4. \A i \in 1 .. n : (i < p => s[i] < idx) /\ (i >= p => s[i] >= idx)
    BY <1>0, <2>2, <2>3 DEF Cut
  <2> QED
    BY <1>0, <1>1, <2>3, <2>4
<1> QED
  BY <1>2, <1>3

LEMMA InsertRight ==
  ASSUME NEW s \in Seq(Nat), Rising(s), NEW key \in Nat
  PROVE  /\ Array!insert(s, key) \in Seq(Nat) /\ Rising(Array!insert(s, key))
         /\ Array!ToSet(Array!insert(s, key)) = Array!ToSet(s) \cup {key}
<1>0. PICK n \in Nat : n = Len(s) /\ (\A i \in 1 .. n : s[i] \in Nat) /\ DOMAIN s = 1 .. n
  OBVIOUS
<1>1. PICK r : r = Array!Search(s, key) /\ Answer(s, key, 0, n, r)
  BY <1>0, SearchRight
<1>2. CASE Has(s, key, 0, n)
  <2>1. Array!insert(s, key) = s
    BY <1>1, <1>2 DEF Answer, Array!insert
  <2>2. key \in Array!ToSet(s)
    BY <1>0, <1>2 DEF Has, Array!ToSet
  <2> QED
    BY <2>1, <2>2
<1>3. CASE ~Has(s, key, 0, n)
  <2>1. Cut(s, key, 0, n, r) /\ r \in 0 .. n
    BY <1>1, <1>3 DEF Answer, Cut
  <2>2. PICK a \in Seq(Nat) : a = SubSeq(s, 1, r) /\ Len(a) = r /\ \A i \in 1 .. r : a[i] = s[i]
    <3>1. \A i \in 1 .. r : s[i] \in Nat
      BY <1>0, <2>1
    <3>2. /\ SubSeq(s, 1, r) \in Seq(Nat)
          /\ Len(SubSeq(s, 1, r)) = IF 1 <= r THEN r - 1 + 1 ELSE 0
          /\ \A i \in 1 .. r - 1 + 1 : SubSeq(s, 1, r)[i] = s[1 + i - 1]
      BY <2>1, <3>1, SubSeqProperties
    <3>3. Len(SubSeq(s, 1, r)) = r /\ \A i \in 1 .. r : SubSeq(s, 1, r)[i] = s[i]
      BY <2>1, <3>2
    <3> QED
      BY ONLY <3>2, <3>3
  <2>3. PICK c \in Seq(Nat) : c = SubSeq(s, r + 1, n) /\ Len(c) = n - r
                              /\ \A i \in 1 .. n - r : c[i] = s[r + i]
    <3>1. \A i \in r + 1 .. n : s[i] \in Nat
      BY <1>0, <2>1
    <3>2. /\ SubSeq(s, r + 1, n) \in Seq(Nat)
          /\ Len(SubSeq(s, r + 1, n)) = IF r + 1 <= n THEN n - (r + 1) + 1 ELSE 0
          /\ \A i \in 1 .. n - (r + 1) + 1 : SubSeq(s, r + 1, n)[i] = s[(r + 1) + i - 1]
      BY <2>1, <3>1, SubSeqProperties
    <3>3. /\ Len(SubSeq(s, r + 1, n)) = n - r
          /\ \A i \in 1 .. n - r : SubSeq(s, r + 1, n)[i] = s[r + i]
      BY <2>1, <3>2
    <3> QED
      BY ONLY <3>2, <3>3
  <2>4. PICK b \in Seq(Nat) : /\ b = a \o << key >> /\ Len(b) = r + 1
                              /\ \A i \in 1 .. r + 1 : b[i] = IF i <= r THEN s[i] ELSE key
    <3>1. << key >> \in Seq(Nat) /\ Len(<< key >>) = 1 /\ << key >>[1] = key
      OBVIOUS
    <3>2. /\ a \o << key >> \in Seq(Nat) /\ Len(a \o << key >>) = r + 1
          /\ \A i \in 1 .. r + 1 :
               (a \o << key >>)[i] = IF i <= r THEN a[i] ELSE << key >>[i - r]
      BY <2>2, <3>1, ConcatProperties
    <3>3. \A i \in 1 .. r + 1 : (a \o << key >>)[i] = IF i <= r THEN s[i] ELSE key
      <4>1. \A i \in 1 .. r + 1 : i <= r \/ i - r = 1
        BY <2>1
      <4> QED
        BY <2>1, <2>2, <3>1, <3>2, <4>1
    <3> QED
      BY ONLY <3>2, <3>3
  <2>5. PICK t \in Seq(Nat) : /\ t = b \o c /\ Len(t) = n + 1
          /\ \A i \in 1 .. n + 1 : t[i] = IF i <= r THEN s[i] ELSE IF i = r + 1 THEN key ELSE s[i - 1]
    <3>0. Len(b) = r + 1 /\ Len(c) = n - r /\ (r + 1) + (n - r) = n + 1
      BY <2>1, <2>3, <2>4
    <3>a. /\ b \o c \in Seq(Nat) /\ Len(b \o c) = Len(b) + Len(c)
          /\ \A i \in 1 .. Len(b) + Len(c) :
               (b \o c)[i] = IF i <= Len(b) THEN b[i] ELSE c[i - Len(b)]
      BY ONLY b \in Seq(Nat), c \in Seq(Nat), ConcatProperties
    <3>1. /\ b \o c \in Seq(Nat) /\ Len(b \o c) = n + 1
          /\ \A i \in 1 .. n + 1 :
               (b \o c)[i] = IF i <= r + 1 THEN b[i] ELSE c[i - (r + 1)]
      BY ONLY <3>0, <3>a
    <3> DEFINE t == b \o c
    <3> HIDE DEF t
    <3>4. \A i \in 1 .. n + 1 : t[i] = IF i <= r + 1 THEN b[i] ELSE c[i - (r + 1)]
      BY ONLY <3>1 DEF t
    <3>5. \A i \in 1 .. r + 1 : b[i] = IF i <= r THEN s[i] ELSE key
      BY ONLY <2>4
    <3>6. \A i \in 1 .. n - r : c[i] = s[r + i]
      BY ONLY <2>3
    <3>2. ASSUME NEW i \in 1 .. n + 1
          PROVE  t[i] = IF i <= r THEN s[i] ELSE IF i = r + 1 THEN key ELSE s[i - 1]
      <4>1. CASE i <= r + 1
        <5>1. i \in 1 .. r + 1 /\ t[i] = b[i]
          BY <2>1, <3>4, <4>1
        <5> QED
          BY <2>1, <3>5, <5>1
      <4>2. CASE i > r + 1
        <5>1. i - (r + 1) \in 1 .. n - r /\ r + (i - (r + 1)) = i - 1
          BY <2>1, <4>2
        <5>2. t[i] = s[i - 1]
          BY <2>1, <3>4, <3>6, <4>2, <5>1
        <5> QED
          BY <2>1, <4>2, <5>2
      <4> QED
        BY <2>1, <4>1, <4>2
    <3>3. t \in Seq(Nat) /\ t = b \o c /\ Len(t) = n + 1
      BY ONLY <3>1 DEF t
    <3> QED
      BY ONLY <3>2, <3>3
  <2>9. Len(t) = n + 1 /\ \A i \in 1 .. n + 1 :
          t[i] = IF i <= r THEN s[i] ELSE IF i = r + 1 THEN key ELSE s[i - 1]
    BY ONLY <2>5
  <2>6. Array!insert(s, key) = t
    <3>1. r # Array!Found /\ (r + 1) - 1 = r
      BY <2>1 DEF Array!Found
    <3> QED
      BY <1>0, <1>1, <2>2, <2>3, <2>4, <2>5, <3>1 DEF Array!insert, Array!InsertAt
  <2>a. ASSUME NEW i \in 1 .. n + 1, i <= r
        PROVE  i \in 1 .. n /\ i \in 1 .. r /\ t[i] = s[i]
    BY <2>1, <2>9, <2>a
  <2>b. r + 1 \in 1 .. n + 1 /\ t[r + 1] = key
    BY <2>1, <2>9
  <2>c. ASSUME NEW i \in 1 .. n + 1, i > r + 1
        PROVE  i - 1 \in 1 .. n /\ i - 1 \in r + 1 .. n /\ t[i] = s[i - 1]
    <3>1. ~ (i <= r) /\ i # r + 1 /\ i - 1 \in 1 .. n /\ i - 1 \in r + 1 .. n
      BY <2>1, <2>c
    <3> QED
      BY <2>9, <3>1
  <2>d. \A i \in 1 .. r : s[i] < key
    <3>1. \A i \in 0 + 1 .. r : s[i] < key
      BY <2>1 DEF Cut
    <3> QED
      BY <2>1, <3>1
  <2>e. \A i \in r + 1 .. n : s[i] > key
    BY <2>1 DEF Cut
  <2>f. \A i \in 1 .. n : s[i] \in Nat
    BY <1>0
  <2>g. \A i, j \in 1 .. n : i < j => s[i] < s[j]
    BY <1>0 DEF Rising
  <2>7. Rising(t)
    <3> SUFFICES ASSUME NEW i \in 1 .. n + 1, NEW j \in 1 .. n + 1, i < j PROVE t[i] < t[j]
      BY <2>9 DEF Rising
    <3>1. CASE j <= r
      <4>0. i <= r
        BY <2>1, <3>1
      <4>1. i \in 1 .. n /\ t[i] = s[i]
        BY <2>a, <4>0
      <4>2. j \in 1 .. n /\ t[j] = s[j]
        BY <2>a, <3>1
      <4> QED
        BY <2>g, <4>1, <4>2
    <3>2. CASE j = r + 1
      <4>0. i <= r
        BY <2>1, <3>2
      <4>1. i \in 1 .. r /\ t[i] = s[i]
        BY <2>a, <4>0
      <4>2. t[j] = key
        BY <2>b, <3>2
      <4> QED
        BY <2>d, <4>1, <4>2
    <3>3. CASE i = r + 1
      <4>1. j - 1 \in r + 1 .. n /\ j - 1 \in 1 .. n /\ t[j] = s[j - 1]
        BY <2>1, <2>c, <3>3
      <4>2. t[i] = key
        BY <2>b, <3>3
      <4> QED
        BY <2>e, <2>f, <4>1, <4>2
    <3>4. CASE j > r + 1 /\ i > r + 1
      <4>1. i - 1 \in 1 .. n /\ t[i] = s[i - 1]
        BY <2>c, <3>4
      <4>2. j - 1 \in 1 .. n /\ t[j] = s[j - 1]
        BY <2>c, <3>4
      <4>3. i - 1 < j - 1
        OBVIOUS
      <4> QED
        BY <2>g, <4>1, <4>2, <4>3
    <3>5. CASE j > r + 1 /\ i <= r
      <4>1. i \in 1 .. n /\ t[i] = s[i]
        BY <2>a, <3>5
      <4>2. j - 1 \in 1 .. n /\ t[j] = s[j - 1]
        BY <2>c, <3>5
      <4>3. i < j - 1
        BY <2>1, <3>5
      <4> QED
        BY <2>g, <4>1, <4>2, <4>3
    <3> QED
      BY <2>1, <3>1, <3>2, <3>3, <3>4, <3>5
  <2>8. Array!ToSet(t) = Array!ToSet(s) \cup {key}
    <3>1. ASSUME NEW i \in 1 .. n + 1 PROVE t[i] = key \/ \E j \in 1 .. n : t[i] = s[j]
      <4>1. CASE i <= r
        BY <2>a, <4>1
      <4>2. CASE i > r + 1
        BY <2>c, <4>2
      <4>3. CASE i = r + 1
        BY <2>b, <4>3
      <4> QED
        BY <2>1, <4>1, <4>2, <4>3
    <3>2. ASSUME NEW j \in 1 .. n PROVE \E i \in 1 .. n + 1 : t[i] = s[j]
      <4>1. CASE j <= r
        <5>1. j \in 1 .. n + 1
          OBVIOUS
        <5>2. t[j] = s[j]
          BY <2>a, <4>1, <5>1
        <5> QED
          BY <5>1, <5>2
      <4>2. CASE j > r
        <5>1. j + 1 \in 1 .. n + 1 /\ j + 1 > r + 1 /\ (j + 1) - 1 = j
          BY <2>1, <4>2
        <5>2. t[j + 1] = s[(j + 1) - 1]
          BY <2>c, <5>1
        <5> QED
          BY <5>1, <5>2
      <4> QED
        BY <2>1, <4>1, <4>2
    <3>4. Array!ToSet(t) = {t[i] : i \in 1 .. n + 1} /\ Array!ToSet(s) = {s[i] : i \in 1 .. n}
      BY <1>0, <2>9, Members
    <3> QED
      BY <2>b, <3>1, <3>2, <3>4
  <2> QED
    BY <2>5, <2>6, <2>7, <2>8
<1> QED
  BY <1>2, <1>3

\* sort_sparse: after k indices of s, with the elements el and the border bo.
SortVal(f, s, el, bo, k) ==
  IF k = 0 THEN << >>
  ELSE IF s[k] <= bo \/ s[k] \notin el THEN f[k - 1] ELSE Array!insert(f[k - 1], s[k])

SortFcn(f, s, el, bo, n) == f = [k \in 0 .. n |-> SortVal(f, s, el, bo, k)]

LEMMA SortAt ==
  ASSUME NEW s, NEW el, NEW bo, NEW n \in Nat, NEW f, SortFcn(f, s, el, bo, n)
  PROVE  \A k \in 0 .. n : f[k] = SortVal(f, s, el, bo, k)
<1>1. PICK h : h = [k \in 0 .. n |-> SortVal(f, s, el, bo, k)]
  OBVIOUS
<1>2. \A k \in 0 .. n : h[k] = SortVal(f, s, el, bo, k)
  BY <1>1
<1>3. f = h
  BY <1>1 DEF SortFcn
<1> QED
  BY <1>2, <1>3

LEMMA SortExists ==
  ASSUME NEW s, NEW el, NEW bo, NEW n \in Nat
  PROVE  \E f : SortFcn(f, s, el, bo, n)
<1> DEFINE T == {k \in Nat : \E f : SortFcn(f, s, el, bo, k)}
<1>1. 0 \in T
  <2>1. PICK f : f = [k \in 0 .. 0 |-> << >>]
    OBVIOUS
  <2>2. \A k \in 0 .. 0 : SortVal(f, s, el, bo, k) = << >>
    BY DEF SortVal
  <2>3. SortFcn(f, s, el, bo, 0)
    BY <2>1, <2>2 DEF SortFcn
  <2> QED
    BY <2>3
<1>2. ASSUME NEW k \in Nat, k \in T PROVE k + 1 \in T
  <2>1. PICK f : SortFcn(f, s, el, bo, k)
    BY <1>2
  <2>2. PICK last : last = IF s[k + 1] <= bo \/ s[k + 1] \notin el THEN f[k]
                           ELSE Array!insert(f[k], s[k + 1])
    OBVIOUS
  <2>3. PICK g : g = [i \in 0 .. k + 1 |-> IF i = k + 1 THEN last ELSE f[i]]
    OBVIOUS
  <2>4. ASSUME NEW i \in 0 .. k + 1 PROVE g[i] = SortVal(g, s, el, bo, i)
    <3>1. CASE i = k + 1
      <4>1. g[i] = last /\ i # 0 /\ i - 1 = k /\ g[i - 1] = f[k]
        BY <2>3, <3>1
      <4> QED
        BY <2>2, <3>1, <4>1 DEF SortVal
    <3>2. CASE i \in 0 .. k
      <4>1. g[i] = f[i] /\ (i # 0 => g[i - 1] = f[i - 1])
        BY <2>3, <3>2
      <4>2. f[i] = SortVal(f, s, el, bo, i)
        BY <2>1, <3>2, SortAt
      <4> QED
        BY ONLY <4>1, <4>2 DEF SortVal
    <3> QED
      BY <3>1, <3>2
  <2>5. SortFcn(g, s, el, bo, k + 1)
    BY <2>3, <2>4 DEF SortFcn
  <2> QED
    BY <2>5
<1>3. Nat \subseteq T
  <2> HIDE DEF T
  <2> QED
    BY <1>1, <1>2, SetInduction
<1> QED
  BY <1>3

\* What sorting keeps.
Kept(s, el, bo) == {i \in Array!ToSet(s) : i > bo /\ i \in el}

LEMMA SortSound ==
  ASSUME NEW s \in Seq(Nat), NEW el, NEW bo \in Nat, NEW n \in Nat, n = Len(s),
         NEW f, SortFcn(f, s, el, bo, n)
  PROVE  f[n] \in Seq(Nat) /\ Rising(f[n]) /\ Array!ToSet(f[n]) = Kept(s, el, bo)
<1> DEFINE Upto(k) == {i \in {s[j] : j \in 1 .. k} : i > bo /\ i \in el}
           T == {k \in Nat : k <= n => f[k] \in Seq(Nat) /\ Rising(f[k]) /\ Array!ToSet(f[k]) = Upto(k)}
<1>0. \A k \in 0 .. n : f[k] = SortVal(f, s, el, bo, k)
  BY ONLY SortFcn(f, s, el, bo, n), n \in Nat, SortAt
<1>1. 0 \in T
  <2>1. f[0] = << >>
    BY <1>0 DEF SortVal
  <2>2. << >> \in Seq(Nat) /\ Rising(<< >>) /\ Array!ToSet(<< >>) = {}
    BY DEF Rising, Array!ToSet
  <2>3. Upto(0) = {}
    OBVIOUS
  <2> QED
    BY <2>1, <2>2, <2>3
<1>2. ASSUME NEW k \in Nat, k \in T PROVE k + 1 \in T
  <2> SUFFICES ASSUME k + 1 <= n
               PROVE  /\ f[k + 1] \in Seq(Nat) /\ Rising(f[k + 1])
                      /\ Array!ToSet(f[k + 1]) = Upto(k + 1)
    OBVIOUS
  <2>1. f[k] \in Seq(Nat) /\ Rising(f[k]) /\ Array!ToSet(f[k]) = Upto(k)
    BY <1>2
  <2>2. PICK x \in Nat : x = s[k + 1]
    OBVIOUS
  <2>3. f[k + 1] = IF x <= bo \/ x \notin el THEN f[k] ELSE Array!insert(f[k], x)
    <3>1. k + 1 \in 0 .. n /\ k + 1 # 0 /\ (k + 1) - 1 = k
      OBVIOUS
    <3> QED
      BY <1>0, <2>2, <3>1 DEF SortVal
  <2>4. {s[j] : j \in 1 .. k + 1} = {s[j] : j \in 1 .. k} \cup {x}
    <3>1. 1 .. k + 1 = (1 .. k) \cup {k + 1}
      OBVIOUS
    <3> QED
      BY <2>2, <3>1
  <2>5. Upto(k + 1) = Upto(k) \cup (IF x <= bo \/ x \notin el THEN {} ELSE {x})
    BY <2>2, <2>4
  <2> HIDE DEF Upto, T
  <2>6. CASE x <= bo \/ x \notin el
    BY <2>1, <2>3, <2>5, <2>6
  <2>7. CASE ~ (x <= bo \/ x \notin el)
    <3>1. f[k + 1] = Array!insert(f[k], x) /\ Upto(k + 1) = Upto(k) \cup {x}
      BY <2>3, <2>5, <2>7
    <3> QED
      BY <2>1, <3>1, InsertRight
  <2> QED
    BY <2>6, <2>7
<1>3. Nat \subseteq T
  <2> HIDE DEF T
  <2> QED
    BY <1>1, <1>2, SetInduction
<1>4. f[n] \in Seq(Nat) /\ Rising(f[n]) /\ Array!ToSet(f[n]) = Upto(n)
  <2>1. n \in T
    BY ONLY n \in Nat, <1>3
  <2> QED
    BY <2>1
<1> QED
  BY <1>4, Members DEF Kept

(* What is recorded and still counts stays recorded when it is sorted.       *)
LEMMA SortedRight ==
  ASSUME sparse \in Seq(Nat), border \in Nat, unsorted \in BOOLEAN, ~unsorted => Rising(sparse)
  PROVE  /\ Array!Sorted \in Seq(Nat) /\ Rising(Array!Sorted)
         /\ \A i \in elems : i > border /\ i \in Array!ToSet(sparse) => i \in Array!ToSet(Array!Sorted)
         /\ unsorted => \A i \in Array!ToSet(Array!Sorted) : i > border
<1>1. CASE ~unsorted
  BY <1>1 DEF Array!Sorted
<1>2. CASE unsorted
  <2>1. PICK n \in Nat : n = Len(sparse)
    OBVIOUS
  <2>2. PICK g : g = CHOOSE f : SortFcn(f, sparse, elems, border, n)
    OBVIOUS
  <2>3. SortFcn(g, sparse, elems, border, n)
    BY <2>1, <2>2, SortExists
  <2>4. Array!sort_sparse = g[n]
    BY <2>1, <2>2 DEF Array!sort_sparse, SortFcn, SortVal
  <2>5. g[n] \in Seq(Nat) /\ Rising(g[n]) /\ Array!ToSet(g[n]) = Kept(sparse, elems, border)
    BY <2>1, <2>3, SortSound
  <2>6. Array!Sorted = g[n]
    BY <1>2, <2>4 DEF Array!Sorted
  <2> QED
    BY <2>5, <2>6 DEF Kept
<1> QED
  BY <1>1, <1>2

-----------------------------------------------------------------------------
(* The traversal.                                                          *)

ArrayTyped ==
  /\ elems \subseteq Nat \ {0} /\ there \subseteq elems
  /\ border \in Array!Borders(elems)
  /\ sparse \in Seq(Nat) /\ unsorted \in BOOLEAN
  /\ iter \in Nat \cup {Array!Nil} /\ seen \in Seq(Nat)

\* Elements are within the border or recorded, those it has left behind aside.
Recorded ==
  /\ ~unsorted => Rising(sparse)
  /\ \A i \in elems : i <= border => i \in counted
  /\ \A i \in elems \ fallen : i <= border \/ i \in Array!ToSet(sparse)

\* The traversal has returned what was there up to where it is.
Reached ==
  /\ Rising(seen)
  /\ iter # Array!Nil => \A k \in 1 .. Len(seen) : seen[k] <= iter
  /\ \A i \in there \ fallen : iter = Array!Nil \/ i <= iter => i \in Array!ToSet(seen)

ArrayInv == ArrayTyped /\ Recorded /\ Reached

LEMMA BorderIn ==
  ASSUME NEW e \in SUBSET (Nat \ {0}), NEW b \in Array!Borders(e)
  PROVE  b \in Nat /\ (b # 0 => b \in e)
BY DEF Array!Borders

LEMMA ReturnRight ==
  ASSUME ArrayTyped, Reached, iter # Array!Nil, NEW x \in Nat, x > iter, Array!Return(x),
         UNCHANGED << there, fallen >>,
         \A i \in there \ fallen : i > iter /\ i <= x => i = x
  PROVE  Reached' /\ seen' \in Seq(Nat) /\ iter' \in Nat
<1>0. iter \in Nat /\ seen \in Seq(Nat) /\ there \subseteq Nat
  BY DEF ArrayTyped
<1>1. PICK n \in Nat : n = Len(seen)
  BY <1>0
<1>2. /\ seen' \in Seq(Nat) /\ Len(seen') = n + 1 /\ seen'[n + 1] = x
      /\ \A k \in 1 .. n : seen'[k] = seen[k] /\ seen[k] \in Nat
  BY <1>0, <1>1, AppendProperties DEF Array!Return
<1>3. iter' = x /\ iter' # Array!Nil
  BY DEF Array!Return, Array!Nil
<1>4. \A k \in 1 .. n : seen[k] <= iter
  BY <1>1 DEF Reached
<1>5. ASSUME NEW k \in 1 .. n + 1 PROVE seen'[k] <= x
  BY <1>0, <1>2, <1>4
<1>6. Rising(seen')
  <2> SUFFICES ASSUME NEW i \in 1 .. n + 1, NEW j \in 1 .. n + 1, i < j PROVE seen'[i] < seen'[j]
    BY <1>2 DEF Rising
  <2>1. i \in 1 .. n /\ seen'[i] = seen[i] /\ seen[i] \in Nat
    BY <1>2
  <2>2. CASE j = n + 1
    BY <1>0, <1>2, <1>4, <2>1, <2>2
  <2>3. CASE j \in 1 .. n
    BY <1>1, <1>2, <2>1, <2>3 DEF Reached, Rising
  <2> QED
    BY <2>2, <2>3
<1>7. Array!ToSet(seen) \subseteq Array!ToSet(seen') /\ x \in Array!ToSet(seen')
  <2>1. Array!ToSet(seen) = {seen[k] : k \in 1 .. n} /\ Array!ToSet(seen') = {seen'[k] : k \in 1 .. n + 1}
    BY <1>0, <1>1, <1>2, Members
  <2>2. \A k \in 1 .. n : k \in 1 .. n + 1
    OBVIOUS
  <2> QED
    BY <1>2, <2>1, <2>2
<1>8. ASSUME NEW i \in there \ fallen, i <= x PROVE i \in Array!ToSet(seen')
  <2>1. i \in Nat /\ (i <= iter \/ i > iter)
    BY <1>0
  <2> QED
    BY <1>0, <1>7, <1>8, <2>1 DEF Reached
<1> QED
  BY <1>2, <1>3, <1>5, <1>6, <1>8 DEF Reached

LEMMA SortKeeps ==
  ASSUME ArrayTyped, Recorded, Array!Sort, UNCHANGED << elems, border, counted, fallen >>
  PROVE  Recorded' /\ sparse' \in Seq(Nat) /\ unsorted' \in BOOLEAN
<1>0. border \in Nat
  BY BorderIn DEF ArrayTyped
<1>1. /\ Array!Sorted \in Seq(Nat) /\ Rising(Array!Sorted)
      /\ \A i \in elems : i > border /\ i \in Array!ToSet(sparse) => i \in Array!ToSet(Array!Sorted)
  BY <1>0, SortedRight DEF ArrayTyped, Recorded
<1>2. sparse' = Array!Sorted /\ unsorted' = FALSE
  BY DEF Array!Sort
<1>3. ASSUME NEW i \in elems \ fallen PROVE i <= border \/ i \in Array!ToSet(sparse')
  <2>1. i \in Nat /\ (i <= border \/ i > border)
    BY <1>0 DEF ArrayTyped
  <2> QED
    BY <1>1, <1>2, <2>1 DEF Recorded
<1>4. Rising(sparse')
  BY <1>1, <1>2
<1> QED
  BY <1>1, <1>2, <1>3, <1>4 DEF Recorded

(* What an assignment does to the histories.                                *)
LEMMA NowHasKeeps ==
  ASSUME ArrayTyped, Recorded, Reached, UNCHANGED << iter, seen >>,
         NEW e \in SUBSET (Nat \ {0}), NEW bs \in Seq(Nat), Len(bs) \in {1, 2},
         Array!Last(bs) \in Array!Borders(e), Array!NowHas(e, bs)
  PROVE  /\ Reached' /\ there' \subseteq elems'
         /\ elems' = e /\ border' = bs[Len(bs)]
         /\ \A i \in elems' : i <= border' => i \in counted'
         /\ \A i \in (elems' \ fallen') \cap elems :
              i > border' => i \in Array!ToSet(sparse)
<1>0. /\ elems' = e /\ border' = bs[Len(bs)] /\ there' = there \cap e
      /\ counted' = {i \in e : i \in counted \/ \E j \in DOMAIN bs : i <= bs[j]}
      /\ fallen' = {i \in e : i \in fallen \/ \E j \in DOMAIN bs :
                          i > bs[j] /\ (i \in counted \/ \E k \in 1 .. j : i <= bs[k])}
  BY DEF Array!NowHas, Array!Last
<1>1. Len(bs) \in DOMAIN bs /\ bs[Len(bs)] \in Nat
  <2>1. DOMAIN bs = 1 .. Len(bs) /\ Len(bs) \in 1 .. Len(bs)
    BY Len(bs) \in {1, 2}
  <2> QED
    BY <2>1
<1>2. there' \ fallen' \subseteq there \ fallen
  BY <1>0
<1>3. Reached'
  BY <1>2 DEF Reached
<1>4. ASSUME NEW i \in (elems' \ fallen') \cap elems, i > border' PROVE i \in Array!ToSet(sparse)
  <2>1. i \notin counted /\ i \notin fallen
    BY <1>0, <1>1, <1>4
  <2>2. ~ (i <= border)
    BY <2>1 DEF Recorded
  <2> QED
    BY <2>1, <2>2 DEF Recorded
<1> QED
  BY <1>0, <1>1, <1>3, <1>4

LEMMA ArrayInit == ASSUME Array!Init PROVE ArrayInv
<1>0. /\ elems \subseteq 1 .. 3 /\ border \in Array!Borders(elems)
      /\ sparse = << >> /\ unsorted = FALSE /\ iter = Array!Nil /\ seen = << >> /\ there = {}
      /\ counted = {i \in elems : i <= border} /\ fallen = {i \in elems : i > border}
  BY DEF Array!Init
<1>1. elems \subseteq Nat \ {0}
  BY <1>0
<1>2. << >> \in Seq(Nat) /\ Rising(<< >>)
  BY DEF Rising
<1>3. ArrayTyped
  BY <1>0, <1>1, <1>2 DEF ArrayTyped
<1>4. border \in Nat
  BY <1>0, <1>1, BorderIn
<1>5. Recorded
  BY <1>0, <1>1, <1>2, <1>4 DEF Recorded
<1>6. Reached
  BY <1>0, <1>2 DEF Reached
<1> QED
  BY <1>3, <1>5, <1>6 DEF ArrayInv

LEMMA IndexAssigned ==
  ASSUME ArrayInv, NEW idx \in Array!Index, Array!lnewindex(idx)
  PROVE  ArrayInv'
<1>0. ArrayTyped /\ Recorded /\ Reached
  BY DEF ArrayInv
<1>1. idx \in Nat \ {0} /\ idx \notin elems /\ UNCHANGED << iter, seen >>
  BY DEF Array!Index, Array!lnewindex
<1>2. PICK e : e = elems \cup {idx}
  OBVIOUS
<1>3. e \in SUBSET (Nat \ {0})
  BY <1>0, <1>1, <1>2 DEF ArrayTyped
<1>4. PICK rawlen \in Array!Borders(e) :
        \/ /\ rawlen >= idx
           /\ Array!NowHas(e, << rawlen >>)
           /\ UNCHANGED << sparse, unsorted >>
        \/ /\ rawlen < idx
           /\ sparse' = Append(sparse, idx)
           /\ unsorted' = TRUE
           /\ \E b \in Array!Borders(e) : Array!NowHas(e, << rawlen, b >>)
  BY <1>2 DEF Array!lnewindex
<1>5. rawlen \in Nat
  BY <1>3, BorderIn
<1>6. CASE /\ rawlen >= idx
           /\ Array!NowHas(e, << rawlen >>)
           /\ UNCHANGED << sparse, unsorted >>
  <2>1. PICK bs \in Seq(Nat) : bs = << rawlen >> /\ Len(bs) = 1 /\ bs[1] = rawlen
    <3>1. << rawlen >> \in Seq(Nat) /\ Len(<< rawlen >>) = 1 /\ << rawlen >>[1] = rawlen
      BY ONLY <1>5
    <3> QED
      BY <3>1
  <2>2. Array!Last(bs) = rawlen
    BY <2>1 DEF Array!Last
  <2>3. /\ Reached' /\ there' \subseteq elems'
        /\ elems' = e /\ border' = rawlen
        /\ \A i \in elems' : i <= border' => i \in counted'
        /\ \A i \in (elems' \ fallen') \cap elems :
             i > border' => i \in Array!ToSet(sparse)
    BY <1>0, <1>1, <1>3, <1>4, <1>6, <2>1, <2>2, NowHasKeeps
  <2>4. ArrayTyped'
    BY <1>0, <1>1, <1>3, <1>4, <1>6, <2>3 DEF ArrayTyped
  <2>5. ASSUME NEW i \in (elems \ fallen)' PROVE i <= border' \/ i \in Array!ToSet(sparse')
    <3>1. i \in Nat /\ (i <= rawlen \/ i > rawlen)
      BY <1>3, <1>5, <2>3
    <3>2. i > rawlen => i \in elems
      BY <1>1, <1>2, <1>5, <1>6, <2>3
    <3> QED
      BY <1>6, <2>3, <3>1, <3>2
  <2>6. Recorded'
    BY <1>0, <1>6, <2>3, <2>5 DEF Recorded
  <2> QED
    BY <2>3, <2>4, <2>6 DEF ArrayInv
<1>7. CASE /\ rawlen < idx
           /\ sparse' = Append(sparse, idx)
           /\ unsorted' = TRUE
           /\ \E b \in Array!Borders(e) : Array!NowHas(e, << rawlen, b >>)
  <2>0. PICK b \in Array!Borders(e) : Array!NowHas(e, << rawlen, b >>)
    BY <1>7
  <2>a. b \in Nat
    BY <1>3, BorderIn
  <2>1. PICK bs \in Seq(Nat) : bs = << rawlen, b >> /\ Len(bs) = 2 /\ bs[2] = b
    <3>1. << rawlen, b >> \in Seq(Nat) /\ Len(<< rawlen, b >>) = 2 /\ << rawlen, b >>[2] = b
      BY ONLY <1>5, <2>a
    <3> QED
      BY <3>1
  <2>2. Array!Last(bs) = b
    BY <2>1 DEF Array!Last
  <2>3. /\ Reached' /\ there' \subseteq elems'
        /\ elems' = e /\ border' = b
        /\ \A i \in elems' : i <= border' => i \in counted'
        /\ \A i \in (elems' \ fallen') \cap elems :
             i > border' => i \in Array!ToSet(sparse)
    BY <1>0, <1>1, <1>3, <2>0, <2>1, <2>2, NowHasKeeps
  <2>4. /\ sparse' \in Seq(Nat) /\ idx \in Array!ToSet(sparse')
        /\ Array!ToSet(sparse) \subseteq Array!ToSet(sparse')
    <3>1. PICK n \in Nat : n = Len(sparse)
      BY <1>0 DEF ArrayTyped
    <3>2. /\ sparse' \in Seq(Nat) /\ Len(sparse') = n + 1 /\ sparse'[n + 1] = idx
          /\ \A k \in 1 .. n : sparse'[k] = sparse[k]
      BY <1>0, <1>1, <1>7, <3>1, AppendProperties DEF ArrayTyped
    <3>3. /\ Array!ToSet(sparse) = {sparse[k] : k \in 1 .. n}
          /\ Array!ToSet(sparse') = {sparse'[k] : k \in 1 .. n + 1}
      BY <1>0, <3>1, <3>2, Members DEF ArrayTyped
    <3>4. n + 1 \in 1 .. n + 1 /\ \A k \in 1 .. n : k \in 1 .. n + 1
      BY ONLY n \in Nat
    <3> QED
      BY ONLY <3>2, <3>3, <3>4
  <2>5. ArrayTyped'
    BY <1>0, <1>1, <1>3, <1>7, <2>3, <2>4 DEF ArrayTyped
  <2>6. ASSUME NEW i \in (elems \ fallen)' PROVE i <= border' \/ i \in Array!ToSet(sparse')
    <3>1. i \in Nat /\ (i <= b \/ i > b) /\ (i \in elems \/ i = idx)
      BY <1>2, <1>3, <2>a, <2>3
    <3> QED
      BY <2>3, <2>4, <3>1
  <2>7. Recorded'
    BY <1>7, <2>3, <2>6 DEF Recorded
  <2> QED
    BY <2>3, <2>5, <2>7 DEF ArrayInv
<1> QED
  BY <1>4, <1>6, <1>7

LEMMA IndexRemoved ==
  ASSUME ArrayInv, NEW idx, Array!Removed(idx)
  PROVE  ArrayInv'
<1>0. ArrayTyped /\ Recorded /\ Reached
  BY DEF ArrayInv
<1>1. UNCHANGED << sparse, unsorted, iter, seen >>
  BY DEF Array!Removed
<1>2. PICK e : e = elems \ {idx}
  OBVIOUS
<1>3. e \in SUBSET (Nat \ {0}) /\ e \subseteq elems
  BY <1>0, <1>2 DEF ArrayTyped
<1>4. PICK b \in Array!Borders(e) : Array!NowHas(e, << b >>)
  BY <1>2 DEF Array!Removed
<1>5. b \in Nat
  BY <1>3, BorderIn
<1>6. PICK bs \in Seq(Nat) : bs = << b >> /\ Len(bs) = 1 /\ bs[1] = b
  <2>1. << b >> \in Seq(Nat) /\ Len(<< b >>) = 1 /\ << b >>[1] = b
    BY ONLY <1>5
  <2> QED
    BY <2>1
<1>7. Array!Last(bs) = b
  BY <1>6 DEF Array!Last
<1>8. /\ Reached' /\ there' \subseteq elems'
      /\ elems' = e /\ border' = b
      /\ \A i \in elems' : i <= border' => i \in counted'
      /\ \A i \in (elems' \ fallen') \cap elems :
           i > border' => i \in Array!ToSet(sparse)
  BY <1>0, <1>1, <1>3, <1>4, <1>6, <1>7, NowHasKeeps
<1>9. ArrayTyped'
  BY <1>0, <1>1, <1>3, <1>4, <1>8 DEF ArrayTyped
<1>10. ASSUME NEW i \in (elems \ fallen)' PROVE i <= border' \/ i \in Array!ToSet(sparse')
  <2>1. i \in Nat /\ (i <= b \/ i > b) /\ i \in elems
    BY <1>3, <1>5, <1>8
  <2> QED
    BY <1>1, <1>8, <2>1
<1>11. Recorded'
  BY <1>0, <1>1, <1>8, <1>10 DEF Recorded
<1> QED
  BY <1>8, <1>9, <1>11 DEF ArrayInv

LEMMA TraversalBegins == ASSUME ArrayInv, Array!lpairs PROVE ArrayInv'
<1>0. ArrayTyped /\ Recorded
  BY DEF ArrayInv
<1>1. /\ Array!Sort /\ iter' = 0 /\ seen' = << >> /\ there' = elems
      /\ UNCHANGED << elems, border, counted, fallen >>
  BY DEF Array!lpairs
<1>2. Recorded' /\ sparse' \in Seq(Nat) /\ unsorted' \in BOOLEAN
  BY <1>0, <1>1, SortKeeps
<1>3. << >> \in Seq(Nat) /\ Rising(<< >>) /\ Len(<< >>) = 0
  BY DEF Rising
<1>4. ArrayTyped'
  BY <1>0, <1>1, <1>2, <1>3 DEF ArrayTyped
<1>5. \A i \in there' : ~ (i <= 0)
  BY <1>0, <1>1 DEF ArrayTyped
<1>6. Reached'
  BY <1>1, <1>3, <1>5 DEF Reached, Array!Nil
<1> QED
  BY <1>2, <1>4, <1>6 DEF ArrayInv

LEMMA LengthTaken == ASSUME ArrayInv, Array!llen PROVE ArrayInv'
<1>0. ArrayTyped /\ Recorded /\ Reached
  BY DEF ArrayInv
<1>1. Array!Sort /\ UNCHANGED << elems, border, iter, seen, there, counted, fallen >>
  BY DEF Array!llen
<1>2. Recorded' /\ sparse' \in Seq(Nat) /\ unsorted' \in BOOLEAN
  BY <1>0, <1>1, SortKeeps
<1>3. ArrayTyped'
  BY <1>0, <1>1, <1>2 DEF ArrayTyped
<1>4. Reached'
  BY <1>0, <1>1 DEF Reached
<1> QED
  BY <1>2, <1>3, <1>4 DEF ArrayInv

LEMMA TraversalStep == ASSUME ArrayInv, Array!lnext PROVE ArrayInv'
<1>0. ArrayTyped /\ Recorded /\ Reached
  BY DEF ArrayInv
<1>1. iter # Array!Nil /\ UNCHANGED << elems, border, there, counted, fallen >>
  BY DEF Array!lnext
<1>2. PICK idx \in Nat : idx = iter + 1 /\ iter \in Nat
  BY <1>0, <1>1 DEF ArrayTyped
<1>3. border \in Nat /\ elems \subseteq Nat \ {0} /\ there \subseteq elems /\ (border # 0 => border \in elems)
  BY <1>0, BorderIn DEF ArrayTyped
<1>4. \/ idx \in elems /\ Array!Return(idx) /\ UNCHANGED << sparse, unsorted >>
      \/ /\ idx \notin elems /\ border >= idx
         /\ Array!Return(Array!Min({i \in elems : i > idx /\ i <= border}))
         /\ UNCHANGED << sparse, unsorted >>
      \/ /\ idx \notin elems /\ ~ (border >= idx) /\ Array!Sort
         /\ IF Array!Place(Array!Sorted, idx) > Len(Array!Sorted)
            THEN iter' = Array!Nil /\ UNCHANGED seen
            ELSE Array!Return(Array!Sorted[Array!Place(Array!Sorted, idx)])
  BY <1>2 DEF Array!lnext
<1>5. CASE idx \in elems /\ Array!Return(idx) /\ UNCHANGED << sparse, unsorted >>
  <2>1. \A i \in there \ fallen : i > iter /\ i <= idx => i = idx
    BY <1>2, <1>3
  <2>2. Reached' /\ seen' \in Seq(Nat) /\ iter' \in Nat
    BY <1>0, <1>1, <1>2, <1>5, <2>1, ReturnRight
  <2>3. ArrayTyped' /\ Recorded'
    BY <1>0, <1>1, <1>5, <2>2 DEF ArrayTyped, Recorded
  <2> QED
    BY <2>2, <2>3 DEF ArrayInv
<1>6. CASE /\ idx \notin elems /\ border >= idx
           /\ Array!Return(Array!Min({i \in elems : i > idx /\ i <= border}))
           /\ UNCHANGED << sparse, unsorted >>
  <2> DEFINE S == {i \in elems : i > idx /\ i <= border}
  <2>1. border \in S
    BY <1>2, <1>3, <1>6
  <2>2. S \subseteq Nat /\ S # {}
    BY <1>3, <2>1
  <2>3. PICK m : m = Array!Min(S)
    OBVIOUS
  <2>4. m \in S /\ \A y \in S : m <= y
    <3> HIDE DEF S
    <3> QED
      BY <2>2, <2>3, LeastIn
  <2>5. ASSUME NEW i \in there \ fallen, i > iter, i <= m PROVE i = m
    <3>1. i \in Nat /\ m \in Nat /\ i > idx /\ i <= border
      BY <1>2, <1>3, <1>6, <2>4, <2>5
    <3>2. i \in S
      BY <1>3, <3>1
    <3> QED
      BY <2>4, <2>5, <3>1, <3>2
  <2>6. m \in Nat /\ m > iter /\ Array!Return(m)
    BY <1>2, <1>3, <1>6, <2>3, <2>4
  <2>7. Reached' /\ seen' \in Seq(Nat) /\ iter' \in Nat
    BY <1>0, <1>1, <2>5, <2>6, ReturnRight
  <2>8. ArrayTyped' /\ Recorded'
    BY <1>0, <1>1, <1>6, <2>7 DEF ArrayTyped, Recorded
  <2> QED
    BY <2>7, <2>8 DEF ArrayInv
<1>7. CASE /\ idx \notin elems /\ ~ (border >= idx) /\ Array!Sort
           /\ IF Array!Place(Array!Sorted, idx) > Len(Array!Sorted)
              THEN iter' = Array!Nil /\ UNCHANGED seen
              ELSE Array!Return(Array!Sorted[Array!Place(Array!Sorted, idx)])
  <2>1. Recorded' /\ sparse' \in Seq(Nat) /\ unsorted' \in BOOLEAN
    BY <1>0, <1>1, <1>7, SortKeeps
  <2>2. PICK s \in Seq(Nat) : s = Array!Sorted /\ Rising(s)
    BY <1>0, <1>3, SortedRight DEF ArrayTyped, Recorded
  <2>3. PICK n \in Nat : n = Len(s)
    OBVIOUS
  <2>4. PICK p : p = Array!Place(s, idx)
    OBVIOUS
  <2>5. /\ p \in 1 .. n + 1
        /\ \A k \in 1 .. n : (k < p => s[k] < idx) /\ (k >= p => s[k] >= idx)
    BY <2>2, <2>3, <2>4, PlaceRight
  <2>6. ASSUME NEW i \in there \ fallen, i > iter
        PROVE  i \in Nat /\ i >= idx /\ \E k \in 1 .. n : s[k] = i /\ k >= p
    <3>1. i \in elems \ fallen /\ i \in Nat /\ i >= idx /\ ~ (i <= border) /\ i > border
      BY <1>2, <1>3, <1>7, <2>6
    <3>2. i \in Array!ToSet(s)
      BY <1>0, <1>3, <2>2, <3>1, SortedRight DEF ArrayTyped, Recorded
    <3>3. PICK k \in 1 .. n : s[k] = i
      BY <2>3, <3>2, Members
    <3>4. ~ (k < p)
      BY <2>5, <3>1, <3>3
    <3>5. k >= p
      BY <2>5, <3>4
    <3> QED
      BY <3>1, <3>3, <3>5
  <2>7. CASE p > n
    <3>1. iter' = Array!Nil /\ UNCHANGED seen
      BY <1>7, <2>2, <2>3, <2>4, <2>7
    <3>2. ASSUME NEW i \in there \ fallen PROVE i \in Array!ToSet(seen)
      <4>1. i \in Nat /\ (i <= iter \/ i > iter)
        BY <1>2, <1>3
      <4>2. i <= iter
        BY <2>5, <2>6, <2>7, <4>1
      <4> QED
        BY <1>0, <4>2 DEF Reached
    <3>3. Reached'
      BY <1>0, <1>1, <3>1, <3>2 DEF Reached
    <3>4. ArrayTyped'
      BY <1>0, <1>1, <2>1, <3>1 DEF ArrayTyped
    <3> QED
      BY <2>1, <3>3, <3>4 DEF ArrayInv
  <2>8. CASE p \in 1 .. n
    <3>1. PICK x \in Nat : x = s[p] /\ x >= idx
      BY <2>3, <2>5, <2>8
    <3>2. Array!Return(x)
      BY <1>7, <2>2, <2>3, <2>4, <2>8, <3>1
    <3>3. ASSUME NEW i \in there \ fallen, i > iter, i <= x PROVE i = x
      <4>1. PICK k \in 1 .. n : s[k] = i /\ k >= p
        BY <2>6, <3>3
      <4>2. k > p => s[p] < s[k]
        BY <2>2, <2>3, <2>8, <4>1 DEF Rising
      <4>3. i \in Nat /\ (k = p \/ k > p)
        BY <2>6, <2>8, <3>3, <4>1
      <4> QED
        BY <3>1, <3>3, <4>1, <4>2, <4>3
    <3>4. Reached' /\ seen' \in Seq(Nat) /\ iter' \in Nat
      BY <1>0, <1>1, <1>2, <3>1, <3>2, <3>3, ReturnRight
    <3>5. ArrayTyped'
      BY <1>0, <1>1, <2>1, <3>4 DEF ArrayTyped
    <3> QED
      BY <2>1, <3>4, <3>5 DEF ArrayInv
  <2> QED
    BY <2>5, <2>7, <2>8
<1> QED
  BY <1>4, <1>5, <1>6, <1>7

LEMMA ArrayRight ==
  ASSUME ArrayInv
  PROVE  Array!Traversed
<1>0. ArrayTyped /\ Recorded /\ Reached
  BY DEF ArrayInv
<1>1. border \in Nat /\ elems \subseteq Nat /\ there \subseteq Nat
  BY <1>0, BorderIn DEF ArrayTyped
<1>2. \A i, j \in DOMAIN seen : i < j => seen[i] < seen[j]
  <2>1. DOMAIN seen = 1 .. Len(seen)
    BY <1>0 DEF ArrayTyped
  <2> QED
    BY <1>0, <2>1 DEF Reached, Rising
<1>3. (there \cap Array!Passed) \ fallen \subseteq Array!ToSet(seen)
  <2> SUFFICES ASSUME NEW i \in (there \cap Array!Passed) \ fallen PROVE i \in Array!ToSet(seen)
    OBVIOUS
  <2>1. iter = Array!Nil \/ i <= iter
    BY <1>0 DEF Array!Passed, ArrayTyped
  <2> QED
    BY <1>0, <2>1 DEF Reached
<1>4. ASSUME unsorted, NEW i \in elems \ fallen PROVE i <= Array!Length
  <2>1. PICK s \in Seq(Nat) :
          /\ s = Array!Sorted /\ Rising(s)
          /\ \A x \in elems : x > border /\ x \in Array!ToSet(sparse) => x \in Array!ToSet(s)
          /\ \A x \in Array!ToSet(s) : x > border
    BY <1>0, <1>1, <1>4, SortedRight DEF ArrayTyped, Recorded
  <2>2. PICK n \in Nat : n = Len(s)
    OBVIOUS
  <2>3. i \in Nat /\ (i <= border \/ i > border)
    BY <1>1
  <2>4. Array!ToSet(s) = {s[k] : k \in 1 .. n} /\ \A k \in 1 .. n : s[k] \in Nat
    BY <2>2, Members
  <2>5. i > border => i \in Array!ToSet(s)
    BY <1>0, <1>1, <2>1, <2>3 DEF Recorded
  <2>6. CASE s = << >>
    <3>1. Array!ToSet(s) = {} /\ Array!Length = border
      BY <2>1, <2>2, <2>4, <2>6 DEF Array!Length
    <3> QED
      BY <2>3, <2>5, <3>1
  <2>7. CASE s # << >>
    <3>1. n \in 1 .. n /\ Array!Length = s[n]
      BY <2>1, <2>2, <2>7 DEF Array!Length, Array!Last
    <3>2. s[n] \in Array!ToSet(s)
      BY <2>4, <3>1
    <3>3. s[n] > border /\ s[n] \in Nat
      BY <2>1, <2>4, <3>1, <3>2
    <3>4. CASE i <= border
      BY <1>1, <2>3, <3>1, <3>3, <3>4
    <3>5. CASE i > border
      <4>1. PICK k \in 1 .. n : i = s[k]
        BY <2>4, <2>5, <3>5
      <4>2. k < n => s[k] < s[n]
        BY <2>1, <2>2, <3>1 DEF Rising
      <4> QED
        BY <2>3, <3>1, <3>3, <4>1, <4>2
    <3> QED
      BY <2>3, <3>4, <3>5
  <2> QED
    BY <2>6, <2>7
<1> QED
  BY <1>2, <1>3, <1>4 DEF Array!Traversed

LEMMA ArrayKept ==
  ASSUME ArrayInv, [Array!Next]_Array!vars
  PROVE  ArrayInv'
<1>1. CASE UNCHANGED Array!vars
  BY <1>1 DEF Array!vars, ArrayInv, ArrayTyped, Recorded, Reached
<1> QED
  BY <1>1, IndexAssigned, IndexRemoved, TraversalBegins, TraversalStep, LengthTaken
     DEF Array!Next

(* What is recorded, and what a traversal has returned.                      *)
THEOREM ArrayInductive == MSpec => [](part = "array" => ArrayInv)
<1>1. MInit => (part = "array" => ArrayInv)
  BY ArrayInit DEF MInit
<1>2. (part = "array" => ArrayInv) /\ [MNext]_mvars => (part = "array" => ArrayInv)'
  <2> SUFFICES ASSUME part = "array" => ArrayInv, [MNext]_mvars, part' = "array"
               PROVE  ArrayInv'
    OBVIOUS
  <2>1. part = "array" /\ [Array!Next]_Array!vars
    BY DEF MNext, mvars, array, Array!vars
  <2> QED
    BY <2>1, ArrayKept
<1> QED
  BY <1>1, <1>2, PTL DEF MSpec

(* lua-array.c:5-30, 32-86, 96-184: for any indices and any recorded ones,     *)
(* whatever is assigned and removed: a traversal goes up and returns every    *)
(* element that was there all the time, and a # that sorts is not below it,   *)
(* unless the border has left it behind.                                    *)
THEOREM TraversalComplete == MSpec => []Traversed
<1>1. ArrayInv => Array!Traversed
  BY ArrayRight
<1>2. (part = "array" => ArrayInv) => Traversed
  BY <1>1 DEF Traversed
<1> QED
  BY <1>2, ArrayInductive, PTL
=============================================================================
