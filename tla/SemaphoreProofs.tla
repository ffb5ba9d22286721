--------------------------- MODULE SemaphoreProofs ---------------------------
(***************************************************************************)
(* Proofs about Semaphore, for any finite set of threads, any initial      *)
(* count and any bound: the safety invariants of its run, and that the     *)
(* class implements the counting semaphore, except for liveness.           *)
(***************************************************************************)
EXTENDS Semaphore, FiniteSetTheorems, TLAPS

\* The awake threads that will test the count can be counted.
LEMMA ContendersFinite == IsFiniteSet(Contenders) /\ Cardinality(Contenders) \in Nat
  BY SemaphoreAssumption, FS_Subset, FS_CardinalityType DEF Contenders

-----------------------------------------------------------------------------

\* The count never goes below zero: a thread that was woken tests it again.
THEOREM TypeCorrect == Safety => []TypeOK
<1>1. Init => TypeOK
  BY SemaphoreAssumption DEF Init, TypeOK, PC
<1>2. TypeOK /\ [Next]_vars => TypeOK'
  <2> SUFFICES ASSUME TypeOK, [Next]_vars PROVE TypeOK'
    OBVIOUS
  <2> USE SemaphoreAssumption DEF TypeOK, PC
  <2>1. ASSUME NEW t \in Threads, CallNotify(t) PROVE TypeOK'
    BY <2>1 DEF CallNotify
  <2>2. ASSUME NEW t \in Threads, LockNotify(t) PROVE TypeOK'
    BY <2>2 DEF LockNotify
  <2>3. ASSUME NEW t \in Threads, Increment(t) PROVE TypeOK'
    BY <2>3 DEF Increment, NotifyOne, Sleepers
  <2>4. ASSUME NEW t \in Threads, CallWait(t) PROVE TypeOK'
    BY <2>4 DEF CallWait
  <2>5. ASSUME NEW t \in Threads, LockWait(t) PROVE TypeOK'
    BY <2>5 DEF LockWait
  <2>6. ASSUME NEW t \in Threads, Sleep(t) PROVE TypeOK'
    BY <2>6 DEF Sleep
  <2>7. ASSUME NEW t \in Threads, Decrement(t) PROVE TypeOK'
    BY <2>7 DEF Decrement
  <2>8. ASSUME NEW t \in Threads, SpuriousWakeup(t) PROVE TypeOK'
    BY <2>8 DEF SpuriousWakeup
  <2>9. CASE UNCHANGED vars
    BY <2>9 DEF vars
  <2> QED BY <2>1, <2>2, <2>3, <2>4, <2>5, <2>6, <2>7, <2>8, <2>9 DEF Next
<1> QED BY <1>1, <1>2, PTL DEF Safety

-----------------------------------------------------------------------------

\* `count` is touched under the mutex only: a thread is between lock and unlock
\* exactly while it owns the mutex, so two threads never are.
THEOREM MutexIsHeld == Safety => []MutexHeld
<1>1. Init => MutexHeld
  BY SemaphoreAssumption DEF Init, MutexHeld
<1>2. TypeOK /\ MutexHeld /\ [Next]_vars => MutexHeld'
  <2> SUFFICES ASSUME TypeOK, MutexHeld, [Next]_vars PROVE MutexHeld'
    OBVIOUS
  <2> USE SemaphoreAssumption DEF TypeOK, MutexHeld
  <2>1. ASSUME NEW t \in Threads, CallNotify(t) PROVE MutexHeld'
    BY <2>1 DEF CallNotify
  <2>2. ASSUME NEW t \in Threads, LockNotify(t) PROVE MutexHeld'
    BY <2>2 DEF LockNotify
  <2>3. ASSUME NEW t \in Threads, Increment(t) PROVE MutexHeld'
    BY <2>3 DEF Increment, NotifyOne, Sleepers
  <2>4. ASSUME NEW t \in Threads, CallWait(t) PROVE MutexHeld'
    BY <2>4 DEF CallWait
  <2>5. ASSUME NEW t \in Threads, LockWait(t) PROVE MutexHeld'
    BY <2>5 DEF LockWait
  <2>6. ASSUME NEW t \in Threads, Sleep(t) PROVE MutexHeld'
    BY <2>6 DEF Sleep
  <2>7. ASSUME NEW t \in Threads, Decrement(t) PROVE MutexHeld'
    BY <2>7 DEF Decrement
  <2>8. ASSUME NEW t \in Threads, SpuriousWakeup(t) PROVE MutexHeld'
    BY <2>8 DEF SpuriousWakeup
  <2>9. CASE UNCHANGED vars
    BY <2>9 DEF vars
  <2> QED BY <2>1, <2>2, <2>3, <2>4, <2>5, <2>6, <2>7, <2>8, <2>9 DEF Next
<1> QED BY <1>1, <1>2, TypeCorrect, PTL DEF Safety

-----------------------------------------------------------------------------

\* The sleepers and the contenders after a step that wakes or moves thread t.

LEMMA OneMoreContender ==
    ASSUME TypeOK, NEW t \in Threads, t \notin Contenders, Contenders' = Contenders \cup {t}
    PROVE  Cardinality(Contenders') = Cardinality(Contenders) + 1
  BY ContendersFinite, FS_AddElement

LEMMA OneContenderLess ==
    ASSUME TypeOK, NEW t \in Threads, t \in Contenders, Contenders' = Contenders \ {t}
    PROVE  Cardinality(Contenders') = Cardinality(Contenders) - 1
  BY ContendersFinite, FS_RemoveElement

\* No wakeup is lost: as long as a thread sleeps, every available unit has an
\* awake thread that is going to find it.
THEOREM NoWakeupIsLost == Safety => []NoLostWakeup
<1>1. Init => NoLostWakeup
  BY DEF Init, NoLostWakeup, Sleepers
<1>2. TypeOK /\ NoLostWakeup /\ [Next]_vars => NoLostWakeup'
  <2> SUFFICES ASSUME TypeOK, NoLostWakeup, [Next]_vars PROVE NoLostWakeup'
    OBVIOUS
  <2> USE DEF TypeOK
  <2>0. Cardinality(Contenders) \in Nat
    BY ContendersFinite
  <2>1. ASSUME NEW t \in Threads, CallNotify(t) \/ LockNotify(t) \/ CallWait(t)
        PROVE NoLostWakeup'
    <3>1. Sleepers' = Sleepers /\ Contenders' = Contenders /\ count' = count
      BY <2>1 DEF CallNotify, LockNotify, CallWait, Sleepers, Contenders
    <3> QED BY <3>1 DEF NoLostWakeup
  <2>2. ASSUME NEW t \in Threads, Increment(t) PROVE NoLostWakeup'
    <3>1. count' = count + 1
      BY <2>2 DEF Increment
    <3>2. CASE Sleepers = {} /\ pc' = [pc EXCEPT ![t] = "idle"]
      BY <3>2 DEF NoLostWakeup, Sleepers
    <3>3. ASSUME NEW w \in Sleepers, pc' = [pc EXCEPT ![t] = "idle", ![w] = "woken"]
          PROVE NoLostWakeup'
      <4>1. w \in Threads /\ w \notin Contenders /\ Contenders' = Contenders \cup {w}
        BY <2>2, <3>3 DEF Increment, Sleepers, Contenders
      <4>2. Cardinality(Contenders') = Cardinality(Contenders) + 1
        BY <4>1, OneMoreContender
      <4> QED BY <2>0, <3>1, <3>3, <4>2 DEF NoLostWakeup
    <3> QED BY <2>2, <3>2, <3>3 DEF Increment, NotifyOne
  <2>3. ASSUME NEW t \in Threads, LockWait(t) PROVE NoLostWakeup'
    <3>1. Sleepers' = Sleepers /\ count' = count
      BY <2>3 DEF LockWait, Sleepers
    <3>2. CASE t \in Contenders
      <4>1. Contenders' = Contenders
        BY <2>3, <3>2 DEF LockWait, Contenders
      <4> QED BY <3>1, <4>1 DEF NoLostWakeup
    <3>3. CASE t \notin Contenders
      <4>1. Contenders' = Contenders \cup {t}
        BY <2>3 DEF LockWait, Contenders
      <4>2. Cardinality(Contenders') = Cardinality(Contenders) + 1
        BY <3>3, <4>1, OneMoreContender
      <4> QED BY <2>0, <3>1, <4>2 DEF NoLostWakeup
    <3> QED BY <3>2, <3>3
  <2>4. ASSUME NEW t \in Threads, Sleep(t) PROVE NoLostWakeup'
    <3>1. count' = 0
      BY <2>4 DEF Sleep
    <3>2. Contenders' = Contenders \ {t}
      BY <2>4 DEF Sleep, Contenders
    <3>3. Cardinality(Contenders') \in Nat
      BY <3>2, ContendersFinite, FS_Difference, FS_CardinalityType
    <3> QED BY <3>1, <3>3 DEF NoLostWakeup
  <2>5. ASSUME NEW t \in Threads, Decrement(t) PROVE NoLostWakeup'
    <3>1. Sleepers' = Sleepers /\ count' = count - 1
      BY <2>5 DEF Decrement, Sleepers
    <3>2. t \in Contenders /\ Contenders' = Contenders \ {t}
      BY <2>5 DEF Decrement, Contenders
    <3>3. Cardinality(Contenders') = Cardinality(Contenders) - 1
      BY <3>2, OneContenderLess
    <3> QED BY <2>0, <3>1, <3>3 DEF NoLostWakeup
  <2>6. ASSUME NEW t \in Threads, SpuriousWakeup(t) PROVE NoLostWakeup'
    <3>1. Sleepers' \subseteq Sleepers /\ count' = count
      BY <2>6 DEF SpuriousWakeup, Sleepers
    <3>2. t \notin Contenders /\ Contenders' = Contenders \cup {t}
      BY <2>6 DEF SpuriousWakeup, Contenders
    <3>3. Cardinality(Contenders') = Cardinality(Contenders) + 1
      BY <3>2, OneMoreContender
    <3> QED BY <2>0, <3>1, <3>3 DEF NoLostWakeup
  <2>7. CASE UNCHANGED vars
    BY <2>7 DEF vars, NoLostWakeup, Sleepers, Contenders
  <2> QED BY <2>1, <2>2, <2>3, <2>4, <2>5, <2>6, <2>7 DEF Next
<1> QED BY <1>1, <1>2, TypeCorrect, PTL DEF Safety

-----------------------------------------------------------------------------

\* Every step of the class is a step of the counting semaphore or none: a unit
\* is made by each notify() and by nothing else, and one is consumed by each
\* wait() that returns.
THEOREM SemaphoreRefinesCounting == Safety => Abstract!Safety
<1>1. Init => Abstract!Init
  BY DEF Init, Abstract!Init
<1>2. TypeOK /\ [Next]_vars => [Abstract!Next]_(Abstract!vars)
  <2> SUFFICES ASSUME TypeOK, [Next]_vars PROVE [Abstract!Next]_(Abstract!vars)
    OBVIOUS
  <2> DEFINE waiting == {t \in Threads : pc[t] \in {"entering", "testing", "asleep", "woken"}}
  <2> USE DEF TypeOK
  <2>1. ASSUME NEW t \in Threads,
               CallNotify(t) \/ LockNotify(t) \/ LockWait(t) \/ Sleep(t) \/ SpuriousWakeup(t)
        PROVE UNCHANGED Abstract!vars
    BY <2>1 DEF CallNotify, LockNotify, LockWait, Sleep, SpuriousWakeup, Abstract!vars
  <2>2. ASSUME NEW t \in Threads, Increment(t) PROVE Abstract!Notify
    <3>1. count' = count + 1 /\ pc[t] = "incrementing"
      BY <2>2 DEF Increment
    <3>2. waiting' = waiting
      BY <2>2 DEF Increment, NotifyOne, Sleepers
    <3> QED BY <3>1, <3>2 DEF Abstract!Notify
  <2>3. ASSUME NEW t \in Threads, CallWait(t) PROVE Abstract!Wait(t)
    BY <2>3 DEF CallWait, Abstract!Wait
  <2>4. ASSUME NEW t \in Threads, Decrement(t) PROVE Abstract!Pass(t)
    BY <2>4 DEF Decrement, Abstract!Pass
  <2>5. CASE UNCHANGED vars
    BY <2>5 DEF vars, Abstract!vars
  <2> QED BY <2>1, <2>2, <2>3, <2>4, <2>5 DEF Next, Abstract!Next
<1> QED BY <1>1, <1>2, TypeCorrect, PTL DEF Safety, Abstract!Safety
=============================================================================
