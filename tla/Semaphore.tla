------------------------------ MODULE Semaphore ------------------------------
(***************************************************************************)
(* The Semaphore class of src/src/sideband_semaphore.h, built from a       *)
(* std::mutex and a std::condition_variable.  QueueSidebandConnection      *)
(* waits on one before it publishes the next connection's parameters, and  *)
(* InitFromConnection notifies it (sideband_sockets.cc, sideband_rdma.cc). *)
(*                                                                         *)
(* A thread is at a line of wait() or notify(); a thread at a "testing" or *)
(* an "incrementing" line holds the mutex.  The destructor of the          *)
(* unique_lock ends both methods, so the last statement of a method and    *)
(* the unlock are one step; cv.wait releases the mutex and starts to sleep *)
(* in one step, as std::condition_variable guarantees, and may return      *)
(* without a notification.                                                 *)
(***************************************************************************)
EXTENDS Integers, FiniteSets

CONSTANTS Threads,
          NoThread,     \* the owner of a free mutex
          InitialCount, \* the constructor's argument
          MaxCount      \* bound: notify() is not called beyond this many units

ASSUME SemaphoreAssumption ==
    /\ IsFiniteSet(Threads)
    /\ NoThread \notin Threads
    /\ InitialCount \in Nat
    /\ MaxCount \in Nat

VARIABLES mtx,    \* the thread that holds the mutex, or NoThread
          count,  \* the member `count`
          pc      \* where each thread is

vars == <<mtx, count, pc>>

PC == {"idle", "notifying", "incrementing", "entering", "testing", "asleep", "woken"}

\* The threads blocked in cv.wait.
Sleepers == {t \in Threads : pc[t] = "asleep"}

\* The threads that will test `count` again before they can sleep.
Contenders == {t \in Threads : pc[t] \in {"woken", "testing"}}

Notifiers == {t \in Threads : pc[t] \in {"notifying", "incrementing"}}

Init == /\ mtx = NoThread
        /\ count = InitialCount
        /\ pc = [t \in Threads |-> "idle"]

-----------------------------------------------------------------------------
(* notify() *)

CallNotify(t) == /\ pc[t] = "idle"
                 /\ count + Cardinality(Notifiers) < MaxCount
                 /\ pc' = [pc EXCEPT ![t] = "notifying"]
                 /\ UNCHANGED <<mtx, count>>

LockNotify(t) == /\ pc[t] = "notifying"
                 /\ mtx = NoThread
                 /\ mtx' = t
                 /\ pc' = [pc EXCEPT ![t] = "incrementing"]
                 /\ UNCHANGED count

\* Mutated form: nobody is told unless the count was zero.
NotifyOneIfEmpty(t) == \/ /\ Sleepers = {} \/ count # 0
                          /\ pc' = [pc EXCEPT ![t] = "idle"]
                       \/ /\ count = 0
                          /\ \E w \in Sleepers : pc' = [pc EXCEPT ![t] = "idle", ![w] = "woken"]

\* cv.notify_one(): one sleeper, if there is any, leaves cv.wait.
NotifyOne(t) == \/ /\ Sleepers = {}
                   /\ pc' = [pc EXCEPT ![t] = "idle"]
                \/ \E w \in Sleepers : pc' = [pc EXCEPT ![t] = "idle", ![w] = "woken"]

Increment(t) == /\ pc[t] = "incrementing"
                /\ count' = count + 1
                /\ NotifyOne(t)
                /\ mtx' = NoThread

-----------------------------------------------------------------------------
(* wait() *)

CallWait(t) == /\ pc[t] = "idle"
               /\ pc' = [pc EXCEPT ![t] = "entering"]
               /\ UNCHANGED <<mtx, count>>

\* The lock at entry, and the one cv.wait takes again before it returns.
LockWait(t) == /\ pc[t] \in {"entering", "woken"}
               /\ mtx = NoThread
               /\ mtx' = t
               /\ pc' = [pc EXCEPT ![t] = "testing"]
               /\ UNCHANGED count

\* Mutated form: `if` in place of `while`, so that a woken thread does not
\* test again.
DecrementUntested(t) == /\ pc[t] = "testing"
                        /\ count' = count - 1
                        /\ mtx' = NoThread
                        /\ pc' = [pc EXCEPT ![t] = "idle"]

\* Mutated form: the count is not reduced.
PassFreely(t) == /\ pc[t] = "testing"
                 /\ count # 0
                 /\ mtx' = NoThread
                 /\ pc' = [pc EXCEPT ![t] = "idle"]
                 /\ UNCHANGED count

Sleep(t) == /\ pc[t] = "testing"
            /\ count = 0
            /\ mtx' = NoThread
            /\ pc' = [pc EXCEPT ![t] = "asleep"]
            /\ UNCHANGED count

Decrement(t) == /\ pc[t] = "testing"
                /\ count # 0
                /\ count' = count - 1
                /\ mtx' = NoThread
                /\ pc' = [pc EXCEPT ![t] = "idle"]

SpuriousWakeup(t) == /\ pc[t] = "asleep"
                     /\ pc' = [pc EXCEPT ![t] = "woken"]
                     /\ UNCHANGED <<mtx, count>>

-----------------------------------------------------------------------------

Next == \E t \in Threads :
            \/ CallNotify(t) \/ LockNotify(t) \/ Increment(t)
            \/ CallWait(t) \/ LockWait(t) \/ Sleep(t) \/ Decrement(t)
            \/ SpuriousWakeup(t)

\* A thread inside a method is scheduled; nothing makes it call one.
Fairness == \A t \in Threads : /\ WF_vars(LockNotify(t))
                               /\ WF_vars(Increment(t))
                               /\ WF_vars(LockWait(t))
                               /\ WF_vars(Sleep(t))
                               /\ WF_vars(Decrement(t))

Safety == Init /\ [][Next]_vars

Spec == Safety /\ Fairness

-----------------------------------------------------------------------------

\* Types of the variables; a count below zero (a woken thread that does not
\* test again) falls outside them.
TypeOK == /\ mtx \in Threads \cup {NoThread}
          /\ count \in Nat
          /\ pc \in [Threads -> PC]

\* The mutex is held by the thread that is between its lock and its unlock,
\* so `count` is read and written by one thread at a time.
MutexHeld == \A t \in Threads : (mtx = t) <=> pc[t] \in {"incrementing", "testing"}

\* No wakeup is lost: while threads sleep in cv.wait, every available unit has
\* an awake thread that will test `count` and find it.  This is what the
\* notify_one under the mutex and the while loop of wait() achieve together.
NoLostWakeup == Sleepers # {} => count <= Cardinality(Contenders)

\* The class implements the counting semaphore its callers rely on.
Abstract == INSTANCE CountingSemaphore
                WITH waiting <- {t \in Threads : pc[t] \in {"entering", "testing", "asleep", "woken"}}

\* Every behaviour of the class is one of the counting semaphore: units are
\* neither made nor lost, and one that is available is eventually taken by a
\* thread that waits for it.
ImplementsCountingSemaphore == Abstract!Spec
=============================================================================
