-------------------------- MODULE CountingSemaphore --------------------------
(***************************************************************************)
(* What the Semaphore class of sideband_semaphore.h promises its callers:  *)
(* a thread in wait() passes only by consuming one unit, every notify()    *)
(* adds one unit, and a unit that is there is not left lying while some    *)
(* thread wants it.  Which of the waiting threads passes is not promised.  *)
(***************************************************************************)
EXTENDS Naturals

CONSTANTS Threads,      \* the threads that call the semaphore
          InitialCount  \* the constructor's argument

VARIABLES count,        \* the units available
          waiting       \* the threads inside wait()

vars == <<count, waiting>>

Init == /\ count = InitialCount
        /\ waiting = {}

\* A thread calls wait().
Wait(t) == /\ t \notin waiting
           /\ waiting' = waiting \cup {t}
           /\ UNCHANGED count

\* wait() returns to t, having consumed a unit.
Pass(t) == /\ t \in waiting
           /\ count > 0
           /\ count' = count - 1
           /\ waiting' = waiting \ {t}

\* notify() takes effect.
Notify == /\ count' = count + 1
          /\ UNCHANGED waiting

Next == \/ \E t \in Threads : Wait(t) \/ Pass(t)
        \/ Notify

Safety == Init /\ [][Next]_vars

Spec == Safety /\ WF_vars(\E t \in Threads : Pass(t))
=============================================================================
