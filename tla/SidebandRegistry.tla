--------------------------- MODULE SidebandRegistry ---------------------------
(***************************************************************************)
(* The registry of src/src/sideband_data.cc: the map `_buffers` from usage *)
(* ids to sideband objects, its mutex and its condition variable.  Every   *)
(* operation is one critical section of `_bufferLockMutex`, so one step.   *)
(* The modules of the session protocols compose these operations with the  *)
(* threads that call them.                                                 *)
(***************************************************************************)

VARIABLES buffers,  \* _buffers
          sleepers  \* the threads blocked in _bufferLock.wait

RegistryInit == /\ buffers = [id \in {} |-> id]
                /\ sleepers = {}

Registered(id) == id \in DOMAIN buffers

\* std::map::emplace: an entry that is there already stays as it is.
Emplace(id, object) ==
    buffers' = [i \in DOMAIN buffers \cup {id} |-> IF Registered(i) THEN buffers[i] ELSE object]

\* Mutated form: the waiting threads are not told.
RegisterSilently(id, object) == /\ Emplace(id, object)
                                /\ UNCHANGED sleepers

\* RegisterSidebandData: insert, then _bufferLock.notify_all().
Register(id, object) == /\ Emplace(id, object)
                        /\ sleepers' = {}

\* The test of GetOwnerSidebandDataToken's loop fails: wait(lock).
SleepUntilRegistered(t, id) == /\ ~Registered(id)
                               /\ sleepers' = sleepers \cup {t}
                               /\ UNCHANGED buffers

\* A condition variable may wake a thread that nobody notified.
SpuriousWakeup(t) == /\ t \in sleepers
                     /\ sleepers' = sleepers \ {t}
                     /\ UNCHANGED buffers

\* The erase of CloseSidebandData.
Erase(id) == /\ buffers' = [i \in DOMAIN buffers \ {id} |-> buffers[i]]
             /\ UNCHANGED sleepers
=============================================================================
