--------------------------- MODULE SocketRendezvous ---------------------------
(***************************************************************************)
(* How a SOCKETS session gets its connection: the gRPC handler of          *)
(* BeginSidebandStream, the client it answers, the accept loop of          *)
(* RunSidebandSocketsAccept and the thread that serves the session         *)
(* (sideband_sockets.cc, sideband_data.cc, moniker_service.cc).            *)
(*                                                                         *)
(* The handler passes a semaphore and leaves the session's parameters in   *)
(* static fields.  The client connects and sends the session's id; the     *)
(* accept loop builds the sideband object from whatever the static fields  *)
(* hold, reads the id, registers the object under it and releases the      *)
(* semaphore.  The serving thread meanwhile waits for the id to appear in  *)
(* the registry.  Nothing but the semaphore ties the fields to the         *)
(* connection.                                                             *)
(*                                                                         *)
(* A session makes one connection, so a connection and the object built    *)
(* from it are named by their session.  An id is the number                *)
(* NextConnectionId formats; a negative id stands for the bytes left in    *)
(* the buffer by a read that failed part-way.                              *)
(***************************************************************************)
EXTENDS Integers, Sequences, SidebandRegistry

CONSTANTS Sessions,       \* the calls of BeginSidebandStream
          None,           \* no session
          LowLatency,     \* whether a session asked for SOCKETS_LOW_LATENCY
          BufferSize,     \* the buffer size of a session
          Mortal,         \* the sessions whose client may fail while connecting
          GarbageIds,     \* what a failed read can leave as an id
          AcceptMayExit   \* whether the accept loop may fail or be stopped

ASSUME RendezvousAssumption ==
    /\ None \notin Sessions
    /\ LowLatency \in [Sessions -> BOOLEAN]
    /\ BufferSize \in [Sessions -> Nat]
    /\ Mortal \subseteq Sessions
    /\ \A id \in GarbageIds : id \in Int /\ id < 0
    /\ AcceptMayExit \in BOOLEAN

VARIABLES nextId,       \* _nextId
          gate,         \* the count of _connectQueue
          nextConnect,  \* _nextConnectLowLatency, _nextConnectBufferSize, _nextConnectionId
          handler,      \* where the gRPC handler of a session is
          sid,          \* the id it drew; 0 before
          wire,         \* the client's connection, as far as the server can observe it
          backlog,      \* connections the kernel completed, not yet accepted
          acceptor,     \* where the accept loop is
          accepting,    \* the connection it is working on, or None
          sideband,     \* the server's SocketSidebandData objects
          loop,         \* where the serving thread of a session is
          token         \* the object GetOwnerSidebandDataToken gave it, or None

serverVars == <<nextId, gate, nextConnect, handler, sid>>
clientVars == <<wire, backlog>>
acceptVars == <<acceptor, accepting, sideband>>
loopVars   == <<loop, token>>
registry   == <<buffers, sleepers>>
vars == <<serverVars, clientVars, acceptVars, loopVars, registry>>

\* The fields of a SocketSidebandData that set-up fills in.  An id of 0 is the
\* empty _id of a new object.
Object == [status : {"none", "live", "freed"}, id : Int, lowLatency : BOOLEAN, bufferSize : Nat]

NoObject == [status |-> "none", id |-> 0, lowLatency |-> FALSE, bufferSize |-> 0]

\* _zeroId drew the first id when the library was loaded.
Init == /\ nextId = 1
        /\ gate = 1
        /\ nextConnect = [lowLatency |-> FALSE, bufferSize |-> 0, id |-> 0]
        /\ handler = [s \in Sessions |-> "init"]
        /\ sid = [s \in Sessions |-> 0]
        /\ wire = [s \in Sessions |-> "none"]
        /\ backlog = <<>>
        /\ acceptor = "starting"
        /\ accepting = None
        /\ sideband = [s \in Sessions |-> NoObject]
        /\ loop = [s \in Sessions |-> "none"]
        /\ token = [s \in Sessions |-> None]
        /\ RegistryInit

-----------------------------------------------------------------------------
(* The handler of BeginSidebandStream *)

\* Mutated form: the counter is read and written in two steps, so two handlers
\* may draw one id.
InitOwnerRacy(s) == /\ handler[s] = "init"
                    /\ \E drawn \in {nextId, nextId + 1} :
                           /\ nextId' = drawn
                           /\ sid' = [sid EXCEPT ![s] = drawn]
                    /\ handler' = [handler EXCEPT ![s] = "queueing"]
                    /\ UNCHANGED <<gate, nextConnect, clientVars, acceptVars, loopVars, registry>>

InitOwner(s) == /\ handler[s] = "init"
                /\ nextId' = nextId + 1
                /\ sid' = [sid EXCEPT ![s] = nextId + 1]
                /\ handler' = [handler EXCEPT ![s] = "queueing"]
                /\ UNCHANGED <<gate, nextConnect, clientVars, acceptVars, loopVars, registry>>

\* Mutated form: the handler does not wait for the connection before it.
ConnectQueueNoWait(s) == /\ handler[s] = "queueing"
                         /\ handler' = [handler EXCEPT ![s] = "filling"]
                         /\ UNCHANGED <<nextId, gate, nextConnect, sid, clientVars, acceptVars, loopVars, registry>>

\* _connectQueue.wait() returns: the Pass of CountingSemaphore.
ConnectQueueWait(s) == /\ handler[s] = "queueing"
                       /\ gate > 0
                       /\ gate' = gate - 1
                       /\ handler' = [handler EXCEPT ![s] = "filling"]
                       /\ UNCHANGED <<nextId, nextConnect, sid, clientVars, acceptVars, loopVars, registry>>

\* The rest of QueueSidebandConnection.
FillNextConnect(s) ==
    /\ handler[s] = "filling"
    /\ nextConnect' = [lowLatency |-> LowLatency[s], bufferSize |-> BufferSize[s], id |-> sid[s]]
    /\ handler' = [handler EXCEPT ![s] = "spawning"]
    /\ UNCHANGED <<nextId, gate, sid, clientVars, acceptVars, loopVars, registry>>

\* The serving thread is detached and the response goes to the client.
SpawnLoop(s) == /\ handler[s] = "spawning"
                /\ handler' = [handler EXCEPT ![s] = "replied"]
                /\ loop' = [loop EXCEPT ![s] = "getting"]
                /\ UNCHANGED <<nextId, gate, nextConnect, sid, clientVars, acceptVars, token, registry>>

-----------------------------------------------------------------------------
(* The client: SocketSidebandData::ClientInit *)

\* After listen() the kernel completes connections, also once the accept loop
\* has returned with an error and left the socket open.
Listening == acceptor \notin {"starting", "unbound", "stopped"}

Connect(s) == /\ handler[s] = "replied"
              /\ wire[s] = "none"
              /\ Listening
              /\ wire' = [wire EXCEPT ![s] = "open"]
              /\ backlog' = Append(backlog, s)
              /\ UNCHANGED <<serverVars, acceptVars, loopVars, registry>>

ConnectRefused(s) == /\ handler[s] = "replied"
                     /\ wire[s] = "none"
                     /\ ~Listening
                     /\ wire' = [wire EXCEPT ![s] = "refused"]
                     /\ UNCHANGED <<serverVars, backlog, acceptVars, loopVars, registry>>

\* WriteToSocket(usageId) at the end of ConnectToSocket.
SendId(s) == /\ wire[s] = "open"
             /\ wire' = [wire EXCEPT ![s] = "identified"]
             /\ UNCHANGED <<serverVars, backlog, acceptVars, loopVars, registry>>

\* The client fails: before it connects, or before the id is sent in full, and
\* then the server sees an orderly end of the stream or a reset.
ClientFails(s) == /\ s \in Mortal
                  /\ \/ wire[s] = "none" /\ wire' = [wire EXCEPT ![s] = "gone"]
                     \/ /\ wire[s] = "open"
                        /\ \E end \in {"ended", "reset"} : wire' = [wire EXCEPT ![s] = end]
                  /\ UNCHANGED <<serverVars, backlog, acceptVars, loopVars, registry>>

-----------------------------------------------------------------------------
(* The accept loop: RunSidebandSocketsAccept and InitFromConnection *)

\* socket, bind and listen.
StartListening == /\ acceptor = "starting"
                  /\ acceptor' \in IF AcceptMayExit THEN {"selecting", "unbound"} ELSE {"selecting"}
                  /\ UNCHANGED <<serverVars, clientVars, accepting, sideband, loopVars, registry>>

\* Mutated form: the error path releases the semaphore as well.
AcceptFailsNotify == /\ AcceptMayExit
                     /\ acceptor = "selecting"
                     /\ acceptor' = "failed"
                     /\ gate' = gate + 1
                     /\ UNCHANGED <<nextId, nextConnect, handler, sid, clientVars, accepting, sideband, loopVars, registry>>

\* select or accept fails: the loop returns -1 and leaves the socket open.
AcceptFails == /\ AcceptMayExit
               /\ acceptor = "selecting"
               /\ acceptor' = "failed"
               /\ UNCHANGED <<serverVars, clientVars, accepting, sideband, loopVars, registry>>

\* stop_flag is seen at the head of the loop; close() drops what was not accepted.
StopAccepting == /\ AcceptMayExit
                 /\ acceptor = "selecting"
                 /\ acceptor' = "stopped"
                 /\ backlog' = <<>>
                 /\ UNCHANGED <<serverVars, wire, accepting, sideband, loopVars, registry>>

Accept == /\ acceptor = "selecting"
          /\ backlog # <<>>
          /\ accepting' = Head(backlog)
          /\ backlog' = Tail(backlog)
          /\ acceptor' = "building"
          /\ UNCHANGED <<serverVars, wire, sideband, loopVars, registry>>

\* The object takes its parameters from the static fields.
BuildObject == /\ acceptor = "building"
               /\ sideband' = [sideband EXCEPT ![accepting] =
                      [status |-> "live", id |-> 0,
                       lowLatency |-> nextConnect.lowLatency, bufferSize |-> nextConnect.bufferSize]]
               /\ acceptor' = "identifying"
               /\ UNCHANGED <<serverVars, clientVars, accepting, loopVars, registry>>

\* What ReadFromSocket can leave in ReadConnectionId's buffer: the id, or after
\* an error whatever part of it arrived.  An open connection blocks, and at an
\* orderly end recv returns 0 forever and the read loop never ends.
ConnectionIds == CASE wire[accepting] = "identified" -> {sid[accepting]}
                   [] wire[accepting] = "reset"      -> GarbageIds
                   [] OTHER                          -> {}

\* The result of the read is not looked at.
ReadConnectionId == /\ acceptor = "identifying"
                    /\ \E id \in ConnectionIds : sideband' = [sideband EXCEPT ![accepting].id = id]
                    /\ acceptor' = "registering"
                    /\ UNCHANGED <<serverVars, clientVars, accepting, loopVars, registry>>

RegisterSidebandData == /\ acceptor = "registering"
                        /\ Register(sideband[accepting].id, accepting)
                        /\ acceptor' = "notifying"
                        /\ UNCHANGED <<serverVars, clientVars, accepting, sideband, loopVars>>

\* Mutated form: the semaphore is not released.
ConnectQueueKeep == /\ acceptor = "notifying"
                    /\ accepting' = None
                    /\ acceptor' = "selecting"
                    /\ UNCHANGED <<serverVars, clientVars, sideband, loopVars, registry>>

\* _connectQueue.notify(), and back to select.
ConnectQueueNotify == /\ acceptor = "notifying"
                      /\ gate' = gate + 1
                      /\ accepting' = None
                      /\ acceptor' = "selecting"
                      /\ UNCHANGED <<nextId, nextConnect, handler, sid, clientVars, sideband, loopVars, registry>>

-----------------------------------------------------------------------------
(* The serving thread: RunSidebandReadWriteLoop *)

\* Mutated form: an id that is not registered yet gives a null token.
GetOwnerTokenAtOnce(s) ==
    /\ loop[s] = "getting"
    /\ token' = [token EXCEPT ![s] = IF Registered(sid[s]) THEN buffers[sid[s]] ELSE None]
    /\ loop' = [loop EXCEPT ![s] = "serving"]
    /\ UNCHANGED <<serverVars, clientVars, acceptVars, registry>>

GetOwnerToken(s) == /\ loop[s] = "getting"
                    /\ s \notin sleepers
                    /\ Registered(sid[s])
                    /\ token' = [token EXCEPT ![s] = buffers[sid[s]]]
                    /\ loop' = [loop EXCEPT ![s] = "serving"]
                    /\ UNCHANGED <<serverVars, clientVars, acceptVars, registry>>

AwaitOwnerToken(s) == /\ loop[s] = "getting"
                      /\ s \notin sleepers
                      /\ SleepUntilRegistered(s, sid[s])
                      /\ UNCHANGED <<serverVars, clientVars, acceptVars, loopVars>>

WakeUnnotified(s) == /\ SpuriousWakeup(s)
                     /\ UNCHANGED <<serverVars, clientVars, acceptVars, loopVars>>

\* The stream has ended: erase the entry, delete the object, close the socket.
CloseSidebandData(s) == /\ loop[s] = "serving"
                        /\ Erase(sideband[token[s]].id)
                        /\ sideband' = [sideband EXCEPT ![token[s]].status = "freed"]
                        /\ loop' = [loop EXCEPT ![s] = "closed"]
                        /\ UNCHANGED <<serverVars, clientVars, acceptor, accepting, token>>

-----------------------------------------------------------------------------

Handler(s) == InitOwner(s) \/ ConnectQueueWait(s) \/ FillNextConnect(s) \/ SpawnLoop(s)

Client(s) == Connect(s) \/ ConnectRefused(s) \/ SendId(s) \/ ClientFails(s)

AcceptLoop == \/ StartListening \/ AcceptFails \/ StopAccepting \/ Accept \/ BuildObject
              \/ ReadConnectionId \/ RegisterSidebandData \/ ConnectQueueNotify

ServingThread(s) == GetOwnerToken(s) \/ AwaitOwnerToken(s) \/ WakeUnnotified(s) \/ CloseSidebandData(s)

Next == \/ \E s \in Sessions : Handler(s) \/ Client(s) \/ ServingThread(s)
        \/ AcceptLoop

\* Threads that can run are run, and a client that does not fail goes on; the
\* semaphore promises only that some waiting handler passes.  A session ends
\* when its client says so, if ever.
Fairness ==
    /\ WF_vars(\E s \in Sessions : ConnectQueueWait(s))
    /\ WF_vars(StartListening) /\ WF_vars(Accept) /\ WF_vars(BuildObject)
    /\ WF_vars(ReadConnectionId) /\ WF_vars(RegisterSidebandData) /\ WF_vars(ConnectQueueNotify)
    /\ \A s \in Sessions : /\ WF_vars(InitOwner(s)) /\ WF_vars(FillNextConnect(s))
                           /\ WF_vars(SpawnLoop(s))
                           /\ WF_vars(Connect(s)) /\ WF_vars(SendId(s))
                           /\ WF_vars(GetOwnerToken(s)) /\ WF_vars(AwaitOwnerToken(s))

Safety == Init /\ [][Next]_vars

Spec == Safety /\ Fairness

-----------------------------------------------------------------------------
(* Safety *)

\* Types of the variables.
TypeOK ==
    /\ nextId \in Nat
    /\ gate \in {0, 1}
    /\ nextConnect \in [lowLatency : BOOLEAN, bufferSize : Nat, id : Int]
    /\ handler \in [Sessions -> {"init", "queueing", "filling", "spawning", "replied"}]
    /\ sid \in [Sessions -> Nat]
    /\ wire \in [Sessions -> {"none", "open", "identified", "refused", "gone", "ended", "reset"}]
    /\ backlog \in Seq(Sessions)
    /\ acceptor \in {"starting", "unbound", "selecting", "building", "identifying",
                     "registering", "notifying", "failed", "stopped"}
    /\ accepting \in Sessions \cup {None}
    /\ sideband \in [Sessions -> Object]
    /\ loop \in [Sessions -> {"none", "getting", "serving", "closed"}]
    /\ token \in [Sessions -> Sessions \cup {None}]
    /\ DOMAIN buffers \subseteq Int
    /\ buffers \in [DOMAIN buffers -> Sessions]
    /\ sleepers \subseteq Sessions

Passed(s) == handler[s] \in {"filling", "spawning", "replied"}

Made(s) == sideband[s].status # "none"

\* Session s has taken the semaphore's unit and the accept loop has not given
\* it back.
Outstanding(s) == Passed(s) /\ (~Made(s) \/ accepting = s)

\* The unit of _connectQueue is held by exactly one session or lies in the
\* semaphore: two sessions never share the static fields, and no unit is made
\* or lost whatever becomes of clients that have connected.
OneOutstanding == /\ gate = 1 => \A s \in Sessions : ~Outstanding(s)
                  /\ gate = 0 => \E s \in Sessions : \A r \in Sessions : Outstanding(r) <=> r = s

\* The static fields, which no mutex protects, are not written by a handler
\* while the accept loop reads them.
FieldsNotRaced == acceptor = "building" => \A s \in Sessions : handler[s] # "filling"

\* The object made for a connection has the parameters of the session that
\* connected, though it was made before the server knew which session that is.
ParamsMatch == \A s \in Sessions : Made(s) =>
                   /\ sideband[s].lowLatency = LowLatency[s]
                   /\ sideband[s].bufferSize = BufferSize[s]

\* A token in use is that of a live object that is registered under its own id:
\* what a serving thread reads and writes has not been deleted, and the
\* assertion of CloseSidebandData holds (sideband_data.cc:318).
ServedObjectLive == \A s \in Sessions : loop[s] = "serving" =>
                        /\ token[s] # None
                        /\ sideband[token[s]].status = "live"
                        /\ Registered(sideband[token[s]].id)
                        /\ buffers[sideband[token[s]].id] = token[s]

\* A thread sleeps in GetOwnerSidebandDataToken only while its id is missing:
\* registration never happens between its test and its sleep.
NoLostRegistration == \A s \in sleepers : ~Registered(sid[s])

\* The assertion of RegisterSidebandData (sideband_data.cc:287): the id of a
\* new object is not registered.
NewIdUnregistered == acceptor = "registering" => ~Registered(sideband[accepting].id)

\* The same of the ids the server drew: whatever clients do, a session that
\* was identified gets its entry.
DrawnIdUnregistered == acceptor = "registering" /\ sideband[accepting].id > 0
                           => ~Registered(sideband[accepting].id)

-----------------------------------------------------------------------------
(* Refinement *)

Served(s) == loop[s] \in {"serving", "closed"}

\* Its connection is still to come, or has not been registered.
Offered(s) == Outstanding(s) /\ ~(Made(s) /\ acceptor = "notifying")

\* The id its connection sent was the one the server drew.
Settled(s) == Passed(s) /\ ~Offered(s) /\ sideband[s].id >= 0

Phase(s) == CASE ~Passed(s)                          -> "new"
              [] Offered(s)                          -> "offered"
              [] Settled(s) /\ loop[s] = "serving"   -> "owned"
              [] Settled(s) /\ loop[s] = "closed"    -> "closed"
              [] Settled(s) /\ ~Served(s)            -> "established"
              [] OTHER                               -> "lost"

Pairing == INSTANCE SessionPairing
               WITH phase <- [s \in Sessions |-> Phase(s)], owned <- token

\* Sessions are offered one at a time, and the thread that serves a session
\* gets the connection its own client made, once, and never that of another.
PairsSessions == Pairing!Spec

-----------------------------------------------------------------------------
(* Liveness *)

AcceptExited == acceptor \in {"unbound", "failed", "stopped"}

\* While the accept loop runs, a connection that sent its id is served: no
\* wakeup of the registry is lost, and no other client can hold the accept loop
\* up, because no other has been told where to connect.
IdentifiedIsServed == \A s \in Sessions : wire[s] = "identified" ~> Served(s) \/ AcceptExited

\* While the accept loop runs, every session is served, or its connection was
\* reset, unless some client fails before it connects or ends its stream early;
\* a reset does not block the sessions behind it.
AllServed == [](~AcceptExited /\ \A s \in Sessions : wire[s] \notin {"gone", "ended", "refused"})
                 => \A s \in Sessions : <>(Served(s) \/ wire[s] = "reset")
=============================================================================
