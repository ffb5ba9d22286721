---------------------------- MODULE RdmaRendezvous ----------------------------
(***************************************************************************)
(* How an RDMA session gets its connections (sideband_rdma.cc): the gRPC   *)
(* handler of BeginSidebandStream, the client it answers, and the two      *)
(* threads that accept connections, one for each direction.                *)
(*                                                                         *)
(* As with sockets the handler passes a semaphore and leaves the session's *)
(* parameters in static fields, but a connection carries no id, and the    *)
(* client makes two of them, one after the other.  Each accept thread      *)
(* stores its connection in a static field of its own, tests whether both  *)
(* are there, and if so builds and registers the sideband object.  The     *)
(* storing and the testing are not protected by a mutex.                   *)
(*                                                                         *)
(* Directions are the server's.  A connection is named by its session.     *)
(* BeginSidebandStream always waits for both connections, so the flags     *)
(* _waitForReaderConnection and _waitForWriteConnection are left out.      *)
(***************************************************************************)
EXTENDS Integers, Sequences, SidebandRegistry

CONSTANTS Sessions,    \* the calls of BeginSidebandStream for RDMA
          None,        \* easyrdma_InvalidSession
          LowLatency,  \* whether a session asked for RDMA_LOW_LATENCY
          BufferSize,  \* the buffer size of a session
          Mortal,      \* the sessions whose client may fail while connecting
          SocketsPort, \* the port of the socket listener
          Prompt       \* whether an accept thread is done with a connection
                       \* before the other thread accepts one

ASSUME RdmaAssumption ==
    /\ None \notin Sessions
    /\ LowLatency \in [Sessions -> BOOLEAN]
    /\ BufferSize \in [Sessions -> Nat]
    /\ Mortal \subseteq Sessions
    /\ SocketsPort \in Nat
    /\ Prompt \in BOOLEAN

Directions == {"send", "receive"}

ListenPort(d) == IF d = "send" THEN 50060 ELSE 50061

\* The port a client is told: with no `else` before the second assignment of
\* GetConnectionAddress, that of the socket listener for every strategy.
ConnectionPort == SocketsPort

Other(d) == CHOOSE e \in Directions : e # d

VARIABLES nextId,       \* _nextId
          gate,         \* the count of _rdmaConnectQueue
          nextConnect,  \* _nextConnectLowLatency, _nextConnectBufferSize, _nextConnectionId
          pending,      \* _pendingWriteSession ("send") and _pendingReadSession ("receive")
          handler,      \* where the gRPC handler of a session is
          sid,          \* the id it drew; 0 before
          client,       \* how far the client has connected
          backlog,      \* connections not yet accepted, by direction
          acceptor,     \* where the accept thread of a direction is
          accepted,     \* the connection it is working on, or None
          sideband,     \* the RdmaSidebandData objects in the order they were made
          made,         \* the one an accept thread is about to register, or 0
          loop,         \* where the serving thread of a session is
          token         \* the object GetOwnerSidebandDataToken gave it, or 0

serverVars == <<nextId, handler, sid>>
staticVars == <<nextConnect, pending>>
clientVars == <<client, backlog>>
acceptVars == <<acceptor, accepted, sideband, made>>
loopVars   == <<loop, token>>
registry   == <<buffers, sleepers>>
vars == <<serverVars, gate, staticVars, clientVars, acceptVars, loopVars, registry>>

Object == [id : Int, write : Sessions \cup {None}, read : Sessions \cup {None},
           lowLatency : BOOLEAN, bufferSize : Nat]

\* Both threads listen; a client that came too early would fail to connect.
Init == /\ nextId = 1
        /\ gate = 1
        /\ nextConnect = [lowLatency |-> FALSE, bufferSize |-> 0, id |-> 0]
        /\ pending = [d \in Directions |-> None]
        /\ handler = [s \in Sessions |-> "init"]
        /\ sid = [s \in Sessions |-> 0]
        /\ client = [s \in Sessions |-> "none"]
        /\ backlog = [d \in Directions |-> <<>>]
        /\ acceptor = [d \in Directions |-> "accepting"]
        /\ accepted = [d \in Directions |-> None]
        /\ sideband = <<>>
        /\ made = [d \in Directions |-> 0]
        /\ loop = [s \in Sessions |-> "none"]
        /\ token = [s \in Sessions |-> 0]
        /\ RegistryInit

-----------------------------------------------------------------------------
(* The handler of BeginSidebandStream *)

InitOwner(s) == /\ handler[s] = "init"
                /\ nextId' = nextId + 1
                /\ sid' = [sid EXCEPT ![s] = nextId + 1]
                /\ handler' = [handler EXCEPT ![s] = "queueing"]
                /\ UNCHANGED <<gate, staticVars, clientVars, acceptVars, loopVars, registry>>

\* Mutated form: the handler does not wait for the session before it.
ConnectQueueNoWait(s) == /\ handler[s] = "queueing"
                         /\ handler' = [handler EXCEPT ![s] = "filling"]
                         /\ UNCHANGED <<nextId, sid, gate, staticVars, clientVars, acceptVars, loopVars, registry>>

\* _rdmaConnectQueue.wait() returns: the Pass of CountingSemaphore.
ConnectQueueWait(s) == /\ handler[s] = "queueing"
                       /\ gate > 0
                       /\ gate' = gate - 1
                       /\ handler' = [handler EXCEPT ![s] = "filling"]
                       /\ UNCHANGED <<nextId, sid, staticVars, clientVars, acceptVars, loopVars, registry>>

FillNextConnect(s) ==
    /\ handler[s] = "filling"
    /\ nextConnect' = [lowLatency |-> LowLatency[s], bufferSize |-> BufferSize[s], id |-> sid[s]]
    /\ handler' = [handler EXCEPT ![s] = "spawning"]
    /\ UNCHANGED <<nextId, sid, gate, clientVars, acceptVars, loopVars, registry>>

\* Mutated form: the connections of the session before stay.
FillKeepsPending(s) == FillNextConnect(s) /\ UNCHANGED pending

\* The rest of QueueSidebandConnection.
Fill(s) == FillNextConnect(s) /\ pending' = [d \in Directions |-> None]

\* The serving thread is detached and the response goes to the client.
SpawnLoop(s) == /\ handler[s] = "spawning"
                /\ handler' = [handler EXCEPT ![s] = "replied"]
                /\ loop' = [loop EXCEPT ![s] = "getting"]
                /\ UNCHANGED <<nextId, sid, gate, staticVars, clientVars, acceptVars, token, registry>>

-----------------------------------------------------------------------------
(* The client: RdmaSidebandData::ClientInit *)

\* easyrdma_Connect returns when the connection is made, which does not mean
\* that the accept thread has run.
ConnectTo(s, d, port) == /\ port = ListenPort(d)
                         /\ backlog' = [backlog EXCEPT ![d] = Append(@, s)]
                         /\ UNCHANGED <<serverVars, gate, staticVars, acceptVars, loopVars, registry>>

\* Its receiving connection, to the port where the server accepts to send.
ConnectReceive(s) == /\ handler[s] = "replied"
                     /\ client[s] = "none"
                     /\ client' = [client EXCEPT ![s] = "half"]
                     /\ ConnectTo(s, "send", ConnectionPort)

ConnectSend(s) == /\ client[s] = "half"
                  /\ client' = [client EXCEPT ![s] = "connected"]
                  /\ ConnectTo(s, "receive", ConnectionPort + 1)

\* The client fails before it has made both connections.  A connection that is
\* refused because nobody listens at the port ends it, by an assertion.
ClientFails(s) == /\ s \in Mortal \/ ConnectionPort # ListenPort("send")
                  /\ client[s] \in {"none", "half"}
                  /\ client' = [client EXCEPT ![s] = "gone"]
                  /\ UNCHANGED <<serverVars, gate, staticVars, backlog, acceptVars, loopVars, registry>>

-----------------------------------------------------------------------------
(* The accept threads: AcceptSidebandRdmaRequests and InitFromConnection *)

Accept(d) == /\ acceptor[d] = "accepting"
             /\ Prompt => acceptor[Other(d)] = "accepting"
             /\ backlog[d] # <<>>
             /\ accepted' = [accepted EXCEPT ![d] = Head(backlog[d])]
             /\ backlog' = [backlog EXCEPT ![d] = Tail(@)]
             /\ acceptor' = [acceptor EXCEPT ![d] = "storing"]
             /\ UNCHANGED <<serverVars, gate, staticVars, client, sideband, made, loopVars, registry>>

StorePending(d) == /\ acceptor[d] = "storing"
                   /\ pending' = [pending EXCEPT ![d] = accepted[d]]
                   /\ acceptor' = [acceptor EXCEPT ![d] = "testing"]
                   /\ UNCHANGED <<serverVars, gate, nextConnect, clientVars, accepted, sideband, made, loopVars, registry>>

\* Mutated form: one connection is enough.
EitherPending == \E d \in Directions : pending[d] # None

\* The condition of InitFromConnection.
BothPending == \A d \in Directions : pending[d] # None

\* Mutated form: the semaphore is released for the first connection, too.
HalfPendingNotify(d) == /\ acceptor[d] = "testing"
                        /\ ~BothPending
                        /\ gate' = gate + 1
                        /\ accepted' = [accepted EXCEPT ![d] = None]
                        /\ acceptor' = [acceptor EXCEPT ![d] = "accepting"]
                        /\ UNCHANGED <<serverVars, staticVars, clientVars, sideband, made, loopVars, registry>>

\* InitFromConnection returns nullptr, and the thread accepts again.
HalfPending(d) == /\ acceptor[d] = "testing"
                  /\ ~BothPending
                  /\ accepted' = [accepted EXCEPT ![d] = None]
                  /\ acceptor' = [acceptor EXCEPT ![d] = "accepting"]
                  /\ UNCHANGED <<serverVars, gate, staticVars, clientVars, sideband, made, loopVars, registry>>

FullyPending(d) == /\ acceptor[d] = "testing"
                   /\ BothPending
                   /\ acceptor' = [acceptor EXCEPT ![d] = "building"]
                   /\ UNCHANGED <<serverVars, gate, staticVars, clientVars, accepted, sideband, made, loopVars, registry>>

\* The static fields are read again, for the object.
BuildObject(d) == /\ acceptor[d] = "building"
                  /\ sideband' = Append(sideband,
                         [id |-> nextConnect.id, write |-> pending["send"], read |-> pending["receive"],
                          lowLatency |-> nextConnect.lowLatency, bufferSize |-> nextConnect.bufferSize])
                  /\ made' = [made EXCEPT ![d] = Len(sideband) + 1]
                  /\ acceptor' = [acceptor EXCEPT ![d] = "registering"]
                  /\ UNCHANGED <<serverVars, gate, staticVars, clientVars, accepted, loopVars, registry>>

RegisterSidebandData(d) == /\ acceptor[d] = "registering"
                           /\ Register(sideband[made[d]].id, made[d])
                           /\ acceptor' = [acceptor EXCEPT ![d] = "notifying"]
                           /\ UNCHANGED <<serverVars, gate, staticVars, clientVars, accepted, sideband, made, loopVars>>

\* Back to easyrdma_Accept.
AcceptAgain(d) == /\ acceptor[d] = "notifying"
                  /\ accepted' = [accepted EXCEPT ![d] = None]
                  /\ made' = [made EXCEPT ![d] = 0]
                  /\ acceptor' = [acceptor EXCEPT ![d] = "accepting"]
                  /\ UNCHANGED <<serverVars, staticVars, clientVars, sideband, loopVars, registry>>

\* Mutated form: the semaphore is not released.
ConnectQueueKeep(d) == AcceptAgain(d) /\ UNCHANGED gate

\* _rdmaConnectQueue.notify()
ConnectQueueNotify(d) == AcceptAgain(d) /\ gate' = gate + 1

-----------------------------------------------------------------------------
(* The serving thread: RunSidebandReadWriteLoop *)

GetOwnerToken(s) == /\ loop[s] = "getting"
                    /\ s \notin sleepers
                    /\ Registered(sid[s])
                    /\ token' = [token EXCEPT ![s] = buffers[sid[s]]]
                    /\ loop' = [loop EXCEPT ![s] = "serving"]
                    /\ UNCHANGED <<serverVars, gate, staticVars, clientVars, acceptVars, registry>>

AwaitOwnerToken(s) == /\ loop[s] = "getting"
                      /\ s \notin sleepers
                      /\ SleepUntilRegistered(s, sid[s])
                      /\ UNCHANGED <<serverVars, gate, staticVars, clientVars, acceptVars, loopVars>>

WakeUnnotified(s) == /\ SpuriousWakeup(s)
                     /\ UNCHANGED <<serverVars, gate, staticVars, clientVars, acceptVars, loopVars>>

\* The stream has ended: erase the entry and delete the object.
CloseSidebandData(s) == /\ loop[s] = "serving"
                        /\ Erase(sideband[token[s]].id)
                        /\ loop' = [loop EXCEPT ![s] = "closed"]
                        /\ UNCHANGED <<serverVars, gate, staticVars, clientVars, acceptVars, token>>

-----------------------------------------------------------------------------

Handler(s) == InitOwner(s) \/ ConnectQueueWait(s) \/ Fill(s) \/ SpawnLoop(s)

Client(s) == ConnectReceive(s) \/ ConnectSend(s) \/ ClientFails(s)

AcceptThread(d) == \/ Accept(d) \/ StorePending(d) \/ HalfPending(d) \/ FullyPending(d)
                   \/ BuildObject(d) \/ RegisterSidebandData(d) \/ ConnectQueueNotify(d)

ServingThread(s) == GetOwnerToken(s) \/ AwaitOwnerToken(s) \/ WakeUnnotified(s) \/ CloseSidebandData(s)

Next == \/ \E s \in Sessions : Handler(s) \/ Client(s) \/ ServingThread(s)
        \/ \E d \in Directions : AcceptThread(d)

\* As for sockets: threads that can run are run, a client that does not fail
\* goes on, and the semaphore lets some waiting handler pass.
Fairness ==
    /\ WF_vars(\E s \in Sessions : ConnectQueueWait(s))
    /\ \A d \in Directions : WF_vars(AcceptThread(d))
    /\ \A s \in Sessions : /\ WF_vars(InitOwner(s)) /\ WF_vars(Fill(s)) /\ WF_vars(SpawnLoop(s))
                           /\ WF_vars(ConnectReceive(s)) /\ WF_vars(ConnectSend(s))
                           /\ WF_vars(GetOwnerToken(s)) /\ WF_vars(AwaitOwnerToken(s))

Safety == Init /\ [][Next]_vars

Spec == Safety /\ Fairness

-----------------------------------------------------------------------------
(* Safety *)

\* Types of the variables.
TypeOK ==
    /\ nextId \in Nat
    /\ gate \in {0, 1}
    /\ nextConnect \in [lowLatency : BOOLEAN, bufferSize : Nat, id : Int]
    /\ pending \in [Directions -> Sessions \cup {None}]
    /\ handler \in [Sessions -> {"init", "queueing", "filling", "spawning", "replied"}]
    /\ sid \in [Sessions -> Nat]
    /\ client \in [Sessions -> {"none", "half", "connected", "gone"}]
    /\ backlog \in [Directions -> Seq(Sessions)]
    /\ acceptor \in [Directions -> {"accepting", "storing", "testing", "building",
                                    "registering", "notifying"}]
    /\ accepted \in [Directions -> Sessions \cup {None}]
    /\ sideband \in Seq(Object)
    /\ made \in [Directions -> 0 .. Len(sideband)]
    /\ loop \in [Sessions -> {"none", "getting", "serving", "closed"}]
    /\ token \in [Sessions -> 0 .. Len(sideband)]
    /\ DOMAIN buffers \subseteq Int
    /\ buffers \in [DOMAIN buffers -> 1 .. Len(sideband)]
    /\ sleepers \subseteq Sessions

Passed(s) == handler[s] \in {"filling", "spawning", "replied"}

\* No handler writes the static fields while an accept thread stores, tests or
\* reads them, and no second handler writes them at the same time.
FieldsNotRaced == \A s \in Sessions : handler[s] = "filling" =>
                      /\ \A d \in Directions : acceptor[d] \notin {"storing", "testing", "building"}
                      /\ \A r \in Sessions : handler[r] = "filling" => r = s

\* The assertion of RegisterSidebandData (sideband_data.cc:287): an object is
\* made once for a session, whichever of its connections is accepted last.
NewIdUnregistered == \A d \in Directions :
                         acceptor[d] = "registering" => ~Registered(sideband[made[d]].id)

\* An object joins the two connections one client made, and has the parameters
\* and the id of that client's session, though no connection says whose it is.
JoinsOneSession == \A i \in 1 .. Len(sideband) : \E s \in Sessions :
                       sideband[i] = [id |-> sid[s], write |-> s, read |-> s,
                                      lowLatency |-> LowLatency[s], bufferSize |-> BufferSize[s]]

-----------------------------------------------------------------------------
(* Refinement *)

Served(s) == loop[s] \in {"serving", "closed"}

\* An object with its id has been registered.
Established(s) == \E i \in 1 .. Len(sideband) :
                      /\ sideband[i].id = sid[s]
                      /\ \A d \in Directions : ~(acceptor[d] = "registering" /\ made[d] = i)

Phase(s) == IF ~Passed(s) THEN "new"
            ELSE IF ~Established(s) THEN "offered"
            ELSE CASE loop[s] = "serving" -> "owned"
                   [] loop[s] = "closed"  -> "closed"
                   [] OTHER               -> "established"

\* The session whose client made both connections of the object a thread holds.
Owned(s) == IF token[s] # 0 /\ sideband[token[s]].write = sideband[token[s]].read
            THEN sideband[token[s]].write ELSE None

Pairing == INSTANCE SessionPairing
               WITH phase <- [s \in Sessions |-> Phase(s)], owned <- [s \in Sessions |-> Owned(s)]

\* Sessions are offered one at a time, and the thread that serves a session
\* gets the two connections its own client made.
PairsSessions == Pairing!Spec

-----------------------------------------------------------------------------
(* Liveness *)

\* Every session is served, unless some client fails before it has made both
\* of its connections.
AllServed == [](\A s \in Sessions : client[s] # "gone") => \A s \in Sessions : <>Served(s)
=============================================================================
