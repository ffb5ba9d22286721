------------------------ MODULE SocketRendezvousProofs ------------------------
(***************************************************************************)
(* Proofs of the safety invariants of SocketRendezvous, for any sessions,  *)
(* parameters, failures and garbage ids.  IInv is the inductive invariant: *)
(* the semaphore's unit, the connection on its way and the accept loop     *)
(* always belong to one session, ids are unique, and the registry holds    *)
(* only live objects under their own ids.                                  *)
(***************************************************************************)
EXTENDS SocketRendezvous, TLAPS

\* The accept loop works on a connection exactly between accept and notify; the
\* connection gets its object on the way, which nobody frees before it is
\* registered.
AcceptorInv ==
    /\ accepting # None <=> acceptor \in {"building", "identifying", "registering", "notifying"}
    /\ \A s \in Sessions : accepting = s =>
           /\ acceptor = "building" <=> ~Made(s)
           /\ acceptor \in {"identifying", "registering"} => sideband[s].status = "live"

Connected(s) == wire[s] \in {"open", "identified", "ended", "reset"}

\* Only a session that was answered has a connection, and an object only with one.
ConnectionInv == \A s \in Sessions : /\ Connected(s) => handler[s] = "replied"
                                     /\ Made(s) \/ accepting = s => Connected(s)

UnitInv == /\ gate = 1 => \A s \in Sessions : ~Outstanding(s)
           /\ gate = 0 => \E s \in Sessions : Outstanding(s)
           /\ \A r, s \in Sessions : Outstanding(r) /\ Outstanding(s) => r = s

\* A connection waiting to be accepted is the only one.
BacklogInv == \/ backlog = <<>>
              \/ \E s \in Sessions : /\ backlog = <<s>>
                                     /\ ~Made(s)
                                     /\ accepting # s
                                     /\ Connected(s)

\* From the moment the fields are filled until the object is made they are the
\* parameters of the session that holds the unit.
FieldsInv == \A s \in Sessions : handler[s] \in {"spawning", "replied"} /\ ~Made(s) =>
                 /\ nextConnect.lowLatency = LowLatency[s]
                 /\ nextConnect.bufferSize = BufferSize[s]

IdInv == /\ nextId > 0
         /\ \A s \in Sessions : /\ sid[s] <= nextId
                                /\ handler[s] = "init" <=> sid[s] = 0
                                /\ \A r \in Sessions : sid[r] = sid[s] /\ r # s => sid[s] = 0

\* An object's id is empty, its own session's, or garbage.
ObjectIdInv == \A s \in Sessions : sideband[s].id \in {0, sid[s]} \cup GarbageIds

RegistryInv == \A id \in DOMAIN buffers :
    /\ sideband[buffers[id]].status = "live"
    /\ sideband[buffers[id]].id = id
    /\ accepting = buffers[id] => acceptor = "notifying"

LoopInv == \A s \in Sessions :
    /\ loop[s] = "none" <=> handler[s] # "replied"
    /\ loop[s] = "serving" => /\ token[s] = s
                              /\ sideband[s].id = sid[s]
                              /\ Registered(sid[s])
                              /\ buffers[sid[s]] = s
    /\ loop[s] = "closed" => sideband[s].status = "freed"
    /\ s \in sleepers => loop[s] = "getting" /\ ~Registered(sid[s])

IInv == /\ TypeOK /\ AcceptorInv /\ ConnectionInv /\ UnitInv /\ BacklogInv /\ FieldsInv
        /\ ParamsMatch /\ IdInv /\ ObjectIdInv /\ RegistryInv /\ LoopInv

-----------------------------------------------------------------------------
(* Every action preserves IInv *)

USE RendezvousAssumption

\* The handler.

LEMMA InitOwnerStep == ASSUME IInv, NEW s \in Sessions, InitOwner(s) PROVE IInv'
<1>1. (AcceptorInv /\ BacklogInv /\ ParamsMatch /\ RegistryInv)'
  BY DEF IInv, AcceptorInv, BacklogInv, ParamsMatch, RegistryInv, Made, Connected,
         Registered, InitOwner, acceptVars, clientVars, registry
<1>2. TypeOK'
  BY DEF IInv, TypeOK, Object, InitOwner, clientVars, acceptVars, loopVars, registry
<1>3. ConnectionInv'
  BY DEF IInv, ConnectionInv, Made, Connected, InitOwner, clientVars, acceptVars
<1>4. UnitInv'
  BY DEF IInv, UnitInv, Made, Passed, Outstanding, InitOwner, acceptVars
<1>5. FieldsInv'
  BY DEF IInv, FieldsInv, Made, InitOwner, acceptVars
<1>6. IdInv'
  BY DEF IInv, TypeOK, IdInv, InitOwner
<1>7. ObjectIdInv'
  BY DEF IInv, IdInv, ObjectIdInv, InitOwner, acceptVars
<1>8. LoopInv'
  BY DEF IInv, LoopInv, Registered, InitOwner, acceptVars, loopVars, registry
<1> QED BY <1>1, <1>2, <1>3, <1>4, <1>5, <1>6, <1>7, <1>8 DEF IInv

LEMMA ConnectQueueWaitStep == ASSUME IInv, NEW s \in Sessions, ConnectQueueWait(s) PROVE IInv'
<1>1. (AcceptorInv /\ BacklogInv /\ ParamsMatch /\ ObjectIdInv /\ RegistryInv)'
  BY DEF IInv, AcceptorInv, BacklogInv, ParamsMatch, ObjectIdInv, RegistryInv, Made,
         Connected, Registered, ConnectQueueWait, acceptVars, clientVars, registry
<1>2. TypeOK'
  BY DEF IInv, TypeOK, Object, ConnectQueueWait, clientVars, acceptVars, loopVars, registry
<1>3. ConnectionInv'
  BY DEF IInv, ConnectionInv, Made, Connected, ConnectQueueWait, clientVars, acceptVars
<1>4. UnitInv'
  BY DEF IInv, TypeOK, ConnectionInv, UnitInv, FieldsInv, Made, Passed, Outstanding,
         ConnectQueueWait, acceptVars
<1>5. FieldsInv'
  BY DEF IInv, FieldsInv, Made, ConnectQueueWait, acceptVars
<1>6. IdInv'
  BY DEF IInv, IdInv, ConnectQueueWait
<1>7. LoopInv'
  BY DEF IInv, LoopInv, Registered, ConnectQueueWait, acceptVars, loopVars, registry
<1> QED BY <1>1, <1>2, <1>3, <1>4, <1>5, <1>6, <1>7 DEF IInv

LEMMA FillNextConnectStep == ASSUME IInv, NEW s \in Sessions, FillNextConnect(s) PROVE IInv'
<1>1. (AcceptorInv /\ BacklogInv /\ ParamsMatch /\ ObjectIdInv /\ RegistryInv)'
  BY DEF IInv, AcceptorInv, BacklogInv, ParamsMatch, ObjectIdInv, RegistryInv, Made,
         Connected, Registered, FillNextConnect, acceptVars, clientVars, registry
<1>2. TypeOK'
  BY DEF IInv, TypeOK, Object, FillNextConnect, clientVars, acceptVars, loopVars, registry
<1>3. ConnectionInv'
  BY DEF IInv, ConnectionInv, Made, Connected, FillNextConnect, clientVars, acceptVars
<1>4. UnitInv'
  BY DEF IInv, UnitInv, Made, Passed, Outstanding, FillNextConnect, acceptVars
<1>5. FieldsInv'
  <2>1. nextConnect'.lowLatency = LowLatency[s] /\ nextConnect'.bufferSize = BufferSize[s]
    BY DEF FillNextConnect
  <2>2. \A r \in Sessions : handler'[r] \in {"spawning", "replied"} /\ ~Made(r)' => r = s
    BY DEF IInv, TypeOK, ConnectionInv, UnitInv, Outstanding, Passed, Made, Connected,
           FillNextConnect, acceptVars
  <2> QED BY <2>1, <2>2 DEF FieldsInv
<1>6. IdInv'
  BY DEF IInv, IdInv, FillNextConnect
<1>7. LoopInv'
  BY DEF IInv, LoopInv, Registered, FillNextConnect, acceptVars, loopVars, registry
<1> QED BY <1>1, <1>2, <1>3, <1>4, <1>5, <1>6, <1>7 DEF IInv

LEMMA SpawnLoopStep == ASSUME IInv, NEW s \in Sessions, SpawnLoop(s) PROVE IInv'
<1>1. (AcceptorInv /\ BacklogInv /\ ParamsMatch /\ ObjectIdInv /\ RegistryInv)'
  BY DEF IInv, AcceptorInv, BacklogInv, ParamsMatch, ObjectIdInv, RegistryInv, Made,
         Connected, Registered, SpawnLoop, acceptVars, clientVars, registry
<1>2. TypeOK'
  BY DEF IInv, TypeOK, Object, SpawnLoop, clientVars, acceptVars, registry
<1>3. ConnectionInv'
  BY DEF IInv, ConnectionInv, Made, Connected, SpawnLoop, clientVars, acceptVars
<1>4. UnitInv'
  BY DEF IInv, UnitInv, Made, Passed, Outstanding, SpawnLoop, acceptVars
<1>5. FieldsInv'
  BY DEF IInv, FieldsInv, Made, SpawnLoop, acceptVars
<1>6. IdInv'
  BY DEF IInv, IdInv, SpawnLoop
<1>7. LoopInv'
  BY DEF IInv, TypeOK, LoopInv, Registered, SpawnLoop, acceptVars, registry
<1> QED BY <1>1, <1>2, <1>3, <1>4, <1>5, <1>6, <1>7 DEF IInv

\* The client.

LEMMA ConnectStep == ASSUME IInv, NEW s \in Sessions, Connect(s) PROVE IInv'
<1>1. (AcceptorInv /\ UnitInv /\ FieldsInv /\ ParamsMatch
      /\ IdInv /\ ObjectIdInv /\ RegistryInv /\ LoopInv)'
  BY DEF IInv, AcceptorInv, UnitInv, FieldsInv, ParamsMatch, IdInv, ObjectIdInv,
         RegistryInv, LoopInv, Made, Passed, Outstanding, Registered, Connect, acceptVars,
         loopVars, registry, serverVars
<1>2. TypeOK'
  BY DEF IInv, TypeOK, Object, Connect, serverVars, acceptVars, loopVars, registry
<1>3. ConnectionInv'
  BY DEF IInv, ConnectionInv, Made, Connected, Connect, serverVars, acceptVars
<1>4. BacklogInv'
  <2>1. backlog = <<>>
    BY DEF IInv, ConnectionInv, UnitInv, BacklogInv, Connect, Outstanding, Passed, Connected
  <2>2. ~Made(s) /\ accepting # s
    BY DEF IInv, ConnectionInv, Connect, Connected
  <2>3. backlog' = <<s>>
    BY <2>1 DEF Connect
  <2> QED BY <2>2, <2>3 DEF Connect, BacklogInv, Made, Connected, IInv, TypeOK, acceptVars
<1> QED BY <1>1, <1>2, <1>3, <1>4 DEF IInv

LEMMA ConnectRefusedStep == ASSUME IInv, NEW s \in Sessions, ConnectRefused(s) PROVE IInv'
<1>1. (AcceptorInv /\ UnitInv /\ FieldsInv /\ ParamsMatch
      /\ IdInv /\ ObjectIdInv /\ RegistryInv /\ LoopInv)'
  BY DEF IInv, AcceptorInv, UnitInv, FieldsInv, ParamsMatch, IdInv, ObjectIdInv,
         RegistryInv, LoopInv, Made, Passed, Outstanding, Registered, ConnectRefused,
         acceptVars, loopVars, registry, serverVars
<1>2. TypeOK'
  BY DEF IInv, TypeOK, Object, ConnectRefused, serverVars, acceptVars, loopVars, registry
<1>3. ConnectionInv'
  BY DEF IInv, ConnectionInv, Made, Connected, ConnectRefused, serverVars, acceptVars
<1>4. BacklogInv'
  BY DEF IInv, BacklogInv, Made, Connected, ConnectRefused, acceptVars
<1> QED BY <1>1, <1>2, <1>3, <1>4 DEF IInv

LEMMA SendIdStep == ASSUME IInv, NEW s \in Sessions, SendId(s) PROVE IInv'
<1>1. (AcceptorInv /\ UnitInv /\ FieldsInv /\ ParamsMatch
      /\ IdInv /\ ObjectIdInv /\ RegistryInv /\ LoopInv)'
  BY DEF IInv, AcceptorInv, UnitInv, FieldsInv, ParamsMatch, IdInv, ObjectIdInv,
         RegistryInv, LoopInv, Made, Passed, Outstanding, Registered, SendId, acceptVars,
         loopVars, registry, serverVars
<1>2. TypeOK'
  BY DEF IInv, TypeOK, Object, SendId, serverVars, acceptVars, loopVars, registry
<1>3. ConnectionInv'
  BY DEF IInv, ConnectionInv, Made, Connected, SendId, serverVars, acceptVars
<1>4. BacklogInv'
  BY DEF IInv, BacklogInv, Made, Connected, SendId, acceptVars
<1> QED BY <1>1, <1>2, <1>3, <1>4 DEF IInv

LEMMA ClientFailsStep == ASSUME IInv, NEW s \in Sessions, ClientFails(s) PROVE IInv'
<1>1. (AcceptorInv /\ UnitInv /\ FieldsInv /\ ParamsMatch
      /\ IdInv /\ ObjectIdInv /\ RegistryInv /\ LoopInv)'
  BY DEF IInv, AcceptorInv, UnitInv, FieldsInv, ParamsMatch, IdInv, ObjectIdInv,
         RegistryInv, LoopInv, Made, Passed, Outstanding, Registered, ClientFails,
         acceptVars, loopVars, registry, serverVars
<1>2. TypeOK'
  <2>1. PICK end \in {"gone", "ended", "reset"} : wire' = [wire EXCEPT ![s] = end]
    BY DEF ClientFails
  <2>2. wire' \in [Sessions -> {"none", "open", "identified", "refused",
                              "gone", "ended", "reset"}]
    BY <2>1 DEF IInv, TypeOK
  <2> QED BY <2>2 DEF IInv, TypeOK, ClientFails, serverVars, acceptVars, loopVars, registry
<1>3. ConnectionInv'
  BY DEF IInv, TypeOK, ConnectionInv, Made, Connected, ClientFails, serverVars, acceptVars
<1>4. BacklogInv'
  BY DEF IInv, TypeOK, BacklogInv, Made, Connected, ClientFails, acceptVars
<1> QED BY <1>1, <1>2, <1>3, <1>4 DEF IInv

\* The accept loop.

LEMMA StartListeningStep == ASSUME IInv, StartListening PROVE IInv'
<1>1. (ConnectionInv /\ UnitInv /\ BacklogInv /\ FieldsInv
      /\ ParamsMatch /\ IdInv /\ ObjectIdInv /\ LoopInv)'
  BY DEF IInv, ConnectionInv, UnitInv, BacklogInv, FieldsInv, ParamsMatch, IdInv,
         ObjectIdInv, LoopInv, Made, Connected, Passed, Outstanding, Registered,
         StartListening, clientVars, loopVars, registry, serverVars
<1>2. TypeOK'
  BY DEF IInv, TypeOK, Object, StartListening, serverVars, clientVars, loopVars, registry
<1>3. AcceptorInv'
  BY DEF IInv, AcceptorInv, Made, StartListening
<1>4. RegistryInv'
  BY DEF IInv, RegistryInv, Registered, StartListening, registry
<1> QED BY <1>1, <1>2, <1>3, <1>4 DEF IInv

LEMMA AcceptFailsStep == ASSUME IInv, AcceptFails PROVE IInv'
<1>1. (ConnectionInv /\ UnitInv /\ BacklogInv /\ FieldsInv
      /\ ParamsMatch /\ IdInv /\ ObjectIdInv /\ LoopInv)'
  BY DEF IInv, ConnectionInv, UnitInv, BacklogInv, FieldsInv, ParamsMatch, IdInv,
         ObjectIdInv, LoopInv, Made, Connected, Passed, Outstanding, Registered,
         AcceptFails, clientVars, loopVars, registry, serverVars
<1>2. TypeOK'
  BY DEF IInv, TypeOK, Object, AcceptFails, serverVars, clientVars, loopVars, registry
<1>3. AcceptorInv'
  BY DEF IInv, AcceptorInv, Made, AcceptFails
<1>4. RegistryInv'
  BY DEF IInv, RegistryInv, Registered, AcceptFails, registry
<1> QED BY <1>1, <1>2, <1>3, <1>4 DEF IInv

LEMMA StopAcceptingStep == ASSUME IInv, StopAccepting PROVE IInv'
<1>1. (ConnectionInv /\ UnitInv /\ FieldsInv /\ ParamsMatch
      /\ IdInv /\ ObjectIdInv /\ LoopInv)'
  BY DEF IInv, ConnectionInv, UnitInv, FieldsInv, ParamsMatch, IdInv, ObjectIdInv, LoopInv,
         Made, Connected, Passed, Outstanding, Registered, StopAccepting, loopVars,
         registry, serverVars
<1>2. TypeOK'
  BY DEF IInv, TypeOK, Object, StopAccepting, serverVars, loopVars, registry
<1>3. AcceptorInv'
  BY DEF IInv, AcceptorInv, Made, StopAccepting
<1>4. BacklogInv'
  BY DEF IInv, BacklogInv, Made, Connected, StopAccepting
<1>5. RegistryInv'
  BY DEF IInv, RegistryInv, Registered, StopAccepting, registry
<1> QED BY <1>1, <1>2, <1>3, <1>4, <1>5 DEF IInv

LEMMA AcceptStep == ASSUME IInv, Accept PROVE IInv'
<1>1. PICK s \in Sessions : backlog = <<s>> /\ ~Made(s) /\ Connected(s)
  BY DEF IInv, BacklogInv, Accept
<1>2. accepting' = s /\ backlog' = <<>> /\ accepting = None
  BY <1>1 DEF IInv, AcceptorInv, Accept
<1>3. (FieldsInv /\ ParamsMatch /\ IdInv /\ ObjectIdInv /\ LoopInv)'
  BY DEF IInv, FieldsInv, ParamsMatch, IdInv, ObjectIdInv, LoopInv, Made, Registered,
         Accept, loopVars, registry, serverVars
<1>4. TypeOK'
  <2>1. accepting' \in Sessions /\ acceptor' = "building" /\ backlog' \in Seq(Sessions)
    BY <1>1, <1>2 DEF Accept
  <2> QED BY <2>1 DEF IInv, TypeOK, Accept, serverVars, loopVars, registry
<1>5. AcceptorInv'
  BY <1>1, <1>2 DEF AcceptorInv, Accept, Made, IInv, RendezvousAssumption
<1>6. ConnectionInv'
  BY <1>1, <1>2 DEF IInv, ConnectionInv, Accept, Made, Connected, serverVars
<1>7. UnitInv'
  BY <1>1, <1>2 DEF IInv, ConnectionInv, UnitInv, Accept, Outstanding, Passed, Made,
                    Connected, serverVars
<1>8. BacklogInv'
  BY <1>2 DEF BacklogInv
<1>9. RegistryInv'
  BY <1>1, <1>2 DEF IInv, RegistryInv, Accept, Made, registry, TypeOK
<1> QED BY <1>3, <1>4, <1>5, <1>6, <1>7, <1>8, <1>9 DEF IInv

LEMMA BuildObjectStep == ASSUME IInv, BuildObject PROVE IInv'
<1>1. IdInv'
  BY DEF IInv, IdInv, BuildObject, serverVars
<1>2. TypeOK'
  <2>1. nextConnect.lowLatency \in BOOLEAN /\ nextConnect.bufferSize \in Nat
    BY DEF IInv, TypeOK
  <2>2. [status |-> "live", id |-> 0, lowLatency |-> nextConnect.lowLatency,
         bufferSize |-> nextConnect.bufferSize] \in Object
    BY <2>1 DEF Object
  <2>3. sideband' \in [Sessions -> Object]
    BY <2>2 DEF IInv, TypeOK, BuildObject
  <2> QED BY <2>3 DEF IInv, TypeOK, BuildObject, serverVars, clientVars, loopVars, registry
<1>3. AcceptorInv'
  BY DEF IInv, TypeOK, AcceptorInv, Made, BuildObject
<1>4. ConnectionInv'
  BY DEF IInv, ConnectionInv, Made, Connected, BuildObject, serverVars, clientVars
<1>5. UnitInv'
  BY DEF IInv, UnitInv, Made, Passed, Outstanding, BuildObject, serverVars
<1>6. BacklogInv'
  BY DEF IInv, BacklogInv, Made, Connected, BuildObject, clientVars
<1>7. FieldsInv'
  BY DEF IInv, FieldsInv, Made, BuildObject, serverVars
<1>8. ParamsMatch'
  BY DEF IInv, AcceptorInv, ConnectionInv, FieldsInv, ParamsMatch, Made, BuildObject
<1>9. ObjectIdInv'
  BY DEF IInv, ObjectIdInv, BuildObject, serverVars
<1>10. RegistryInv'
  BY DEF IInv, RegistryInv, Registered, BuildObject, registry
<1>11. LoopInv'
  BY DEF IInv, TypeOK, AcceptorInv, Made, LoopInv, RegistryInv, BuildObject, Registered,
         serverVars, loopVars, registry
<1> QED BY <1>1, <1>2, <1>3, <1>4, <1>5, <1>6, <1>7, <1>8, <1>9, <1>10, <1>11 DEF IInv

LEMMA ReadConnectionIdStep == ASSUME IInv, ReadConnectionId PROVE IInv'
<1>1. IdInv'
  BY DEF IInv, IdInv, ReadConnectionId, serverVars
<1>2. TypeOK'
  <2>1. ASSUME NEW id \in ConnectionIds, sideband' = [sideband EXCEPT ![accepting].id = id]
        PROVE  sideband' \in [Sessions -> Object]
    <3>1. accepting \in Sessions
      BY DEF IInv, AcceptorInv, TypeOK, ReadConnectionId
    <3>2. id \in Int
      BY <3>1 DEF IInv, TypeOK, ConnectionIds
    <3>3. sideband[accepting] \in Object
      BY <3>1 DEF IInv, TypeOK
    <3>4. [sideband[accepting] EXCEPT !.id = id] \in Object
      BY <3>2, <3>3 DEF Object
    <3> QED BY <2>1, <3>1, <3>4 DEF IInv, TypeOK
  <2> QED BY <2>1 DEF IInv, TypeOK, ReadConnectionId, serverVars, clientVars, loopVars, registry
<1>3. AcceptorInv'
  BY DEF IInv, AcceptorInv, Made, ReadConnectionId, ConnectionIds
<1>4. ConnectionInv'
  BY DEF IInv, ConnectionInv, Made, Connected, ReadConnectionId, ConnectionIds, serverVars,
         clientVars
<1>5. UnitInv'
  BY DEF IInv, UnitInv, Made, Passed, Outstanding, ReadConnectionId, ConnectionIds,
         serverVars
<1>6. BacklogInv'
  BY DEF IInv, BacklogInv, Made, Connected, ReadConnectionId, ConnectionIds, clientVars
<1>7. FieldsInv'
  BY DEF IInv, FieldsInv, Made, ReadConnectionId, ConnectionIds, serverVars
<1>8. ParamsMatch'
  BY DEF IInv, ParamsMatch, Made, ReadConnectionId, ConnectionIds
<1>9. ObjectIdInv'
  BY DEF IInv, ObjectIdInv, ReadConnectionId, ConnectionIds, serverVars
<1>10. RegistryInv'
  BY DEF IInv, RegistryInv, Registered, ReadConnectionId, ConnectionIds, registry
<1>11. LoopInv'
  BY DEF IInv, TypeOK, LoopInv, RegistryInv, ReadConnectionId, ConnectionIds, Registered,
         serverVars, loopVars, registry
<1> QED BY <1>1, <1>2, <1>3, <1>4, <1>5, <1>6, <1>7, <1>8, <1>9, <1>10, <1>11 DEF IInv

LEMMA RegisterSidebandDataStep == ASSUME IInv, RegisterSidebandData PROVE IInv'
<1>1. accepting \in Sessions /\ sideband[accepting].id \in Int
  BY DEF IInv, AcceptorInv, TypeOK, Object, RegisterSidebandData
<1>2. /\ DOMAIN buffers' = DOMAIN buffers \cup {sideband[accepting].id}
      /\ \A i \in DOMAIN buffers' : buffers'[i] = IF i \in DOMAIN buffers THEN buffers[i] ELSE accepting
  BY DEF RegisterSidebandData, Register, Emplace, Registered
<1>3. (ConnectionInv /\ UnitInv /\ BacklogInv /\ FieldsInv
      /\ ParamsMatch /\ IdInv /\ ObjectIdInv)'
  BY DEF IInv, ConnectionInv, UnitInv, BacklogInv, FieldsInv, ParamsMatch, IdInv,
         ObjectIdInv, Made, Connected, Passed, Outstanding, RegisterSidebandData,
         clientVars, serverVars
<1>4. TypeOK'
  <2>1. buffers' \in [DOMAIN buffers' -> Sessions] /\ DOMAIN buffers' \subseteq Int
    BY <1>1, <1>2 DEF IInv, TypeOK, RegisterSidebandData, Register, Emplace
  <2>2. sleepers' = {} /\ acceptor' = "notifying"
    BY DEF RegisterSidebandData, Register
  <2> QED BY <2>1, <2>2 DEF IInv, TypeOK, RegisterSidebandData, serverVars, clientVars, loopVars
<1>5. AcceptorInv'
  BY DEF IInv, AcceptorInv, Made, Registered, RegisterSidebandData, Register, Emplace
<1>6. RegistryInv'
  BY <1>1, <1>2 DEF IInv, AcceptorInv, RegistryInv, RegisterSidebandData
<1>7. LoopInv'
  BY DEF IInv, LoopInv, Registered, RegisterSidebandData, Register, Emplace, serverVars,
         loopVars
<1> QED BY <1>3, <1>4, <1>5, <1>6, <1>7 DEF IInv

LEMMA ConnectQueueNotifyStep == ASSUME IInv, ConnectQueueNotify PROVE IInv'
<1>1. accepting \in Sessions /\ Made(accepting) /\ Outstanding(accepting)
  BY DEF IInv, AcceptorInv, TypeOK, ConnectionInv, ConnectQueueNotify, Outstanding, Passed
<1>2. (FieldsInv /\ ParamsMatch /\ IdInv /\ ObjectIdInv /\ LoopInv)'
  BY DEF IInv, FieldsInv, ParamsMatch, IdInv, ObjectIdInv, LoopInv, Made, Registered,
         ConnectQueueNotify, loopVars, registry
<1>3. TypeOK'
  <2>1. gate' = 1 /\ accepting' = None /\ acceptor' = "selecting"
    BY <1>1 DEF IInv, TypeOK, UnitInv, ConnectQueueNotify
  <2> QED BY <2>1 DEF IInv, TypeOK, ConnectQueueNotify, clientVars, loopVars, registry
<1>4. AcceptorInv'
  BY DEF IInv, AcceptorInv, Made, ConnectQueueNotify
<1>5. ConnectionInv'
  BY DEF IInv, ConnectionInv, Made, Connected, ConnectQueueNotify, clientVars
<1>6. UnitInv'
  <2>1. gate' = 1
    BY <1>1 DEF IInv, TypeOK, UnitInv, ConnectQueueNotify
  <2>2. \A r \in Sessions : ~Outstanding(r)'
    BY <1>1 DEF IInv, UnitInv, ConnectQueueNotify, Outstanding, Passed, Made
  <2> QED BY <2>1, <2>2 DEF UnitInv
<1>7. BacklogInv'
  BY DEF IInv, BacklogInv, Made, Connected, ConnectQueueNotify, clientVars
<1>8. RegistryInv'
  BY DEF IInv, TypeOK, RegistryInv, Registered, ConnectQueueNotify, registry
<1> QED BY <1>2, <1>3, <1>4, <1>5, <1>6, <1>7, <1>8 DEF IInv

\* The serving thread.

LEMMA GetOwnerTokenStep == ASSUME IInv, NEW s \in Sessions, GetOwnerToken(s) PROVE IInv'
<1>1. (AcceptorInv /\ ConnectionInv /\ UnitInv /\ BacklogInv /\ FieldsInv
      /\ ParamsMatch /\ IdInv /\ ObjectIdInv /\ RegistryInv)'
  BY DEF IInv, AcceptorInv, ConnectionInv, UnitInv, BacklogInv, FieldsInv, ParamsMatch,
         IdInv, ObjectIdInv, RegistryInv, Made, Connected, Passed, Outstanding, Registered,
         GetOwnerToken, acceptVars, clientVars, registry, serverVars
<1>2. TypeOK'
  BY DEF IInv, TypeOK, Object, Registered, GetOwnerToken, serverVars, clientVars,
         acceptVars, registry
<1>3. LoopInv'
  <2>1. sid[s] # 0
    BY DEF IInv, LoopInv, IdInv, GetOwnerToken
  <2>2. buffers[sid[s]] \in Sessions /\ sideband[buffers[sid[s]]].id = sid[s]
    BY DEF IInv, TypeOK, RegistryInv, GetOwnerToken, Registered
  <2>3. buffers[sid[s]] = s
    BY <2>1, <2>2 DEF IInv, TypeOK, IdInv, ObjectIdInv
  <2>4. token'[s] = s /\ loop'[s] = "serving" /\ Registered(sid[s])
    BY <2>3 DEF IInv, TypeOK, GetOwnerToken
  <2>5. \A r \in Sessions \ {s} : token'[r] = token[r] /\ loop'[r] = loop[r]
    BY DEF IInv, TypeOK, GetOwnerToken
  <2>6. UNCHANGED <<handler, sid, sideband, buffers, sleepers>>
    BY DEF GetOwnerToken, serverVars, acceptVars, registry
  <2> QED BY <2>2, <2>3, <2>4, <2>5, <2>6 DEF IInv, LoopInv, Registered, GetOwnerToken
<1> QED BY <1>1, <1>2, <1>3 DEF IInv

LEMMA AwaitOwnerTokenStep == ASSUME IInv, NEW s \in Sessions, AwaitOwnerToken(s) PROVE IInv'
<1>1. (AcceptorInv /\ ConnectionInv /\ UnitInv /\ BacklogInv /\ FieldsInv
      /\ ParamsMatch /\ IdInv /\ ObjectIdInv /\ RegistryInv)'
  BY DEF IInv, AcceptorInv, ConnectionInv, UnitInv, BacklogInv, FieldsInv, ParamsMatch,
         IdInv, ObjectIdInv, RegistryInv, Made, Connected, Passed, Outstanding, Registered,
         AwaitOwnerToken, SleepUntilRegistered, acceptVars, clientVars, serverVars
<1>2. TypeOK'
  BY DEF IInv, TypeOK, Object, Registered, AwaitOwnerToken, SleepUntilRegistered,
         serverVars, clientVars, acceptVars, loopVars
<1>3. LoopInv'
  BY DEF IInv, LoopInv, Registered, AwaitOwnerToken, SleepUntilRegistered, serverVars,
         acceptVars, loopVars
<1> QED BY <1>1, <1>2, <1>3 DEF IInv

LEMMA WakeUnnotifiedStep == ASSUME IInv, NEW s \in Sessions, WakeUnnotified(s) PROVE IInv'
<1>1. (AcceptorInv /\ ConnectionInv /\ UnitInv /\ BacklogInv /\ FieldsInv
      /\ ParamsMatch /\ IdInv /\ ObjectIdInv /\ RegistryInv)'
  BY DEF IInv, AcceptorInv, ConnectionInv, UnitInv, BacklogInv, FieldsInv, ParamsMatch,
         IdInv, ObjectIdInv, RegistryInv, Made, Connected, Passed, Outstanding, Registered,
         WakeUnnotified, SpuriousWakeup, acceptVars, clientVars, serverVars
<1>2. TypeOK'
  BY DEF IInv, TypeOK, Object, WakeUnnotified, SpuriousWakeup, serverVars, clientVars,
         acceptVars, loopVars
<1>3. LoopInv'
  BY DEF IInv, LoopInv, Registered, WakeUnnotified, SpuriousWakeup, serverVars, acceptVars,
         loopVars
<1> QED BY <1>1, <1>2, <1>3 DEF IInv

LEMMA CloseSidebandDataStep == ASSUME IInv, NEW s \in Sessions, CloseSidebandData(s) PROVE IInv'
<1>1. token[s] = s /\ sideband[s].status = "live" /\ (accepting = s => acceptor = "notifying")
  BY DEF IInv, LoopInv, RegistryInv, CloseSidebandData, Registered
<1>2. IdInv'
  BY DEF IInv, IdInv, CloseSidebandData, serverVars
<1>3. TypeOK'
  <2>1. sideband' \in [Sessions -> Object]
    <3>1. sideband[s] \in Object
      BY DEF IInv, TypeOK
    <3>2. [sideband[s] EXCEPT !.status = "freed"] \in Object
      BY <3>1 DEF Object
    <3>3. sideband' = [sideband EXCEPT ![s].status = "freed"]
      BY <1>1 DEF CloseSidebandData
    <3> QED BY <3>2, <3>3 DEF IInv, TypeOK
  <2>2. DOMAIN buffers' \subseteq Int /\ buffers' \in [DOMAIN buffers' -> Sessions]
    BY DEF IInv, TypeOK, CloseSidebandData, Erase
  <2>3. /\ sleepers' = sleepers /\ token' = token
        /\ loop' \in [Sessions -> {"none", "getting", "serving", "closed"}]
    BY DEF IInv, TypeOK, CloseSidebandData, Erase
  <2> QED BY <2>1, <2>2, <2>3 DEF IInv, TypeOK, CloseSidebandData, serverVars, clientVars
<1>4. AcceptorInv'
  BY <1>1 DEF IInv, TypeOK, AcceptorInv, Made, CloseSidebandData
<1>5. ConnectionInv'
  BY <1>1 DEF IInv, TypeOK, ConnectionInv, Made, Connected, CloseSidebandData, serverVars,
              clientVars
<1>6. UnitInv'
  BY <1>1 DEF IInv, TypeOK, UnitInv, Outstanding, Passed, Made, CloseSidebandData,
              serverVars
<1>7. BacklogInv'
  BY <1>1 DEF IInv, TypeOK, BacklogInv, Made, Connected, CloseSidebandData, clientVars
<1>8. FieldsInv'
  BY <1>1 DEF IInv, TypeOK, FieldsInv, Made, CloseSidebandData, serverVars
<1>9. ParamsMatch'
  BY <1>1 DEF IInv, TypeOK, ParamsMatch, Made, CloseSidebandData
<1>10. ObjectIdInv'
  BY <1>1 DEF IInv, TypeOK, ObjectIdInv, CloseSidebandData, serverVars
<1>11. RegistryInv'
  BY <1>1 DEF IInv, TypeOK, RegistryInv, CloseSidebandData, Erase
<1>12. LoopInv'
  BY <1>1 DEF IInv, TypeOK, LoopInv, IdInv, CloseSidebandData, Erase, Registered,
              serverVars
<1> QED BY <1>2, <1>3, <1>4, <1>5, <1>6, <1>7, <1>8, <1>9, <1>10, <1>11, <1>12 DEF IInv

-----------------------------------------------------------------------------

LEMMA InitInv == ASSUME Init PROVE IInv
<1>1. NoObject \in Object
  BY DEF NoObject, Object
<1>2. TypeOK
  BY <1>1 DEF Init, TypeOK, RegistryInit
<1> QED BY <1>2 DEF Init, IInv, AcceptorInv, ConnectionInv, UnitInv, BacklogInv, FieldsInv,
                    ParamsMatch, IdInv, ObjectIdInv, RegistryInv, LoopInv, Made, Connected,
                    Passed, Outstanding, NoObject, RegistryInit, Registered

LEMMA StutterStep == ASSUME IInv, UNCHANGED vars PROVE IInv'
  BY DEF vars, serverVars, clientVars, acceptVars, loopVars, registry, IInv, TypeOK,
         AcceptorInv, ConnectionInv, UnitInv, BacklogInv, FieldsInv, ParamsMatch, IdInv,
         ObjectIdInv, RegistryInv, LoopInv, Made, Connected, Passed, Outstanding, Registered

\* The inductive invariant holds in every reachable state.
THEOREM Invariance == Safety => []IInv
<1>1. IInv /\ [Next]_vars => IInv'
  <2> SUFFICES ASSUME IInv, [Next]_vars PROVE IInv'
    OBVIOUS
  <2>1. ASSUME NEW s \in Sessions, Handler(s) PROVE IInv'
    BY <2>1, InitOwnerStep, ConnectQueueWaitStep, FillNextConnectStep, SpawnLoopStep DEF Handler
  <2>2. ASSUME NEW s \in Sessions, Client(s) PROVE IInv'
    BY <2>2, ConnectStep, ConnectRefusedStep, SendIdStep, ClientFailsStep DEF Client
  <2>3. CASE AcceptLoop
    BY <2>3, StartListeningStep, AcceptFailsStep, StopAcceptingStep, AcceptStep,
       BuildObjectStep, ReadConnectionIdStep, RegisterSidebandDataStep, ConnectQueueNotifyStep
       DEF AcceptLoop
  <2>4. ASSUME NEW s \in Sessions, ServingThread(s) PROVE IInv'
    BY <2>4, GetOwnerTokenStep, AwaitOwnerTokenStep, WakeUnnotifiedStep, CloseSidebandDataStep
       DEF ServingThread
  <2>5. CASE UNCHANGED vars
    BY <2>5, StutterStep
  <2> QED BY <2>1, <2>2, <2>3, <2>4, <2>5 DEF Next
<1> QED BY <1>1, InitInv, PTL DEF Safety

-----------------------------------------------------------------------------

\* The variables keep their types; in particular the semaphore's count is never
\* above one, whatever clients and the accept loop do.
THEOREM TypeCorrect == Safety => []TypeOK
  BY Invariance, PTL DEF IInv

\* One session at a time holds the unit of _connectQueue, from the wait in its
\* handler to the notify after its connection; the unit is never lost or doubled.
THEOREM UnitIsNotLost == Safety => []OneOutstanding
<1>1. ASSUME IInv, gate = 0
      PROVE  \E s \in Sessions : \A r \in Sessions : Outstanding(r) <=> r = s
  <2>1. PICK s \in Sessions : Outstanding(s)
    BY <1>1 DEF IInv, UnitInv
  <2>2. \A r \in Sessions : Outstanding(r) <=> r = s
    BY <1>1, <2>1 DEF IInv, UnitInv
  <2> QED BY <2>2
<1>2. IInv => OneOutstanding
  BY <1>1 DEF IInv, UnitInv, OneOutstanding
<1> QED BY <1>2, Invariance, PTL

\* No handler writes the static fields while the accept loop reads them.
THEOREM FieldsAreNotRaced == Safety => []FieldsNotRaced
<1>1. ASSUME IInv, acceptor = "building", NEW s \in Sessions, handler[s] = "filling"
      PROVE  FALSE
  <2>1. accepting \in Sessions /\ handler[accepting] = "replied"
    BY <1>1 DEF IInv, TypeOK, AcceptorInv, ConnectionInv
  <2>2. Outstanding(accepting) /\ Outstanding(s)
    BY <1>1, <2>1 DEF IInv, ConnectionInv, Outstanding, Passed
  <2> QED BY <1>1, <2>1, <2>2 DEF IInv, UnitInv
<1>2. IInv => FieldsNotRaced
  BY <1>1 DEF FieldsNotRaced
<1> QED BY <1>2, Invariance, PTL

\* A connection gets the parameters of the session it turns out to belong to.
THEOREM ParametersMatch == Safety => []ParamsMatch
  BY Invariance, PTL DEF IInv

\* The serving thread of a session uses its own session's object, which is live
\* and registered.
THEOREM ServedObjectIsLive == Safety => []ServedObjectLive
<1>1. IInv => ServedObjectLive
  BY DEF IInv, LoopInv, RegistryInv, ServedObjectLive, Registered, RendezvousAssumption
<1> QED BY <1>1, Invariance, PTL

\* A thread never sleeps in GetOwnerSidebandDataToken for an id that is there.
THEOREM RegistrationIsNotLost == Safety => []NoLostRegistration
<1>1. IInv => NoLostRegistration
  BY DEF IInv, TypeOK, LoopInv, NoLostRegistration
<1> QED BY <1>1, Invariance, PTL

\* An id that NextConnectionId drew is registered once.
THEOREM DrawnIdsRegisterOnce == Safety => []DrawnIdUnregistered
<1>1. ASSUME IInv, acceptor = "registering", sideband[accepting].id > 0,
             Registered(sideband[accepting].id)
      PROVE  FALSE
  <2> DEFINE id == sideband[accepting].id
             s == buffers[id]
  <2>1. accepting \in Sessions /\ s \in Sessions /\ id \in Int
    BY <1>1 DEF IInv, TypeOK, AcceptorInv, Object, Registered
  <2>2. sideband[s].id = id /\ s # accepting
    BY <1>1, <2>1 DEF IInv, RegistryInv, Registered
  <2>3. sid[s] = id /\ sid[accepting] = id
    BY <1>1, <2>1, <2>2 DEF IInv, ObjectIdInv
  <2> QED BY <1>1, <2>1, <2>2, <2>3 DEF IInv, TypeOK, IdInv
<1> QED BY <1>1, Invariance, PTL DEF DrawnIdUnregistered

-----------------------------------------------------------------------------
(* SocketRendezvous implements SessionPairing *)

LEMMA PhaseStutter ==
    ASSUME IInv,
           \/ \E s \in Sessions : \/ InitOwner(s) \/ FillNextConnect(s) \/ SpawnLoop(s)
                                  \/ Client(s) \/ AwaitOwnerToken(s) \/ WakeUnnotified(s)
           \/ StartListening \/ AcceptFails \/ StopAccepting
    PROVE  UNCHANGED Pairing!vars
<1>1. UNCHANGED <<sideband, accepting, token>>
  BY DEF InitOwner, FillNextConnect, SpawnLoop, Client, Connect, ConnectRefused, SendId,
         ClientFails, AwaitOwnerToken, WakeUnnotified, StartListening, AcceptFails,
         StopAccepting, acceptVars, loopVars
<1>2. ASSUME NEW r \in Sessions PROVE Phase(r)' = Phase(r)
  <2>1. Passed(r)' <=> Passed(r)
    BY DEF IInv, TypeOK, Passed, InitOwner, FillNextConnect, SpawnLoop, Client, Connect,
           ConnectRefused, SendId, ClientFails, AwaitOwnerToken, WakeUnnotified,
           StartListening, AcceptFails, StopAccepting, serverVars
  <2>2. (acceptor' = "notifying") <=> (acceptor = "notifying")
    BY DEF InitOwner, FillNextConnect, SpawnLoop, Client, Connect, ConnectRefused, SendId,
           ClientFails, AwaitOwnerToken, WakeUnnotified, StartListening, AcceptFails,
           StopAccepting, acceptVars
  <2>3. /\ loop'[r] = "serving" <=> loop[r] = "serving"
        /\ loop'[r] = "closed" <=> loop[r] = "closed"
    BY DEF IInv, TypeOK, LoopInv, InitOwner, FillNextConnect, SpawnLoop, Client, Connect,
           ConnectRefused, SendId, ClientFails, AwaitOwnerToken, WakeUnnotified, StartListening,
           AcceptFails, StopAccepting, loopVars
  <2> QED BY <1>1, <2>1, <2>2, <2>3 DEF Phase, Served, Settled, Offered, Outstanding, Made
<1> QED BY <1>1, <1>2 DEF Pairing!vars

LEMMA PhaseOffer == ASSUME IInv, NEW s \in Sessions, ConnectQueueWait(s) PROVE Pairing!Offer(s)
<1>1. UNCHANGED <<sideband, accepting, acceptor, loop, token>> /\ ~Made(s) /\ ~Passed(s)
  BY DEF IInv, ConnectionInv, Connected, Passed, ConnectQueueWait, acceptVars, loopVars
<1>2. \A r \in Sessions : ~Outstanding(r)
  BY DEF IInv, TypeOK, UnitInv, ConnectQueueWait
<1>3. Passed(s)' /\ \A r \in Sessions \ {s} : Passed(r)' <=> Passed(r)
  BY DEF IInv, TypeOK, Passed, ConnectQueueWait
<1>4. Phase(s) = "new" /\ Phase(s)' = "offered"
  BY <1>1, <1>3 DEF Phase, Served, Settled, Offered, Outstanding, Made
<1>5. \A r \in Sessions \ {s} : Phase(r)' = Phase(r)
  BY <1>1, <1>3 DEF Phase, Served, Settled, Offered, Outstanding, Made
<1>6. \A r \in Sessions : Phase(r) # "offered"
  BY <1>2 DEF Phase, Served, Settled, Offered, Passed
<1> QED BY <1>1, <1>4, <1>5, <1>6 DEF Pairing!Offer, Pairing!Step

LEMMA PhaseOffered ==
    ASSUME IInv, Accept \/ BuildObject \/ ReadConnectionId
    PROVE  UNCHANGED Pairing!vars
<1>1. UNCHANGED <<handler, loop, token>> /\ acceptor # "notifying" /\ acceptor' # "notifying"
  BY DEF Accept, BuildObject, ReadConnectionId, serverVars, loopVars
<1>2. PICK s \in Sessions : accepting' = s /\ Outstanding(s) /\ Outstanding(s)'
  <2>1. CASE Accept
    <3>1. PICK s \in Sessions : backlog = <<s>> /\ ~Made(s) /\ Connected(s)
      BY <2>1 DEF IInv, BacklogInv, Accept
    <3>2. accepting' = s /\ handler'[s] = "replied" /\ handler[s] = "replied"
      BY <2>1, <3>1 DEF IInv, ConnectionInv, Accept, serverVars
    <3> QED BY <3>1, <3>2 DEF Outstanding, Passed
  <2>2. CASE BuildObject \/ ReadConnectionId
    <3>1. accepting \in Sessions /\ accepting' = accepting
      BY <2>2 DEF IInv, TypeOK, AcceptorInv, BuildObject, ReadConnectionId
    <3>2. handler[accepting] = "replied"
      BY <3>1 DEF IInv, ConnectionInv
    <3> QED BY <1>1, <3>1, <3>2 DEF Outstanding, Passed
  <2> QED BY <2>1, <2>2
<1>3. \A r \in Sessions \ {s} : sideband'[r] = sideband[r] /\ accepting # r
  BY <1>2 DEF IInv, TypeOK, AcceptorInv, Accept, BuildObject, ReadConnectionId
<1>4. Phase(s) = "offered" /\ Phase(s)' = "offered"
  BY <1>1, <1>2 DEF Phase, Served, Settled, Offered, Outstanding
<1>5. \A r \in Sessions \ {s} : Phase(r)' = Phase(r)
  BY <1>1, <1>2, <1>3 DEF Phase, Served, Settled, Offered, Outstanding, Passed, Made
<1> QED BY <1>1, <1>4, <1>5 DEF Pairing!vars

LEMMA PhaseEstablish ==
    ASSUME IInv, RegisterSidebandData
    PROVE  Pairing!Establish(accepting) \/ Pairing!Lose(accepting)
<1>1. UNCHANGED <<handler, accepting, sideband, loop, token>>
      /\ acceptor = "registering" /\ acceptor' = "notifying"
  BY DEF RegisterSidebandData, serverVars, loopVars
<1>2. accepting \in Sessions /\ Made(accepting) /\ Passed(accepting)
  BY <1>1 DEF IInv, TypeOK, AcceptorInv, ConnectionInv, Passed
<1>3. loop[accepting] \notin {"serving", "closed"}
  BY <1>1, <1>2 DEF IInv, AcceptorInv, LoopInv, RegistryInv, Registered
<1>4. Phase(accepting) = "offered" /\ Phase(accepting)' \in {"established", "lost"}
  BY <1>1, <1>2, <1>3 DEF Phase, Served, Settled, Offered, Outstanding, Passed, Made
<1>5. \A r \in Sessions \ {accepting} : Phase(r)' = Phase(r)
  <2>1. \A r \in Sessions \ {accepting} : ~Outstanding(r)
    BY <1>2 DEF IInv, UnitInv, Outstanding
  <2> QED BY <1>1, <2>1 DEF Phase, Served, Settled, Offered, Outstanding, Passed, Made
<1> QED BY <1>1, <1>2, <1>4, <1>5 DEF Pairing!Establish, Pairing!Lose, Pairing!Step

LEMMA PhaseNotify == ASSUME IInv, ConnectQueueNotify PROVE UNCHANGED Pairing!vars
<1>1. /\ UNCHANGED <<handler, sideband, loop, token>>
      /\ acceptor = "notifying" /\ acceptor' = "selecting" /\ accepting' = None
  BY DEF ConnectQueueNotify, loopVars
<1>2. ASSUME NEW r \in Sessions PROVE Phase(r)' = Phase(r)
  BY <1>1, RendezvousAssumption DEF IInv, TypeOK, AcceptorInv, UnitInv, Phase, Served, Settled,
                                    Offered, Outstanding,
                                    Passed, Made
<1> QED BY <1>1, <1>2 DEF Pairing!vars

LEMMA PhaseOwn == ASSUME IInv, NEW s \in Sessions, GetOwnerToken(s) PROVE Pairing!Own(s)
<1>1. UNCHANGED <<handler, sideband, accepting, acceptor>>
  BY DEF GetOwnerToken, serverVars, acceptVars
<1>2. handler[s] = "replied" /\ sid[s] > 0
  BY DEF IInv, TypeOK, LoopInv, IdInv, GetOwnerToken
<1>3. buffers[sid[s]] \in Sessions /\ sideband[buffers[sid[s]]].id = sid[s]
  BY DEF IInv, TypeOK, RegistryInv, GetOwnerToken, Registered
<1>4. buffers[sid[s]] = s
  BY <1>2, <1>3 DEF IInv, TypeOK, IdInv, ObjectIdInv
<1>5. /\ Made(s) /\ sideband[s].id >= 0
      /\ accepting = s => acceptor = "notifying"
  BY <1>2, <1>3, <1>4 DEF IInv, TypeOK, RegistryInv, GetOwnerToken, Registered, Made
<1>6. /\ token' = [token EXCEPT ![s] = s]
      /\ loop[s] = "getting" /\ loop' = [loop EXCEPT ![s] = "serving"]
  BY <1>4 DEF GetOwnerToken
<1>7. Phase(s) = "established" /\ Phase(s)' = "owned"
  <2>1. Settled(s) /\ ~Offered(s) /\ Passed(s)
    BY <1>2, <1>5 DEF Settled, Offered, Outstanding, Passed
  <2>2. Settled(s)' /\ ~Offered(s)' /\ Passed(s)'
    BY <1>1, <2>1 DEF Settled, Offered, Outstanding, Passed, Made
  <2>3. loop[s] = "getting" /\ loop'[s] = "serving"
    BY <1>6 DEF IInv, TypeOK
  <2> QED BY <2>1, <2>2, <2>3 DEF Phase, Served
<1>8. \A r \in Sessions \ {s} : Phase(r)' = Phase(r)
  BY <1>1, <1>6 DEF IInv, TypeOK, Phase, Served, Settled, Offered,
                                   Outstanding, Passed, Made
<1> QED BY <1>6, <1>7, <1>8 DEF Pairing!Own, Pairing!Step

LEMMA PhaseClose == ASSUME IInv, NEW s \in Sessions, CloseSidebandData(s) PROVE Pairing!Close(s)
<1>1. /\ UNCHANGED <<handler, accepting, acceptor, token>>
      /\ loop[s] = "serving" /\ loop' = [loop EXCEPT ![s] = "closed"]
  BY DEF CloseSidebandData, serverVars
<1>2. /\ token[s] = s /\ sideband[s].id = sid[s] /\ sideband[s].status = "live"
      /\ accepting = s => acceptor = "notifying"
  BY <1>1 DEF IInv, LoopInv, RegistryInv, Registered
<1>3. handler[s] = "replied" /\ sid[s] >= 0
  BY <1>1 DEF IInv, TypeOK, LoopInv
<1>4. \A r \in Sessions : sideband'[r].id = sideband[r].id /\ (Made(r)' <=> Made(r))
  BY <1>2 DEF IInv, TypeOK, CloseSidebandData, Object, Made
<1>5. Phase(s) = "owned" /\ Phase(s)' = "closed"
  BY <1>1, <1>2, <1>3, <1>4 DEF IInv, TypeOK, Phase, Served, Settled, Offered,
                                   Outstanding, Passed, Made
<1>6. \A r \in Sessions \ {s} : Phase(r)' = Phase(r)
  BY <1>1, <1>4 DEF IInv, TypeOK, Phase, Served, Settled, Offered,
                                   Outstanding, Passed
<1> QED BY <1>1, <1>5, <1>6 DEF Pairing!Close, Pairing!Step

\* Sessions are offered one at a time, and the thread that serves a session gets
\* the connection its own client made, once.
THEOREM RendezvousRefinesPairing == Safety => PairsSessions
<1>1. ASSUME Init PROVE Pairing!Init
  <2>1. \A s \in Sessions : Phase(s) = "new"
    BY <1>1 DEF Init, Phase, Served, Settled, Offered, Outstanding, Passed
  <2> QED BY <1>1, <2>1 DEF Init, Pairing!Init
<1>2. IInv /\ [Next]_vars => [Pairing!Next]_(Pairing!vars)
  <2> SUFFICES ASSUME IInv, [Next]_vars PROVE [Pairing!Next]_(Pairing!vars)
    OBVIOUS
  <2>1. ASSUME NEW s \in Sessions, Handler(s) PROVE [Pairing!Next]_(Pairing!vars)
    BY <2>1, PhaseStutter, PhaseOffer DEF Handler, Pairing!Next
  <2>2. ASSUME NEW s \in Sessions, Client(s) PROVE [Pairing!Next]_(Pairing!vars)
    BY <2>2, PhaseStutter
  <2>3. CASE AcceptLoop
    <3>1. CASE RegisterSidebandData
      <4>1. accepting \in Sessions
        BY <3>1 DEF IInv, TypeOK, AcceptorInv, RegisterSidebandData
      <4> QED BY <3>1, <4>1, PhaseEstablish DEF Pairing!Next
    <3> QED BY <2>3, <3>1, PhaseStutter, PhaseOffered, PhaseNotify DEF AcceptLoop
  <2>4. ASSUME NEW s \in Sessions, ServingThread(s) PROVE [Pairing!Next]_(Pairing!vars)
    BY <2>4, PhaseStutter, PhaseOwn, PhaseClose DEF ServingThread, Pairing!Next
  <2>5. CASE UNCHANGED vars
    BY <2>5 DEF vars, serverVars, acceptVars, loopVars, Pairing!vars, Phase, Served,
                Settled, Offered, Outstanding, Passed, Made
  <2> QED BY <2>1, <2>2, <2>3, <2>4, <2>5 DEF Next
<1> QED BY <1>1, <1>2, Invariance, PTL DEF Safety, PairsSessions, Pairing!Spec
=============================================================================
