------------------------- MODULE RdmaRendezvousProofs -------------------------
(***************************************************************************)
(* Proofs about RdmaRendezvous where an accept thread is done with a       *)
(* connection before the other accepts one (Prompt), for any sessions,     *)
(* parameters and failing clients.  IInv is the inductive invariant: the   *)
(* semaphore's unit, the static fields and every connection that has no    *)
(* object yet belong to one session.  Without Prompt it does not hold, and *)
(* the run RdmaAcceptRace shows what happens.                              *)
(***************************************************************************)
EXTENDS RdmaRendezvous, SequenceTheorems, TLAPS

Ids == {sideband[i].id : i \in 1 .. Len(sideband)}

\* Its object was made.
Built(s) == sid[s] \in Ids

Registering(d) == acceptor[d] \in {"registering", "notifying"}

\* The session that has the semaphore's unit: it has passed, and no accept thread
\* has notified for it.
Outstanding(s) == Passed(s) /\ (Built(s) => \E d \in Directions : Registering(d) /\ accepted[d] = s)

ObjectOf(s) == [id |-> sid[s], write |-> s, read |-> s,
                lowLatency |-> LowLatency[s], bufferSize |-> BufferSize[s]]

UnitInv == /\ gate = 1 => \A s \in Sessions : ~Outstanding(s)
           /\ gate = 0 => \E s \in Sessions : Outstanding(s)
           /\ \A r, s \in Sessions : Outstanding(r) /\ Outstanding(s) => r = s

\* What Prompt gives: one accept thread works at a time.
PromptInv == \A d, e \in Directions : acceptor[d] # "accepting" /\ acceptor[e] # "accepting" => d = e

\* Nothing of a connection in this direction is there.
Absent(d) == backlog[d] = <<>> /\ acceptor[d] = "accepting" /\ pending[d] = None

\* A client connects when it was answered; a session that has its object had both
\* connections.
ClientInv == \A s \in Sessions :
    /\ client[s] \in {"half", "connected"} => handler[s] = "replied"
    /\ Passed(s) /\ ~Outstanding(s) => handler[s] = "replied" /\ client[s] \notin {"none", "half"}

\* The accept threads and their backlogs have connections of the session that
\* has the unit, each connection in one place.
Place(d) ==
    /\ acceptor[d] # "accepting" =>
           /\ accepted[d] \in Sessions
           /\ Outstanding(accepted[d])
           /\ handler[accepted[d]] = "replied"
           /\ backlog[d] = <<>>
    /\ acceptor[d] = "storing" => pending[d] = None
    /\ acceptor[d] \in {"testing", "building", "registering", "notifying"} => pending[d] = accepted[d]
    /\ acceptor[d] \in {"building", "registering", "notifying"} => BothPending
    /\ backlog[d] # <<>> => /\ pending[d] = None
                            /\ \E s \in Sessions : /\ Outstanding(s)
                                                   /\ handler[s] = "replied"
                                                   /\ backlog[d] = <<s>>

PlaceInv == \A d \in Directions : Place(d)

\* From the moment the fields are filled they are the session's, and only its own
\* connections are in them.
FieldsInv == \A s \in Sessions : Outstanding(s) /\ handler[s] \in {"spawning", "replied"} =>
    /\ nextConnect = [lowLatency |-> LowLatency[s], bufferSize |-> BufferSize[s], id |-> sid[s]]
    /\ \A d \in Directions : pending[d] \in {None, s}
    /\ client[s] \in {"none", "half"} => Absent("receive")
    /\ client[s] = "none" => Absent("send")

IdInv == /\ nextId > 0
         /\ \A s \in Sessions : /\ sid[s] <= nextId
                                /\ handler[s] = "init" <=> sid[s] = 0
                                /\ \A r \in Sessions : sid[r] = sid[s] /\ r # s => sid[s] = 0

\* Every object is some session's, and no session has two.
ObjectInv == /\ \A i \in 1 .. Len(sideband) : \E s \in Sessions : Passed(s) /\ sideband[i] = ObjectOf(s)
             /\ \A i, j \in 1 .. Len(sideband) : sideband[i].id = sideband[j].id => i = j
             /\ \A d \in Directions : Registering(d) => /\ made[d] \in 1 .. Len(sideband)
                                                        /\ sideband[made[d]].id = sid[accepted[d]]

\* An accept thread has still to register the object.
Unregistered(i) == \E d \in Directions : acceptor[d] = "registering" /\ made[d] = i

RegistryInv == \A id \in DOMAIN buffers : /\ sideband[buffers[id]].id = id
                                          /\ ~Unregistered(buffers[id])

LoopInv == \A s \in Sessions :
    /\ loop[s] = "none" <=> handler[s] # "replied"
    /\ loop[s] \in {"none", "getting"} <=> token[s] = 0
    /\ loop[s] \in {"serving", "closed"} => /\ sideband[token[s]].id = sid[s]
                                            /\ ~Unregistered(token[s])

IInv == /\ TypeOK /\ UnitInv /\ PromptInv /\ ClientInv /\ PlaceInv /\ FieldsInv /\ IdInv /\ ObjectInv
        /\ RegistryInv /\ LoopInv

-----------------------------------------------------------------------------

LEMMA TwoDirections == /\ "send" \in Directions /\ "receive" \in Directions
                       /\ \A d \in Directions : d = "send" \/ d = "receive"
                       /\ \A d \in Directions : Other(d) \in Directions /\ Other(d) # d
                       /\ \A d, e \in Directions : e # d => e = Other(d)
<1>1. /\ "send" \in Directions /\ "receive" \in Directions
      /\ \A d \in Directions : d = "send" \/ d = "receive"
  BY DEF Directions
<1>2. ASSUME NEW d \in Directions PROVE Other(d) \in Directions /\ Other(d) # d
  <2>1. \E e \in Directions : e # d
    BY DEF Directions
  <2> QED BY <2>1 DEF Other
<1> QED BY <1>1, <1>2

\* The session an accept thread works for is the only one outstanding, and the
\* other thread waits for a connection.
LEMMA Working ==
  ASSUME IInv, NEW d \in Directions, acceptor[d] # "accepting"
  PROVE  /\ accepted[d] \in Sessions
         /\ Outstanding(accepted[d])
         /\ handler[accepted[d]] = "replied"
         /\ \A s \in Sessions : Outstanding(s) => s = accepted[d]
         /\ gate = 0
         /\ \A e \in Directions : e # d => acceptor[e] = "accepting"
<1>1. accepted[d] \in Sessions /\ Outstanding(accepted[d]) /\ handler[accepted[d]] = "replied"
  BY DEF IInv, PlaceInv, Place
<1>2. \A s \in Sessions : Outstanding(s) => s = accepted[d]
  BY <1>1 DEF IInv, UnitInv
<1>3. gate = 0
  BY <1>1 DEF IInv, UnitInv, TypeOK
<1>4. \A e \in Directions : e # d => acceptor[e] = "accepting"
  BY DEF IInv, PromptInv
<1> QED BY <1>1, <1>2, <1>3, <1>4

\* A session that has passed and has not been answered is outstanding, and no
\* accept thread has anything to do.
LEMMA NotAnswered ==
  ASSUME IInv, NEW s \in Sessions, handler[s] \in {"filling", "spawning"}
  PROVE  /\ Outstanding(s)
         /\ client[s] \in {"none", "gone"}
         /\ \A r \in Sessions : Outstanding(r) => r = s
         /\ \A d \in Directions : acceptor[d] = "accepting" /\ backlog[d] = <<>>
<1>1. Outstanding(s)
  BY DEF IInv, ClientInv, Passed
<1>2. client[s] \in {"none", "gone"}
  BY DEF IInv, ClientInv, TypeOK
<1>3. \A r \in Sessions : Outstanding(r) => r = s
  BY <1>1 DEF IInv, UnitInv
<1>4. \A d \in Directions : acceptor[d] = "accepting" /\ backlog[d] = <<>>
  BY <1>3 DEF IInv, PlaceInv, Place
<1> QED BY <1>1, <1>2, <1>3, <1>4

\* Every action preserves IInv

LEMMA InitInv == ASSUME Init PROVE IInv
<1>1. Ids = {}
  BY DEF Init, Ids
<1>2. TypeOK
  BY EmptySeq DEF Init, TypeOK, RegistryInit
<1>3. UnitInv /\ ClientInv /\ FieldsInv
  BY DEF Init, UnitInv, ClientInv, FieldsInv, Outstanding, Passed
<1>4. PromptInv /\ PlaceInv
  BY DEF Init, PromptInv, PlaceInv, Place
<1>5. IdInv
  BY DEF Init, IdInv
<1>6. ObjectInv
  BY DEF Init, ObjectInv, Registering
<1>7. RegistryInv /\ LoopInv
  BY DEF Init, RegistryInv, LoopInv, RegistryInit
<1> QED BY <1>2, <1>3, <1>4, <1>5, <1>6, <1>7 DEF IInv

LEMMA InitOwnerStep == ASSUME IInv, NEW s \in Sessions, InitOwner(s) PROVE IInv'
<1>1. TypeOK'
  BY SMTT(30) DEF IInv, TypeOK, InitOwner, staticVars, clientVars, acceptVars, loopVars, registry, Object
<1>2. /\ UNCHANGED <<gate, nextConnect, pending, client, backlog, acceptor, accepted, sideband, made, loop,
                     token, buffers, sleepers>>
      /\ Ids' = Ids
      /\ \A r \in Sessions : r # s => sid'[r] = sid[r] /\ handler'[r] = handler[r]
      /\ handler[s] = "init" /\ handler'[s] = "queueing" /\ sid'[s] = nextId + 1 /\ nextId' = nextId + 1
  BY DEF IInv, TypeOK, InitOwner, staticVars, clientVars, acceptVars, loopVars, registry, Ids
<1>3. \A r \in Sessions : /\ Passed(r)' <=> Passed(r)
                          /\ Passed(r) => r # s
                          /\ Outstanding(r)' <=> Outstanding(r)
  BY <1>2 DEF Passed, Outstanding, Built, Registering
<1>4. UnitInv' /\ PromptInv' /\ ClientInv'
  BY <1>2, <1>3 DEF IInv, UnitInv, PromptInv, ClientInv
<1>5. PlaceInv'
  BY <1>2, <1>3 DEF IInv, PlaceInv, Place, BothPending
<1>6. FieldsInv'
  BY <1>2, <1>3 DEF IInv, FieldsInv, Absent
<1>7. IdInv'
  BY <1>2 DEF IInv, TypeOK, IdInv
<1>8. ObjectInv'
  <2>1. \A r \in Sessions : Passed(r) => ObjectOf(r)' = ObjectOf(r)
    BY <1>2, <1>3 DEF ObjectOf
  <2>2. \A d \in Directions : Registering(d) => accepted[d] # s /\ accepted[d] \in Sessions
    BY <1>2 DEF IInv, PlaceInv, Place, Registering
  <2> QED BY <1>2, <1>3, <2>1, <2>2 DEF IInv, ObjectInv, Registering
<1>9. RegistryInv' /\ LoopInv'
  BY <1>2 DEF IInv, TypeOK, RegistryInv, LoopInv, Unregistered
<1> QED BY <1>1, <1>4, <1>5, <1>6, <1>7, <1>8, <1>9 DEF IInv

LEMMA ConnectQueueWaitStep == ASSUME IInv, NEW s \in Sessions, ConnectQueueWait(s) PROVE IInv'
<1>1. TypeOK'
  BY SMTT(30) DEF IInv, TypeOK, ConnectQueueWait, staticVars, clientVars, acceptVars, loopVars, registry, Object
<1>2. /\ UNCHANGED <<nextId, sid, nextConnect, pending, client, backlog, acceptor, accepted, sideband, made, loop,
                     token, buffers, sleepers>>
      /\ Ids' = Ids
      /\ \A r \in Sessions : r # s => handler'[r] = handler[r]
      /\ handler[s] = "queueing" /\ handler'[s] = "filling"
      /\ gate = 1 /\ gate' = 0
  BY DEF IInv, TypeOK, ConnectQueueWait, staticVars, clientVars, acceptVars, loopVars, registry, Ids
<1>3. \A r \in Sessions : ~Outstanding(r)
  BY <1>2 DEF IInv, UnitInv
<1>4. sid[s] \notin Ids
  <2>1. \A r \in Sessions : Passed(r) => r # s
    BY <1>2 DEF Passed
  <2>2. sid[s] # 0
    BY <1>2 DEF IInv, IdInv
  <2>3. ASSUME NEW i \in 1 .. Len(sideband) PROVE sideband[i].id # sid[s]
    <3>1. PICK r \in Sessions : Passed(r) /\ sideband[i] = ObjectOf(r)
      BY DEF IInv, ObjectInv
    <3>2. sideband[i].id = sid[r]
      BY <3>1 DEF ObjectOf
    <3>3. r # s
      BY <2>1, <3>1
    <3> QED BY <2>2, <3>2, <3>3 DEF IInv, IdInv
  <2> QED BY <2>3 DEF Ids
<1>5. \A r \in Sessions : Outstanding(r)' <=> r = s
  BY <1>2, <1>3, <1>4 DEF Outstanding, Passed, Built, Registering
<1>6. \A d \in Directions : acceptor[d] = "accepting" /\ backlog[d] = <<>>
  BY <1>3 DEF IInv, PlaceInv, Place
<1>7. UnitInv' /\ PromptInv' /\ ClientInv'
  BY <1>2, <1>3, <1>5 DEF IInv, UnitInv, PromptInv, ClientInv, Passed
<1>8. PlaceInv' /\ FieldsInv'
  BY <1>2, <1>5, <1>6 DEF IInv, PlaceInv, Place, FieldsInv
<1>9. IdInv'
  BY <1>2 DEF IInv, IdInv
<1>10. ObjectInv'
  <2>1. \A r \in Sessions : ObjectOf(r)' = ObjectOf(r) /\ (Passed(r) => Passed(r)')
    BY <1>2 DEF ObjectOf, Passed
  <2> QED BY <1>2, <2>1 DEF IInv, ObjectInv, Registering
<1>11. RegistryInv' /\ LoopInv'
  BY <1>2 DEF IInv, RegistryInv, LoopInv, Unregistered
<1> QED BY <1>1, <1>7, <1>8, <1>9, <1>10, <1>11 DEF IInv

LEMMA FillStep == ASSUME IInv, NEW s \in Sessions, Fill(s) PROVE IInv'
<1>1. TypeOK'
  <2>1. nextConnect' \in [lowLatency : BOOLEAN, bufferSize : Nat, id : Int]
    <3>1. LowLatency[s] \in BOOLEAN /\ BufferSize[s] \in Nat
      BY RdmaAssumption
    <3>2. sid[s] \in Int
      BY DEF IInv, TypeOK
    <3>3. nextConnect' = [lowLatency |-> LowLatency[s], bufferSize |-> BufferSize[s], id |-> sid[s]]
      BY DEF Fill, FillNextConnect
    <3> QED BY <3>1, <3>2, <3>3
  <2> QED BY <2>1 DEF IInv, TypeOK, Fill, FillNextConnect, clientVars, acceptVars, loopVars, registry, Object
<1>2. /\ UNCHANGED <<nextId, sid, gate, client, backlog, acceptor, accepted, sideband, made, loop,
                     token, buffers, sleepers>>
      /\ Ids' = Ids
      /\ \A r \in Sessions : r # s => handler'[r] = handler[r]
      /\ handler[s] = "filling" /\ handler'[s] = "spawning"
      /\ pending' = [d \in Directions |-> None]
      /\ nextConnect' = [lowLatency |-> LowLatency[s], bufferSize |-> BufferSize[s], id |-> sid[s]]
  BY DEF IInv, TypeOK, Fill, FillNextConnect, clientVars, acceptVars, loopVars, registry, Ids
<1>3. /\ \A r \in Sessions : Outstanding(r) => r = s
      /\ \A d \in Directions : acceptor[d] = "accepting" /\ backlog[d] = <<>>
  BY <1>2, NotAnswered
<1>4. \A r \in Sessions : (Passed(r)' <=> Passed(r)) /\ (Outstanding(r)' <=> Outstanding(r))
  BY <1>2 DEF Passed, Outstanding, Built, Registering
<1>5. UnitInv' /\ PromptInv'
  BY <1>2, <1>4 DEF IInv, UnitInv, PromptInv
<1>6. ClientInv'
  BY <1>2, <1>3, <1>4, NotAnswered DEF IInv, ClientInv
<1>7. PlaceInv' /\ FieldsInv'
  <2>1. PlaceInv'
    BY <1>2, <1>3 DEF PlaceInv, Place
  <2>2. FieldsInv'
    BY <1>2, <1>3, <1>4, TwoDirections DEF FieldsInv, Absent
  <2> QED BY <2>1, <2>2
<1>8. IdInv'
  BY <1>2 DEF IInv, IdInv
<1>9. ObjectInv'
  <2>1. \A r \in Sessions : ObjectOf(r)' = ObjectOf(r)
    BY <1>2 DEF ObjectOf
  <2> QED BY <1>2, <1>4, <2>1 DEF IInv, ObjectInv, Registering
<1>10. RegistryInv' /\ LoopInv'
  BY <1>2 DEF IInv, RegistryInv, LoopInv, Unregistered
<1> QED BY <1>1, <1>5, <1>6, <1>7, <1>8, <1>9, <1>10 DEF IInv

LEMMA SpawnLoopStep == ASSUME IInv, NEW s \in Sessions, SpawnLoop(s) PROVE IInv'
<1>1. TypeOK'
  BY DEF IInv, TypeOK, SpawnLoop, staticVars, clientVars, acceptVars, registry, Object
<1>2. /\ UNCHANGED <<nextId, sid, gate, nextConnect, pending, client, backlog, acceptor, accepted, sideband, made,
                     token, buffers, sleepers>>
      /\ Ids' = Ids
      /\ \A r \in Sessions : r # s => handler'[r] = handler[r] /\ loop'[r] = loop[r]
      /\ handler[s] = "spawning" /\ handler'[s] = "replied" /\ loop'[s] = "getting"
  BY DEF IInv, TypeOK, SpawnLoop, staticVars, clientVars, acceptVars, registry, Ids
<1>3. \A r \in Sessions : (Passed(r)' <=> Passed(r)) /\ (Outstanding(r)' <=> Outstanding(r))
  BY <1>2 DEF Passed, Outstanding, Built, Registering
<1>4. UnitInv' /\ PromptInv' /\ ClientInv'
  BY <1>2, <1>3 DEF IInv, UnitInv, PromptInv, ClientInv
<1>5. PlaceInv'
  BY <1>2, <1>3 DEF IInv, PlaceInv, Place, BothPending
<1>6. FieldsInv'
  BY <1>2, <1>3 DEF IInv, FieldsInv, Absent
<1>7. IdInv'
  BY <1>2 DEF IInv, IdInv
<1>8. ObjectInv'
  <2>1. \A r \in Sessions : ObjectOf(r)' = ObjectOf(r)
    BY <1>2 DEF ObjectOf
  <2> QED BY <1>2, <1>3, <2>1 DEF IInv, ObjectInv, Registering
<1>9. RegistryInv' /\ LoopInv'
  BY <1>2 DEF IInv, RegistryInv, LoopInv, Unregistered
<1> QED BY <1>1, <1>4, <1>5, <1>6, <1>7, <1>8, <1>9 DEF IInv

\* A client makes its next connection, in a direction that has none.
LEMMA ConnectStep ==
  ASSUME IInv, NEW s \in Sessions, NEW d \in Directions,
         \/ d = "send" /\ client[s] = "none" /\ client' = [client EXCEPT ![s] = "half"]
         \/ d = "receive" /\ client[s] = "half" /\ client' = [client EXCEPT ![s] = "connected"],
         handler[s] = "replied",
         backlog' = [backlog EXCEPT ![d] = Append(@, s)],
         UNCHANGED <<serverVars, gate, staticVars, acceptVars, loopVars, registry>>
  PROVE  IInv'
<1>0. /\ UNCHANGED <<nextId, sid, handler, gate, nextConnect, pending, acceptor, accepted, sideband, made, loop,
                     token, buffers, sleepers>>
      /\ Ids' = Ids
  BY DEF serverVars, staticVars, acceptVars, loopVars, registry, Ids
<1>1. TypeOK'
  <2>1. backlog[d] \in Seq(Sessions)
    BY DEF IInv, TypeOK
  <2>2. Append(backlog[d], s) \in Seq(Sessions)
    BY <2>1, AppendProperties
  <2>3. backlog' \in [Directions -> Seq(Sessions)]
    BY <2>2 DEF IInv, TypeOK
  <2>4. client' \in [Sessions -> {"none", "half", "connected", "gone"}]
    BY DEF IInv, TypeOK
  <2> QED BY <1>0, <2>3, <2>4 DEF IInv, TypeOK, Object
<1>2. Outstanding(s)
  BY DEF IInv, ClientInv, Passed
<1>3. Absent(d)
  BY <1>2 DEF IInv, FieldsInv
<1>4. /\ backlog'[d] = <<s>>
      /\ \A e \in Directions : e # d => backlog'[e] = backlog[e]
  BY <1>3 DEF Absent, IInv, TypeOK
<1>5. \A r \in Sessions : (Passed(r)' <=> Passed(r)) /\ (Outstanding(r)' <=> Outstanding(r))
  BY <1>0 DEF Passed, Outstanding, Built, Registering
<1>6. UnitInv' /\ PromptInv'
  BY <1>0, <1>5 DEF IInv, UnitInv, PromptInv
<1>7. ClientInv'
  BY <1>0, <1>2, <1>5 DEF IInv, TypeOK, ClientInv
<1>8. PlaceInv'
  <2>1. Place(d)'
    BY <1>0, <1>2, <1>3, <1>4, <1>5 DEF Place, Absent
  <2>2. ASSUME NEW e \in Directions, e # d PROVE Place(e)'
    BY <1>0, <1>4, <1>5, <2>2 DEF IInv, PlaceInv, Place, BothPending
  <2> QED BY <2>1, <2>2 DEF PlaceInv
<1>9. FieldsInv'
  <2>1. \A r \in Sessions : Outstanding(r) => r = s
    BY <1>2 DEF IInv, UnitInv
  <2>2. client'[s] = "half" => d = "send"
    BY DEF IInv, TypeOK
  <2>3. client'[s] # "none"
    BY DEF IInv, TypeOK
  <2>4. client'[s] = "half" => Absent("receive")
    BY <1>2, <2>2 DEF IInv, FieldsInv
  <2>5. client'[s] = "half" => Absent("receive")'
    BY <1>0, <1>4, <2>2, <2>4, TwoDirections DEF Absent
  <2> QED BY <1>0, <1>2, <1>5, <2>1, <2>3, <2>5 DEF IInv, FieldsInv
<1>10. IdInv'
  BY <1>0 DEF IInv, IdInv
<1>11. ObjectInv'
  <2>1. \A r \in Sessions : ObjectOf(r)' = ObjectOf(r)
    BY <1>0 DEF ObjectOf
  <2> QED BY <1>0, <1>5, <2>1 DEF IInv, ObjectInv, Registering
<1>12. RegistryInv' /\ LoopInv'
  BY <1>0 DEF IInv, RegistryInv, LoopInv, Unregistered
<1> QED BY <1>1, <1>6, <1>7, <1>8, <1>9, <1>10, <1>11, <1>12 DEF IInv

LEMMA ConnectReceiveStep == ASSUME IInv, NEW s \in Sessions, ConnectReceive(s) PROVE IInv'
<1>1. "send" \in Directions /\ client[s] = "none" /\ client' = [client EXCEPT ![s] = "half"]
      /\ handler[s] = "replied" /\ backlog' = [backlog EXCEPT !["send"] = Append(@, s)]
      /\ UNCHANGED <<serverVars, gate, staticVars, acceptVars, loopVars, registry>>
  BY TwoDirections DEF ConnectReceive, ConnectTo
<1> QED BY <1>1, ConnectStep

LEMMA ConnectSendStep == ASSUME IInv, NEW s \in Sessions, ConnectSend(s) PROVE IInv'
<1>1. "receive" \in Directions /\ client[s] = "half" /\ client' = [client EXCEPT ![s] = "connected"]
      /\ backlog' = [backlog EXCEPT !["receive"] = Append(@, s)]
      /\ UNCHANGED <<serverVars, gate, staticVars, acceptVars, loopVars, registry>>
  BY TwoDirections DEF ConnectSend, ConnectTo
<1>2. handler[s] = "replied"
  BY <1>1 DEF IInv, ClientInv
<1> QED BY <1>1, <1>2, ConnectStep

LEMMA ClientFailsStep == ASSUME IInv, NEW s \in Sessions, ClientFails(s) PROVE IInv'
<1>1. TypeOK'
  BY DEF IInv, TypeOK, ClientFails, serverVars, staticVars, acceptVars, loopVars, registry, Object
<1>2. /\ UNCHANGED <<nextId, sid, handler, gate, nextConnect, pending, backlog, acceptor, accepted, sideband, made,
                     loop, token, buffers, sleepers>>
      /\ Ids' = Ids
      /\ \A r \in Sessions : r # s => client'[r] = client[r]
      /\ client'[s] = "gone"
  BY DEF IInv, TypeOK, ClientFails, serverVars, staticVars, acceptVars, loopVars, registry, Ids
<1>3. \A r \in Sessions : (Passed(r)' <=> Passed(r)) /\ (Outstanding(r)' <=> Outstanding(r))
  BY <1>2 DEF Passed, Outstanding, Built, Registering
<1>4. UnitInv' /\ PromptInv'
  BY <1>2, <1>3 DEF IInv, UnitInv, PromptInv
<1>5. ClientInv'
  BY <1>2, <1>3 DEF IInv, ClientInv
<1>6. PlaceInv'
  BY <1>2, <1>3 DEF IInv, PlaceInv, Place, BothPending
<1>7. FieldsInv'
  BY <1>2, <1>3 DEF IInv, FieldsInv, Absent
<1>8. IdInv'
  BY <1>2 DEF IInv, IdInv
<1>9. ObjectInv'
  <2>1. \A r \in Sessions : ObjectOf(r)' = ObjectOf(r)
    BY <1>2 DEF ObjectOf
  <2> QED BY <1>2, <1>3, <2>1 DEF IInv, ObjectInv, Registering
<1>10. RegistryInv' /\ LoopInv'
  BY <1>2 DEF IInv, RegistryInv, LoopInv, Unregistered
<1> QED BY <1>1, <1>4, <1>5, <1>6, <1>7, <1>8, <1>9, <1>10 DEF IInv

LEMMA AcceptStep == ASSUME Prompt, IInv, NEW d \in Directions, Accept(d) PROVE IInv'
<1>0. backlog[d] \in Seq(Sessions) /\ backlog[d] # <<>>
  BY DEF IInv, TypeOK, Accept
<1>1. TypeOK'
  <2>1. Head(backlog[d]) \in Sessions /\ Tail(backlog[d]) \in Seq(Sessions)
    BY <1>0, HeadTailProperties
  <2>2. backlog' \in [Directions -> Seq(Sessions)] /\ accepted' \in [Directions -> Sessions \cup {None}]
    BY <2>1 DEF IInv, TypeOK, Accept
  <2> QED BY <2>2 DEF IInv, TypeOK, Accept, serverVars, staticVars, loopVars, registry, Object
<1>2. /\ UNCHANGED <<nextId, sid, handler, client, gate, nextConnect, pending, sideband, made,
                     loop, token, buffers, sleepers>>
      /\ Ids' = Ids
      /\ acceptor[d] = "accepting" /\ acceptor'[d] = "storing"
      /\ accepted'[d] = Head(backlog[d]) /\ backlog'[d] = Tail(backlog[d])
      /\ \A e \in Directions : e # d => /\ acceptor[e] = "accepting" /\ acceptor'[e] = "accepting"
                                        /\ accepted'[e] = accepted[e] /\ backlog'[e] = backlog[e]
  BY TwoDirections DEF IInv, TypeOK, Accept, serverVars, staticVars, loopVars, registry, Ids
<1>3. PICK s \in Sessions : Outstanding(s) /\ handler[s] = "replied" /\ backlog[d] = <<s>>
  BY <1>0 DEF IInv, PlaceInv, Place
<1>4. accepted'[d] = s /\ backlog'[d] = <<>> /\ pending[d] = None
  <2>1. Head(<<s>>) = s /\ Tail(<<s>>) = <<>>
    OBVIOUS
  <2> QED BY <1>0, <1>2, <1>3, <2>1 DEF IInv, PlaceInv, Place
<1>5. \A r \in Sessions : (Passed(r)' <=> Passed(r)) /\ (Outstanding(r)' <=> Outstanding(r))
  BY <1>2 DEF Passed, Outstanding, Built, Registering
<1>6. UnitInv' /\ PromptInv' /\ ClientInv'
  BY <1>2, <1>5 DEF IInv, UnitInv, PromptInv, ClientInv
<1>7. PlaceInv'
  <2>1. Place(d)'
    BY <1>2, <1>3, <1>4, <1>5 DEF Place
  <2>2. ASSUME NEW e \in Directions, e # d PROVE Place(e)'
    BY <1>2, <1>5, <2>2 DEF IInv, PlaceInv, Place
  <2> QED BY <2>1, <2>2 DEF PlaceInv
<1>8. FieldsInv'
  <2>1. \A e \in Directions : Absent(e) => e # d
    BY <1>0 DEF Absent
  <2>2. \A e \in Directions : Absent(e) => Absent(e)'
    BY <1>2, <2>1 DEF Absent
  <2> QED BY <1>2, <1>5, <2>2, TwoDirections DEF IInv, FieldsInv
<1>9. IdInv'
  BY <1>2 DEF IInv, IdInv
<1>10. ObjectInv'
  <2>1. \A r \in Sessions : ObjectOf(r)' = ObjectOf(r)
    BY <1>2 DEF ObjectOf
  <2>2. \A e \in Directions : ~Registering(e)'
    BY <1>2 DEF Registering
  <2> QED BY <1>2, <1>5, <2>1, <2>2 DEF IInv, ObjectInv
<1>11. RegistryInv' /\ LoopInv'
  <2>1. \A i : ~Unregistered(i)'
    BY <1>2 DEF Unregistered
  <2> QED BY <1>2, <2>1 DEF IInv, RegistryInv, LoopInv
<1> QED BY <1>1, <1>6, <1>7, <1>8, <1>9, <1>10, <1>11 DEF IInv

LEMMA StorePendingStep == ASSUME IInv, NEW d \in Directions, StorePending(d) PROVE IInv'
<1>1. TypeOK'
  <2>1. pending' \in [Directions -> Sessions \cup {None}]
    BY DEF IInv, TypeOK, StorePending
  <2> QED BY <2>1 DEF IInv, TypeOK, StorePending, serverVars, clientVars, loopVars, registry, Object
<1>2. /\ UNCHANGED <<nextId, sid, handler, client, backlog, gate, nextConnect, accepted, sideband, made,
                     loop, token, buffers, sleepers>>
      /\ Ids' = Ids
      /\ acceptor[d] = "storing" /\ acceptor'[d] = "testing" /\ pending'[d] = accepted[d]
      /\ \A e \in Directions : e # d => acceptor'[e] = acceptor[e] /\ pending'[e] = pending[e]
  BY DEF IInv, TypeOK, StorePending, serverVars, clientVars, loopVars, registry, Ids
<1>3. /\ \A s \in Sessions : Outstanding(s) => s = accepted[d]
      /\ \A e \in Directions : e # d => acceptor[e] = "accepting"
      /\ accepted[d] \in Sessions
  BY <1>2, Working
<1>4. \A r \in Sessions : (Passed(r)' <=> Passed(r)) /\ (Outstanding(r)' <=> Outstanding(r))
  BY <1>2 DEF Passed, Outstanding, Built, Registering
<1>5. UnitInv' /\ PromptInv' /\ ClientInv'
  BY <1>2, <1>4 DEF IInv, UnitInv, PromptInv, ClientInv
<1>6. PlaceInv'
  <2>1. Place(d)'
    BY <1>2, <1>3, <1>4 DEF IInv, PlaceInv, Place
  <2>2. ASSUME NEW e \in Directions, e # d PROVE Place(e)'
    BY <1>2, <1>3, <1>4, <2>2 DEF IInv, PlaceInv, Place
  <2> QED BY <2>1, <2>2 DEF PlaceInv
<1>7. FieldsInv'
  <2>1. \A e \in Directions : Absent(e) => Absent(e)'
    BY <1>2 DEF Absent
  <2> QED BY <1>2, <1>3, <1>4, <2>1, TwoDirections DEF IInv, FieldsInv
<1>8. IdInv'
  BY <1>2 DEF IInv, IdInv
<1>9. ObjectInv'
  <2>1. \A r \in Sessions : ObjectOf(r)' = ObjectOf(r)
    BY <1>2 DEF ObjectOf
  <2>2. \A e \in Directions : ~Registering(e)'
    BY <1>2, <1>3 DEF Registering
  <2> QED BY <1>2, <1>4, <2>1, <2>2 DEF IInv, ObjectInv
<1>10. RegistryInv' /\ LoopInv'
  <2>1. \A i : ~Unregistered(i)'
    BY <1>2, <1>3 DEF Unregistered
  <2> QED BY <1>2, <2>1 DEF IInv, RegistryInv, LoopInv
<1> QED BY <1>1, <1>5, <1>6, <1>7, <1>8, <1>9, <1>10 DEF IInv

LEMMA HalfPendingStep == ASSUME IInv, NEW d \in Directions, HalfPending(d) PROVE IInv'
<1>1. TypeOK'
  BY DEF IInv, TypeOK, HalfPending, serverVars, staticVars, clientVars, loopVars, registry, Object
<1>2. /\ UNCHANGED <<nextId, sid, handler, client, backlog, gate, nextConnect, pending, sideband, made,
                     loop, token, buffers, sleepers>>
      /\ Ids' = Ids
      /\ acceptor[d] = "testing" /\ acceptor'[d] = "accepting"
      /\ \A e \in Directions : e # d => acceptor'[e] = acceptor[e] /\ accepted'[e] = accepted[e]
  BY DEF IInv, TypeOK, HalfPending, serverVars, staticVars, clientVars, loopVars, registry, Ids
<1>3. /\ \A e \in Directions : acceptor'[e] = "accepting"
      /\ \A e \in Directions : ~Registering(e)
  BY <1>2, Working DEF Registering
<1>4. \A r \in Sessions : (Passed(r)' <=> Passed(r)) /\ (Outstanding(r)' <=> Outstanding(r))
  BY <1>2, <1>3 DEF Passed, Outstanding, Built, Registering
<1>5. UnitInv' /\ PromptInv' /\ ClientInv'
  BY <1>2, <1>3, <1>4 DEF IInv, UnitInv, PromptInv, ClientInv
<1>6. PlaceInv'
  BY <1>2, <1>3, <1>4 DEF IInv, PlaceInv, Place
<1>7. FieldsInv'
  <2>1. pending["send"] = accepted[d] \/ pending["receive"] = accepted[d]
    BY <1>2, TwoDirections DEF IInv, PlaceInv, Place
  <2>2. \A e \in Directions : Absent(e) => Absent(e)'
    BY <1>2, <1>3 DEF Absent
  <2> QED BY <1>2, <1>4, <2>2, TwoDirections DEF IInv, FieldsInv
<1>8. IdInv'
  BY <1>2 DEF IInv, IdInv
<1>9. ObjectInv'
  <2>1. \A r \in Sessions : ObjectOf(r)' = ObjectOf(r)
    BY <1>2 DEF ObjectOf
  <2>2. \A e \in Directions : ~Registering(e)'
    BY <1>3 DEF Registering
  <2> QED BY <1>2, <1>4, <2>1, <2>2 DEF IInv, ObjectInv
<1>10. RegistryInv' /\ LoopInv'
  <2>1. \A i : ~Unregistered(i)'
    BY <1>3 DEF Unregistered
  <2> QED BY <1>2, <2>1 DEF IInv, RegistryInv, LoopInv
<1> QED BY <1>1, <1>5, <1>6, <1>7, <1>8, <1>9, <1>10 DEF IInv

LEMMA FullyPendingStep == ASSUME IInv, NEW d \in Directions, FullyPending(d) PROVE IInv'
<1>1. TypeOK'
  BY DEF IInv, TypeOK, FullyPending, serverVars, staticVars, clientVars, loopVars, registry, Object
<1>2. /\ UNCHANGED <<nextId, sid, handler, client, backlog, gate, nextConnect, pending, accepted, sideband, made,
                     loop, token, buffers, sleepers>>
      /\ Ids' = Ids
      /\ acceptor[d] = "testing" /\ acceptor'[d] = "building" /\ BothPending
      /\ \A e \in Directions : e # d => acceptor'[e] = acceptor[e]
  BY DEF IInv, TypeOK, FullyPending, serverVars, staticVars, clientVars, loopVars, registry, Ids
<1>3. \A e \in Directions : ~Registering(e) /\ ~Registering(e)'
  BY <1>2, Working DEF Registering
<1>4. \A r \in Sessions : (Passed(r)' <=> Passed(r)) /\ (Outstanding(r)' <=> Outstanding(r))
  BY <1>2, <1>3 DEF Passed, Outstanding, Built
<1>5. UnitInv' /\ PromptInv' /\ ClientInv'
  BY <1>2, <1>4 DEF IInv, UnitInv, PromptInv, ClientInv
<1>6. PlaceInv'
  <2>1. Place(d)'
    BY <1>2, <1>4 DEF IInv, PlaceInv, Place, BothPending
  <2>2. ASSUME NEW e \in Directions, e # d PROVE Place(e)'
    BY <1>2, <1>4, <2>2 DEF IInv, PlaceInv, Place, BothPending
  <2> QED BY <2>1, <2>2 DEF PlaceInv
<1>7. FieldsInv'
  <2>1. \A e \in Directions : Absent(e) => Absent(e)'
    BY <1>2 DEF Absent
  <2> QED BY <1>2, <1>4, <2>1, TwoDirections DEF IInv, FieldsInv
<1>8. IdInv'
  BY <1>2 DEF IInv, IdInv
<1>9. ObjectInv'
  <2>1. \A r \in Sessions : ObjectOf(r)' = ObjectOf(r)
    BY <1>2 DEF ObjectOf
  <2> QED BY <1>2, <1>3, <1>4, <2>1 DEF IInv, ObjectInv
<1>10. RegistryInv' /\ LoopInv'
  <2>1. \A i : ~Unregistered(i)'
    BY <1>3 DEF Unregistered, Registering
  <2> QED BY <1>2, <2>1 DEF IInv, RegistryInv, LoopInv
<1> QED BY <1>1, <1>5, <1>6, <1>7, <1>8, <1>9, <1>10 DEF IInv

\* The static fields hold the session's connections and parameters, and it has no object yet.
LEMMA AboutToBuild ==
  ASSUME IInv, NEW d \in Directions, acceptor[d] = "building"
  PROVE  /\ [id |-> nextConnect.id, write |-> pending["send"], read |-> pending["receive"],
             lowLatency |-> nextConnect.lowLatency, bufferSize |-> nextConnect.bufferSize]
               = ObjectOf(accepted[d])
         /\ ~Built(accepted[d])
         /\ ObjectOf(accepted[d]) \in Object
<1> DEFINE h == accepted[d]
<1>1. h \in Sessions /\ Outstanding(h) /\ handler[h] = "replied"
  BY Working
<1>2. BothPending
  BY DEF IInv, PlaceInv, Place
<1>3. \A e \in Directions : pending[e] = h
  BY <1>1, <1>2 DEF IInv, FieldsInv, BothPending
<1>4. nextConnect = [lowLatency |-> LowLatency[h], bufferSize |-> BufferSize[h], id |-> sid[h]]
  BY <1>1 DEF IInv, FieldsInv
<1>5. \A e \in Directions : ~Registering(e)
  BY Working DEF Registering
<1>6. ~Built(h)
  BY <1>1, <1>5 DEF Outstanding
<1>7. LowLatency[h] \in BOOLEAN /\ BufferSize[h] \in Nat
  BY <1>1, RdmaAssumption
<1>8. sid[h] \in Int
  BY <1>1 DEF IInv, TypeOK
<1>9. ObjectOf(h) \in Object
  BY <1>1, <1>7, <1>8 DEF ObjectOf, Object
<1> QED BY <1>3, <1>4, <1>6, <1>9, TwoDirections DEF ObjectOf

LEMMA BuildObjectStep == ASSUME IInv, NEW d \in Directions, BuildObject(d) PROVE IInv'
<1> DEFINE n == Len(sideband) + 1
<1>h. PICK h \in Sessions : h = accepted[d]
  BY Working DEF BuildObject
<1>0. /\ UNCHANGED <<nextId, sid, handler, client, backlog, gate, nextConnect, pending, accepted,
                     loop, token, buffers, sleepers>>
      /\ acceptor[d] = "building" /\ acceptor'[d] = "registering" /\ made'[d] = n
      /\ \A e \in Directions : e # d => acceptor'[e] = acceptor[e] /\ made'[e] = made[e]
      /\ sideband' = Append(sideband, ObjectOf(h))
  <2>1. acceptor[d] = "building"
    BY DEF BuildObject
  <2>2. sideband' = Append(sideband, ObjectOf(h))
    BY <2>1, <1>h, AboutToBuild DEF BuildObject
  <2> QED BY <2>1, <2>2 DEF IInv, TypeOK, BuildObject, serverVars, staticVars, clientVars, loopVars, registry
<1>1. /\ h \in Sessions /\ Outstanding(h) /\ handler[h] = "replied"
      /\ ~Built(h) /\ ObjectOf(h) \in Object
      /\ \A e \in Directions : e # d => acceptor[e] = "accepting"
  BY <1>0, <1>h, Working, AboutToBuild
<1>2. /\ Len(sideband) \in Nat /\ Len(sideband') = n
      /\ sideband' \in Seq(Object)
      /\ \A i \in 1 .. Len(sideband) : sideband'[i] = sideband[i]
      /\ sideband'[n] = ObjectOf(h)
  BY <1>0, <1>1, AppendProperties, LenProperties DEF IInv, TypeOK
<1>3. \A i \in 1 .. n : i = n \/ i \in 1 .. Len(sideband)
  BY <1>2
<1>4. TypeOK'
  <2>1. made' \in [Directions -> 0 .. n]
    BY <1>0, <1>2 DEF IInv, TypeOK, BuildObject
  <2>2. token' \in [Sessions -> 0 .. n]
    BY <1>0, <1>2 DEF IInv, TypeOK
  <2>3. buffers' \in [DOMAIN buffers -> 1 .. n]
    BY <1>0, <1>2 DEF IInv, TypeOK
  <2>4. acceptor' \in [Directions -> {"accepting", "storing", "testing", "building", "registering", "notifying"}]
    BY DEF IInv, TypeOK, BuildObject
  <2> HIDE DEF n
  <2> QED BY <1>0, <1>2, <2>1, <2>2, <2>3, <2>4 DEF IInv, TypeOK
<1>5. Ids' = Ids \cup {sid[h]}
  <2>1. ObjectOf(h).id = sid[h]
    BY DEF ObjectOf
  <2>2. n \in 1 .. n /\ \A i \in 1 .. Len(sideband) : i \in 1 .. n
    BY <1>2
  <2> HIDE DEF n
  <2> QED BY <1>2, <1>3, <2>1, <2>2 DEF Ids
<1> HIDE DEF n
<1>6. sid[h] # 0 /\ \A r \in Sessions : r # h => sid[r] # sid[h]
  BY <1>1 DEF IInv, IdInv
<1>7. \A r \in Sessions : (Passed(r)' <=> Passed(r)) /\ (Outstanding(r)' <=> Outstanding(r))
  <2>1. \A r \in Sessions : Passed(r)' <=> Passed(r)
    BY <1>0 DEF Passed
  <2>2. Outstanding(h)'
    BY <1>0, <1>1, <1>h, <2>1 DEF Outstanding, Registering
  <2>3. ASSUME NEW r \in Sessions, r # h PROVE Outstanding(r)' <=> Outstanding(r)
    <3>1. Built(r)' <=> Built(r)
      BY <1>0, <1>5, <1>6, <2>3 DEF Built
    <3>2. (\E e \in Directions : Registering(e)' /\ accepted'[e] = r)
             <=> (\E e \in Directions : Registering(e) /\ accepted[e] = r)
      BY <1>0, <1>h, <2>3 DEF Registering
    <3> QED BY <2>1, <3>1, <3>2 DEF Outstanding
  <2> QED BY <1>1, <2>1, <2>2, <2>3
<1>8. UnitInv' /\ PromptInv' /\ ClientInv'
  BY <1>0, <1>7 DEF IInv, UnitInv, PromptInv, ClientInv
<1>9. PlaceInv'
  <2>1. Place(d)'
    BY <1>0, <1>7 DEF IInv, PlaceInv, Place, BothPending
  <2>2. ASSUME NEW e \in Directions, e # d PROVE Place(e)'
    BY <1>0, <1>7, <2>2 DEF IInv, PlaceInv, Place, BothPending
  <2> QED BY <2>1, <2>2 DEF PlaceInv
<1>10. FieldsInv'
  <2>1. \A e \in Directions : Absent(e) => Absent(e)'
    BY <1>0 DEF Absent
  <2> QED BY <1>0, <1>7, <2>1, TwoDirections DEF IInv, FieldsInv
<1>11. IdInv'
  BY <1>0 DEF IInv, IdInv
<1>12. ObjectInv'
  <2>1. \A r \in Sessions : ObjectOf(r)' = ObjectOf(r)
    BY <1>0 DEF ObjectOf
  <2>2. \A i \in 1 .. n : \E r \in Sessions : Passed(r)' /\ sideband'[i] = ObjectOf(r)'
    <3>1. Passed(h)'
      BY <1>1, <1>7 DEF Outstanding
    <3> QED BY <1>1, <1>2, <1>3, <1>7, <2>1, <3>1 DEF IInv, ObjectInv
  <2>3. \A i \in 1 .. Len(sideband) : sideband'[i].id # sideband'[n].id
    BY <1>1, <1>2 DEF Built, Ids, ObjectOf
  <2>4. \A i, j \in 1 .. n : sideband'[i].id = sideband'[j].id => i = j
    BY <1>2, <1>3, <2>3 DEF IInv, ObjectInv
  <2>5. \A e \in Directions : Registering(e)' => e = d
    BY <1>0, <1>1 DEF Registering
  <2>6. made'[d] \in 1 .. n /\ sideband'[made'[d]].id = sid'[accepted'[d]]
    BY <1>0, <1>2, <1>h DEF ObjectOf, n
  <2> QED BY <1>2, <2>2, <2>4, <2>5, <2>6 DEF ObjectInv
<1>13. RegistryInv' /\ LoopInv'
  <2>1. \A i \in 1 .. Len(sideband) : ~Unregistered(i)'
    BY <1>0, <1>1, <1>2 DEF Unregistered, n
  <2>2. RegistryInv'
    BY <1>0, <1>2, <2>1 DEF IInv, TypeOK, RegistryInv
  <2>3. \A r \in Sessions : loop[r] \in {"serving", "closed"} => token[r] \in 1 .. Len(sideband)
    <3>1. \A r \in Sessions : token[r] \in 0 .. Len(sideband)
      BY DEF IInv, TypeOK
    <3>2. \A r \in Sessions : loop[r] \in {"serving", "closed"} => token[r] # 0
      BY DEF IInv, LoopInv
    <3> QED BY <1>2, <3>1, <3>2
  <2>4. LoopInv'
    BY <1>0, <1>2, <2>1, <2>3 DEF IInv, LoopInv
  <2> QED BY <2>2, <2>4
<1> QED BY <1>4, <1>8, <1>9, <1>10, <1>11, <1>12, <1>13 DEF IInv

\* The object has an id of its own, and it is not registered.
LEMMA AboutToRegister ==
  ASSUME IInv, NEW d \in Directions, acceptor[d] = "registering"
  PROVE  /\ made[d] \in 1 .. Len(sideband)
         /\ sideband[made[d]].id = sid[accepted[d]]
         /\ ~Registered(sideband[made[d]].id)
         /\ \A i \in 1 .. Len(sideband) : Unregistered(i) <=> i = made[d]
<1>1. made[d] \in 1 .. Len(sideband) /\ sideband[made[d]].id = sid[accepted[d]]
  BY DEF IInv, ObjectInv, Registering
<1>2. \A i \in 1 .. Len(sideband) : Unregistered(i) <=> i = made[d]
  BY Working DEF Unregistered
<1>3. ASSUME Registered(sideband[made[d]].id) PROVE FALSE
  <2> DEFINE id == sideband[made[d]].id
  <2>1. id \in DOMAIN buffers
    BY <1>3 DEF Registered
  <2>2. /\ buffers[id] \in 1 .. Len(sideband)
        /\ sideband[buffers[id]].id = id
        /\ ~Unregistered(buffers[id])
    BY <2>1 DEF IInv, TypeOK, RegistryInv
  <2>3. buffers[id] = made[d]
    BY <1>1, <2>2 DEF IInv, ObjectInv
  <2> QED BY <1>1, <1>2, <2>2, <2>3
<1> QED BY <1>1, <1>2, <1>3

LEMMA RegisterSidebandDataStep == ASSUME IInv, NEW d \in Directions, RegisterSidebandData(d) PROVE IInv'
<1> DEFINE id == sideband[made[d]].id
<1>0. acceptor[d] = "registering"
  BY DEF RegisterSidebandData
<1>1. made[d] \in 1 .. Len(sideband) /\ ~Registered(id)
      /\ \A i \in 1 .. Len(sideband) : Unregistered(i) <=> i = made[d]
  BY <1>0, AboutToRegister
<1>2. /\ UNCHANGED <<nextId, sid, handler, client, backlog, gate, nextConnect, pending, accepted, sideband, made,
                     loop, token>>
      /\ Ids' = Ids
      /\ acceptor'[d] = "notifying"
      /\ \A e \in Directions : e # d => acceptor'[e] = "accepting"
      /\ \A e \in Directions : e # d => acceptor[e] = "accepting"
  BY <1>0, Working DEF IInv, TypeOK, RegisterSidebandData, serverVars, staticVars, clientVars, loopVars, Ids
<1>3. /\ DOMAIN buffers' = DOMAIN buffers \cup {id}
      /\ buffers'[id] = made[d]
      /\ \A i \in DOMAIN buffers : buffers'[i] = buffers[i]
      /\ buffers' = [i \in DOMAIN buffers' |-> buffers'[i]]
      /\ sleepers' = {}
  BY <1>1 DEF RegisterSidebandData, Register, Emplace, Registered
<1>4. TypeOK'
  <2>1. sideband[made[d]] \in Object
    BY <1>1 DEF IInv, TypeOK
  <2>2. id \in Int
    BY <2>1 DEF Object
  <2>3. DOMAIN buffers' \subseteq Int
    BY <1>3, <2>2 DEF IInv, TypeOK
  <2>4. \A i \in DOMAIN buffers' : buffers'[i] \in 1 .. Len(sideband)
    BY <1>1, <1>3 DEF IInv, TypeOK
  <2>5. buffers' \in [DOMAIN buffers' -> 1 .. Len(sideband)]
    BY <1>3, <2>4
  <2>6. acceptor' \in [Directions -> {"accepting", "storing", "testing", "building", "registering", "notifying"}]
    BY DEF IInv, TypeOK, RegisterSidebandData
  <2> QED BY <1>2, <1>3, <2>3, <2>5, <2>6 DEF IInv, TypeOK
<1>5. \A e \in Directions : Registering(e)' <=> Registering(e)
  BY <1>0, <1>2 DEF Registering
<1>6. \A r \in Sessions : (Passed(r)' <=> Passed(r)) /\ (Outstanding(r)' <=> Outstanding(r))
  BY <1>2, <1>5 DEF Passed, Outstanding, Built
<1>7. UnitInv' /\ PromptInv' /\ ClientInv'
  BY <1>2, <1>6 DEF IInv, UnitInv, PromptInv, ClientInv
<1>8. PlaceInv'
  <2>1. Place(d)'
    BY <1>0, <1>2, <1>6 DEF IInv, PlaceInv, Place, BothPending
  <2>2. ASSUME NEW e \in Directions, e # d PROVE Place(e)'
    BY <1>2, <1>6, <2>2 DEF IInv, PlaceInv, Place, BothPending
  <2> QED BY <2>1, <2>2 DEF PlaceInv
<1>9. FieldsInv'
  <2>1. \A e \in Directions : Absent(e) => Absent(e)'
    BY <1>0, <1>2 DEF Absent
  <2> QED BY <1>2, <1>6, <2>1, TwoDirections DEF IInv, FieldsInv
<1>10. IdInv'
  BY <1>2 DEF IInv, IdInv
<1>11. ObjectInv'
  <2>1. \A r \in Sessions : ObjectOf(r)' = ObjectOf(r)
    BY <1>2 DEF ObjectOf
  <2> QED BY <1>2, <1>5, <1>6, <2>1 DEF IInv, ObjectInv
<1>12. RegistryInv' /\ LoopInv'
  <2>1. \A i : ~Unregistered(i)'
    BY <1>2 DEF Unregistered
  <2>2. RegistryInv'
    BY <1>2, <1>3, <2>1 DEF IInv, RegistryInv
  <2>3. LoopInv'
    BY <1>2, <2>1 DEF IInv, LoopInv
  <2> QED BY <2>2, <2>3
<1> QED BY <1>4, <1>7, <1>8, <1>9, <1>10, <1>11, <1>12 DEF IInv

LEMMA ConnectQueueNotifyStep == ASSUME IInv, NEW d \in Directions, ConnectQueueNotify(d) PROVE IInv'
<1>h. PICK h \in Sessions : h = accepted[d] /\ Outstanding(h) /\ handler[h] = "replied"
  BY Working DEF ConnectQueueNotify, AcceptAgain
<1>0. acceptor[d] = "notifying"
  BY DEF ConnectQueueNotify, AcceptAgain
<1>1. /\ UNCHANGED <<nextId, sid, handler, client, backlog, nextConnect, pending, sideband, loop, token,
                     buffers, sleepers>>
      /\ Ids' = Ids
      /\ gate = 0 /\ gate' = 1
      /\ \A e \in Directions : acceptor'[e] = "accepting"
      /\ \A e \in Directions : e # d => acceptor[e] = "accepting"
      /\ \A r \in Sessions : Outstanding(r) => r = h
  BY <1>0, <1>h, Working DEF IInv, TypeOK, ConnectQueueNotify, AcceptAgain, serverVars, staticVars, clientVars,
     loopVars, registry, Ids
<1>2. /\ made[d] \in 1 .. Len(sideband)
      /\ sideband[made[d]].id = sid[h]
      /\ \A e \in Directions : pending[e] # None
      /\ backlog[d] = <<>>
  BY <1>0, <1>h DEF IInv, ObjectInv, Registering, PlaceInv, Place, BothPending
<1>3. TypeOK'
  <2>1. made' \in [Directions -> 0 .. Len(sideband)]
    <3>1. 0 \in 0 .. Len(sideband)
      BY LenProperties DEF IInv, TypeOK
    <3>2. made \in [Directions -> 0 .. Len(sideband)] /\ made' = [made EXCEPT ![d] = 0]
      BY DEF IInv, TypeOK, ConnectQueueNotify, AcceptAgain
    <3> QED BY <3>1, <3>2
  <2>2. accepted' \in [Directions -> Sessions \cup {None}]
    BY DEF IInv, TypeOK, ConnectQueueNotify, AcceptAgain
  <2>3. acceptor' \in [Directions -> {"accepting", "storing", "testing", "building", "registering", "notifying"}]
    BY DEF IInv, TypeOK, ConnectQueueNotify, AcceptAgain
  <2> QED BY <1>1, <2>1, <2>2, <2>3 DEF IInv, TypeOK
<1>4. Built(h)
  BY <1>2 DEF Built, Ids
<1>5. \A r \in Sessions : (Passed(r)' <=> Passed(r)) /\ ~Outstanding(r)'
  <2>1. \A r \in Sessions : Passed(r)' <=> Passed(r)
    BY <1>1 DEF Passed
  <2>2. \A r \in Sessions : Built(r)' <=> Built(r)
    BY <1>1 DEF Built
  <2>3. \A e \in Directions : ~Registering(e)'
    BY <1>1 DEF Registering
  <2>4. ASSUME NEW r \in Sessions PROVE Passed(r) => Built(r)
    BY <1>1, <1>4 DEF Outstanding
  <2> QED BY <2>1, <2>2, <2>3, <2>4 DEF Outstanding
<1>6. UnitInv' /\ PromptInv'
  BY <1>1, <1>5 DEF UnitInv, PromptInv
<1>7. ClientInv'
  <2>1. client[h] \notin {"none", "half"}
    BY <1>2, <1>h, TwoDirections DEF IInv, FieldsInv, Absent
  <2>2. ASSUME NEW r \in Sessions, Passed(r) PROVE handler[r] = "replied" /\ client[r] \notin {"none", "half"}
    BY <1>1, <1>h, <2>1, <2>2 DEF IInv, ClientInv
  <2> QED BY <1>1, <1>5, <2>2 DEF IInv, ClientInv
<1>8. PlaceInv'
  <2>1. \A e \in Directions : backlog[e] = <<>>
    BY <1>2 DEF IInv, PlaceInv, Place
  <2> QED BY <1>1, <2>1 DEF PlaceInv, Place
<1>9. FieldsInv'
  BY <1>5 DEF FieldsInv
<1>10. IdInv'
  BY <1>1 DEF IInv, IdInv
<1>11. ObjectInv'
  <2>1. \A r \in Sessions : ObjectOf(r)' = ObjectOf(r)
    BY <1>1 DEF ObjectOf
  <2>2. \A e \in Directions : ~Registering(e)'
    BY <1>1 DEF Registering
  <2> QED BY <1>1, <1>5, <2>1, <2>2 DEF IInv, ObjectInv
<1>12. RegistryInv' /\ LoopInv'
  <2>1. \A i : ~Unregistered(i)'
    BY <1>1 DEF Unregistered
  <2> QED BY <1>1, <2>1 DEF IInv, RegistryInv, LoopInv
<1> QED BY <1>3, <1>6, <1>7, <1>8, <1>9, <1>10, <1>11, <1>12 DEF IInv

\* What the serving threads do leaves all but the registry and themselves alone.
LEMMA ServingStep ==
  ASSUME IInv, UNCHANGED <<serverVars, gate, staticVars, clientVars, acceptVars>>
  PROVE  UnitInv' /\ PromptInv' /\ ClientInv' /\ PlaceInv' /\ FieldsInv' /\ IdInv' /\ ObjectInv'
<1>1. /\ UNCHANGED <<nextId, sid, handler, client, backlog, gate, nextConnect, pending, acceptor, accepted,
                     sideband, made>>
      /\ Ids' = Ids
  BY DEF serverVars, staticVars, clientVars, acceptVars, Ids
<1>2. \A r \in Sessions : (Passed(r)' <=> Passed(r)) /\ (Outstanding(r)' <=> Outstanding(r))
  BY <1>1 DEF Passed, Outstanding, Built, Registering
<1>3. UnitInv' /\ PromptInv' /\ ClientInv'
  BY <1>1, <1>2 DEF IInv, UnitInv, PromptInv, ClientInv
<1>4. PlaceInv'
  BY <1>1, <1>2 DEF IInv, PlaceInv, Place, BothPending
<1>5. FieldsInv'
  BY <1>1, <1>2 DEF IInv, FieldsInv, Absent
<1>6. IdInv'
  BY <1>1 DEF IInv, IdInv
<1>7. ObjectInv'
  <2>1. \A r \in Sessions : ObjectOf(r)' = ObjectOf(r)
    BY <1>1 DEF ObjectOf
  <2> QED BY <1>1, <1>2, <2>1 DEF IInv, ObjectInv, Registering
<1> QED BY <1>3, <1>4, <1>5, <1>6, <1>7

\* The object a serving thread finds is its session's.
LEMMA FoundObject ==
  ASSUME IInv, NEW s \in Sessions, Registered(sid[s])
  PROVE  LET i == buffers[sid[s]]
         IN  i \in 1 .. Len(sideband) /\ sideband[i].id = sid[s] /\ ~Unregistered(i)
BY DEF IInv, TypeOK, RegistryInv, Registered

LEMMA GetOwnerTokenStep == ASSUME IInv, NEW s \in Sessions, GetOwnerToken(s) PROVE IInv'
<1> DEFINE i == buffers[sid[s]]
<1>1. i \in 1 .. Len(sideband) /\ sideband[i].id = sid[s] /\ ~Unregistered(i)
  BY FoundObject DEF GetOwnerToken
<1> HIDE DEF i
<1>2. /\ UNCHANGED <<serverVars, gate, staticVars, clientVars, acceptVars, registry>>
      /\ loop[s] = "getting"
      /\ token' = [token EXCEPT ![s] = i] /\ loop' = [loop EXCEPT ![s] = "serving"]
  BY DEF GetOwnerToken, i
<1>3. /\ UNCHANGED <<nextId, sid, handler, client, backlog, gate, nextConnect, pending, acceptor, accepted,
                     sideband, made, buffers, sleepers>>
  BY <1>2 DEF serverVars, staticVars, clientVars, acceptVars, registry
<1>4. TypeOK'
  <2>1. token' \in [Sessions -> 0 .. Len(sideband)]
    <3>1. i \in 0 .. Len(sideband)
      BY <1>1
    <3> QED BY <1>2, <3>1 DEF IInv, TypeOK
  <2>2. loop' \in [Sessions -> {"none", "getting", "serving", "closed"}]
    BY <1>2 DEF IInv, TypeOK
  <2> QED BY <1>3, <2>1, <2>2 DEF IInv, TypeOK, Object
<1>5. UnitInv' /\ PromptInv' /\ ClientInv' /\ PlaceInv' /\ FieldsInv' /\ IdInv' /\ ObjectInv'
  BY <1>2, ServingStep
<1>6. \A j : Unregistered(j)' <=> Unregistered(j)
  BY <1>3 DEF Unregistered
<1>7. RegistryInv'
  BY <1>3, <1>6 DEF IInv, RegistryInv
<1>8. LoopInv'
  <2>1. \A r \in Sessions : r # s => loop'[r] = loop[r] /\ token'[r] = token[r]
    BY <1>2 DEF IInv, TypeOK
  <2>2. loop'[s] = "serving" /\ token'[s] = i /\ i # 0
    BY <1>1, <1>2 DEF IInv, TypeOK
  <2> QED BY <1>1, <1>2, <1>3, <1>6, <2>1, <2>2 DEF IInv, LoopInv
<1> QED BY <1>4, <1>5, <1>7, <1>8 DEF IInv

LEMMA AwaitOwnerTokenStep == ASSUME IInv, NEW s \in Sessions, AwaitOwnerToken(s) PROVE IInv'
<1>1. /\ UNCHANGED <<serverVars, gate, staticVars, clientVars, acceptVars, loopVars, buffers>>
      /\ sleepers' = sleepers \cup {s}
  BY DEF AwaitOwnerToken, SleepUntilRegistered
<1>2. UNCHANGED <<nextId, sid, handler, client, backlog, gate, nextConnect, pending, acceptor, accepted,
                  sideband, made, loop, token, buffers>>
  BY <1>1 DEF serverVars, staticVars, clientVars, acceptVars, loopVars
<1>3. TypeOK'
  BY <1>1, <1>2 DEF IInv, TypeOK, Object
<1>4. RegistryInv' /\ LoopInv'
  BY <1>2 DEF IInv, RegistryInv, LoopInv, Unregistered
<1> QED BY <1>1, <1>3, <1>4, ServingStep DEF IInv

LEMMA WakeUnnotifiedStep == ASSUME IInv, NEW s \in Sessions, WakeUnnotified(s) PROVE IInv'
<1>1. /\ UNCHANGED <<serverVars, gate, staticVars, clientVars, acceptVars, loopVars, buffers>>
      /\ sleepers' = sleepers \ {s}
  BY DEF WakeUnnotified, SpuriousWakeup
<1>2. UNCHANGED <<nextId, sid, handler, client, backlog, gate, nextConnect, pending, acceptor, accepted,
                  sideband, made, loop, token, buffers>>
  BY <1>1 DEF serverVars, staticVars, clientVars, acceptVars, loopVars
<1>3. TypeOK'
  BY <1>1, <1>2 DEF IInv, TypeOK, Object
<1>4. RegistryInv' /\ LoopInv'
  BY <1>2 DEF IInv, RegistryInv, LoopInv, Unregistered
<1> QED BY <1>1, <1>3, <1>4, ServingStep DEF IInv

LEMMA CloseSidebandDataStep == ASSUME IInv, NEW s \in Sessions, CloseSidebandData(s) PROVE IInv'
<1>1. /\ UNCHANGED <<serverVars, gate, staticVars, clientVars, acceptVars, token, sleepers>>
      /\ loop[s] = "serving" /\ loop' = [loop EXCEPT ![s] = "closed"]
      /\ DOMAIN buffers' \subseteq DOMAIN buffers
      /\ \A id \in DOMAIN buffers' : buffers'[id] = buffers[id]
      /\ buffers' = [id \in DOMAIN buffers' |-> buffers'[id]]
  BY DEF CloseSidebandData, Erase
<1>2. UNCHANGED <<nextId, sid, handler, client, backlog, gate, nextConnect, pending, acceptor, accepted,
                  sideband, made>>
  BY <1>1 DEF serverVars, staticVars, clientVars, acceptVars
<1>3. TypeOK'
  <2>1. \A id \in DOMAIN buffers' : buffers'[id] \in 1 .. Len(sideband)
    BY <1>1 DEF IInv, TypeOK
  <2>2. buffers' \in [DOMAIN buffers' -> 1 .. Len(sideband)]
    BY <1>1, <2>1
  <2>3. loop' \in [Sessions -> {"none", "getting", "serving", "closed"}]
    BY <1>1 DEF IInv, TypeOK
  <2>4. DOMAIN buffers' \subseteq Int
    BY <1>1 DEF IInv, TypeOK
  <2> QED BY <1>1, <1>2, <2>2, <2>3, <2>4 DEF IInv, TypeOK
<1>4. \A j : Unregistered(j)' <=> Unregistered(j)
  BY <1>2 DEF Unregistered
<1>5. RegistryInv'
  BY <1>1, <1>2, <1>4 DEF IInv, RegistryInv
<1>6. LoopInv'
  <2>1. \A r \in Sessions : r # s => loop'[r] = loop[r]
    BY <1>1 DEF IInv, TypeOK
  <2>2. loop'[s] = "closed"
    BY <1>1 DEF IInv, TypeOK
  <2> QED BY <1>1, <1>2, <1>4, <2>1, <2>2 DEF IInv, LoopInv
<1> QED BY <1>1, <1>3, <1>5, <1>6, ServingStep DEF IInv

LEMMA StutterStep == ASSUME IInv, UNCHANGED vars PROVE IInv'
<1>1. UNCHANGED <<serverVars, gate, staticVars, clientVars, acceptVars, loopVars, registry>>
  BY DEF vars
<1>2. UNCHANGED <<nextId, sid, handler, client, backlog, gate, nextConnect, pending, acceptor, accepted,
                  sideband, made, loop, token, buffers, sleepers>>
  BY <1>1 DEF serverVars, staticVars, clientVars, acceptVars, loopVars, registry
<1>3. TypeOK'
  BY <1>2 DEF IInv, TypeOK, Object
<1>4. RegistryInv' /\ LoopInv'
  BY <1>2 DEF IInv, RegistryInv, LoopInv, Unregistered
<1> QED BY <1>1, <1>3, <1>4, ServingStep DEF IInv

\* The invariant the theorems below rest on.
THEOREM Invariance == Prompt /\ Safety => []IInv
<1> SUFFICES ASSUME Prompt PROVE Safety => []IInv
  OBVIOUS
<1>1. Init => IInv
  BY InitInv
<1>2. ASSUME IInv, Next PROVE IInv'
  <2>1. ASSUME NEW s \in Sessions, Handler(s) PROVE IInv'
    BY <1>2, <2>1, InitOwnerStep, ConnectQueueWaitStep, FillStep, SpawnLoopStep DEF Handler
  <2>2. ASSUME NEW s \in Sessions, Client(s) PROVE IInv'
    BY <1>2, <2>2, ConnectReceiveStep, ConnectSendStep, ClientFailsStep DEF Client
  <2>3. ASSUME NEW s \in Sessions, ServingThread(s) PROVE IInv'
    BY <1>2, <2>3, GetOwnerTokenStep, AwaitOwnerTokenStep, WakeUnnotifiedStep, CloseSidebandDataStep
       DEF ServingThread
  <2>4. ASSUME NEW d \in Directions, AcceptThread(d) PROVE IInv'
    BY <1>2, <2>4, AcceptStep, StorePendingStep, HalfPendingStep, FullyPendingStep, BuildObjectStep,
       RegisterSidebandDataStep, ConnectQueueNotifyStep DEF AcceptThread
  <2> QED BY <1>2, <2>1, <2>2, <2>3, <2>4 DEF Next
<1>3. IInv /\ [Next]_vars => IInv'
  BY <1>2, StutterStep
<1> QED BY <1>1, <1>3, PTL DEF Safety

\* The variables keep their types; in particular the count of _rdmaConnectQueue is
\* never above one.
THEOREM TypeCorrect == Prompt /\ Safety => []TypeOK
<1>1. IInv => TypeOK
  BY DEF IInv
<1> QED BY <1>1, Invariance, PTL

\* No handler writes the static fields while an accept thread stores in them, tests
\* them or builds from them, and no two handlers write them at once.
THEOREM FieldsAreNotRaced == Prompt /\ Safety => []FieldsNotRaced
<1>1. ASSUME IInv, NEW s \in Sessions, handler[s] = "filling"
      PROVE  /\ \A d \in Directions : acceptor[d] \notin {"storing", "testing", "building"}
             /\ \A r \in Sessions : handler[r] = "filling" => r = s
  BY <1>1, NotAnswered
<1>2. IInv => FieldsNotRaced
  BY <1>1 DEF FieldsNotRaced
<1> QED BY <1>2, Invariance, PTL

\* RegisterSidebandData never meets an id that is registered: one object is made for
\* a session, by the thread that stores the second of its connections.
THEOREM ObjectsRegisterOnce == Prompt /\ Safety => []NewIdUnregistered
<1>1. IInv => NewIdUnregistered
  BY AboutToRegister DEF NewIdUnregistered
<1> QED BY <1>1, Invariance, PTL

\* An object has the two connections of one client, and the parameters and the id of
\* that client's session.
THEOREM ObjectsJoinOneSession == Prompt /\ Safety => []JoinsOneSession
<1>1. IInv => JoinsOneSession
  BY DEF IInv, ObjectInv, ObjectOf, JoinsOneSession
<1> QED BY <1>1, Invariance, PTL

-----------------------------------------------------------------------------
(* RdmaRendezvous implements SessionPairing *)

LEMMA EstablishedOrUnregistered == \A s : Established(s) <=> \E i \in 1 .. Len(sideband) :
                                              sideband[i].id = sid[s] /\ ~Unregistered(i)
BY DEF Established, Unregistered

\* A session that is offered has the unit.
LEMMA OfferedIsOutstanding ==
  ASSUME IInv, NEW s \in Sessions, Passed(s), ~Established(s)
  PROVE  Outstanding(s)
<1> SUFFICES ASSUME Built(s) PROVE \E d \in Directions : Registering(d) /\ accepted[d] = s
  BY DEF Outstanding
<1>1. PICK i \in 1 .. Len(sideband) : sideband[i].id = sid[s]
  BY DEF Built, Ids
<1>2. PICK d \in Directions : acceptor[d] = "registering" /\ made[d] = i
  BY <1>1, EstablishedOrUnregistered DEF Unregistered
<1>3. sid[accepted[d]] = sid[s] /\ accepted[d] \in Sessions
  BY <1>1, <1>2, AboutToRegister, Working
<1>4. sid[s] # 0
  BY DEF IInv, IdInv, Passed
<1> QED BY <1>2, <1>3, <1>4 DEF IInv, IdInv, Registering

\* A step that changes none of what a phase is made of is a stutter.
LEMMA PhaseSame ==
  ASSUME \A r \in Sessions : /\ Passed(r)' <=> Passed(r)
                             /\ Passed(r) => (Established(r)' <=> Established(r))
                             /\ loop'[r] = "serving" <=> loop[r] = "serving"
                             /\ loop'[r] = "closed" <=> loop[r] = "closed"
                             /\ Owned(r)' = Owned(r)
  PROVE  UNCHANGED Pairing!vars
<1>1. \A r \in Sessions : Phase(r)' = Phase(r)
  BY DEF Phase
<1> QED BY <1>1 DEF Pairing!vars

\* The handlers (but for the wait), the clients and the waiting serving threads.
LEMMA PhaseStutter ==
  ASSUME IInv, NEW s \in Sessions,
         \/ InitOwner(s) \/ Fill(s) \/ SpawnLoop(s) \/ Client(s) \/ AwaitOwnerToken(s) \/ WakeUnnotified(s)
  PROVE  UNCHANGED Pairing!vars
<1>1. UNCHANGED <<acceptor, made, sideband, token>>
  BY DEF InitOwner, Fill, FillNextConnect, SpawnLoop, Client, ConnectReceive, ConnectSend, ConnectTo,
         ClientFails, AwaitOwnerToken, WakeUnnotified, acceptVars, loopVars
<1>2. ASSUME NEW r \in Sessions
      PROVE  /\ Passed(r)' <=> Passed(r)
             /\ Passed(r) => sid'[r] = sid[r]
             /\ loop'[r] = "serving" <=> loop[r] = "serving"
             /\ loop'[r] = "closed" <=> loop[r] = "closed"
  <2>1. CASE InitOwner(s)
    BY <2>1 DEF IInv, TypeOK, InitOwner, Passed, loopVars
  <2>2. CASE Fill(s)
    BY <2>2 DEF IInv, TypeOK, Fill, FillNextConnect, Passed, loopVars
  <2>3. CASE SpawnLoop(s)
    BY <2>3 DEF IInv, TypeOK, LoopInv, SpawnLoop, Passed
  <2>4. CASE Client(s) \/ AwaitOwnerToken(s) \/ WakeUnnotified(s)
    BY <2>4 DEF Client, ConnectReceive, ConnectSend, ConnectTo, ClientFails, AwaitOwnerToken, WakeUnnotified,
                Passed, serverVars, loopVars
  <2> QED BY <2>1, <2>2, <2>3, <2>4
<1>3. \A r \in Sessions : Passed(r) => (Established(r)' <=> Established(r))
  BY <1>1, <1>2 DEF Established
<1>4. \A r \in Sessions : Owned(r)' = Owned(r)
  BY <1>1 DEF Owned
<1> QED BY <1>2, <1>3, <1>4, PhaseSame

\* The accept threads, but for the building and the registering.
LEMMA PhaseAccept ==
  ASSUME IInv, NEW d \in Directions,
         Accept(d) \/ StorePending(d) \/ HalfPending(d) \/ FullyPending(d) \/ ConnectQueueNotify(d)
  PROVE  UNCHANGED Pairing!vars
<1>1. UNCHANGED <<handler, sid, sideband, loop, token>>
  BY DEF Accept, StorePending, HalfPending, FullyPending, ConnectQueueNotify, AcceptAgain, serverVars, loopVars
<1>2. /\ acceptor[d] # "registering" /\ acceptor'[d] # "registering"
      /\ \A e \in Directions : e # d => acceptor'[e] = acceptor[e] /\ made'[e] = made[e]
  BY DEF IInv, TypeOK, Accept, StorePending, HalfPending, FullyPending, ConnectQueueNotify, AcceptAgain
<1>3. \A r \in Sessions : /\ Passed(r)' <=> Passed(r)
                          /\ Owned(r)' = Owned(r)
  BY <1>1 DEF Passed, Owned
<1>4. \A r \in Sessions : Established(r)' <=> Established(r)
  BY <1>1, <1>2 DEF Established
<1> QED BY <1>1, <1>3, <1>4, PhaseSame

\* The new object is not registered yet.
LEMMA PhaseBuild == ASSUME IInv, IInv', NEW d \in Directions, BuildObject(d) PROVE UNCHANGED Pairing!vars
<1>n. PICK n \in Nat : n = Len(sideband) + 1
  BY LenProperties DEF IInv, TypeOK
<1>1. /\ UNCHANGED <<handler, sid, loop, token>>
      /\ acceptor[d] = "building" /\ acceptor'[d] = "registering" /\ made'[d] = n
      /\ \A e \in Directions : e # d => acceptor'[e] = acceptor[e] /\ made'[e] = made[e]
  BY <1>n DEF IInv, TypeOK, BuildObject, serverVars, loopVars
<1>2. \A e \in Directions : e # d => acceptor[e] = "accepting"
  BY <1>1, Working
<1>3. PICK o \in Object : sideband' = Append(sideband, o)
  BY <1>1, AboutToBuild DEF BuildObject
<1>4. /\ Len(sideband) \in Nat /\ Len(sideband') = n
      /\ \A i \in 1 .. Len(sideband) : sideband'[i] = sideband[i]
      /\ \A i \in 1 .. n : i = n \/ i \in 1 .. Len(sideband)
      /\ \A i \in 1 .. Len(sideband) : i \in 1 .. n /\ i # n
  BY <1>3, <1>n, AppendProperties, LenProperties DEF IInv, TypeOK
<1>5. ASSUME NEW r \in Sessions PROVE Established(r)' <=> Established(r)
  <2>1. \A i \in 1 .. Len(sideband) : ~Unregistered(i) /\ ~Unregistered(i)'
    BY <1>1, <1>2, <1>4 DEF Unregistered
  <2>2. Unregistered(n)'
    BY <1>1 DEF Unregistered
  <2>3. Established(r)' <=> \E i \in 1 .. n : sideband'[i].id = sid[r] /\ ~Unregistered(i)'
    BY <1>1, <1>4 DEF Established, Unregistered
  <2> QED BY <1>4, <2>1, <2>2, <2>3, EstablishedOrUnregistered
<1>6. ASSUME NEW r \in Sessions PROVE Owned(r)' = Owned(r)
  <2>1. token[r] \in 0 .. Len(sideband)
    BY DEF IInv, TypeOK
  <2>2. token[r] # 0 => sideband'[token[r]] = sideband[token[r]]
    BY <1>4, <2>1
  <2> QED BY <1>1, <2>2 DEF Owned
<1>7. \A r \in Sessions : Passed(r)' <=> Passed(r)
  BY <1>1 DEF Passed
<1> QED BY <1>1, <1>5, <1>6, <1>7, PhaseSame

LEMMA PhaseOffer == ASSUME IInv, NEW s \in Sessions, ConnectQueueWait(s) PROVE Pairing!Offer(s)
<1>1. UNCHANGED <<sid, sideband, made, acceptor, loop, token>>
  BY DEF ConnectQueueWait, acceptVars, loopVars
<1>2. ~Passed(s) /\ Passed(s)' /\ \A r \in Sessions \ {s} : Passed(r)' <=> Passed(r)
  BY DEF IInv, TypeOK, Passed, ConnectQueueWait
<1>3. \A r \in Sessions : ~Outstanding(r)
  BY DEF IInv, TypeOK, UnitInv, ConnectQueueWait
<1>4. ~Established(s)
  <2>1. \A i \in 1 .. Len(sideband) : sideband[i].id # sid[s]
    <3> SUFFICES ASSUME NEW i \in 1 .. Len(sideband) PROVE sideband[i].id # sid[s]
      OBVIOUS
    <3>1. PICK r \in Sessions : Passed(r) /\ sideband[i] = ObjectOf(r)
      BY DEF IInv, ObjectInv
    <3>2. sideband[i].id = sid[r] /\ r # s
      BY <1>2, <3>1 DEF ObjectOf
    <3>3. sid[r] # 0
      BY <3>1 DEF IInv, IdInv, Passed
    <3> QED BY <3>2, <3>3 DEF IInv, IdInv
  <2> QED BY <2>1 DEF Established
<1>5. \A r \in Sessions : (Established(r)' <=> Established(r)) /\ Owned(r)' = Owned(r)
  BY <1>1 DEF Established, Owned
<1>6. Phase(s) = "new" /\ Phase(s)' = "offered"
  BY <1>2, <1>4, <1>5 DEF Phase
<1>7. \A r \in Sessions \ {s} : Phase(r)' = Phase(r)
  BY <1>1, <1>2, <1>5 DEF Phase
<1>8. \A r \in Sessions : Phase(r) # "offered"
  BY <1>3, OfferedIsOutstanding DEF Phase
<1> QED BY <1>5, <1>6, <1>7, <1>8 DEF Pairing!Offer, Pairing!Step

LEMMA PhaseEstablish ==
  ASSUME IInv, NEW d \in Directions, RegisterSidebandData(d)
  PROVE  Pairing!Establish(accepted[d]) /\ accepted[d] \in Sessions
<1>0. acceptor[d] = "registering"
  BY DEF RegisterSidebandData
<1>h. PICK h \in Sessions : h = accepted[d] /\ Passed(h)
  BY <1>0, Working DEF Outstanding
<1>1. /\ UNCHANGED <<handler, sid, sideband, made, loop, token>>
      /\ \A e \in Directions : acceptor'[e] # "registering"
  BY <1>0, Working DEF IInv, TypeOK, RegisterSidebandData, serverVars, loopVars
<1>2. /\ made[d] \in 1 .. Len(sideband) /\ sideband[made[d]].id = sid[h]
      /\ \A i \in 1 .. Len(sideband) : Unregistered(i) <=> i = made[d]
  BY <1>0, <1>h, AboutToRegister
<1>3. ~Established(h)
  BY <1>2, EstablishedOrUnregistered DEF IInv, ObjectInv
<1>4. Established(h)'
  BY <1>1, <1>2 DEF Established
<1>5. loop[h] \notin {"serving", "closed"}
  <2>1. ASSUME loop[h] \in {"serving", "closed"} PROVE Established(h)
    <3>1. token[h] \in 0 .. Len(sideband) /\ token[h] # 0 /\ sideband[token[h]].id = sid[h]
          /\ ~Unregistered(token[h])
      BY <2>1 DEF IInv, TypeOK, LoopInv
    <3>2. token[h] \in 1 .. Len(sideband)
      BY <3>1, LenProperties DEF IInv, TypeOK
    <3> QED BY <3>1, <3>2, EstablishedOrUnregistered
  <2> QED BY <1>3, <2>1
<1>6. Phase(h) = "offered" /\ Phase(h)' = "established"
  BY <1>h, <1>1, <1>3, <1>4, <1>5 DEF Phase, Passed
<1>7. ASSUME NEW r \in Sessions \ {h} PROVE Phase(r)' = Phase(r)
  <2>1. Passed(r) => sid[r] # sid[h]
    BY DEF IInv, IdInv, Passed
  <2>2. Passed(r) => (Established(r)' <=> Established(r))
    BY <1>1, <1>2, <2>1, EstablishedOrUnregistered DEF Established
  <2> QED BY <1>1, <2>2 DEF Phase, Passed
<1>8. \A r \in Sessions : Owned(r)' = Owned(r)
  BY <1>1 DEF Owned
<1> QED BY <1>h, <1>6, <1>7, <1>8 DEF Pairing!Establish, Pairing!Step

LEMMA PhaseOwn == ASSUME IInv, NEW s \in Sessions, GetOwnerToken(s) PROVE Pairing!Own(s)
<1> DEFINE i == buffers[sid[s]]
<1>1. i \in 1 .. Len(sideband) /\ sideband[i].id = sid[s] /\ ~Unregistered(i)
  BY FoundObject DEF GetOwnerToken
<1> HIDE DEF i
<1>2. /\ UNCHANGED <<handler, sid, sideband, made, acceptor>>
      /\ loop[s] = "getting" /\ token' = [token EXCEPT ![s] = i] /\ loop' = [loop EXCEPT ![s] = "serving"]
  BY DEF GetOwnerToken, serverVars, acceptVars, i
<1>3. loop'[s] = "serving" /\ token'[s] = i /\ \A r \in Sessions \ {s} : loop'[r] = loop[r] /\ token'[r] = token[r]
  BY <1>2 DEF IInv, TypeOK
<1>4. Passed(s) /\ \A r \in Sessions : Passed(r)' <=> Passed(r)
  BY <1>2 DEF IInv, LoopInv, Passed
<1>5. Established(s) /\ \A r \in Sessions : Established(r)' <=> Established(r)
  <2>1. Established(s)
    BY <1>1, EstablishedOrUnregistered
  <2> QED BY <1>2, <2>1 DEF Established
<1>6. Phase(s) = "established" /\ Phase(s)' = "owned"
  BY <1>2, <1>3, <1>4, <1>5 DEF Phase
<1>7. \A r \in Sessions \ {s} : Phase(r)' = Phase(r)
  BY <1>3, <1>4, <1>5 DEF Phase
<1>8. sideband[i].write = s /\ sideband[i].read = s
  <2>1. PICK r \in Sessions : Passed(r) /\ sideband[i] = ObjectOf(r)
    BY <1>1 DEF IInv, ObjectInv
  <2>2. sid[r] = sid[s] /\ sid[s] # 0
    BY <1>1, <1>4, <2>1 DEF ObjectOf, IInv, IdInv, Passed
  <2>3. r = s
    BY <2>2 DEF IInv, IdInv
  <2> QED BY <2>1, <2>3 DEF ObjectOf
<1>9. Owned(s)' = s
  BY <1>1, <1>2, <1>3, <1>8 DEF Owned
<1>10. \A r \in Sessions \ {s} : Owned(r)' = Owned(r)
  BY <1>2, <1>3 DEF Owned
<1> QED BY <1>6, <1>7, <1>9, <1>10 DEF Pairing!Own, Pairing!Step

LEMMA PhaseClose == ASSUME IInv, NEW s \in Sessions, CloseSidebandData(s) PROVE Pairing!Close(s)
<1>1. /\ UNCHANGED <<handler, sid, sideband, made, acceptor, token>>
      /\ loop[s] = "serving" /\ loop' = [loop EXCEPT ![s] = "closed"]
  BY DEF CloseSidebandData, serverVars, acceptVars
<1>2. loop'[s] = "closed" /\ \A r \in Sessions \ {s} : loop'[r] = loop[r]
  BY <1>1 DEF IInv, TypeOK
<1>3. Passed(s) /\ \A r \in Sessions : Passed(r)' <=> Passed(r)
  BY <1>1 DEF IInv, LoopInv, Passed
<1>4. Established(s) /\ \A r \in Sessions : (Established(r)' <=> Established(r)) /\ Owned(r)' = Owned(r)
  <2>1. token[s] \in 0 .. Len(sideband) /\ token[s] # 0 /\ sideband[token[s]].id = sid[s]
        /\ ~Unregistered(token[s])
    BY <1>1 DEF IInv, TypeOK, LoopInv
  <2>2. token[s] \in 1 .. Len(sideband)
    BY <2>1, LenProperties DEF IInv, TypeOK
  <2>3. Established(s)
    BY <2>1, <2>2, EstablishedOrUnregistered
  <2> QED BY <1>1, <2>3 DEF Established, Owned
<1>5. Phase(s) = "owned" /\ Phase(s)' = "closed"
  BY <1>1, <1>2, <1>3, <1>4 DEF Phase
<1>6. \A r \in Sessions \ {s} : Phase(r)' = Phase(r)
  BY <1>2, <1>3, <1>4 DEF Phase
<1> QED BY <1>4, <1>5, <1>6 DEF Pairing!Close, Pairing!Step

\* Sessions are offered one at a time, and the thread that serves a session gets an
\* object that joins the two connections its own client made, once.
THEOREM RdmaRefinesPairing == Prompt /\ Safety => PairsSessions
<1> SUFFICES ASSUME Prompt PROVE Safety => PairsSessions
  OBVIOUS
<1>1. ASSUME Init PROVE Pairing!Init
  <2>1. \A s \in Sessions : Phase(s) = "new" /\ Owned(s) = None
    BY <1>1 DEF Init, Phase, Passed, Owned
  <2> QED BY <2>1 DEF Pairing!Init
<1>2. ASSUME IInv, IInv', [Next]_vars PROVE [Pairing!Next]_(Pairing!vars)
  <2>1. ASSUME NEW s \in Sessions, Handler(s) PROVE [Pairing!Next]_(Pairing!vars)
    BY <1>2, <2>1, PhaseStutter, PhaseOffer DEF Handler, Pairing!Next
  <2>2. ASSUME NEW s \in Sessions, Client(s) PROVE [Pairing!Next]_(Pairing!vars)
    BY <1>2, <2>2, PhaseStutter
  <2>3. ASSUME NEW s \in Sessions, ServingThread(s) PROVE [Pairing!Next]_(Pairing!vars)
    BY <1>2, <2>3, PhaseStutter, PhaseOwn, PhaseClose DEF ServingThread, Pairing!Next
  <2>4. ASSUME NEW d \in Directions, AcceptThread(d) PROVE [Pairing!Next]_(Pairing!vars)
    BY <1>2, <2>4, PhaseAccept, PhaseBuild, PhaseEstablish DEF AcceptThread, Pairing!Next
  <2>5. ASSUME UNCHANGED vars PROVE UNCHANGED Pairing!vars
    <3>1. UNCHANGED <<handler, sid, sideband, made, acceptor, loop, token>>
      BY <2>5 DEF vars, serverVars, acceptVars, loopVars
    <3>2. \A r \in Sessions : /\ Passed(r)' <=> Passed(r)
                              /\ Established(r)' <=> Established(r)
                              /\ Owned(r)' = Owned(r)
      BY <3>1 DEF Passed, Established, Owned
    <3> QED BY <3>1, <3>2, PhaseSame
  <2> QED BY <1>2, <2>1, <2>2, <2>3, <2>4, <2>5 DEF Next
<1>3. IInv /\ IInv' /\ [Next]_vars => [Pairing!Next]_(Pairing!vars)
  BY <1>2
<1>4. Safety => []IInv
  BY Invariance
<1> QED BY <1>1, <1>3, <1>4, PTL DEF Safety, PairsSessions, Pairing!Spec
=============================================================================
