------------------------ MODULE MonikerServiceProofs ------------------------
(***************************************************************************)
(* Proofs about MonikerService, for any monikers, any room in the          *)
(* transports, any window and any number of requests and answers: the      *)
(* safety invariants of its run.                                           *)
(***************************************************************************)
EXTENDS MonikerService, SequenceTheorems, TLAPS

-----------------------------------------------------------------------------
(* The two ends of a direction hold its messages in order *)

\* A message that goes from the end of what is sending to what has arrived
\* passes no other.
LEMMA MoveConcat ==
  ASSUME NEW S, NEW a \in Seq(S), NEW s \in Seq(S), s # <<>>
  PROVE  Append(a, Head(s)) \o Tail(s) = a \o s
<1>1. /\ Head(s) \in S
      /\ Tail(s) \in Seq(S)
      /\ <<Head(s)>> \in Seq(S)
  BY HeadTailProperties
<1>2. Append(a, Head(s)) = a \o <<Head(s)>>
  BY <1>1, AppendIsConcat
<1>3. s = <<Head(s)>> \o Tail(s)
  OBVIOUS
<1>4. (a \o <<Head(s)>>) \o Tail(s) = a \o (<<Head(s)>> \o Tail(s))
  BY <1>1, ConcatAssociative
<1> QED BY <1>2, <1>3, <1>4

\* Taking the first message that has arrived takes the first of all.
LEMMA TakeConcat ==
  ASSUME NEW S, NEW a \in Seq(S), NEW s \in Seq(S), a # <<>>
  PROVE  /\ Head(a) = (a \o s)[1]
         /\ Len(a \o s) \in Nat \ {0}
         /\ Len(Tail(a) \o s) = Len(a \o s) - 1
         /\ \A i \in 1 .. Len(Tail(a) \o s) : (Tail(a) \o s)[i] = (a \o s)[i + 1]
<1>1. /\ Len(a) \in Nat \ {0}
      /\ Len(s) \in Nat
      /\ Head(a) = a[1]
      /\ Tail(a) \in Seq(S)
      /\ Len(Tail(a)) = Len(a) - 1
      /\ \A i \in 1 .. Len(a) - 1 : Tail(a)[i] = a[i + 1]
  BY HeadTailProperties, EmptySeq, LenProperties
<1>2. /\ Len(a \o s) = Len(a) + Len(s)
      /\ \A i \in 1 .. Len(a) + Len(s) : (a \o s)[i] = IF i <= Len(a) THEN a[i] ELSE s[i - Len(a)]
  BY ConcatProperties
<1>3. /\ Len(Tail(a) \o s) = Len(a) - 1 + Len(s)
      /\ \A i \in 1 .. Len(a) - 1 + Len(s) :
             (Tail(a) \o s)[i] = IF i <= Len(a) - 1 THEN Tail(a)[i] ELSE s[i - (Len(a) - 1)]
  <2>1. /\ Len(Tail(a) \o s) = Len(Tail(a)) + Len(s)
        /\ \A i \in 1 .. Len(Tail(a)) + Len(s) :
             (Tail(a) \o s)[i] = IF i <= Len(Tail(a)) THEN Tail(a)[i] ELSE s[i - Len(Tail(a))]
    BY <1>1, ConcatProperties
  <2> QED BY <1>1, <2>1
<1>4. ASSUME NEW i \in 1 .. Len(a) - 1 + Len(s) PROVE (Tail(a) \o s)[i] = (a \o s)[i + 1]
  <2>1. i + 1 \in 1 .. Len(a) + Len(s)
    BY <1>1
  <2>2. (a \o s)[i + 1] = IF i + 1 <= Len(a) THEN a[i + 1] ELSE s[i + 1 - Len(a)]
    BY <1>2, <2>1
  <2>3. CASE i <= Len(a) - 1
    BY <1>1, <1>3, <2>2, <2>3
  <2>4. CASE ~(i <= Len(a) - 1)
    <3>1. i - (Len(a) - 1) = i + 1 - Len(a) /\ ~(i + 1 <= Len(a))
      BY <1>1, <2>4
    <3> QED BY <1>3, <2>2, <2>4, <3>1
  <2> QED BY <2>3, <2>4
<1> QED BY <1>1, <1>2, <1>3, <1>4

\* Sending puts a message behind all others.
LEMMA SendConcat ==
  ASSUME NEW S, NEW a \in Seq(S), NEW s \in Seq(S), NEW m \in S
  PROVE  a \o Append(s, m) = Append(a \o s, m)
<1>1. a \o s \in Seq(S) /\ <<m>> \in Seq(S)
  BY ConcatProperties
<1>2. Append(s, m) = s \o <<m>> /\ Append(a \o s, m) = (a \o s) \o <<m>>
  BY <1>1, AppendIsConcat
<1>3. (a \o s) \o <<m>> = a \o (s \o <<m>>)
  BY <1>1, ConcatAssociative
<1> QED BY <1>2, <1>3

Contents(direction) == direction.arrived \o direction.sending

LEMMA ContentsType ==
  ASSUME NEW S, NEW d \in Direction(S)
  PROVE  /\ d.arrived \in Seq(S) /\ d.sending \in Seq(S)
         /\ Len(d.arrived) \in Nat /\ Len(d.sending) \in Nat
         /\ Contents(d) \in Seq(S)
         /\ Len(Contents(d)) = Len(d.arrived) + Len(d.sending)
         /\ Len(Contents(d)) \in Nat
         /\ DOMAIN Contents(d) = 1 .. Len(Contents(d))
<1>1. d.arrived \in Seq(S) /\ d.sending \in Seq(S)
  BY DEF Direction
<1>2. Contents(d) \in Seq(S) /\ Len(Contents(d)) = Len(d.arrived) + Len(d.sending)
  BY <1>1, ConcatProperties DEF Contents
<1> QED BY <1>1, <1>2, LenProperties

\* What TransmitToServer and TransmitToClient do.
LEMMA MovedContents ==
  ASSUME NEW S, NEW d \in Direction(S), CanMove(d)
  PROVE  /\ Moved(d) \in Direction(S)
         /\ Len(Moved(d).arrived) = Len(d.arrived) + 1
         /\ Len(Moved(d).sending) = Len(d.sending) - 1
         /\ Contents(Moved(d)) = Contents(d)
<1>1. d.arrived \in Seq(S) /\ d.sending \in Seq(S) /\ d.sending # <<>>
  BY DEF Direction, CanMove
<1>2. /\ Tail(d.sending) \in Seq(S)
      /\ Len(Tail(d.sending)) = Len(d.sending) - 1
      /\ Append(d.arrived, Head(d.sending)) \in Seq(S)
      /\ Len(Append(d.arrived, Head(d.sending))) = Len(d.arrived) + 1
  BY <1>1, HeadTailProperties, AppendProperties
<1>3. Append(d.arrived, Head(d.sending)) \o Tail(d.sending) = d.arrived \o d.sending
  BY <1>1, MoveConcat
<1> QED BY <1>2, <1>3 DEF Moved, Contents, Direction

\* What a read does.
LEMMA TakenContents ==
  ASSUME NEW S, NEW d \in Direction(S), d.arrived # <<>>
  PROVE  \A e : e = [d EXCEPT !.arrived = Tail(@)] =>
         /\ e \in Direction(S)
         /\ Len(e.arrived) = Len(d.arrived) - 1
         /\ e.sending = d.sending
         /\ Head(d.arrived) = Contents(d)[1]
         /\ Head(d.arrived) \in S
         /\ Len(Contents(d)) \in Nat \ {0}
         /\ Len(Contents(e)) = Len(Contents(d)) - 1
         /\ \A i \in 1 .. Len(Contents(e)) : Contents(e)[i] = Contents(d)[i + 1]
<1> DEFINE a == d.arrived
           s == d.sending
           f == [d EXCEPT !.arrived = Tail(@)]
<1>1. a \in Seq(S) /\ s \in Seq(S) /\ a # <<>>
  BY DEF Direction
<1>2. /\ f.arrived = Tail(a) /\ f.sending = s
      /\ Tail(a) \in Seq(S) => f \in Direction(S)
      /\ Contents(d) = a \o s
  BY DEF Direction, Contents
<1>3. Contents(f) = Tail(a) \o s
  BY <1>2 DEF Contents
<1> HIDE DEF a, s, f
<1>4. /\ Head(a) \in S
      /\ Tail(a) \in Seq(S)
      /\ Len(Tail(a)) = Len(a) - 1
  BY <1>1, HeadTailProperties
<1>5. /\ Head(a) = Contents(d)[1]
      /\ Len(Contents(d)) \in Nat \ {0}
      /\ Len(Contents(f)) = Len(Contents(d)) - 1
      /\ \A i \in 1 .. Len(Contents(f)) : Contents(f)[i] = Contents(d)[i + 1]
  BY <1>1, <1>2, <1>3, TakeConcat
<1>6. /\ f \in Direction(S)
      /\ Len(f.arrived) = Len(d.arrived) - 1
      /\ f.sending = d.sending
      /\ Head(d.arrived) = Contents(d)[1]
      /\ Head(d.arrived) \in S
      /\ Len(Contents(d)) \in Nat \ {0}
      /\ Len(Contents(f)) = Len(Contents(d)) - 1
      /\ \A i \in 1 .. Len(Contents(f)) : Contents(f)[i] = Contents(d)[i + 1]
  BY <1>2, <1>4, <1>5 DEF a, s
<1> QED BY <1>6 DEF f

\* What a write does.
LEMMA SentContents ==
  ASSUME NEW S, NEW d \in Direction(S), NEW m \in S
  PROVE  \A e : e = [d EXCEPT !.sending = Append(@, m)] =>
         /\ e \in Direction(S)
         /\ e.arrived = d.arrived
         /\ Len(e.sending) = Len(d.sending) + 1
         /\ Len(Contents(e)) = Len(Contents(d)) + 1
         /\ \A i \in 1 .. Len(Contents(d)) : Contents(e)[i] = Contents(d)[i]
         /\ Contents(e)[Len(Contents(d)) + 1] = m
<1> DEFINE a == d.arrived
           s == d.sending
           f == [d EXCEPT !.sending = Append(@, m)]
<1>1. a \in Seq(S) /\ s \in Seq(S) /\ Contents(d) \in Seq(S)
  BY ContentsType DEF Direction
<1>2. /\ f.arrived = a /\ f.sending = Append(s, m)
      /\ Append(s, m) \in Seq(S) => f \in Direction(S)
      /\ Contents(d) = a \o s
  BY DEF Direction, Contents
<1>3. Contents(f) = a \o Append(s, m)
  BY <1>2 DEF Contents
<1> HIDE DEF a, s, f
<1>4. Append(s, m) \in Seq(S) /\ Len(Append(s, m)) = Len(s) + 1
  BY <1>1, AppendProperties
<1>5. Contents(f) = Append(Contents(d), m)
  BY <1>1, <1>2, <1>3, SendConcat
<1>6. /\ Len(Contents(f)) = Len(Contents(d)) + 1
      /\ \A i \in 1 .. Len(Contents(d)) : Contents(f)[i] = Contents(d)[i]
      /\ Contents(f)[Len(Contents(d)) + 1] = m
  BY <1>1, <1>5, AppendProperties
<1>7. /\ f \in Direction(S)
      /\ f.arrived = d.arrived
      /\ Len(f.sending) = Len(d.sending) + 1
      /\ Len(Contents(f)) = Len(Contents(d)) + 1
      /\ \A i \in 1 .. Len(Contents(d)) : Contents(f)[i] = Contents(d)[i]
      /\ Contents(f)[Len(Contents(d)) + 1] = m
  BY <1>2, <1>4, <1>6 DEF a, s
<1> QED BY <1>7 DEF f

\* What the loss of a connection does.
LEMMA LostContents ==
  ASSUME NEW S, NEW d \in Direction(S)
  PROVE  \A e : e = [d EXCEPT !.sending = <<>>] =>
         /\ e \in Direction(S)
         /\ e.arrived = d.arrived
         /\ e.sending = <<>>
         /\ Len(Contents(e)) <= Len(Contents(d))
         /\ \A i \in 1 .. Len(Contents(e)) : Contents(e)[i] = Contents(d)[i]
<1> DEFINE a == d.arrived
           s == d.sending
           f == [d EXCEPT !.sending = <<>>]
<1>1. a \in Seq(S) /\ s \in Seq(S)
  BY DEF Direction
<1>2. /\ f.arrived = a /\ f.sending = <<>>
      /\ f \in Direction(S)
      /\ Contents(d) = a \o s
  BY EmptySeq DEF Direction, Contents
<1>3. Contents(f) = a \o <<>>
  BY <1>2 DEF Contents
<1> HIDE DEF a, s, f
<1>4. Contents(f) = a
  BY <1>1, <1>3, ConcatEmptySeq
<1>5. /\ Len(a) \in Nat /\ Len(s) \in Nat
      /\ Len(a \o s) = Len(a) + Len(s)
      /\ \A i \in 1 .. Len(a) + Len(s) : (a \o s)[i] = IF i <= Len(a) THEN a[i] ELSE s[i - Len(a)]
  BY <1>1, ConcatProperties, LenProperties
<1>6. \A i \in 1 .. Len(a) : a[i] = (a \o s)[i]
  BY <1>5
<1>7. /\ Len(Contents(f)) <= Len(Contents(d))
      /\ \A i \in 1 .. Len(Contents(f)) : Contents(f)[i] = Contents(d)[i]
  BY <1>2, <1>4, <1>5, <1>6
<1>8. /\ f \in Direction(S)
      /\ f.arrived = d.arrived
      /\ f.sending = <<>>
      /\ Len(Contents(f)) <= Len(Contents(d))
      /\ \A i \in 1 .. Len(Contents(f)) : Contents(f)[i] = Contents(d)[i]
  BY <1>2, <1>7 DEF a
<1> QED BY <1>8 DEF f

-----------------------------------------------------------------------------

\* The lists that are looked up have an endpoint, or none, for each moniker.
LEMMA ListOfEndpoints ==
  ASSUME TypeOK, NEW m \in Seq(Sources)
  PROVE  /\ InitiateMonikerList(m) \in Seq(Endpoints \cup {NullEndpoint})
         /\ Len(InitiateMonikerList(m)) = Len(m)
         /\ \A i \in 1 .. Len(m) : InitiateMonikerList(m)[i] = NullEndpoint => m[i] \notin endpoints
<1>1. /\ DOMAIN m = 1 .. Len(m) /\ Len(m) \in Nat
      /\ \A i \in 1 .. Len(m) : m[i] \in Sources
  BY LenProperties, ElementOfSeq
<1>2. InitiateMonikerList(m) = [i \in 1 .. Len(m) |-> IF m[i] \in endpoints THEN m[i] ELSE NullEndpoint]
  BY <1>1 DEF InitiateMonikerList
<1>3. InitiateMonikerList(m) \in [1 .. Len(m) -> Endpoints \cup {NullEndpoint}]
  BY <1>1, <1>2 DEF TypeOK
<1>4. InitiateMonikerList(m) \in Seq(Endpoints \cup {NullEndpoint}) /\ Len(InitiateMonikerList(m)) = Len(m)
  BY <1>1, <1>3, SeqDef
<1>5. ASSUME NEW i \in 1 .. Len(m), m[i] \in endpoints PROVE InitiateMonikerList(m)[i] # NullEndpoint
  BY <1>1, <1>2, <1>5, ServiceAssumption
<1> QED BY <1>4, <1>5

\* What a message of the client may be.
LEMMA MessageFields ==
  ASSUME TypeOK, NEW m \in Messages
  PROVE  /\ m.id \in 0 .. MaxRequests
         /\ m.cancel \in BOOLEAN
         /\ \/ m = NoRequest /\ m.id = 0 /\ m.values = <<>> /\ ~m.cancel
            \/ m = CancelRequest /\ m.id = 0 /\ m.values = <<>> /\ m.cancel
            \/ m = Request(m.id) /\ m.id \in 1 .. MaxRequests /\ ~m.cancel
<1>1. 0 \in 0 .. MaxRequests /\ \A k \in 1 .. MaxRequests : k \in 0 .. MaxRequests
  BY ServiceAssumption
<1>2. CASE m = NoRequest
  BY <1>1, <1>2 DEF NoRequest
<1>3. CASE m = CancelRequest
  BY <1>1, <1>3 DEF NoRequest, CancelRequest
<1>4. ASSUME NEW k \in 1 .. MaxRequests, m = Request(k)
      PROVE  m.id = k /\ m.cancel = FALSE
  BY <1>4 DEF Request
<1> QED BY <1>1, <1>2, <1>3, <1>4 DEF Messages

LEMMA RequestFields ==
  ASSUME TypeOK, NEW k \in 1 .. MaxRequests
  PROVE  /\ Request(k).id = k
         /\ ~Request(k).cancel
         /\ Request(k) \in Messages
         /\ Len(Request(k).values) = Len(writeMonikers)
         /\ \A i \in 1 .. Len(writeMonikers) : Request(k).values[i] = <<k, i>>
<1>1. DOMAIN writeMonikers = 1 .. Len(writeMonikers) /\ Len(writeMonikers) \in Nat
  BY LenProperties DEF TypeOK
<1>2. Request(k).values = [i \in 1 .. Len(writeMonikers) |-> <<k, i>>]
  BY <1>1 DEF Request
<1>3. Len(Request(k).values) = Len(writeMonikers)
  BY <1>1, <1>2
<1> QED BY <1>1, <1>2, <1>3 DEF Request, Messages

-----------------------------------------------------------------------------

\* The two lists of monikers are an argument of the call, or came in its first
\* message: nothing changes them.
LEMMA MonikersUnchanged ==
  ASSUME [Next]_vars
  PROVE  /\ UNCHANGED <<call, initialWrite, readMonikers, writeMonikers>>
         /\ UNCHANGED <<Sideband, ListInStream, Messages>>
<1>1. UNCHANGED <<call, initialWrite, readMonikers, writeMonikers>>
  BY DEF Next, Server, Failure, Client, RegisterMonikerEndpoint, Start, StartCancelled, ReadMessage,
         FinishRead, ReadStream, CallWriter, WritersCalled, CheckCancelled, CallReader, ReadersCalled,
         WriteAnswer, Close, ReadNothing, WriteFails, Break, TransmitToServer, TransmitToClient,
         BeginRequest, SendRequest, BeginCancel, SendCancel, CancelStream, FinishStream, ReadAnswer,
         vars, listVars
<1> QED BY <1>1 DEF Sideband, ListInStream, Messages, NoRequest, CancelRequest, Request

-----------------------------------------------------------------------------

\* Neither end of a direction takes more messages than it has room for, and
\* what an endpoint is given is a value some client sent.
THEOREM TypeCorrect == Safety => []TypeOK
<1>0. MaxReaders \in Nat /\ MaxWriters \in Nat /\ MaxRequests \in Nat /\ Room \in Nat \ {0}
  BY ServiceAssumption
<1>1. Init => TypeOK
  <2> SUFFICES ASSUME Init PROVE TypeOK
    OBVIOUS
  <2>1. /\ readMonikers \in Seq(Sources) /\ Len(readMonikers) <= MaxReaders
        /\ writeMonikers \in Seq(Sources) /\ Len(writeMonikers) <= MaxWriters
    <3>1. PICK m \in 0 .. MaxReaders : readMonikers \in [1 .. m -> Sources]
      BY <1>0 DEF Init, BoundedSeq, SeqOf
    <3>2. PICK n \in 0 .. MaxWriters : writeMonikers \in [1 .. n -> Sources]
      BY <1>0 DEF Init, BoundedSeq, SeqOf
    <3> QED BY <1>0, <3>1, <3>2, SeqDef
  <2>2. \A S : <<>> \in Seq(S)
    BY EmptySeq
  <2>3. NoRequest \in Messages
    BY DEF Messages
  <2>4. <<NoRequest>> \in Seq(Messages) /\ Len(<<NoRequest>>) = 1 /\ <<NoRequest>> # <<>>
    BY <2>3
  <2>5. toServer \in Direction(Messages) /\ Len(toServer.sending) <= Room /\ Len(toServer.arrived) <= Room
    BY <1>0, <2>2, <2>4 DEF Init, Direction
  <2>6. toClient \in Direction(Seq(Samples)) /\ Len(toClient.sending) <= Room /\ Len(toClient.arrived) <= Room
    BY <1>0, <2>2 DEF Init, Direction
  <2>7. /\ readers \in Seq(Endpoints \cup {NullEndpoint})
        /\ writers \in Seq(Endpoints \cup {NullEndpoint})
        /\ result \in Seq(Samples)
        /\ handed \in Seq((1 .. MaxWriters) \X ((1 .. MaxRequests) \X (1 .. MaxWriters)))
        /\ got \in Seq(Seq(Samples))
    BY <2>2 DEF Init
  <2>8. call \in Calls /\ initialWrite \in BOOLEAN /\ request \in Messages
    BY <2>3 DEF Init
  <2>9. endpoints \subseteq Endpoints /\ x \in Nat /\ sent \in 0 .. MaxRequests
    BY <1>0 DEF Init
  <2>10. pc = "starting" /\ answered \in BOOLEAN /\ link = "up" /\ cpc = "idle" /\ ending = "no"
    BY DEF Init
  <2>11. ListInStream => toServer.arrived # <<>>
    BY <2>4 DEF Init
  <2> QED BY <2>1, <2>5, <2>6, <2>7, <2>8, <2>9, <2>10, <2>11 DEF TypeOK
<1>2. TypeOK /\ [Next]_vars => TypeOK'
  <2> SUFFICES ASSUME TypeOK, [Next]_vars PROVE TypeOK'
    OBVIOUS
  <2>0. UNCHANGED <<call, initialWrite, readMonikers, writeMonikers, Sideband, ListInStream, Messages>>
    BY MonikersUnchanged
  <2>1. ASSUME NEW source \in Endpoints, RegisterMonikerEndpoint(source) PROVE TypeOK'
    BY <2>0, <2>1 DEF TypeOK, RegisterMonikerEndpoint, loopVars, clientVars
  <2>2. ASSUME Start PROVE TypeOK'
    <3>1. readers' \in Seq(Endpoints \cup {NullEndpoint}) /\ writers' \in Seq(Endpoints \cup {NullEndpoint})
      BY <2>2, ListOfEndpoints DEF TypeOK, Start
    <3>2. /\ pc' \in {"reading", "checking", "sampling"}
          /\ UNCHANGED <<endpoints, request, x, result, handed, answered, link, toClient, cpc, sent, ending, got>>
      BY <2>2 DEF Start, LoopHead, listVars, clientVars
    <3>3. /\ toServer' \in Direction(Messages)
          /\ Len(toServer'.sending) <= Room /\ Len(toServer'.arrived) <= Room
      <4>1. CASE ListInStream
        <5>1. toServer.arrived # <<>> /\ toServer' = [toServer EXCEPT !.arrived = Tail(@)]
          BY <2>2, <4>1 DEF TypeOK, Start
        <5>2. /\ toServer' \in Direction(Messages)
              /\ Len(toServer'.arrived) = Len(toServer.arrived) - 1
              /\ toServer'.sending = toServer.sending
          BY <5>1, TakenContents DEF TypeOK
        <5> QED BY SMTT(30), <1>0, <5>2, ContentsType DEF TypeOK
      <4>2. CASE ~ListInStream
        BY <2>2, <4>2 DEF TypeOK, Start
      <4> QED BY <4>1, <4>2
    <3> QED BY <2>0, <3>1, <3>2, <3>3 DEF TypeOK
  <2>3. ASSUME StartCancelled PROVE TypeOK'
    BY <2>0, <2>3 DEF TypeOK, StartCancelled, listVars, loopVars, clientVars
  <2>4. ASSUME ReadMessage PROVE TypeOK'
    <3>1. request' \in Messages
      BY <2>4, TakenContents DEF TypeOK, ReadMessage
    <3> QED BY <2>0, <2>4, <3>1 DEF TypeOK, ReadMessage, listVars, clientVars
  <2>5. ASSUME FinishRead PROVE TypeOK'
    <3>1. /\ toServer' \in Direction(Messages)
          /\ Len(toServer'.sending) <= Room /\ Len(toServer'.arrived) <= Room
      <4>1. toServer.arrived # <<>> /\ toServer' = [toServer EXCEPT !.arrived = Tail(@)]
        BY <2>5 DEF TypeOK, FinishRead
      <4>2. /\ toServer' \in Direction(Messages)
            /\ Len(toServer'.arrived) = Len(toServer.arrived) - 1
            /\ toServer'.sending = toServer.sending
        BY <4>1, TakenContents DEF TypeOK
      <4> QED BY SMTT(30), <1>0, <4>2, ContentsType DEF TypeOK
    <3>2. pc' \in {"applying", "closing"}
      BY <2>5 DEF FinishRead
    <3> QED BY <2>0, <2>5, <3>1, <3>2 DEF TypeOK, FinishRead, listVars, clientVars
  <2>6. ASSUME ReadNothing PROVE TypeOK'
    <3>1. NoRequest \in Messages
      BY DEF Messages
    <3> QED BY <2>0, <2>6, <3>1 DEF TypeOK, ReadNothing, listVars, clientVars
  <2>7. ASSUME ReadStream PROVE TypeOK'
    <3>1. /\ request' \in Messages
          /\ toServer' \in Direction(Messages)
          /\ Len(toServer'.sending) <= Room /\ Len(toServer'.arrived) <= Room
      <4>1. CASE /\ toServer.arrived # <<>>
                 /\ request' = Head(toServer.arrived)
                 /\ toServer' = [toServer EXCEPT !.arrived = Tail(@)]
        <5>1. /\ toServer' \in Direction(Messages)
              /\ Head(toServer.arrived) \in Messages
              /\ Len(toServer'.arrived) = Len(toServer.arrived) - 1
              /\ toServer'.sending = toServer.sending
          BY <4>1, TakenContents DEF TypeOK
        <5> QED BY <1>0, <4>1, <5>1, ContentsType DEF TypeOK
      <4>2. CASE UNCHANGED <<request, toServer>>
        BY <4>2 DEF TypeOK
      <4> QED BY <2>7, <4>1, <4>2 DEF ReadStream
    <3>2. pc' \in {"applying", "done"} /\ x' = 0
      BY <2>7 DEF ReadStream
    <3> QED BY <2>0, <2>7, <3>1, <3>2 DEF TypeOK, ReadStream, listVars, clientVars
  <2>8. ASSUME CallWriter PROVE TypeOK'
    <3>1. CASE pc' = "undefined"
      BY <2>0, <2>8, <3>1 DEF TypeOK, CallWriter, listVars, clientVars
    <3>2. CASE pc' # "undefined"
      <4>1. /\ handed' = Append(handed, <<x + 1, request.values[x + 1]>>)
            /\ x' = x + 1
            /\ pc' = pc
            /\ x < Len(request.values)
        <5>1. pc = "applying" /\ x \in Nat /\ Len(request.values) \in Nat
          <6>1. request = Request(request.id) \/ request.values = <<>>
            BY MessageFields DEF TypeOK
          <6>2. Len(request.values) \in Nat
            BY <6>1, MessageFields, RequestFields, EmptySeq, LenProperties DEF TypeOK
          <6> QED BY <2>8, <6>2 DEF CallWriter, TypeOK
        <5> QED BY <2>8, <3>2, <5>1 DEF CallWriter
      <4>2. request = Request(request.id) /\ request.id \in 1 .. MaxRequests
        BY <4>1, MessageFields, EmptySeq DEF TypeOK
      <4>3. /\ Len(request.values) = Len(writeMonikers)
            /\ x + 1 \in 1 .. Len(writeMonikers)
            /\ request.values[x + 1] = <<request.id, x + 1>>
        <5>1. /\ Len(request.values) = Len(writeMonikers)
              /\ \A i \in 1 .. Len(writeMonikers) : request.values[i] = <<request.id, i>>
          BY <4>2, RequestFields
        <5>2. Len(writeMonikers) \in Nat /\ x \in Nat
          BY LenProperties DEF TypeOK
        <5>3. x + 1 \in 1 .. Len(writeMonikers)
          BY <4>1, <5>1, <5>2
        <5> QED BY <5>1, <5>3
      <4>4. x + 1 \in 1 .. MaxWriters
        BY <1>0, <4>3, LenProperties DEF TypeOK
      <4>5. handed' \in Seq((1 .. MaxWriters) \X ((1 .. MaxRequests) \X (1 .. MaxWriters)))
        BY SMTT(30), <4>1, <4>2, <4>3, <4>4, AppendProperties DEF TypeOK
      <4> QED BY <2>0, <2>8, <4>1, <4>5 DEF TypeOK, CallWriter, listVars, clientVars
    <3> QED BY <3>1, <3>2
  <2>9. ASSUME WritersCalled PROVE TypeOK'
    <3>1. pc' \in {"reading", "checking", "sampling"}
      BY <2>9 DEF WritersCalled, AfterWriters
    <3> QED BY <2>0, <2>9, <3>1, EmptySeq DEF TypeOK, WritersCalled, listVars, clientVars
  <2>10. ASSUME CheckCancelled PROVE TypeOK'
    <3>1. pc' \in {"done", "sampling"}
      BY <2>10 DEF CheckCancelled
    <3> QED BY <2>0, <2>10, <3>1, EmptySeq DEF TypeOK, CheckCancelled, listVars, clientVars
  <2>11. ASSUME CallReader PROVE TypeOK'
    <3>1. Sample \in Samples
      BY MessageFields, LenProperties DEF TypeOK, Sample, Samples
    <3>2. /\ pc' \in {"undefined", "sampling"}
          /\ x' \in Nat
          /\ result' \in Seq(Samples)
      <4>1. /\ pc = "sampling"
            /\ \/ pc' = "undefined" /\ x' = x /\ result' = result
               \/ pc' = pc /\ x' = x + 1 /\ result' = Append(result, Sample)
        BY <2>11 DEF CallReader
      <4>2. x \in Nat /\ result \in Seq(Samples)
        BY DEF TypeOK
      <4> QED BY <3>1, <4>1, <4>2, AppendProperties
    <3> QED BY <2>0, <2>11, <3>2 DEF TypeOK, CallReader, listVars, clientVars
  <2>12. ASSUME ReadersCalled PROVE TypeOK'
    BY <2>0, <2>12 DEF TypeOK, ReadersCalled, listVars, loopVars, clientVars
  <2>13. ASSUME WriteAnswer PROVE TypeOK'
    <3>1. /\ toClient' \in Direction(Seq(Samples))
          /\ Len(toClient'.sending) <= Room /\ Len(toClient'.arrived) <= Room
      <4>1. toClient' = [toClient EXCEPT !.sending = Append(@, result)] /\ Len(toClient.sending) < Room
        BY <2>13 DEF WriteAnswer, HasRoom
      <4>2. /\ toClient' \in Direction(Seq(Samples))
            /\ toClient'.arrived = toClient.arrived
            /\ Len(toClient'.sending) = Len(toClient.sending) + 1
        <5> DEFINE A == Seq(Samples)
        <5>1. toClient \in Direction(A) /\ result \in A
          BY DEF TypeOK
        <5> HIDE DEF A
        <5>2. /\ toClient' \in Direction(A)
              /\ toClient'.arrived = toClient.arrived
              /\ Len(toClient'.sending) = Len(toClient.sending) + 1
          BY <4>1, <5>1, SentContents
        <5> QED BY <5>2 DEF A
      <4> QED BY <1>0, <4>1, <4>2, ContentsType DEF TypeOK
    <3>2. pc' \in {"closing", "checking", "reading", "sampling", "applying"} /\ x' = 0 /\ answered' = TRUE
      BY <2>13 DEF WriteAnswer, AfterWrite
    <3> QED BY <2>0, <2>13, <3>1, <3>2 DEF TypeOK, WriteAnswer, listVars, clientVars
  <2>14. ASSUME WriteFails PROVE TypeOK'
    <3>1. pc' \in {"undefined", "closing", "checking", "reading", "sampling", "applying"} /\ x' = 0
      BY <2>14 DEF WriteFails, AfterWrite
    <3> QED BY <2>0, <2>14, <3>1 DEF TypeOK, WriteFails, listVars, clientVars
  <2>15. ASSUME Close \/ Break PROVE TypeOK'
    <3>1. /\ toServer' = [toServer EXCEPT !.sending = <<>>]
          /\ toClient' = [toClient EXCEPT !.sending = <<>>]
          /\ link' \in {"up", "closed", "broken"}
          /\ pc' = "done" \/ pc' = pc
          /\ UNCHANGED <<endpoints, readers, writers, request, x, result, handed, answered, cpc, sent, ending, got>>
      BY <2>15 DEF TypeOK, Close, Break, listVars, loopVars, clientVars
    <3>2. /\ toServer' \in Direction(Messages)
          /\ toServer'.sending = <<>> /\ toServer'.arrived = toServer.arrived
      BY <3>1, LostContents DEF TypeOK
    <3>3. /\ toClient' \in Direction(Seq(Samples))
          /\ toClient'.sending = <<>> /\ toClient'.arrived = toClient.arrived
      BY <3>1, LostContents DEF TypeOK
    <3>4. Len(toServer'.sending) <= Room /\ Len(toClient'.sending) <= Room
      BY <1>0, <3>2, <3>3
    <3> QED BY <2>0, <3>1, <3>2, <3>3, <3>4 DEF TypeOK
  <2>16. ASSUME TransmitToServer PROVE TypeOK'
    <3>1. /\ toServer' \in Direction(Messages)
          /\ Len(toServer'.arrived) = Len(toServer.arrived) + 1
          /\ Len(toServer'.sending) = Len(toServer.sending) - 1
          /\ Len(toServer.arrived) < Room
      BY <2>16, MovedContents DEF TypeOK, TransmitToServer, CanMove
    <3>2. Len(toServer.arrived) \in Nat /\ Len(toServer.sending) \in Nat /\ Len(toServer.sending) <= Room
      BY ContentsType DEF TypeOK
    <3>3. Len(toServer'.sending) <= Room /\ Len(toServer'.arrived) <= Room /\ Len(toServer'.arrived) # 0
      BY <1>0, <3>1, <3>2
    <3>4. toServer'.arrived # <<>>
      BY <3>3
    <3> QED BY <2>0, <2>16, <3>1, <3>3, <3>4 DEF TypeOK, TransmitToServer, listVars, loopVars, clientVars
  <2>17. ASSUME TransmitToClient PROVE TypeOK'
    <3>1. /\ toClient' \in Direction(Seq(Samples))
          /\ Len(toClient'.arrived) = Len(toClient.arrived) + 1
          /\ Len(toClient'.sending) = Len(toClient.sending) - 1
          /\ Len(toClient.arrived) < Room
      BY <2>17, MovedContents DEF TypeOK, TransmitToClient, CanMove
    <3>2. Len(toClient.arrived) \in Nat /\ Len(toClient.sending) \in Nat /\ Len(toClient.sending) <= Room
      BY ContentsType DEF TypeOK
    <3>3. Len(toClient'.sending) <= Room /\ Len(toClient'.arrived) <= Room
      BY <1>0, <3>1, <3>2
    <3> QED BY <2>0, <2>17, <3>1, <3>3 DEF TypeOK, TransmitToClient, listVars, loopVars, clientVars
  <2>18. ASSUME BeginRequest PROVE TypeOK'
    BY <1>0, <2>0, <2>18 DEF TypeOK, BeginRequest, listVars, loopVars
  <2>19. ASSUME SendRequest \/ SendCancel PROVE TypeOK'
    <3>1. PICK m \in Messages : toServer' = [toServer EXCEPT !.sending = Append(@, m)]
      <4>1. CASE SendRequest
        <5>1. sent \in 1 .. MaxRequests
          BY <1>0, <4>1 DEF TypeOK, SendRequest
        <5> QED BY <4>1, <5>1 DEF SendRequest, Messages
      <4>2. CASE SendCancel
        BY <4>2 DEF SendCancel, Messages
      <4> QED BY <2>19, <4>1, <4>2
    <3>2. /\ Len(toServer.sending) < Room
          /\ cpc' = "idle" /\ ending' \in {"no", "finished", "cancelled"}
          /\ UNCHANGED <<endpoints, pc, readers, writers, request, x, result, handed, answered, link, toClient,
                         sent, got>>
      BY <2>19 DEF TypeOK, SendRequest, SendCancel, HasRoom, listVars, loopVars
    <3>3. /\ toServer' \in Direction(Messages)
          /\ toServer'.arrived = toServer.arrived
          /\ Len(toServer'.sending) = Len(toServer.sending) + 1
      <4>1. toServer \in Direction(Messages)
        BY DEF TypeOK
      <4> QED BY <3>1, <4>1, SentContents
    <3>4. Len(toServer'.sending) <= Room
      BY <1>0, <3>2, <3>3, ContentsType DEF TypeOK
    <3> QED BY <2>0, <3>2, <3>3, <3>4 DEF TypeOK
  <2>20. ASSUME BeginCancel \/ CancelStream \/ FinishStream PROVE TypeOK'
    <3>1. /\ cpc' \in {"idle", "cancelling"} \/ cpc' = cpc
          /\ ending' \in {"no", "finished", "cancelled"}
          /\ UNCHANGED <<endpoints, pc, readers, writers, request, x, result, handed, answered, link, toServer,
                         toClient, sent, got>>
      BY <2>20 DEF TypeOK, BeginCancel, CancelStream, FinishStream, listVars, loopVars
    <3> QED BY <2>0, <3>1 DEF TypeOK
  <2>21. ASSUME ReadAnswer PROVE TypeOK'
    <3>1. toClient.arrived # <<>> /\ toClient' = [toClient EXCEPT !.arrived = Tail(@)]
      BY <2>21 DEF ReadAnswer
    <3>2. /\ toClient' \in Direction(Seq(Samples))
          /\ Head(toClient.arrived) \in Seq(Samples)
          /\ Len(toClient'.arrived) = Len(toClient.arrived) - 1
          /\ toClient'.sending = toClient.sending
      <4>1. toClient \in Direction(Seq(Samples))
        BY DEF TypeOK
      <4> QED BY <3>1, <4>1, TakenContents
    <3>3. Len(toClient'.sending) <= Room /\ Len(toClient'.arrived) <= Room
      BY <1>0, <3>2, ContentsType DEF TypeOK
    <3>4. got' \in Seq(Seq(Samples))
      BY <2>21, <3>2, AppendProperties DEF TypeOK, ReadAnswer
    <3> QED BY <2>0, <2>21, <3>2, <3>3, <3>4 DEF TypeOK, ReadAnswer, listVars, loopVars
  <2>22. CASE UNCHANGED vars
    BY <2>0, <2>22 DEF TypeOK, vars, listVars, loopVars, clientVars
  <2> QED BY <2>1, <2>2, <2>3, <2>4, <2>5, <2>6, <2>7, <2>8, <2>9, <2>10, <2>11, <2>12, <2>13, <2>14, <2>15,
             <2>16, <2>17, <2>18, <2>19, <2>20, <2>21, <2>22
          DEF Next, Server, Failure, Client
<1> QED BY <1>1, <1>2, PTL DEF Safety
-----------------------------------------------------------------------------
(* The call's thread *)

StreamCancelled == ~Sideband /\ Cancelled

\* Steps that are not the call's: of the transports and of the client.
Outside == TransmitToServer \/ TransmitToClient \/ Break \/ Client

LEMMA OutsideSteps ==
  ASSUME Outside
  PROVE  /\ UNCHANGED <<endpoints, pc, readers, writers, request, x, result, handed, answered>>
         /\ pc = "starting" => UNCHANGED link
         /\ link' # link => Sideband /\ link' = "broken"
         /\ ~Sideband => UNCHANGED link
         /\ StreamCancelled => ending' = "cancelled"
<1>1. UNCHANGED <<endpoints, pc, readers, writers, request, x, result, handed, answered>>
  BY DEF Outside, TransmitToServer, TransmitToClient, Break, Client, BeginRequest, SendRequest, BeginCancel,
         SendCancel, CancelStream, FinishStream, ReadAnswer, listVars, loopVars
<1>2. /\ pc = "starting" => UNCHANGED link
      /\ link' # link => Sideband /\ link' = "broken"
      /\ ~Sideband => UNCHANGED link
  BY DEF Outside, TransmitToServer, TransmitToClient, Break, Client, BeginRequest, SendRequest, BeginCancel,
         SendCancel, CancelStream, FinishStream, ReadAnswer
<1>3. StreamCancelled => ending' = "cancelled"
  BY DEF Outside, TransmitToServer, TransmitToClient, Break, Client, BeginRequest, SendRequest, BeginCancel,
         SendCancel, CancelStream, FinishStream, ReadAnswer, clientVars, StreamCancelled, Cancelled
<1> QED BY <1>1, <1>2, <1>3

\* The call's own steps are none of the client's.
LEMMA ServerSteps ==
  ASSUME Server \/ ReadNothing \/ WriteFails
  PROVE  /\ UNCHANGED <<endpoints, cpc, sent, ending, got>>
         /\ pc' # "starting"
         /\ link' # link => pc = "closing" /\ link' = "closed"
         /\ pc # "starting" => UNCHANGED <<readers, writers>>
         /\ pc = "starting" => Start \/ StartCancelled
<1>1. UNCHANGED <<endpoints, cpc, sent, ending, got>>
  BY DEF Server, Start, StartCancelled, ReadMessage, FinishRead, ReadStream, CallWriter, WritersCalled,
         CheckCancelled, CallReader, ReadersCalled, WriteAnswer, Close, ReadNothing, WriteFails,
         listVars, clientVars
<1>2. pc' # "starting"
  BY DEF Server, Start, StartCancelled, ReadMessage, FinishRead, ReadStream, CallWriter, WritersCalled,
         CheckCancelled, CallReader, ReadersCalled, WriteAnswer, Close, ReadNothing, WriteFails,
         LoopHead, AfterWriters, AfterWrite
<1>3. link' # link => pc = "closing" /\ link' = "closed"
  BY DEF Server, Start, StartCancelled, ReadMessage, FinishRead, ReadStream, CallWriter, WritersCalled,
         CheckCancelled, CallReader, ReadersCalled, WriteAnswer, Close, ReadNothing, WriteFails
<1>4. pc # "starting" => UNCHANGED <<readers, writers>>
  BY DEF Server, Start, StartCancelled, ReadMessage, FinishRead, ReadStream, CallWriter, WritersCalled,
         CheckCancelled, CallReader, ReadersCalled, WriteAnswer, Close, ReadNothing, WriteFails,
         loopVars
<1>5. pc = "starting" => Start \/ StartCancelled
  BY DEF Server, ReadMessage, FinishRead, ReadStream, CallWriter, WritersCalled, CheckCancelled, CallReader,
         ReadersCalled, WriteAnswer, Close, ReadNothing, WriteFails
<1> QED BY <1>1, <1>2, <1>3, <1>4, <1>5

\* A call that has not started has done nothing; one that has, has looked up
\* its lists, unless its stream was cancelled before the first message was read:
\* then it has no lists, and ends before it calls an endpoint.
ListsFound ==
    IF pc = "starting"
    THEN /\ readers = <<>> /\ writers = <<>>
         /\ request = NoRequest /\ x = 0 /\ result = <<>> /\ handed = <<>>
         /\ link = "up"
         /\ toClient = [sending |-> <<>>, arrived |-> <<>>] /\ got = <<>>
    ELSE \/ /\ readers = InitiateMonikerList(readMonikers)
            /\ writers = InitiateMonikerList(writeMonikers)
         \/ /\ readers = <<>> /\ writers = <<>>
            /\ StreamCancelled
            /\ pc \in {"reading", "checking", "done"}

\* A call uses the lists that InitiateMonikerList made from the client's message.
THEOREM ListsAreFound == Safety => []ListsFound
<1>1. Init => ListsFound
  BY DEF Init, ListsFound
<1>2. TypeOK /\ ListsFound /\ [Next]_vars => ListsFound'
  <2> SUFFICES ASSUME TypeOK, ListsFound, [Next]_vars PROVE ListsFound'
    OBVIOUS
  <2>0. UNCHANGED <<call, initialWrite, readMonikers, writeMonikers, Sideband, ListInStream>>
    BY MonikersUnchanged
  <2>1. ASSUME NEW source \in Endpoints, RegisterMonikerEndpoint(source) PROVE ListsFound'
    BY <2>1 DEF RegisterMonikerEndpoint, loopVars, clientVars, ListsFound
  <2>2. ASSUME Start PROVE ListsFound'
    <3>1. /\ readers' = InitiateMonikerList(readMonikers)
          /\ writers' = InitiateMonikerList(writeMonikers)
          /\ endpoints' = endpoints
          /\ pc' # "starting"
      BY <2>2, ServerSteps DEF Start, Server
    <3> QED BY <2>0, <3>1 DEF ListsFound, InitiateMonikerList
  <2>3. ASSUME StartCancelled PROVE ListsFound'
    BY <2>0, <2>3 DEF StartCancelled, loopVars, clientVars, ListsFound, StreamCancelled, Cancelled,
                      ListInStream, Sideband
  <2>4. ASSUME pc # "starting", Server \/ ReadNothing \/ WriteFails PROVE ListsFound'
    <3>1. pc' # "starting" /\ UNCHANGED <<readers, writers, endpoints, ending>>
      BY <2>4, ServerSteps
    <3>2. CASE pc \in {"reading", "checking", "done"} /\ StreamCancelled
      <4>1. pc' = "done"
        BY <2>4, <3>2 DEF Server, Start, StartCancelled, ReadMessage, FinishRead, ReadStream, CallWriter,
                          WritersCalled, CheckCancelled, CallReader, ReadersCalled, WriteAnswer, Close,
                          ReadNothing, WriteFails, StreamCancelled
      <4> QED BY <2>0, <2>4, <3>1, <4>1 DEF ListsFound, InitiateMonikerList, StreamCancelled, Cancelled
    <3>3. CASE /\ readers = InitiateMonikerList(readMonikers)
               /\ writers = InitiateMonikerList(writeMonikers)
      BY <2>0, <3>1, <3>3 DEF ListsFound, InitiateMonikerList
    <3> QED BY <2>4, <3>2, <3>3 DEF ListsFound
  <2>5. ASSUME Outside PROVE ListsFound'
    <3>1. CASE pc = "starting"
      <4>1. UNCHANGED <<toClient, got>>
        BY <2>5, <3>1 DEF Outside, TransmitToServer, TransmitToClient, CanMove, Break, Client, BeginRequest,
                          SendRequest, BeginCancel, SendCancel, CancelStream, FinishStream, ReadAnswer,
                          clientVars, ListsFound
      <4> QED BY <2>5, <3>1, <4>1, OutsideSteps DEF ListsFound
    <3>2. CASE pc # "starting"
      BY <2>0, <2>5, <3>2, OutsideSteps DEF ListsFound, InitiateMonikerList, StreamCancelled, Cancelled
    <3> QED BY <3>1, <3>2
  <2>6. CASE UNCHANGED vars
    BY <2>0, <2>6 DEF vars, listVars, loopVars, clientVars, ListsFound, InitiateMonikerList,
                      StreamCancelled, Cancelled
  <2> QED BY <2>1, <2>2, <2>3, <2>4, <2>5, <2>6, ServerSteps DEF Next, Failure, Outside
<1> QED BY <1>1, <1>2, TypeCorrect, PTL DEF Safety
-----------------------------------------------------------------------------

\* Which of the four calls is where: only a sideband call finishes direct reads
\* and closes, StreamRead reads no requests and StreamWrite writes no answers, and
\* a StreamReadWrite call that begins with the server's answer never comes to
\* read a request.
CallPaths ==
    /\ Sideband => pc # "checking"
    /\ ~Sideband => pc \notin {"finishing", "closing"} /\ link = "up"
    /\ call = "StreamRead" => pc \notin {"reading", "applying"}
    /\ call = "StreamWrite" => pc \notin {"checking", "sampling", "writing"}
    /\ call = "StreamReadWrite" /\ ~initialWrite => pc # "reading" /\ request = NoRequest
    /\ call = "StreamReadWrite" /\ initialWrite /\ pc = "checking" => StreamCancelled
    /\ Sideband /\ initialWrite /\ pc \in {"sampling", "writing"} => readers # <<>>

\* Each of the four streaming calls keeps to its own part of the steps.
THEOREM CallsKeepToTheirPaths == Safety => []CallPaths
<1>1. Init => CallPaths
  BY DEF Init, CallPaths
<1>2. TypeOK /\ ListsFound /\ CallPaths /\ [Next]_vars => CallPaths'
  <2> SUFFICES ASSUME TypeOK, ListsFound, CallPaths, [Next]_vars PROVE CallPaths'
    OBVIOUS
  <2>0. UNCHANGED <<call, initialWrite, readMonikers, writeMonikers, Sideband, ListInStream>>
    BY MonikersUnchanged
  <2>1. ASSUME NEW source \in Endpoints, RegisterMonikerEndpoint(source) PROVE CallPaths'
    BY <2>0, <2>1 DEF RegisterMonikerEndpoint, loopVars, clientVars, CallPaths, StreamCancelled, Cancelled
  <2>2. ASSUME Start \/ StartCancelled PROVE CallPaths'
    <3>1. /\ pc' \in {"reading", "checking", "sampling"}
          /\ Sideband => pc' = IF initialWrite THEN "reading" ELSE "sampling"
          /\ call = "StreamRead" => pc' = "checking"
          /\ call = "StreamWrite" => pc' = "reading"
          /\ call = "StreamReadWrite" /\ ~initialWrite => pc' = "checking"
          /\ call = "StreamReadWrite" /\ initialWrite /\ pc' = "checking" => StreamCancelled
      BY <2>2 DEF Start, StartCancelled, LoopHead, ListInStream, Sideband, StreamCancelled
    <3>2. pc = "starting" /\ UNCHANGED <<request, link, ending>>
      BY <2>2 DEF Start, StartCancelled, listVars, loopVars, clientVars
    <3> QED BY <2>0, <3>1, <3>2 DEF CallPaths, ListsFound, StreamCancelled, Cancelled, Sideband
  <2>3. ASSUME ReadMessage \/ FinishRead \/ ReadNothing PROVE CallPaths'
    <3>1. /\ Sideband /\ pc' \in {"finishing", "applying", "closing"} /\ UNCHANGED <<link, ending, readers>>
      BY <2>3 DEF ReadMessage, FinishRead, ReadNothing, clientVars, CallPaths
    <3> QED BY <2>0, <3>1 DEF CallPaths, Sideband
  <2>4. ASSUME ReadStream PROVE CallPaths'
    <3>1. /\ ~Sideband /\ pc = "reading" /\ pc' \in {"applying", "done"} /\ UNCHANGED <<link, ending, readers>>
      BY <2>4 DEF ReadStream, clientVars
    <3> QED BY <2>0, <3>1 DEF CallPaths, Sideband
  <2>5. ASSUME CallWriter \/ CallReader \/ ReadersCalled PROVE CallPaths'
    <3>1. /\ \/ pc' \in {pc, "undefined"}
             \/ pc = "sampling" /\ pc' = "writing"
          /\ UNCHANGED <<link, ending, readers, request>>
      BY <2>5 DEF CallWriter, CallReader, ReadersCalled, clientVars, loopVars
    <3> QED BY <2>0, <3>1 DEF CallPaths, StreamCancelled, Cancelled, Sideband
  <2>6. ASSUME WritersCalled PROVE CallPaths'
    <3>1. /\ pc' = AfterWriters /\ UNCHANGED <<link, ending, readers, request>> /\ pc = "applying"
      BY <2>6 DEF WritersCalled, clientVars
    <3> QED BY <2>0, <3>1 DEF CallPaths, AfterWriters, StreamCancelled, Cancelled, Sideband, TypeOK, Calls
  <2>7. ASSUME CheckCancelled PROVE CallPaths'
    <3>1. /\ pc = "checking" /\ pc' \in {"done", "sampling"} /\ UNCHANGED <<link, ending, readers, request>>
      BY <2>7 DEF CheckCancelled, clientVars
    <3> QED BY <2>0, <3>1 DEF CallPaths, Sideband
  <2>8. ASSUME WriteAnswer \/ WriteFails PROVE CallPaths'
    <3>1. /\ pc = "writing" /\ pc' \in {AfterWrite, "undefined"} /\ UNCHANGED <<link, ending, readers, request>>
      BY <2>8 DEF WriteAnswer, WriteFails, clientVars
    <3>2. CASE Sideband
      <4>1. AfterWrite \in {"closing", "reading", "sampling"} /\ (AfterWrite = "sampling" => ~initialWrite)
        BY <3>2 DEF AfterWrite, AddsValues, Sideband
      <4> QED BY <2>0, <3>1, <3>2, <4>1 DEF CallPaths, Sideband
    <3>3. CASE call = "StreamRead"
      <4>1. AfterWrite = "checking"
        BY <3>3 DEF AfterWrite, Sideband
      <4> QED BY <2>0, <3>1, <3>3, <4>1 DEF CallPaths, Sideband
    <3>4. CASE call = "StreamReadWrite"
      <4>1. AfterWrite = IF initialWrite THEN "reading" ELSE "applying"
        BY <3>4 DEF AfterWrite, AddsValues, Sideband
      <4> QED BY <2>0, <3>1, <3>4, <4>1 DEF CallPaths, Sideband
    <3>5. call # "StreamWrite"
      BY <3>1 DEF CallPaths
    <3> QED BY <3>2, <3>3, <3>4, <3>5 DEF TypeOK, Calls, Sideband
  <2>9. ASSUME Close PROVE CallPaths'
    <3>1. /\ pc = "closing" /\ pc' = "done" /\ UNCHANGED <<ending, readers, request>>
      BY <2>9 DEF Close, clientVars, loopVars
    <3> QED BY <2>0, <3>1 DEF CallPaths, Sideband
  <2>10. ASSUME Outside PROVE CallPaths'
    BY <2>0, <2>10, OutsideSteps DEF CallPaths, StreamCancelled, Cancelled
  <2>11. CASE UNCHANGED vars
    BY <2>0, <2>11 DEF vars, listVars, loopVars, clientVars, CallPaths, StreamCancelled, Cancelled
  <2> QED BY <2>1, <2>2, <2>3, <2>4, <2>5, <2>6, <2>7, <2>8, <2>9, <2>10, <2>11
          DEF Next, Server, Failure, Outside
<1> QED BY <1>1, <1>2, TypeCorrect, ListsAreFound, PTL DEF Safety

-----------------------------------------------------------------------------

\* A list of n equal values, and one more.
LEMMA AppendEqual ==
  ASSUME NEW S, NEW e \in S, NEW n \in Nat
  PROVE  /\ Append([r \in 1 .. n |-> e], e) = [r \in 1 .. n + 1 |-> e]
         /\ Len([r \in 1 .. n |-> e]) = n
<1> DEFINE f == [r \in 1 .. n |-> e]
           g == [r \in 1 .. n + 1 |-> e]
<1>1. f \in Seq(S) /\ Len(f) = n /\ g \in Seq(S) /\ Len(g) = n + 1
  OBVIOUS
<1>2. /\ Append(f, e) \in Seq(S)
      /\ Len(Append(f, e)) = n + 1
      /\ \A i \in 1 .. n : Append(f, e)[i] = f[i]
      /\ Append(f, e)[n + 1] = e
  <2> HIDE DEF f, g
  <2> QED BY <1>1, AppendProperties
<1>3. ASSUME NEW i \in 1 .. n + 1 PROVE Append(f, e)[i] = g[i]
  <2>1. CASE i = n + 1
    BY <1>2, <2>1
  <2>2. CASE i \in 1 .. n
    BY <1>2, <2>2
  <2> QED BY <2>1, <2>2
<1>4. Append(f, e) = g
  <2> HIDE DEF f, g
  <2> QED BY <1>1, <1>2, <1>3, SeqEqual
<1> QED BY <1>1, <1>4

LEMMA NoValues ==
  ASSUME NEW e, NEW n \in Nat
  PROVE  [r \in 1 .. n |-> e] = <<>> <=> n = 0
OBVIOUS

\* The index of each loop stays within the list it goes through, and an answer
\* has one value for each endpoint called so far, read while nothing changed.
LoopIndex ==
    /\ pc = "applying" => x <= Len(writers)
    /\ pc \in {"sampling", "writing"} => /\ x <= Len(readers)
                                         /\ ~AddsValues => x = 0
                                         /\ result = [r \in 1 .. x |-> Sample]
    /\ pc = "writing" => x = Len(readers)

\* The loops over readers and writers stay within them, and an answer is of one
\* moment.
THEOREM LoopsStayInTheirLists == Safety => []LoopIndex
<1>1. Init => LoopIndex
  BY DEF Init, LoopIndex
<1>2. TypeOK /\ TypeOK' /\ ListsFound /\ LoopIndex /\ [Next]_vars => LoopIndex'
  <2> SUFFICES ASSUME TypeOK, TypeOK', ListsFound, LoopIndex, [Next]_vars PROVE LoopIndex'
    OBVIOUS
  <2>0. call' = call /\ initialWrite' = initialWrite /\ (AddsValues' <=> AddsValues)
    BY MonikersUnchanged DEF AddsValues
  <2>a. Len(readers) \in Nat /\ Len(writers) \in Nat /\ x \in Nat /\ DOMAIN readMonikers = 1 .. Len(readMonikers)
    BY LenProperties DEF TypeOK
  <2>c. Len(readers') \in Nat /\ Len(writers') \in Nat
    BY LenProperties DEF TypeOK
  <2>d. ASSUME pc' \in {"starting", "reading", "finishing", "checking", "closing", "done", "undefined"} PROVE LoopIndex'
    BY <2>d DEF LoopIndex
  \* a loop that begins
  <2>e. ASSUME pc' \in {"applying", "sampling"}, x' = 0, pc' = "sampling" => result' = <<>> PROVE LoopIndex'
    <3>1. result' = <<>> => result' = [r \in 1 .. 0 |-> Sample']
      BY NoValues
    <3> QED BY <2>c, <2>e, <3>1 DEF LoopIndex
  <2>1. ASSUME NEW source \in Endpoints, RegisterMonikerEndpoint(source) PROVE LoopIndex'
    BY <2>0, <2>1, <2>d DEF RegisterMonikerEndpoint, loopVars
  <2>2. ASSUME Start PROVE LoopIndex'
    <3>1. pc' \in {"reading", "checking", "sampling"} /\ x' = 0 /\ result' = <<>>
      BY <2>2 DEF Start, LoopHead, ListsFound
    <3> QED BY <2>d, <2>e, <3>1
  <2>3. ASSUME StartCancelled \/ ReadMessage \/ Close PROVE LoopIndex'
    BY <2>3, <2>d DEF StartCancelled, ReadMessage, Close
  <2>4. ASSUME FinishRead \/ ReadNothing \/ ReadStream PROVE LoopIndex'
    <3>1. pc' \in {"applying", "closing", "done"} /\ x' = 0
      BY <2>4 DEF FinishRead, ReadNothing, ReadStream
    <3> QED BY <2>d, <2>e, <3>1
  <2>5. ASSUME CallWriter PROVE LoopIndex'
    <3>1. \/ pc' = "undefined"
          \/ pc' = "applying" /\ x' = x + 1 /\ x < Len(writers) /\ writers' = writers
      BY <2>5 DEF CallWriter
    <3> QED BY <2>a, <2>d, <3>1 DEF LoopIndex
  <2>6. ASSUME WritersCalled \/ CheckCancelled PROVE LoopIndex'
    <3>1. pc' \in {"reading", "checking", "sampling", "done"} /\ x' = 0 /\ result' = <<>>
      BY <2>6 DEF WritersCalled, CheckCancelled, AfterWriters
    <3> QED BY <2>d, <2>e, <3>1
  <2>7. ASSUME CallReader PROVE LoopIndex'
    <3>1. CASE pc' = "undefined"
      BY <2>d, <3>1
    <3>2. CASE pc' # "undefined"
      <4>1. /\ pc = "sampling" /\ pc' = "sampling" /\ x < Len(readers) /\ AddsValues
            /\ x' = x + 1 /\ result' = Append(result, Sample)
            /\ UNCHANGED <<readers, request, handed>>
        BY <2>7, <3>2 DEF CallReader
      <4>2. Sample' = Sample
        BY <4>1 DEF Sample
      <4>3. result = [r \in 1 .. x |-> Sample]
        BY <4>1 DEF LoopIndex
      <4>4. result' = [r \in 1 .. x + 1 |-> Sample]
        <5>1. \A e : Append([r \in 1 .. x |-> e], e) = [r \in 1 .. x + 1 |-> e]
          BY <2>a, AppendEqual
        <5> QED BY <4>1, <4>3, <5>1
      <4>5. result' = [r \in 1 .. x' |-> Sample']
        BY <4>1, <4>2, <4>4
      <4> QED BY <2>0, <2>a, <4>1, <4>5 DEF LoopIndex
    <3> QED BY <3>1, <3>2
  <2>8. ASSUME ReadersCalled PROVE LoopIndex'
    <3>1. /\ pc = "sampling" /\ pc' = "writing" /\ x = Len(readers)
          /\ UNCHANGED <<readers, x, result, request, handed>>
      BY <2>8 DEF ReadersCalled, loopVars
    <3>2. Sample' = Sample
      BY <3>1 DEF Sample
    <3> QED BY <2>0, <2>a, <3>1, <3>2 DEF LoopIndex
  <2>9. ASSUME WriteAnswer \/ WriteFails PROVE LoopIndex'
    <3>1. pc = "writing" /\ pc' \in {AfterWrite, "undefined"} /\ x' = 0 /\ UNCHANGED <<readers, result>>
      BY <2>9 DEF WriteAnswer, WriteFails
    \* an answer without values ends the call
    <3>2. AfterWrite # "sampling"
      <4>1. CASE AddsValues
        BY <4>1 DEF AfterWrite, AddsValues, Sideband
      <4>2. CASE ~AddsValues
        <5>1. result = <<>>
          BY <2>a, <3>1, <4>2, NoValues DEF LoopIndex
        <5> QED BY <5>1 DEF AfterWrite
      <4> QED BY <4>1, <4>2
    <3>3. AfterWrite \in {"closing", "checking", "applying", "reading"}
      BY <3>2 DEF AfterWrite
    <3> QED BY <2>d, <2>e, <3>1, <3>3
  <2>10. ASSUME Outside \/ UNCHANGED vars PROVE LoopIndex'
    <3>1. UNCHANGED <<pc, readers, writers, request, x, result, handed>>
      BY <2>10, OutsideSteps DEF vars, loopVars
    <3>2. Sample' = Sample
      BY <3>1 DEF Sample
    <3> QED BY <2>0, <3>1, <3>2 DEF LoopIndex
  <2> QED BY <2>1, <2>2, <2>3, <2>4, <2>5, <2>6, <2>7, <2>8, <2>9, <2>10
          DEF Next, Server, Failure, Outside
<1> QED BY <1>1, <1>2, TypeCorrect, ListsAreFound, PTL DEF Safety

-----------------------------------------------------------------------------
(* The way of the requests *)

\* Until FinishDirectRead returns its region the message that was parsed from it
\* is the first of those that arrived; over a sideband every message is a
\* request or a cancel; and a cancel is the last thing a client sends there.
RegionHeld ==
    /\ Sideband /\ Cancelled => cpc = "idle"
    /\ pc = "finishing" => request = Head(toServer.arrived)
    /\ Sideband => \A i \in 1 .. Len(Contents(toServer)) : Contents(toServer)[i] # NoRequest

\* A request that was read directly is still in its region when that is returned.
THEOREM RegionsAreHeld == Safety => []RegionHeld
<1>1. Init => RegionHeld
  <2> SUFFICES ASSUME Init PROVE RegionHeld
    OBVIOUS
  <2>1. Sideband => Len(Contents(toServer)) = 0
    <3>1. Sideband => toServer.sending = <<>> /\ toServer.arrived = <<>>
      BY DEF Init, Sideband, ListInStream
    <3>2. Sideband => Contents(toServer) = <<>> \o <<>>
      BY <3>1 DEF Contents
    <3>3. Len(<<>> \o <<>>) = 0
      BY EmptySeq, ConcatProperties
    <3> QED BY <3>2, <3>3
  <2> QED BY <2>1 DEF Init, RegionHeld, Cancelled
<1>2. TypeOK /\ RegionHeld /\ CallPaths /\ [Next]_vars => RegionHeld'
  <2> SUFFICES ASSUME TypeOK, RegionHeld, CallPaths, [Next]_vars PROVE RegionHeld'
    OBVIOUS
  <2>0. (Sideband' <=> Sideband) /\ NoRequest' = NoRequest
    BY MonikersUnchanged DEF Sideband, NoRequest
  <2>a. toServer \in Direction(Messages) /\ Len(Contents(toServer)) \in Nat
    <3>1. toServer \in Direction(Messages)
      BY DEF TypeOK
    <3> QED BY <3>1, ContentsType
  \* steps that leave the messages to the server alone
  <2>b. ASSUME toServer' = toServer, UNCHANGED <<cpc, ending>>,
               pc' = "finishing" => request' = Head(toServer.arrived)
        PROVE  RegionHeld'
    <3>1. Contents(toServer)' = Contents(toServer) /\ (Cancelled' <=> Cancelled)
      BY <2>b DEF Contents, Cancelled
    <3> QED BY <2>0, <2>b, <3>1 DEF RegionHeld
  \* steps that take the first one
  <2>c. ASSUME toServer.arrived # <<>>, toServer' = [toServer EXCEPT !.arrived = Tail(@)],
               UNCHANGED <<cpc, ending>>, pc' # "finishing"
        PROVE  RegionHeld'
    <3>1. /\ Len(Contents(toServer')) = Len(Contents(toServer)) - 1
          /\ \A i \in 1 .. Len(Contents(toServer')) : Contents(toServer')[i] = Contents(toServer)[i + 1]
      BY <2>a, <2>c, TakenContents
    <3>2. ASSUME Sideband, NEW i \in 1 .. Len(Contents(toServer')) PROVE Contents(toServer')[i] # NoRequest
      <4>1. i + 1 \in 1 .. Len(Contents(toServer))
        BY <2>a, <3>1
      <4> QED BY <3>1, <3>2, <4>1 DEF RegionHeld
    <3>3. Contents(toServer)' = Contents(toServer') /\ (Cancelled' <=> Cancelled)
      BY <2>c DEF Contents, Cancelled
    <3> QED BY <2>0, <2>c, <3>2, <3>3 DEF RegionHeld
  \* steps that send one more
  <2>d. ASSUME NEW m \in Messages, m # NoRequest, toServer' = [toServer EXCEPT !.sending = Append(@, m)],
               cpc' = "idle", UNCHANGED <<pc, request>>
        PROVE  RegionHeld'
    <3>1. /\ toServer'.arrived = toServer.arrived
          /\ Len(Contents(toServer')) = Len(Contents(toServer)) + 1
          /\ \A i \in 1 .. Len(Contents(toServer)) : Contents(toServer')[i] = Contents(toServer)[i]
          /\ Contents(toServer')[Len(Contents(toServer)) + 1] = m
      BY <2>a, <2>d, SentContents
    <3>2. ASSUME Sideband, NEW i \in 1 .. Len(Contents(toServer')) PROVE Contents(toServer')[i] # NoRequest
      <4>1. CASE i = Len(Contents(toServer)) + 1
        BY <2>d, <3>1, <4>1
      <4>2. CASE i \in 1 .. Len(Contents(toServer))
        BY <3>1, <3>2, <4>2 DEF RegionHeld
      <4> QED BY <2>a, <3>1, <4>1, <4>2
    <3>3. Contents(toServer)' = Contents(toServer')
      BY DEF Contents
    <3> QED BY <2>0, <2>d, <3>1, <3>2, <3>3 DEF RegionHeld
  <2>1. ASSUME NEW source \in Endpoints, RegisterMonikerEndpoint(source) PROVE RegionHeld'
    BY <2>1, <2>b DEF RegisterMonikerEndpoint, loopVars, clientVars
  <2>2. ASSUME Start PROVE RegionHeld'
    <3>1. pc' # "finishing" /\ UNCHANGED <<cpc, ending>>
      BY <2>2 DEF Start, LoopHead, clientVars
    <3>2. \/ toServer' = toServer
          \/ toServer.arrived # <<>> /\ toServer' = [toServer EXCEPT !.arrived = Tail(@)]
      BY <2>2 DEF Start, TypeOK
    <3> QED BY <2>b, <2>c, <3>1, <3>2
  <2>3. ASSUME ReadMessage PROVE RegionHeld'
    BY <2>3, <2>b DEF ReadMessage, clientVars
  <2>4. ASSUME FinishRead PROVE RegionHeld'
    <3>1. /\ toServer.arrived # <<>> /\ toServer' = [toServer EXCEPT !.arrived = Tail(@)]
          /\ UNCHANGED <<cpc, ending>> /\ pc' # "finishing"
      BY <2>4 DEF FinishRead, TypeOK, clientVars
    <3> QED BY <2>c, <3>1
  <2>5. ASSUME ReadStream PROVE RegionHeld'
    <3>1. /\ \/ toServer' = toServer
             \/ toServer.arrived # <<>> /\ toServer' = [toServer EXCEPT !.arrived = Tail(@)]
          /\ UNCHANGED <<cpc, ending>> /\ pc' # "finishing"
      BY <2>5 DEF ReadStream, clientVars
    <3> QED BY <2>b, <2>c, <3>1
  <2>6. ASSUME \/ StartCancelled \/ ReadNothing \/ CallWriter \/ WritersCalled \/ CheckCancelled
               \/ CallReader \/ ReadersCalled \/ WriteAnswer \/ WriteFails
        PROVE  RegionHeld'
    <3>1. pc' # "finishing" /\ toServer' = toServer /\ UNCHANGED <<cpc, ending>>
      BY <2>6 DEF StartCancelled, ReadNothing, CallWriter, WritersCalled, CheckCancelled, CallReader,
                  ReadersCalled, WriteAnswer, WriteFails, AfterWriters, AfterWrite, clientVars
    <3> QED BY <2>b, <3>1
  <2>7. ASSUME Close \/ Break PROVE RegionHeld'
    <3>1. /\ toServer' = [toServer EXCEPT !.sending = <<>>]
          /\ UNCHANGED <<cpc, ending>>
          /\ pc' = "done" \/ UNCHANGED <<pc, request>>
      BY <2>7 DEF Close, Break, clientVars, loopVars
    <3>2. /\ toServer'.arrived = toServer.arrived
          /\ Len(Contents(toServer')) <= Len(Contents(toServer))
          /\ \A i \in 1 .. Len(Contents(toServer')) : Contents(toServer')[i] = Contents(toServer)[i]
          /\ toServer' \in Direction(Messages)
      BY <2>a, <3>1, LostContents
    <3>3. Len(Contents(toServer')) \in Nat
      BY <3>2, ContentsType
    <3>4. ASSUME Sideband, NEW i \in 1 .. Len(Contents(toServer')) PROVE Contents(toServer')[i] # NoRequest
      BY <2>a, <3>2, <3>3, <3>4 DEF RegionHeld
    <3>5. Contents(toServer)' = Contents(toServer') /\ (Cancelled' <=> Cancelled)
      BY <3>1 DEF Contents, Cancelled
    <3> QED BY <2>0, <3>1, <3>2, <3>4, <3>5 DEF RegionHeld
  <2>8. ASSUME TransmitToServer PROVE RegionHeld'
    <3>1. /\ toServer' = Moved(toServer) /\ CanMove(toServer)
          /\ UNCHANGED <<cpc, ending, pc, request>>
      BY <2>8 DEF TransmitToServer, loopVars, clientVars
    <3>2. Contents(toServer') = Contents(toServer)
      BY <2>a, <3>1, MovedContents
    <3>3. Contents(toServer)' = Contents(toServer) /\ (Cancelled' <=> Cancelled)
      BY <3>1, <3>2 DEF Contents, Cancelled
    <3>4. ASSUME pc = "finishing" PROVE Head(toServer'.arrived) = Head(toServer.arrived)
      <4>1. toServer.arrived \in Seq(Messages) /\ toServer.sending \in Seq(Messages)
            /\ toServer.sending # <<>> /\ toServer.arrived # <<>>
        BY <2>a, <3>1, <3>4 DEF CanMove, Direction, TypeOK
      <4>2. toServer'.arrived = Append(toServer.arrived, Head(toServer.sending))
        BY <3>1 DEF Moved
      <4> DEFINE a == toServer.arrived
                 h == Head(toServer.sending)
      <4>3. a \in Seq(Messages) /\ a # <<>> /\ h \in Messages
        BY <4>1, HeadTailProperties
      <4> HIDE DEF a, h
      <4>4. Append(a, h)[1] = a[1] /\ Append(a, h) # <<>> /\ Append(a, h) \in Seq(Messages)
        BY <4>3, AppendProperties, HeadTailProperties, LenProperties, EmptySeq
      <4>5. Head(Append(a, h)) = Head(a)
        BY <4>3, <4>4, HeadTailProperties
      <4> QED BY <4>2, <4>5 DEF a, h
    <3> QED BY <2>0, <3>1, <3>3, <3>4 DEF RegionHeld
  <2>9. ASSUME SendRequest PROVE RegionHeld'
    <3>1. sent \in 1 .. MaxRequests
      BY <2>9, ServiceAssumption DEF TypeOK, SendRequest
    <3>2. Request(sent) \in Messages /\ Request(sent) # NoRequest
      BY <3>1, RequestFields DEF NoRequest
    <3> QED BY <2>9, <2>d, <3>2 DEF SendRequest, loopVars
  <2>10. ASSUME SendCancel PROVE RegionHeld'
    <3>1. CancelRequest \in Messages /\ CancelRequest # NoRequest
      BY DEF Messages, CancelRequest, NoRequest
    <3> QED BY <2>10, <2>d, <3>1 DEF SendCancel, loopVars
  <2>11. ASSUME BeginRequest \/ BeginCancel \/ CancelStream \/ FinishStream PROVE RegionHeld'
    <3>1. /\ UNCHANGED <<toServer, pc, request>>
          /\ Sideband /\ Cancelled' => Cancelled /\ cpc' = cpc
      BY <2>11 DEF BeginRequest, BeginCancel, CancelStream, FinishStream, loopVars, Alive, Cancelled, Sideband,
                   ListInStream
    <3>2. Contents(toServer)' = Contents(toServer)
      BY <3>1 DEF Contents
    <3> QED BY <2>0, <3>1, <3>2 DEF RegionHeld
  <2>12. ASSUME TransmitToClient \/ ReadAnswer \/ UNCHANGED vars PROVE RegionHeld'
    <3>1. UNCHANGED <<toServer, pc, request, cpc, ending>>
      BY <2>12 DEF TransmitToClient, ReadAnswer, vars, loopVars, clientVars
    <3> QED BY <2>b, <3>1 DEF RegionHeld
  <2> QED BY <2>1, <2>2, <2>3, <2>4, <2>5, <2>6, <2>7, <2>8, <2>9, <2>10, <2>11, <2>12
          DEF Next, Server, Failure, Client
<1> QED BY <1>1, <1>2, TypeCorrect, CallsKeepToTheirPaths, PTL DEF Safety

-----------------------------------------------------------------------------

Values == Len(writeMonikers)

\* The loop goes over the writers without a request: the region of the read was
\* refused, or the call begins with the server's answer and reads none.
ReadNoRequest == \/ Sideband /\ link = "broken"
                 \/ call = "StreamReadWrite" /\ ~initialWrite

\* How many values the endpoints were given follows from the request the loop
\* is at and from how far it is.
HandingOver ==
    /\ pc = "applying" => \/ /\ request = NoRequest /\ x = 0 /\ ReadNoRequest
                             /\ Values = 0 => Len(handed) = 0
                          \/ /\ request.id > 0 /\ request = Request(request.id)
                             /\ Len(handed) = (request.id - 1) * Values + x
    /\ pc = "finishing" /\ ~request.cancel => /\ request.id > 0 /\ request = Request(request.id)
                                              /\ Len(handed) = (request.id - 1) * Values
    /\ pc \in {"starting", "reading", "checking", "sampling", "writing"} => Len(handed) = request.id * Values

\* A sideband that broke gives requests without values: where nothing is to be
\* handed over the loop goes on with them, and the ids it reads start again.
Lost == Sideband /\ link = "broken" /\ (writers = <<>> \/ (pc = "applying" /\ request = NoRequest))

\* The call still reads the client's messages one after the other.
Orderly == /\ pc \notin {"closing", "done", "undefined"}
           /\ ~(pc = "finishing" /\ request.cancel)
           /\ ~StreamCancelled
           /\ ~Lost

\* The requests the client has put on their way, and those taken from it.
Committed == IF cpc = "sending" THEN sent - 1 ELSE sent
Passed == IF pc = "finishing" \/ (pc = "starting" /\ ListInStream) THEN request.id - 1 ELSE request.id

\* The k-th message of a call: the list, the requests, and a cancel.
Nth(k) == IF k = 0 THEN NoRequest ELSE IF k <= Committed THEN Request(k) ELSE CancelRequest

\* What is on its way are the messages behind those taken, in the order they
\* were sent; none is missing while the connection is up.
InTheirOrder == Orderly =>
    /\ \A i \in 1 .. Len(Contents(toServer)) : Contents(toServer)[i] = Nth(Passed + i)
    /\ link = "up" => Passed + Len(Contents(toServer)) = IF Sideband /\ Cancelled THEN Committed + 1 ELSE Committed

LEMMA Counts ==
  ASSUME TypeOK
  PROVE  /\ Values \in Nat /\ x \in Nat /\ Len(handed) \in Nat
         /\ request.id \in 0 .. MaxRequests /\ request.id \in Nat
         /\ Committed \in 0 .. MaxRequests /\ Committed \in Nat /\ MaxRequests \in Nat
         /\ Passed \in Int
         /\ toServer \in Direction(Messages)
         /\ Len(Contents(toServer)) \in Nat
         /\ Len(readers) \in Nat /\ Len(writers) \in Nat
<1>1. MaxRequests \in Nat
  BY ServiceAssumption
<1>2. request.id \in 0 .. MaxRequests
  BY MessageFields DEF TypeOK
<1>3. toServer \in Direction(Messages)
  BY DEF TypeOK
<1>4. Len(Contents(toServer)) \in Nat
  BY <1>3, ContentsType
<1>5. Committed \in 0 .. MaxRequests
  BY <1>1 DEF TypeOK, Committed
<1>6. Passed \in Int
  BY <1>1, <1>2 DEF Passed
<1>7. Values \in Nat /\ x \in Nat /\ Len(handed) \in Nat /\ Len(readers) \in Nat /\ Len(writers) \in Nat
  BY LenProperties DEF TypeOK, Values
<1> QED BY <1>1, <1>2, <1>3, <1>4, <1>5, <1>6, <1>7

LEMMA Products ==
  ASSUME NEW k \in Nat, NEW w \in Nat
  PROVE  /\ k * w \in Nat
         /\ (k + 1) * w = k * w + w
         /\ (k + 1 - 1) * w = k * w
         /\ 0 * w = 0 /\ k * 0 = 0
         /\ k > 0 => k - 1 \in Nat /\ (k - 1) * w \in Nat /\ (k - 1) * w + w = k * w
<1>1. ASSUME NEW j \in Nat PROVE j * w \in Nat /\ (j + 1) * w = j * w + w /\ (j + 1 - 1) * w = j * w
  OBVIOUS
<1>2. ASSUME k > 0 PROVE k - 1 \in Nat /\ (k - 1) * w \in Nat /\ (k - 1) * w + w = k * w
  <2>1. k - 1 \in Nat /\ (k - 1) + 1 = k
    BY <1>2
  <2> QED BY <1>1, <2>1
<1> QED BY <1>1, <1>2

\* The endpoints of a call that has lists are as many as their monikers.
LEMMA ListLengths ==
  ASSUME TypeOK, ListsFound, pc \notin {"starting", "reading", "checking", "done"}
  PROVE  Len(writers) = Values /\ Len(readers) = Len(readMonikers)
BY ListOfEndpoints DEF ListsFound, TypeOK, Values

\* What the next read gives.
LEMMA NextRequest ==
  ASSUME TypeOK, CallPaths, InTheirOrder, Orderly, pc = "reading", toServer.arrived # <<>>
  PROVE  /\ Head(toServer.arrived) \in Messages
         /\ \/ Head(toServer.arrived) = CancelRequest /\ Sideband
            \/ /\ Head(toServer.arrived) = Request(request.id + 1)
               /\ request.id + 1 \in 1 .. MaxRequests
               /\ Request(request.id + 1).id = request.id + 1
               /\ ~Request(request.id + 1).cancel
<1>0. Head(toServer.arrived) = Contents(toServer)[1] /\ Head(toServer.arrived) \in Messages
      /\ Len(Contents(toServer)) \in Nat \ {0}
  BY Counts, TakenContents
<1>1. Passed = request.id /\ request.id \in Nat /\ Committed \in 0 .. MaxRequests /\ MaxRequests \in Nat
  BY Counts DEF Passed
<1>2. Contents(toServer)[1] = Nth(request.id + 1)
  BY <1>0, <1>1 DEF InTheirOrder
<1>3. CASE request.id + 1 <= Committed
  <2>1. request.id + 1 \in 1 .. MaxRequests
    BY <1>1, <1>3
  <2>2. Nth(request.id + 1) = Request(request.id + 1)
    BY <1>1, <1>3 DEF Nth
  <2> QED BY <1>0, <1>2, <2>1, <2>2, RequestFields
<1>4. CASE ~(request.id + 1 <= Committed)
  <2>1. Nth(request.id + 1) = CancelRequest
    BY <1>1, <1>4 DEF Nth
  <2>2. Sideband
    <3>1. CASE ~Sideband
      <4>1. link = "up"
        BY <3>1 DEF CallPaths
      <4>2. request.id + Len(Contents(toServer)) = Committed
        BY <1>1, <3>1, <4>1 DEF InTheirOrder
      <4> QED BY <1>0, <1>1, <1>4, <4>2
    <3> QED BY <3>1
  <2> QED BY <1>0, <1>2, <2>1, <2>2
<1> QED BY <1>3, <1>4

LEMMA HandsOver ==
  ASSUME TypeOK, ListsFound, CallPaths, LoopIndex, RegionHeld, HandingOver, InTheirOrder, [Next]_vars
  PROVE  HandingOver'
<1>0. UNCHANGED <<call, initialWrite, writeMonikers>> /\ Values' = Values /\ NoRequest' = NoRequest
      /\ \A k : Request(k)' = Request(k)
  BY MonikersUnchanged DEF Values, NoRequest, Request
<1>a. Values \in Nat /\ x \in Nat /\ Len(handed) \in Nat /\ request.id \in Nat
  BY Counts
\* steps that change none of it but the place of the call
<1>b. ASSUME pc' \in {"closing", "done", "undefined"} PROVE HandingOver'
  BY <1>b DEF HandingOver
<1>c. ASSUME pc \in {"starting", "reading", "checking", "sampling", "writing"},
             pc' \in {"starting", "reading", "checking", "sampling", "writing"},
             UNCHANGED <<request, handed>>
      PROVE  HandingOver'
  BY <1>0, <1>c DEF HandingOver
<1>1. ASSUME \/ \E source \in Endpoints : RegisterMonikerEndpoint(source)
             \/ Start \/ StartCancelled \/ CheckCancelled \/ CallReader \/ ReadersCalled
      PROVE  HandingOver'
  <2>1. /\ pc \in {"starting", "reading", "checking", "sampling", "writing"}
        /\ pc' \in {"starting", "reading", "checking", "sampling", "writing", "done", "undefined"}
        /\ UNCHANGED <<request, handed>>
    BY <1>1 DEF RegisterMonikerEndpoint, Start, StartCancelled, CheckCancelled, CallReader, ReadersCalled,
                LoopHead, loopVars
  <2> QED BY <1>b, <1>c, <2>1
<1>2. ASSUME ReadMessage PROVE HandingOver'
  <2>1. /\ pc = "reading" /\ pc' = "finishing" /\ Sideband /\ toServer.arrived # <<>>
        /\ request' = Head(toServer.arrived) /\ UNCHANGED <<handed, writers>>
    BY <1>2 DEF ReadMessage
  <2>2. Len(handed) = request.id * Values
    BY <2>1 DEF HandingOver
  <2>3. ASSUME ~request'.cancel
        PROVE request'.id > 0 /\ request' = Request(request'.id) /\ Len(handed) = (request'.id - 1) * Values
    <3>1. CASE Orderly
      <4>1. \/ request' = CancelRequest
            \/ /\ request' = Request(request.id + 1) /\ request'.id = request.id + 1
        BY <2>1, <3>1, NextRequest
      <4>2. request' # CancelRequest
        BY <2>3 DEF CancelRequest, NoRequest
      <4>3. request' = Request(request.id + 1) /\ request'.id = request.id + 1
        BY <4>1, <4>2
      <4>4. request'.id - 1 = request.id
        BY <1>a, <4>3
      <4>5. (request'.id - 1) * Values = request.id * Values
        BY <4>4
      <4> QED BY <1>a, <2>2, <4>3, <4>5
    <3>2. CASE ~Orderly
      <4>1. Lost
        BY <2>1, <3>2 DEF Orderly, StreamCancelled
      <4>2. writers = <<>> /\ Len(writers) = Values
        <5>1. writers = <<>> /\ link = "broken"
          BY <2>1, <4>1 DEF Lost
        <5>2. Len(writers) = Values
          BY <2>1, ListOfEndpoints DEF ListsFound, StreamCancelled, TypeOK, Values
        <5> QED BY <5>1, <5>2
      <4>3. Values = 0
        BY <4>2
      <4>4. Len(handed) = 0
        BY <1>a, <2>2, <4>3, Products
      <4>5. request' \in Messages /\ request' # NoRequest
        <5>1. toServer \in Direction(Messages)
          BY DEF TypeOK
        <5>2. /\ Head(toServer.arrived) \in Messages /\ Head(toServer.arrived) = Contents(toServer)[1]
              /\ Len(Contents(toServer)) \in Nat \ {0}
          BY <2>1, <5>1, TakenContents
        <5> QED BY <2>1, <5>2 DEF RegionHeld
      <4>6. request' = Request(request'.id) /\ request'.id \in 1 .. MaxRequests
        BY <2>3, <4>5, MessageFields
      <4>7. request'.id > 0 /\ request'.id - 1 \in Nat
        BY <4>6, Counts
      <4>8. (request'.id - 1) * Values = 0
        BY <4>3, <4>7, Products
      <4> QED BY <4>4, <4>6, <4>7, <4>8
    <3> QED BY <3>1, <3>2
  <2> QED BY <1>0, <2>1, <2>3 DEF HandingOver
<1>3. ASSUME FinishRead PROVE HandingOver'
  <2>1. /\ pc = "finishing" /\ x' = 0 /\ UNCHANGED <<request, handed>>
        /\ pc' = IF request.cancel THEN "closing" ELSE "applying"
    BY <1>3 DEF FinishRead
  <2>2. CASE ~request.cancel
    <3>1. /\ request.id > 0 /\ request = Request(request.id) /\ Len(handed) = (request.id - 1) * Values
      BY <2>1, <2>2 DEF HandingOver
    <3>2. (request.id - 1) * Values + 0 = (request.id - 1) * Values
      BY <1>a, <3>1, Products
    <3> QED BY <1>0, <2>1, <2>2, <3>1, <3>2 DEF HandingOver
  <2> QED BY <1>b, <2>1, <2>2
<1>4. ASSUME ReadNothing PROVE HandingOver'
  <2>1. /\ pc = "reading" /\ pc' = "applying" /\ Sideband /\ link = "broken" /\ request' = NoRequest
        /\ x' = 0 /\ UNCHANGED <<handed, link>>
    BY <1>4 DEF ReadNothing
  <2>2. Values = 0 => Len(handed) = 0
    BY <1>a, <2>1, Products DEF HandingOver
  <2>3. ReadNoRequest'
    BY <1>0, <2>1 DEF ReadNoRequest, Sideband
  <2> QED BY <1>0, <2>1, <2>2, <2>3 DEF HandingOver
<1>5. ASSUME ReadStream PROVE HandingOver'
  <2>1. CASE pc' = "done"
    BY <1>b, <2>1
  <2>2. CASE pc' # "done"
    <3>1. /\ pc = "reading" /\ pc' = "applying" /\ ~Sideband /\ toServer.arrived # <<>> /\ ~Cancelled
          /\ request' = Head(toServer.arrived) /\ x' = 0 /\ UNCHANGED handed
      BY <1>5, <2>2 DEF ReadStream
    <3>2. Orderly
      BY <3>1 DEF Orderly, StreamCancelled, Lost
    <3>3. request' = Request(request.id + 1) /\ request'.id = request.id + 1
      BY <3>1, <3>2, NextRequest
    <3>4. request'.id - 1 = request.id
      BY <1>a, <3>3
    <3>5. (request'.id - 1) * Values = request.id * Values
      BY <3>4
    <3>6. Len(handed) = request.id * Values
      BY <3>1 DEF HandingOver
    <3>7. request'.id > 0 /\ Len(handed) = (request'.id - 1) * Values + 0
      BY <1>a, <3>3, <3>5, <3>6
    <3> QED BY <1>0, <3>1, <3>3, <3>7 DEF HandingOver
  <2> QED BY <2>1, <2>2
<1>6. ASSUME CallWriter PROVE HandingOver'
  <2>1. CASE pc' = "undefined"
    BY <1>b, <2>1
  <2>2. CASE pc' # "undefined"
    <3>1. /\ pc = "applying" /\ pc' = "applying" /\ ~(x >= Len(request.values))
          /\ handed' = Append(handed, <<x + 1, request.values[x + 1]>>) /\ x' = x + 1
          /\ UNCHANGED request
      BY <1>6, <2>2 DEF CallWriter
    <3>2. request # NoRequest
      <4>1. Len(NoRequest.values) = 0
        BY DEF NoRequest
      <4> QED BY <1>a, <3>1, <4>1
    <3>3. request.id > 0 /\ request = Request(request.id) /\ Len(handed) = (request.id - 1) * Values + x
      BY <3>1, <3>2 DEF HandingOver
    <3>4. Len(handed') = Len(handed) + 1
      <4>1. ASSUME NEW S, handed \in Seq(S), NEW e PROVE Len(Append(handed, e)) = Len(handed) + 1
        BY <4>1, LenProperties
      <4> QED BY <3>1, <4>1 DEF TypeOK
    <3>5. (request.id - 1) * Values \in Nat
      BY <1>a, <3>3, Products
    <3>6. Len(handed') = (request.id - 1) * Values + (x + 1)
      <4> DEFINE p == (request.id - 1) * Values
      <4>1. p \in Nat /\ Len(handed) = p + x
        BY <3>3, <3>5
      <4> HIDE DEF p
      <4>2. Len(handed') = p + (x + 1)
        BY <1>a, <3>4, <4>1
      <4> QED BY <4>2 DEF p
    <3> QED BY <1>0, <3>1, <3>3, <3>6 DEF HandingOver
  <2> QED BY <2>1, <2>2
<1>7. ASSUME WritersCalled PROVE HandingOver'
  <2>1. /\ pc = "applying" /\ x = Len(writers) /\ UNCHANGED <<request, handed>>
        /\ pc' \in {"reading", "checking", "sampling"}
    BY <1>7 DEF WritersCalled, AfterWriters
  <2>2. Len(writers) = Values
    BY <2>1, ListLengths
  <2>3. Len(handed) = request.id * Values
    <3>1. CASE request = NoRequest /\ x = 0 /\ (Values = 0 => Len(handed) = 0)
      BY <1>a, <2>1, <2>2, <3>1, Products
    <3>2. CASE request.id > 0 /\ Len(handed) = (request.id - 1) * Values + x
      BY <1>a, <2>1, <2>2, <3>2, Products
    <3> QED BY <2>1, <3>1, <3>2 DEF HandingOver
  <2> QED BY <1>0, <2>1, <2>3 DEF HandingOver
<1>8. ASSUME WriteAnswer \/ WriteFails PROVE HandingOver'
  <2>1. /\ pc = "writing" /\ pc' \in {AfterWrite, "undefined"} /\ x' = 0 /\ UNCHANGED <<request, handed>>
    BY <1>8 DEF WriteAnswer, WriteFails
  <2>2. AfterWrite \in {"closing", "checking", "sampling", "reading", "applying"}
    BY DEF AfterWrite
  <2>3. CASE AfterWrite = "applying"
    <3>1. call = "StreamReadWrite" /\ ~initialWrite
      BY <2>3 DEF AfterWrite
    <3>2. request = NoRequest
      BY <3>1 DEF CallPaths
    <3>3. Values = 0 => Len(handed) = 0
      BY <1>a, <2>1, Products DEF HandingOver
    <3>4. ReadNoRequest'
      BY <1>0, <3>1 DEF ReadNoRequest
    <3>5. CASE pc' = "applying"
      BY <1>0, <2>1, <3>2, <3>3, <3>4, <3>5 DEF HandingOver
    <3> QED BY <1>b, <2>1, <2>3, <3>5
  <2> QED BY <1>b, <1>c, <2>1, <2>2, <2>3
<1>9. ASSUME Close PROVE HandingOver'
  BY <1>9, <1>b DEF Close
<1>10. ASSUME Outside \/ UNCHANGED vars PROVE HandingOver'
  <2>1. UNCHANGED <<pc, request, x, handed>>
    BY <1>10, OutsideSteps DEF vars, loopVars
  <2>2. ReadNoRequest => ReadNoRequest'
    <3>1. link = "broken" => link' = "broken"
      BY <1>10, OutsideSteps DEF vars
    <3> QED BY <1>0, <3>1 DEF ReadNoRequest, Sideband
  <2> QED BY <1>0, <2>1, <2>2 DEF HandingOver
<1> QED BY <1>1, <1>2, <1>3, <1>4, <1>5, <1>6, <1>7, <1>8, <1>9, <1>10
        DEF Next, Server, Failure, Outside

LEMMA KeepsTheirOrder ==
  ASSUME TypeOK, TypeOK', ListsFound, CallPaths, RegionHeld, HandingOver, InTheirOrder, [Next]_vars
  PROVE  InTheirOrder'
<1>0. /\ (Sideband' <=> Sideband) /\ (ListInStream' <=> ListInStream)
      /\ NoRequest' = NoRequest /\ CancelRequest' = CancelRequest
      /\ \A k : Request(k)' = Request(k)
  BY MonikersUnchanged DEF Sideband, ListInStream, NoRequest, CancelRequest, Request
<1>a. /\ toServer \in Direction(Messages) /\ Len(Contents(toServer)) \in Nat
      /\ request.id \in Nat /\ Committed \in Nat /\ Passed \in Int
  BY Counts
<1>b. Messages' = Messages
  BY MonikersUnchanged
<1>c. /\ toServer' \in Direction(Messages) /\ Len(Contents(toServer')) \in Nat
  <2>1. toServer' \in Direction(Messages)
    BY <1>b DEF TypeOK
  <2> QED BY <2>1, ContentsType
<1>d. Contents(toServer)' = Contents(toServer')
  BY DEF Contents
<1>e. ASSUME UNCHANGED <<sent, cpc>> PROVE Committed' = Committed /\ \A k : Nth(k)' = Nth(k)
  BY <1>0, <1>e DEF Committed, Nth
\* the call is no longer reading the client's messages in their order
<1>f. ASSUME ~Orderly' PROVE InTheirOrder'
  BY <1>f DEF InTheirOrder
\* no message is sent, taken or lost
<1>g. ASSUME UNCHANGED <<sent, cpc, ending, link>>, Contents(toServer') = Contents(toServer),
             Orderly' => Orderly /\ Passed' = Passed
      PROVE  InTheirOrder'
  <2>1. Cancelled' <=> Cancelled
    BY <1>g DEF Cancelled
  <2> QED BY <1>0, <1>d, <1>e, <1>g, <2>1 DEF InTheirOrder
\* the first one is taken
<1>h. ASSUME UNCHANGED <<sent, cpc, ending, link>>, toServer.arrived # <<>>,
             toServer' = [toServer EXCEPT !.arrived = Tail(@)],
             Orderly' => Orderly /\ Passed' = Passed + 1
      PROVE  InTheirOrder'
  <2>1. /\ Len(Contents(toServer)) \in Nat \ {0}
        /\ Len(Contents(toServer')) = Len(Contents(toServer)) - 1
        /\ \A i \in 1 .. Len(Contents(toServer')) : Contents(toServer')[i] = Contents(toServer)[i + 1]
    BY <1>a, <1>h, TakenContents
  <2>2. (Cancelled' <=> Cancelled) /\ Committed' = Committed /\ \A k : Nth(k)' = Nth(k)
    BY <1>e, <1>h DEF Cancelled
  <2>3. ASSUME Orderly', NEW i \in 1 .. Len(Contents(toServer'))
        PROVE  Contents(toServer')[i] = Nth(Passed' + i)
    <3>1. i + 1 \in 1 .. Len(Contents(toServer))
      BY <2>1
    <3>2. Contents(toServer)[i + 1] = Nth(Passed + (i + 1))
      BY <1>h, <2>3, <3>1 DEF InTheirOrder
    <3>3. Passed' + i = Passed + (i + 1)
      BY <1>a, <1>h, <2>3
    <3> QED BY <2>1, <3>2, <3>3
  <2>4. ASSUME Orderly', link = "up"
        PROVE  Passed' + Len(Contents(toServer')) = IF Sideband /\ Cancelled THEN Committed + 1 ELSE Committed
    <3>1. Passed + Len(Contents(toServer)) = IF Sideband /\ Cancelled THEN Committed + 1 ELSE Committed
      BY <1>h, <2>4 DEF InTheirOrder
    <3>2. Passed' + Len(Contents(toServer')) = Passed + Len(Contents(toServer))
      BY <1>a, <1>h, <2>1, <2>4
    <3> QED BY <3>1, <3>2
  <2> QED BY <1>0, <1>d, <1>h, <2>2, <2>3, <2>4 DEF InTheirOrder
\* one more is sent
<1>i. ASSUME NEW m \in Messages, toServer' = [toServer EXCEPT !.sending = Append(@, m)],
             UNCHANGED <<pc, request, writers, link, sent>>, link = "up", cpc' = "idle",
             ~StreamCancelled, ~(Sideband /\ Cancelled),
             \/ m = Request(sent) /\ cpc = "sending" /\ sent > 0 /\ ending' = ending
             \/ m = CancelRequest /\ cpc = "cancelling" /\ ending' = "cancelled"
      PROVE  InTheirOrder'
  <2>1. /\ Len(Contents(toServer')) = Len(Contents(toServer)) + 1
        /\ \A i \in 1 .. Len(Contents(toServer)) : Contents(toServer')[i] = Contents(toServer)[i]
        /\ Contents(toServer')[Len(Contents(toServer)) + 1] = m
    BY SMTT(30), <1>a, <1>i, SentContents
  <2>2. SUFFICES ASSUME Orderly' PROVE InTheirOrder'
    BY <1>f
  <2>3. Orderly /\ Passed' = Passed /\ ~StreamCancelled'
    BY <1>0, <1>i, <2>2 DEF Orderly, Passed, Lost
  <2>4. Passed + Len(Contents(toServer)) = Committed
    BY <1>i, <2>3 DEF InTheirOrder
  <2>5. sent \in Nat
    BY ServiceAssumption DEF TypeOK
  <2>6. /\ Committed' = sent
        /\ m = Request(sent) => Committed' = Committed + 1 /\ ~(Sideband' /\ Cancelled')
        /\ cpc = "cancelling" => Committed' = Committed /\ Sideband' /\ Cancelled'
        /\ \/ m = Request(sent) /\ Committed' = Committed + 1 /\ ~(Sideband' /\ Cancelled')
           \/ m = CancelRequest /\ Committed' = Committed /\ Sideband' /\ Cancelled'
    <3>1. Committed' = sent
      BY <1>i DEF Committed
    <3>2. CASE m = Request(sent) /\ cpc = "sending" /\ ending' = ending
      <4>1. Committed' = Committed + 1 /\ cpc # "cancelling"
        BY <2>5, <3>1, <3>2 DEF Committed
      <4>2. ~(Sideband' /\ Cancelled')
        BY <1>0, <1>i, <3>2 DEF Cancelled
      <4> QED BY <3>1, <3>2, <4>1, <4>2
    <3>3. CASE m = CancelRequest /\ cpc = "cancelling" /\ ending' = "cancelled"
      <4>1. Committed' = Committed
        BY <3>1, <3>3 DEF Committed
      <4>2. Sideband' /\ Cancelled'
        BY <2>3, <3>3 DEF StreamCancelled, Cancelled
      <4>3. m # Request(sent)
        BY <3>3 DEF CancelRequest, NoRequest, Request
      <4> QED BY <3>1, <3>3, <4>1, <4>2, <4>3
    <3> QED BY <1>i, <3>2, <3>3
  <2> DEFINE NewNth(k) == IF k = 0 THEN NoRequest ELSE IF k <= Committed' THEN Request(k) ELSE CancelRequest
  <2>7. ASSUME NEW i \in 1 .. Len(Contents(toServer')) PROVE Contents(toServer')[i] = NewNth(Passed + i)
    <3>1. CASE i \in 1 .. Len(Contents(toServer))
      <4>1. Contents(toServer')[i] = Nth(Passed + i)
        BY <2>1, <2>3, <3>1 DEF InTheirOrder
      <4>2. Passed + i \in Int /\ Passed + i <= Committed /\ Committed <= Committed'
        BY <1>a, <2>4, <2>5, <2>6, <3>1
      <4>3. Passed + i <= Committed'
        BY <1>a, <2>5, <2>6, <4>2
      <4> QED BY <4>1, <4>2, <4>3 DEF Nth
    <3>2. CASE i = Len(Contents(toServer)) + 1
      <4>1. Contents(toServer')[i] = m
        BY <2>1, <3>2
      <4>2. Passed + i = Committed + 1 /\ Committed + 1 # 0
        BY <1>a, <2>4, <3>2
      <4>3. CASE m = Request(sent) /\ Committed' = Committed + 1
        <5>1. Committed + 1 = sent /\ sent <= Committed'
          BY <2>5, <2>6, <4>3
        <5>2. NewNth(Passed + i) = NewNth(sent)
          BY <4>2, <5>1
        <5>3. NewNth(sent) = Request(sent)
          BY <4>2, <5>1
        <5> QED BY <4>1, <4>3, <5>2, <5>3
      <4>4. CASE m = CancelRequest /\ Committed' = Committed
        <5>1. ~(Committed + 1 <= Committed')
          BY <1>a, <4>4
        <5>2. NewNth(Committed + 1) = CancelRequest
          BY <4>2, <5>1
        <5>3. NewNth(Passed + i) = NewNth(Committed + 1)
          BY <4>2
        <5> QED BY <4>1, <4>4, <5>2, <5>3
      <4> QED BY <2>6, <4>3, <4>4
    <3> QED BY <1>a, <2>1, <3>1, <3>2
  <2>8. ASSUME NEW i \in 1 .. Len(Contents(toServer')) PROVE Contents(toServer')[i] = NewNth(Passed' + i)
    BY <2>3, <2>7
  <2>9. Passed' + Len(Contents(toServer')) = IF Sideband' /\ Cancelled' THEN Committed' + 1 ELSE Committed'
    BY <1>a, <2>1, <2>3, <2>4, <2>6
  <2> QED BY <1>0, <1>d, <2>8, <2>9 DEF InTheirOrder, Nth
<1>1. ASSUME NEW source \in Endpoints, RegisterMonikerEndpoint(source) PROVE InTheirOrder'
  <2>1. UNCHANGED <<pc, request, writers, toServer, link, sent, cpc, ending>>
    BY <1>1 DEF RegisterMonikerEndpoint, loopVars, clientVars
  <2>2. Orderly' => Orderly /\ Passed' = Passed
    BY <1>0, <2>1 DEF Orderly, Passed, StreamCancelled, Cancelled, Lost
  <2> QED BY <1>g, <2>1, <2>2
<1>2. ASSUME Start PROVE InTheirOrder'
  <2>1. /\ pc = "starting" /\ pc' \in {"reading", "checking", "sampling"}
        /\ UNCHANGED <<request, link, sent, cpc, ending>> /\ link = "up"
    BY <1>2 DEF Start, LoopHead, ListsFound, clientVars
  <2>2. Orderly' => Orderly
    BY <1>0, <2>1 DEF Orderly, StreamCancelled, Cancelled, Lost
  <2>3. CASE ListInStream
    <3>1. toServer.arrived # <<>> /\ toServer' = [toServer EXCEPT !.arrived = Tail(@)]
      BY <1>2, <2>1, <2>3 DEF Start, TypeOK
    <3>2. Passed' = Passed + 1
      BY <1>a, <2>1, <2>3 DEF Passed
    <3> QED BY <1>h, <2>1, <2>2, <3>1, <3>2
  <2>4. CASE ~ListInStream
    <3>1. toServer' = toServer /\ Passed' = Passed
      BY <1>2, <2>1, <2>4 DEF Start, Passed
    <3> QED BY <1>g, <2>1, <2>2, <3>1
  <2> QED BY <2>3, <2>4
<1>3. ASSUME StartCancelled PROVE InTheirOrder'
  <2>1. ~Sideband /\ Cancelled /\ ending' = ending
    BY <1>3 DEF StartCancelled, ListInStream, Sideband, clientVars
  <2> QED BY <1>0, <1>f, <2>1 DEF Orderly, StreamCancelled, Cancelled
<1>4. ASSUME ReadMessage PROVE InTheirOrder'
  <2>1. /\ pc = "reading" /\ pc' = "finishing" /\ Sideband /\ toServer.arrived # <<>>
        /\ request' = Head(toServer.arrived)
        /\ UNCHANGED <<writers, toServer, link, sent, cpc, ending>>
    BY <1>4 DEF ReadMessage, clientVars
  <2>2. Orderly' => Orderly /\ ~request'.cancel
    BY <1>0, <2>1 DEF Orderly, StreamCancelled, Cancelled, Lost
  <2>3. Orderly' => Passed' = Passed
    <3>1. ASSUME Orderly' PROVE request'.id = request.id + 1
      <4>1. request' # CancelRequest
        BY <2>2, <3>1 DEF CancelRequest, NoRequest
      <4> QED BY <2>1, <2>2, <3>1, <4>1, NextRequest
    <3>2. ASSUME Orderly' PROVE Passed' = Passed
      <4>1. Passed' = request'.id - 1 /\ Passed = request.id
        BY <2>1 DEF Passed
      <4> QED BY <1>a, <3>1, <3>2, <4>1
    <3> QED BY <3>2
  <2> QED BY <1>g, <2>1, <2>2, <2>3
<1>5. ASSUME FinishRead PROVE InTheirOrder'
  <2>1. /\ pc = "finishing" /\ toServer.arrived # <<>> /\ toServer' = [toServer EXCEPT !.arrived = Tail(@)]
        /\ pc' = IF request.cancel THEN "closing" ELSE "applying"
        /\ UNCHANGED <<writers, request, link, sent, cpc, ending>>
    BY <1>5 DEF FinishRead, TypeOK, clientVars
  <2>2. CASE request.cancel
    BY <1>f, <2>1, <2>2 DEF Orderly
  <2>3. CASE ~request.cancel
    <3>1. Orderly' => Orderly
      BY <1>0, <2>1, <2>3 DEF Orderly, StreamCancelled, Cancelled, Lost
    <3>2. Passed' = Passed + 1
      BY <1>a, <2>1, <2>3 DEF Passed
    <3> QED BY <1>h, <2>1, <3>1, <3>2
  <2> QED BY <2>2, <2>3
<1>6. ASSUME ReadNothing PROVE InTheirOrder'
  <2>1. Sideband /\ link = "broken" /\ pc' = "applying" /\ request' = NoRequest /\ link' = link
    BY <1>6 DEF ReadNothing
  <2> QED BY <1>0, <1>f, <2>1 DEF Orderly, Lost
<1>7. ASSUME ReadStream PROVE InTheirOrder'
  <2>1. CASE pc' = "done"
    BY <1>f, <2>1 DEF Orderly
  <2>2. CASE pc' # "done"
    <3>1. /\ pc = "reading" /\ pc' = "applying" /\ ~Sideband /\ toServer.arrived # <<>> /\ ~Cancelled
          /\ request' = Head(toServer.arrived) /\ toServer' = [toServer EXCEPT !.arrived = Tail(@)]
          /\ UNCHANGED <<link, sent, cpc, ending>>
      BY <1>7, <2>2 DEF ReadStream, clientVars
    <3>2. Orderly
      BY <3>1 DEF Orderly, StreamCancelled, Lost
    <3>3. request'.id = request.id + 1
      BY <3>1, <3>2, NextRequest
    <3>4. Passed' = Passed + 1
      BY <1>a, <3>1, <3>3 DEF Passed
    <3> QED BY <1>h, <3>1, <3>2, <3>4
  <2> QED BY <2>1, <2>2
<1>8. ASSUME \/ CallWriter \/ WritersCalled \/ CheckCancelled \/ CallReader \/ ReadersCalled
             \/ WriteAnswer \/ WriteFails
      PROVE  InTheirOrder'
  <2>1. /\ UNCHANGED <<writers, request, toServer, link, sent, cpc, ending>>
        /\ pc \in {"applying", "checking", "sampling", "writing"}
        /\ pc' \notin {"starting", "finishing"}
    BY <1>8 DEF CallWriter, WritersCalled, CheckCancelled, CallReader, ReadersCalled, WriteAnswer, WriteFails,
                AfterWriters, AfterWrite, loopVars, clientVars
  <2>2. Passed' = Passed
    BY <2>1 DEF Passed
  <2>3. ASSUME Sideband, pc = "applying", request = NoRequest, pc' # "applying", pc' # "undefined"
        PROVE  writers = <<>>
    <3>1. x = 0 /\ x = Len(writers)
      <4>1. WritersCalled
        BY <1>8, <2>3 DEF CallWriter, CheckCancelled, CallReader, ReadersCalled, WriteAnswer, WriteFails
      <4>2. NoRequest.id = 0
        BY DEF NoRequest
      <4> QED BY <2>3, <4>1, <4>2 DEF WritersCalled, HandingOver
    <3> QED BY <3>1, EmptySeq, LenProperties DEF TypeOK
  <2>4. Orderly' => Orderly
    <3>1. Lost => Lost' \/ pc' = "undefined"
      BY <1>0, <2>1, <2>3 DEF Lost
    <3>2. StreamCancelled' <=> StreamCancelled
      BY <1>0, <2>1 DEF StreamCancelled, Cancelled
    <3> QED BY <2>1, <3>1, <3>2 DEF Orderly
  <2> QED BY <1>g, <2>1, <2>2, <2>4
<1>9. ASSUME Close PROVE InTheirOrder'
  BY <1>9, <1>f DEF Close, Orderly
<1>10. ASSUME Break PROVE InTheirOrder'
  <2>1. /\ link = "up" /\ link' = "broken" /\ toServer' = [toServer EXCEPT !.sending = <<>>]
        /\ UNCHANGED <<pc, request, writers, sent, cpc, ending>>
    BY <1>10 DEF Break, loopVars, clientVars
  <2>2. /\ Len(Contents(toServer')) <= Len(Contents(toServer))
        /\ \A i \in 1 .. Len(Contents(toServer')) : Contents(toServer')[i] = Contents(toServer)[i]
    BY <1>a, <2>1, LostContents
  <2>3. Orderly' => Orderly /\ Passed' = Passed
    BY <1>0, <2>1 DEF Orderly, Passed, StreamCancelled, Cancelled, Lost
  <2>4. ASSUME Orderly', NEW i \in 1 .. Len(Contents(toServer')) PROVE Contents(toServer')[i] = Nth(Passed' + i)
    <3>1. i \in 1 .. Len(Contents(toServer))
      BY <1>a, <1>c, <2>2
    <3> QED BY <2>2, <2>3, <2>4, <3>1 DEF InTheirOrder
  <2>5. \A k : Nth(k)' = Nth(k)
    BY <1>e, <2>1
  <2> QED BY <1>d, <2>1, <2>4, <2>5 DEF InTheirOrder
<1>11. ASSUME TransmitToServer PROVE InTheirOrder'
  <2>1. /\ toServer' = Moved(toServer) /\ CanMove(toServer)
        /\ UNCHANGED <<pc, request, writers, link, sent, cpc, ending>>
    BY <1>11 DEF TransmitToServer, loopVars, clientVars
  <2>2. Contents(toServer') = Contents(toServer)
    BY <1>a, <2>1, MovedContents
  <2>3. Orderly' => Orderly /\ Passed' = Passed
    BY <1>0, <2>1 DEF Orderly, Passed, StreamCancelled, Cancelled, Lost
  <2> QED BY <1>g, <2>1, <2>2, <2>3
<1>12. ASSUME BeginRequest \/ BeginCancel \/ FinishStream PROVE InTheirOrder'
  <2>1. /\ UNCHANGED <<pc, request, writers, link, toServer>>
        /\ Committed' = Committed
        /\ (Sideband /\ Cancelled)' <=> (Sideband /\ Cancelled)
        /\ (StreamCancelled' <=> StreamCancelled)
    <3>1. UNCHANGED <<pc, request, writers, link, toServer>>
      BY <1>12 DEF BeginRequest, BeginCancel, FinishStream, loopVars
    <3>2. sent \in Nat
      BY ServiceAssumption DEF TypeOK
    <3>3. Committed' = Committed
      BY <1>12, <3>2 DEF BeginRequest, BeginCancel, FinishStream, Committed
    <3>4. Cancelled' <=> Cancelled
      BY <1>12 DEF BeginRequest, BeginCancel, FinishStream, Cancelled
    <3> QED BY <1>0, <3>1, <3>3, <3>4 DEF StreamCancelled
  <2>2. Orderly' => Orderly /\ Passed' = Passed
    BY <1>0, <2>1 DEF Orderly, Passed, Lost
  <2>3. \A k : Nth(k)' = Nth(k)
    BY <1>0, <2>1 DEF Nth
  <2>4. Contents(toServer') = Contents(toServer)
    BY <2>1
  <2> QED BY <1>0, <1>d, <2>1, <2>2, <2>3, <2>4 DEF InTheirOrder
<1>13. ASSUME SendRequest PROVE InTheirOrder'
  <2>1. /\ cpc = "sending" /\ link = "up" /\ toServer' = [toServer EXCEPT !.sending = Append(@, Request(sent))]
        /\ cpc' = "idle" /\ UNCHANGED <<pc, request, writers, link, sent, ending>>
    BY <1>13 DEF SendRequest, loopVars
  <2>2. sent \in 1 .. MaxRequests /\ sent > 0
    <3>1. sent \in 0 .. MaxRequests /\ sent > 0
      BY <2>1 DEF TypeOK
    <3> QED BY <3>1, Counts
  <2>3. Request(sent) \in Messages
    BY <2>2, RequestFields
  <2>4. ~(Sideband /\ Cancelled)
    BY <2>1 DEF RegionHeld
  <2>5. CASE StreamCancelled
    BY <1>0, <1>f, <2>1, <2>5 DEF Orderly, StreamCancelled, Cancelled
  <2> QED BY <1>i, <2>1, <2>2, <2>3, <2>4, <2>5
<1>14. ASSUME SendCancel PROVE InTheirOrder'
  <2>1. /\ cpc = "cancelling" /\ link = "up" /\ toServer' = [toServer EXCEPT !.sending = Append(@, CancelRequest)]
        /\ cpc' = "idle" /\ ending' = "cancelled" /\ UNCHANGED <<pc, request, writers, link, sent>>
    BY <1>14 DEF SendCancel, loopVars
  <2>2. CancelRequest \in Messages
    BY DEF Messages
  <2>3. ~(Sideband /\ Cancelled)
    BY <2>1 DEF RegionHeld
  <2>4. CASE StreamCancelled
    BY <1>0, <1>f, <2>1, <2>4 DEF Orderly, StreamCancelled, Cancelled
  <2> QED BY <1>i, <2>1, <2>2, <2>3, <2>4
<1>15. ASSUME CancelStream PROVE InTheirOrder'
  BY <1>0, <1>15, <1>f DEF CancelStream, Orderly, StreamCancelled, Cancelled
<1>16. ASSUME TransmitToClient \/ ReadAnswer \/ UNCHANGED vars PROVE InTheirOrder'
  <2>1. UNCHANGED <<pc, request, writers, toServer, link, sent, cpc, ending>>
    BY <1>16 DEF TransmitToClient, ReadAnswer, vars, loopVars, clientVars
  <2>2. Orderly' => Orderly /\ Passed' = Passed
    BY <1>0, <2>1 DEF Orderly, Passed, StreamCancelled, Cancelled, Lost
  <2> QED BY <1>g, <2>1, <2>2
<1> QED BY <1>1, <1>2, <1>3, <1>4, <1>5, <1>6, <1>7, <1>8, <1>9, <1>10, <1>11, <1>12, <1>13, <1>14, <1>15, <1>16
        DEF Next, Server, Failure, Client

\* The call reads the requests in the order they were sent, none twice and none
\* left out, and hands over the values of one before it reads the next.
THEOREM RequestsComeInOrder == Safety => [](HandingOver /\ InTheirOrder)
<1>1. Init => HandingOver /\ InTheirOrder
  <2> SUFFICES ASSUME Init PROVE HandingOver /\ InTheirOrder
    OBVIOUS
  <2>1. pc = "starting" /\ request = NoRequest /\ sent = 0 /\ cpc = "idle" /\ handed = <<>> /\ ending = "no"
    BY DEF Init
  <2>2. request.id = 0
    BY <2>1 DEF NoRequest
  <2>3. HandingOver
    <3>1. Values \in Nat
      <4>1. PICK n \in Nat : writeMonikers \in [1 .. n -> Sources]
        BY ServiceAssumption DEF Init, BoundedSeq, SeqOf
      <4>2. writeMonikers \in Seq(Sources)
        BY <4>1, SeqDef
      <4> QED BY <4>2, LenProperties DEF Values
    <3>2. request.id * Values = 0
      BY <2>2, <3>1, Products
    <3>3. Len(handed) = 0
      BY <2>1
    <3> QED BY <2>1, <3>2, <3>3 DEF HandingOver
  <2>4. InTheirOrder
    <3>1. ~Cancelled /\ Committed = 0
      BY <2>1 DEF Cancelled, Committed
    <3>2. CASE ListInStream
      <4>1. Contents(toServer) = <<NoRequest>> \o <<>>
        BY <3>2 DEF Init, Contents
      <4>2. Contents(toServer) = <<NoRequest>>
        <5>1. <<NoRequest>> \in Seq({NoRequest})
          OBVIOUS
        <5> QED BY <4>1, <5>1, ConcatEmptySeq
      <4>3. Len(Contents(toServer)) = 1 /\ Contents(toServer)[1] = NoRequest
        BY <4>2
      <4>4. Passed = 0 - 1
        BY <2>1, <2>2, <3>2 DEF Passed
      <4>5. Passed + 1 = 0
        BY <4>4
      <4>6. ASSUME NEW i \in 1 .. Len(Contents(toServer)) PROVE Contents(toServer)[i] = Nth(Passed + i)
        <5>1. i = 1
          BY <4>3
        <5> QED BY <4>3, <4>5, <5>1 DEF Nth
      <4> QED BY <3>1, <4>3, <4>5, <4>6 DEF InTheirOrder
    <3>3. CASE ~ListInStream
      <4>1. Contents(toServer) = <<>> \o <<>>
        BY <3>3 DEF Init, Contents
      <4>2. Len(Contents(toServer)) = 0
        BY <4>1, EmptySeq, ConcatProperties
      <4>3. Passed = 0
        BY <2>1, <2>2, <3>3 DEF Passed
      <4> QED BY <3>1, <4>2, <4>3 DEF InTheirOrder
    <3> QED BY <3>2, <3>3
  <2> QED BY <2>3, <2>4
<1>2. /\ TypeOK /\ TypeOK' /\ ListsFound /\ CallPaths /\ LoopIndex /\ RegionHeld
      /\ (HandingOver /\ InTheirOrder) /\ [Next]_vars
      => (HandingOver /\ InTheirOrder)'
  BY HandsOver, KeepsTheirOrder
<1> QED BY <1>1, <1>2, TypeCorrect, ListsAreFound, CallsKeepToTheirPaths, LoopsStayInTheirLists,
           RegionsAreHeld, PTL DEF Safety

LEMMA DivMod ==
  ASSUME NEW q \in Nat, NEW w \in Nat, NEW r \in Nat, r < w
  PROVE  (q * w + r) \div w = q /\ (q * w + r) % w = r
<1>1. w \in Nat \ {0} /\ r \in 0 .. w - 1
  OBVIOUS
<1> QED BY <1>1

\* However calls end and whatever the client sends, endpoint i is given the i-th
\* value of the k-th request as the ((k - 1) * w + i)-th value of the call.
THEOREM ValuesAreHandedInOrder == Safety => []HandedInOrder
<1>1. Init => HandedInOrder
  BY DEF Init, HandedInOrder
<1>2. TypeOK /\ HandingOver /\ HandedInOrder /\ [Next]_vars => HandedInOrder'
  <2> SUFFICES ASSUME TypeOK, HandingOver, HandedInOrder, [Next]_vars PROVE HandedInOrder'
    OBVIOUS
  <2>0. writeMonikers' = writeMonikers /\ Len(writeMonikers) = Values
    BY MonikersUnchanged DEF Values
  <2>1. CASE handed' = handed
    BY <2>0, <2>1 DEF HandedInOrder
  <2>2. CASE handed' # handed
    <3>1. /\ pc = "applying" /\ ~(x >= Len(request.values))
          /\ handed' = Append(handed, <<x + 1, request.values[x + 1]>>)
      <4>1. CallWriter
        BY <2>2 DEF Next, Server, Failure, Client, RegisterMonikerEndpoint, Start, StartCancelled, ReadMessage,
                    FinishRead, ReadStream, WritersCalled, CheckCancelled, CallReader, ReadersCalled,
                    WriteAnswer, Close, ReadNothing, WriteFails, Break, TransmitToServer, TransmitToClient,
                    BeginRequest, SendRequest, BeginCancel, SendCancel, CancelStream, FinishStream, ReadAnswer,
                    vars, loopVars
      <4> QED BY <2>2, <4>1 DEF CallWriter
    <3>2. x \in Nat /\ Values \in Nat /\ request.id \in 0 .. MaxRequests /\ MaxRequests \in Nat
          /\ Len(handed) \in Nat
      BY Counts
    <3>3. request # NoRequest
      <4>1. Len(NoRequest.values) = 0
        BY DEF NoRequest
      <4> QED BY <3>1, <3>2, <4>1
    <3>4. request.id > 0 /\ request = Request(request.id) /\ Len(handed) = (request.id - 1) * Values + x
      BY <3>1, <3>3 DEF HandingOver
    <3>5. request.id \in 1 .. MaxRequests
      BY <3>2, <3>4
    <3>6. x < Values /\ request.values[x + 1] = <<request.id, x + 1>>
      <4>1. Len(request.values) = Values /\ \A i \in 1 .. Values : request.values[i] = <<request.id, i>>
        BY <2>0, <3>4, <3>5, RequestFields
      <4>2. x < Values
        BY <3>1, <3>2, <4>1
      <4>3. x + 1 \in 1 .. Values
        BY <3>2, <4>2
      <4> QED BY <4>1, <4>2, <4>3
    <3>7. /\ Len(handed) % Values = x
          /\ Len(handed) \div Values = request.id - 1
      <4> DEFINE q == request.id - 1
      <4>1. q \in Nat /\ Len(handed) = q * Values + x
        BY <3>4, <3>5
      <4> HIDE DEF q
      <4>2. (q * Values + x) \div Values = q /\ (q * Values + x) % Values = x
        BY <3>2, <3>6, <4>1, DivMod
      <4>3. Len(handed) % Values = x /\ Len(handed) \div Values = q
        BY <4>1, <4>2
      <4> QED BY <4>3 DEF q
    <3> DEFINE e == <<x + 1, <<request.id, x + 1>>>>
               At(j) == <<((j - 1) % Values) + 1, <<((j - 1) \div Values) + 1, ((j - 1) % Values) + 1>>>>
    <3>8. handed' = Append(handed, e)
      BY <3>1, <3>6
    <3>9. At(Len(handed) + 1) = e
      <4>1. Len(handed) + 1 - 1 = Len(handed) /\ (request.id - 1) + 1 = request.id
        BY <3>2
      <4> QED BY <3>7, <4>1
    <3>10. /\ DOMAIN handed = 1 .. Len(handed)
           /\ DOMAIN handed' = 1 .. Len(handed) + 1
           /\ \A j \in 1 .. Len(handed) : handed'[j] = handed[j]
           /\ handed'[Len(handed) + 1] = e
      <4> DEFINE S == (1 .. MaxWriters) \X ((1 .. MaxRequests) \X (1 .. MaxWriters))
                 h == handed
      <4>1. h \in Seq(S)
        BY DEF TypeOK
      <4> HIDE DEF S, h, e
      <4>2. h \in Seq(S \cup {e}) /\ e \in S \cup {e}
        <5>1. Seq(S) \subseteq Seq(S \cup {e})
          BY SeqDef
        <5> QED BY <4>1, <5>1
      <4>3. /\ Append(h, e) \in Seq(S \cup {e})
            /\ Len(Append(h, e)) = Len(h) + 1
            /\ \A j \in 1 .. Len(h) : Append(h, e)[j] = h[j]
            /\ Append(h, e)[Len(h) + 1] = e
        BY <4>2, AppendProperties
      <4>4. DOMAIN h = 1 .. Len(h) /\ DOMAIN Append(h, e) = 1 .. Len(h) + 1
        BY <4>2, <4>3, LenProperties
      <4> QED BY <3>8, <4>3, <4>4 DEF h
    <3>11. \A j \in DOMAIN handed : handed[j] = At(j)
      BY <2>0 DEF HandedInOrder
    <3>12. ASSUME NEW j \in DOMAIN handed' PROVE handed'[j] = At(j)
      <4>1. CASE j = Len(handed) + 1
        BY <3>9, <3>10, <4>1
      <4>2. CASE j \in 1 .. Len(handed)
        BY <3>10, <3>11, <4>2
      <4> QED BY <3>2, <3>10, <4>1, <4>2
    <3> QED BY <2>0, <3>12 DEF HandedInOrder
  <2> QED BY <2>1, <2>2
<1> QED BY <1>1, <1>2, TypeCorrect, RequestsComeInOrder, PTL DEF Safety

-----------------------------------------------------------------------------
(* What no call that is well formed does *)

\* A well-formed call finds an endpoint for each of its monikers.
LEMMA NoNullEndpoint ==
  ASSUME TypeOK, ListsFound, WellFormed, pc \notin {"starting", "reading", "checking", "done"}
  PROVE  /\ \A i \in 1 .. Len(writers) : writers[i] # NullEndpoint
         /\ \A i \in 1 .. Len(readers) : readers[i] # NullEndpoint
<1>1. readers = InitiateMonikerList(readMonikers) /\ writers = InitiateMonikerList(writeMonikers)
  BY DEF ListsFound
<1>2. readMonikers \in Seq(Sources) /\ writeMonikers \in Seq(Sources)
  BY DEF TypeOK
<1>3. /\ \A i \in 1 .. Len(readMonikers) : readMonikers[i] \in endpoints
      /\ \A i \in 1 .. Len(writeMonikers) : writeMonikers[i] \in endpoints
  BY <1>2, LenProperties DEF WellFormed, Range
<1> QED BY <1>1, <1>2, <1>3, ListOfEndpoints

\* Once a call has started, it stays as well formed as it is.
LEMMA StaysWellFormed ==
  ASSUME [Next]_vars, pc # "starting" \/ pc' # "starting"
  PROVE  WellFormed' <=> WellFormed
<1>1. UNCHANGED <<call, initialWrite, readMonikers, writeMonikers>>
  BY MonikersUnchanged
<1>2. endpoints' = endpoints
  BY ServerSteps, OutsideSteps DEF Next, Failure, Outside, RegisterMonikerEndpoint, vars, listVars
<1> QED BY <1>1, <1>2 DEF WellFormed

\* The three places where the code uses what it does not check: the pointer and
\* the index of a value to hand over, those of a value to read, and the region
\* of an answer.
THEOREM NothingIsUndefined == Safety => []NothingUndefined
<1>1. Init => NothingUndefined
  BY DEF Init, NothingUndefined
<1>2. /\ TypeOK /\ ListsFound /\ CallPaths /\ HandingOver /\ NothingUndefined /\ [Next]_vars
      => NothingUndefined'
  <2> SUFFICES ASSUME TypeOK, ListsFound, CallPaths, HandingOver, NothingUndefined, [Next]_vars,
                      pc' = "undefined", WellFormed', link' # "broken"
               PROVE  FALSE
    BY DEF NothingUndefined
  <2>1. WellFormed
    BY StaysWellFormed
  <2>2. ASSUME CallWriter PROVE FALSE
    <3>1. /\ pc = "applying" /\ x < Len(writers) /\ link # "broken"
          /\ writers[x + 1] = NullEndpoint \/ x >= Len(request.values)
      BY <2>2 DEF CallWriter
    <3>2. x \in Nat /\ Len(writers) \in Nat /\ request.id \in 0 .. MaxRequests /\ MaxRequests \in Nat
      BY Counts
    <3>3. writers[x + 1] # NullEndpoint
      <4>1. x + 1 \in 1 .. Len(writers)
        BY <3>1, <3>2
      <4> QED BY <2>1, <3>1, <4>1, NoNullEndpoint
    <3>4. ~ReadNoRequest
      BY <2>1, <3>1 DEF ReadNoRequest, WellFormed
    <3>5. request.id > 0 /\ request = Request(request.id)
      BY <3>1, <3>4 DEF HandingOver
    <3>6. request.id \in 1 .. MaxRequests
      BY <3>2, <3>5
    <3>7. Len(request.values) = Values
      BY <3>5, <3>6, RequestFields DEF Values
    <3>8. Len(writers) = Values
      BY <3>1, ListLengths
    <3>9. ~(x >= Len(request.values))
      BY <3>1, <3>2, <3>7, <3>8
    <3> QED BY <3>1, <3>3, <3>9
  <2>3. ASSUME CallReader PROVE FALSE
    <3>1. /\ pc = "sampling" /\ x < Len(readers)
          /\ readers[x + 1] = NullEndpoint \/ ~AddsValues
      BY <2>3 DEF CallReader
    <3>2. readers[x + 1] # NullEndpoint
      <4>1. x + 1 \in 1 .. Len(readers)
        BY <3>1, Counts
      <4> QED BY <2>1, <3>1, <4>1, NoNullEndpoint
    <3>3. AddsValues
      BY <2>1, <3>1 DEF CallPaths, WellFormed, AddsValues
    <3> QED BY <3>1, <3>2, <3>3
  <2>4. ASSUME WriteFails PROVE FALSE
    BY <2>4 DEF WriteFails, AfterWrite
  <2>5. ASSUME \/ Start \/ StartCancelled \/ ReadMessage \/ FinishRead \/ ReadStream \/ WritersCalled
               \/ CheckCancelled \/ ReadersCalled \/ WriteAnswer \/ Close \/ ReadNothing
        PROVE  FALSE
    BY <2>5 DEF Start, StartCancelled, ReadMessage, FinishRead, ReadStream, WritersCalled, CheckCancelled,
                ReadersCalled, WriteAnswer, Close, ReadNothing, LoopHead, AfterWriters, AfterWrite
  <2>6. ASSUME NEW source \in Endpoints, RegisterMonikerEndpoint(source) PROVE FALSE
    BY <2>6 DEF RegisterMonikerEndpoint
  <2>7. ASSUME Outside \/ UNCHANGED vars PROVE FALSE
    <3>1. pc = "undefined" /\ link # "broken"
      <4>1. pc' = pc
        BY <2>7, OutsideSteps DEF vars
      <4>2. link' = link \/ link' = "broken"
        BY <2>7, OutsideSteps DEF vars
      <4> QED BY <4>1, <4>2
    <3> QED BY <2>1, <3>1 DEF NothingUndefined
  <2> QED BY <2>2, <2>3, <2>4, <2>5, <2>6, <2>7 DEF Next, Server, Failure, Outside
<1> QED BY <1>1, <1>2, TypeCorrect, ListsAreFound, CallsKeepToTheirPaths, RequestsComeInOrder, PTL DEF Safety

-----------------------------------------------------------------------------
(* The answers *)

\* A started call that is well formed and has requests to answer.
Well == WellFormed /\ call # "StreamRead" /\ pc # "starting"

Answer(n) == [r \in 1 .. Len(readMonikers) |-> [during |-> n, given |-> n * Values]]

\* The answers written so far.
Written == Len(got) + Len(Contents(toClient))

\* The n-th answer, whether the client has read it or it is on its way, is to
\* the n-th request.
AnswersInOrder == Well =>
    /\ \A n \in 1 .. Len(got) : got[n] = Answer(n)
    /\ \A n \in 1 .. Len(Contents(toClient)) : Contents(toClient)[n] = Answer(Len(got) + n)

\* A call that answers writes one answer to each request, before it reads the
\* next; one that does not never comes to write.
AnswersCounted == Well =>
    /\ pc \in {"sampling", "writing"} => Answers
    /\ link = "up" /\ Answers =>
          /\ pc = "reading" /\ ~StreamCancelled => Written = request.id
          /\ \/ pc \in {"applying", "sampling", "writing"}
             \/ pc = "finishing" /\ ~request.cancel
             => Written = request.id - 1

\* Such a call reads the request before it answers.
LEMMA WellBegins ==
  ASSUME TypeOK, Well
  PROVE  \/ Sideband /\ initialWrite
         \/ call = "StreamReadWrite" /\ initialWrite
         \/ call = "StreamWrite"
BY DEF Well, WellFormed, TypeOK, Calls, Sideband

LEMMA ClientCounts ==
  ASSUME TypeOK
  PROVE  /\ toClient \in Direction(Seq(Samples))
         /\ Len(Contents(toClient)) \in Nat
         /\ got \in Seq(Seq(Samples)) /\ Len(got) \in Nat
         /\ Written \in Nat
<1>1. toClient \in Direction(Seq(Samples)) /\ got \in Seq(Seq(Samples))
  BY DEF TypeOK
<1>2. Len(Contents(toClient)) \in Nat
  BY <1>1, ContentsType
<1>3. Len(got) \in Nat
  BY <1>1, LenProperties
<1> QED BY <1>1, <1>2, <1>3 DEF Written

\* What is written in answer to a request.
LEMMA ResultIsAnswer ==
  ASSUME TypeOK, ListsFound, LoopIndex, HandingOver, pc = "writing"
  PROVE  result = Answer(request.id)
<1>1. result = [r \in 1 .. x |-> Sample] /\ x = Len(readers)
  BY DEF LoopIndex
<1>2. Len(readers) = Len(readMonikers)
  BY ListLengths
<1>3. Sample = [during |-> request.id, given |-> request.id * Values]
  BY DEF Sample, HandingOver
<1> QED BY <1>1, <1>2, <1>3 DEF Answer

LEMMA AnswersKeepOrder ==
  ASSUME TypeOK, ListsFound, CallPaths, LoopIndex, HandingOver, AnswersInOrder, AnswersCounted, [Next]_vars
  PROVE  AnswersInOrder'
<1>0. Values' = Values /\ \A n : Answer(n)' = Answer(n)
  BY MonikersUnchanged DEF Values, Answer
<1>a. /\ toClient \in Direction(Seq(Samples)) /\ Len(Contents(toClient)) \in Nat
      /\ got \in Seq(Seq(Samples)) /\ Len(got) \in Nat
  BY ClientCounts
<1>b. Contents(toClient)' = Contents(toClient')
  BY DEF Contents
<1>c. SUFFICES ASSUME Well' PROVE AnswersInOrder'
  BY DEF AnswersInOrder
<1>d. pc' # "starting"
  BY <1>c DEF Well
<1>e. WellFormed /\ call # "StreamRead"
  BY <1>c, <1>d, StaysWellFormed, MonikersUnchanged DEF Well
\* nothing is written, read or moved
<1>f. ASSUME UNCHANGED got, Contents(toClient') = Contents(toClient), pc # "starting" PROVE AnswersInOrder'
  <2>1. Well
    BY <1>e, <1>f DEF Well
  <2> QED BY <1>0, <1>b, <1>f, <2>1 DEF AnswersInOrder
\* what was not transmitted is lost
<1>g. ASSUME UNCHANGED got, toClient' = [toClient EXCEPT !.sending = <<>>], pc # "starting" PROVE AnswersInOrder'
  <2>1. Well
    BY <1>e, <1>g DEF Well
  <2> DEFINE A == Seq(Samples)
  <2>2. toClient \in Direction(A)
    BY <1>a
  <2> HIDE DEF A
  <2>3. /\ toClient' \in Direction(A)
        /\ Len(Contents(toClient')) <= Len(Contents(toClient))
        /\ \A i \in 1 .. Len(Contents(toClient')) : Contents(toClient')[i] = Contents(toClient)[i]
    BY <1>g, <2>2, LostContents
  <2>4. Len(Contents(toClient')) \in Nat
    BY <2>3, ContentsType
  <2>5. ASSUME NEW n \in 1 .. Len(Contents(toClient')) PROVE Contents(toClient')[n] = Answer(Len(got) + n)
    <3>1. n \in 1 .. Len(Contents(toClient))
      BY <1>a, <2>3, <2>4
    <3> QED BY <2>1, <2>3, <3>1 DEF AnswersInOrder
  <2> QED BY <1>0, <1>b, <1>g, <2>1, <2>5 DEF AnswersInOrder
<1>1. ASSUME pc = "starting" PROVE AnswersInOrder'
  <2>1. UNCHANGED <<got, toClient>>
    <3>1. Start \/ StartCancelled
      BY <1>1, <1>d, ServerSteps, OutsideSteps
         DEF Next, Failure, Outside, RegisterMonikerEndpoint, vars
    <3> QED BY <3>1 DEF Start, StartCancelled, clientVars
  <2>2. Len(got) = 0 /\ Len(Contents(toClient)) = 0
    <3>1. got = <<>> /\ toClient.sending = <<>> /\ toClient.arrived = <<>>
      BY <1>1 DEF ListsFound
    <3>2. Contents(toClient) = <<>> \o <<>>
      BY <3>1 DEF Contents
    <3>3. Len(<<>> \o <<>>) = 0
      BY EmptySeq, ConcatProperties
    <3> QED BY <3>1, <3>2, <3>3
  <2> QED BY <1>b, <2>1, <2>2 DEF AnswersInOrder
<1>2. ASSUME WriteAnswer PROVE AnswersInOrder'
  <2>1. /\ pc = "writing" /\ link = "up" /\ got' = got
        /\ toClient' = [toClient EXCEPT !.sending = Append(@, result)]
    BY <1>2 DEF WriteAnswer, clientVars
  <2>2. Well
    BY <1>e, <2>1 DEF Well
  <2>3. Written = request.id - 1 /\ request.id \in Nat
    BY <2>1, <2>2, Counts DEF AnswersCounted
  <2>4. result = Answer(request.id)
    BY <2>1, ResultIsAnswer
  <2> DEFINE A == Seq(Samples)
  <2>5. toClient \in Direction(A) /\ result \in A
    BY DEF TypeOK
  <2> HIDE DEF A
  <2>6. /\ Len(Contents(toClient')) = Len(Contents(toClient)) + 1
        /\ \A i \in 1 .. Len(Contents(toClient)) : Contents(toClient')[i] = Contents(toClient)[i]
        /\ Contents(toClient')[Len(Contents(toClient)) + 1] = result
    BY <2>1, <2>5, SentContents
  <2>7. ASSUME NEW n \in 1 .. Len(Contents(toClient')) PROVE Contents(toClient')[n] = Answer(Len(got) + n)
    <3>1. CASE n = Len(Contents(toClient)) + 1
      <4>1. Len(got) + n = request.id
        <5> DEFINE c == Len(Contents(toClient))
                   g == Len(got)
        <5>1. c \in Nat /\ g \in Nat /\ request.id \in Nat /\ g + c = request.id - 1 /\ n = c + 1
          BY <1>a, <2>3, <3>1 DEF Written
        <5> HIDE DEF c, g
        <5>2. g + n = request.id
          BY <5>1
        <5> QED BY <5>2 DEF g
      <4> QED BY <2>4, <2>6, <3>1, <4>1
    <3>2. CASE n \in 1 .. Len(Contents(toClient))
      BY <2>2, <2>6, <3>2 DEF AnswersInOrder
    <3> QED BY <1>a, <2>6, <3>1, <3>2
  <2> QED BY <1>0, <1>b, <2>1, <2>2, <2>7 DEF AnswersInOrder
<1>3. ASSUME ReadAnswer PROVE AnswersInOrder'
  <2>1. /\ toClient.arrived # <<>> /\ got' = Append(got, Head(toClient.arrived))
        /\ toClient' = [toClient EXCEPT !.arrived = Tail(@)] /\ pc' = pc
    BY <1>3 DEF ReadAnswer
  <2>2. Well
    BY <1>d, <1>e, <2>1 DEF Well
  <2> DEFINE A == Seq(Samples)
  <2>3. toClient \in Direction(A) /\ got \in Seq(A)
    BY <1>a
  <2> HIDE DEF A
  <2>4. /\ Head(toClient.arrived) = Contents(toClient)[1] /\ Head(toClient.arrived) \in A
        /\ Len(Contents(toClient)) \in Nat \ {0}
        /\ Len(Contents(toClient')) = Len(Contents(toClient)) - 1
        /\ \A i \in 1 .. Len(Contents(toClient')) : Contents(toClient')[i] = Contents(toClient)[i + 1]
    <3>1. toClient.arrived # <<>> /\ toClient' = [toClient EXCEPT !.arrived = Tail(@)]
      BY <2>1
    <3> QED BY SMTT(30), <2>3, <3>1, TakenContents
  <2>5. /\ Len(got') = Len(got) + 1
        /\ \A n \in 1 .. Len(got) : got'[n] = got[n]
        /\ got'[Len(got) + 1] = Contents(toClient)[1]
    BY <2>1, <2>3, <2>4, AppendProperties
  <2>6. ASSUME NEW n \in 1 .. Len(got') PROVE got'[n] = Answer(n)
    <3>1. CASE n = Len(got) + 1
      BY <1>a, <2>2, <2>4, <2>5, <3>1 DEF AnswersInOrder
    <3>2. CASE n \in 1 .. Len(got)
      BY <2>2, <2>5, <3>2 DEF AnswersInOrder
    <3> QED BY <1>a, <2>5, <3>1, <3>2
  <2>7. ASSUME NEW n \in 1 .. Len(Contents(toClient')) PROVE Contents(toClient')[n] = Answer(Len(got') + n)
    <3>1. n + 1 \in 1 .. Len(Contents(toClient))
      BY <2>4
    <3>2. Contents(toClient)[n + 1] = Answer(Len(got) + (n + 1))
      BY <2>2, <3>1 DEF AnswersInOrder
    <3>3. Len(got') + n = Len(got) + (n + 1)
      BY <1>a, <2>5
    <3> QED BY <2>4, <3>2, <3>3
  <2> QED BY <1>0, <1>b, <2>6, <2>7 DEF AnswersInOrder
<1>4. ASSUME TransmitToClient, pc # "starting" PROVE AnswersInOrder'
  <2>1. toClient' = Moved(toClient) /\ CanMove(toClient) /\ got' = got
    BY <1>4 DEF TransmitToClient, clientVars
  <2> DEFINE A == Seq(Samples)
  <2>2. toClient \in Direction(A)
    BY <1>a
  <2> HIDE DEF A
  <2>3. Contents(toClient') = Contents(toClient)
    BY <2>1, <2>2, MovedContents
  <2> QED BY <1>4, <1>f, <2>1, <2>3
<1>5. ASSUME Close \/ Break, pc # "starting" PROVE AnswersInOrder'
  BY <1>5, <1>g DEF Close, Break, clientVars
<1>6. ASSUME UNCHANGED <<got, toClient>>, pc # "starting" PROVE AnswersInOrder'
  BY <1>6, <1>f
<1>7. \/ WriteAnswer \/ ReadAnswer \/ TransmitToClient \/ Close \/ Break
      \/ UNCHANGED <<got, toClient>>
  BY DEF Next, Server, Failure, Client, RegisterMonikerEndpoint, Start, StartCancelled, ReadMessage, FinishRead,
         ReadStream, CallWriter, WritersCalled, CheckCancelled, CallReader, ReadersCalled, ReadNothing,
         WriteFails, TransmitToServer, BeginRequest, SendRequest, BeginCancel, SendCancel, CancelStream,
         FinishStream, vars, clientVars
<1> QED BY <1>1, <1>2, <1>3, <1>4, <1>5, <1>6, <1>7

LEMMA AnswersKeepCount ==
  ASSUME TypeOK, ListsFound, CallPaths, LoopIndex, HandingOver, InTheirOrder, AnswersCounted, [Next]_vars
  PROVE  AnswersCounted'
<1>0. /\ (Sideband' <=> Sideband) /\ (Answers' <=> Answers)
      /\ UNCHANGED <<call, initialWrite, readMonikers>>
  BY MonikersUnchanged DEF Sideband, Answers
<1>a. /\ Len(Contents(toClient)) \in Nat /\ Len(got) \in Nat /\ Written \in Nat
      /\ request.id \in Nat
  BY ClientCounts, Counts
<1>b. Contents(toClient)' = Contents(toClient')
  BY DEF Contents
<1>c. SUFFICES ASSUME Well' PROVE AnswersCounted'
  BY DEF AnswersCounted
<1>d. pc' # "starting"
  BY <1>c DEF Well
<1>e. WellFormed /\ call # "StreamRead"
  BY <1>c, <1>d, StaysWellFormed, MonikersUnchanged DEF Well
<1>f. \/ Sideband /\ initialWrite
      \/ call = "StreamReadWrite" /\ initialWrite
      \/ call = "StreamWrite"
  BY <1>e DEF WellFormed, TypeOK, Calls, Sideband
<1>g. pc # "starting" => Well
  BY <1>e DEF Well
<1>h. UNCHANGED <<got, toClient>> => Written' = Written
  BY <1>b DEF Written
<1>i. ASSUME pc' \in {"checking", "closing", "done", "undefined"} PROVE AnswersCounted'
  BY <1>i DEF AnswersCounted
<1>1. ASSUME pc = "starting" PROVE AnswersCounted'
  <2>1. Start \/ StartCancelled
    BY <1>1, <1>d, ServerSteps, OutsideSteps DEF Next, Failure, Outside, RegisterMonikerEndpoint, vars
  <2>2. Written = 0 /\ request.id = 0
    <3>1. got = <<>> /\ toClient.sending = <<>> /\ toClient.arrived = <<>> /\ request = NoRequest
      BY <1>1 DEF ListsFound
    <3>2. Contents(toClient) = <<>> \o <<>>
      BY <3>1 DEF Contents
    <3>3. Len(<<>> \o <<>>) = 0 /\ Len(got) = 0
      BY <3>1, EmptySeq, ConcatProperties
    <3>4. Written = 0
      BY <3>2, <3>3 DEF Written
    <3> QED BY <3>1, <3>4 DEF NoRequest
  <2>3. UNCHANGED <<got, toClient, request>>
    BY <2>1 DEF Start, StartCancelled, clientVars, loopVars
  <2>4. pc' \in {"reading", "checking"}
    BY <1>f, <2>1 DEF Start, StartCancelled, LoopHead, Sideband
  <2> QED BY <1>h, <1>i, <2>2, <2>3, <2>4 DEF AnswersCounted
<1>2. ASSUME ReadMessage PROVE AnswersCounted'
  <2>1. /\ pc = "reading" /\ pc' = "finishing" /\ Sideband /\ toServer.arrived # <<>>
        /\ request' = Head(toServer.arrived) /\ UNCHANGED <<got, toClient, link>>
    BY <1>2 DEF ReadMessage, clientVars
  <2>2. ASSUME link = "up", Answers, ~request'.cancel PROVE Written = request'.id - 1
    <3>1. Orderly
      BY <2>1, <2>2 DEF Orderly, StreamCancelled, Lost
    <3>2. request' # CancelRequest
      BY <2>2 DEF CancelRequest, NoRequest
    <3>3. request'.id = request.id + 1
      BY <2>1, <3>1, <3>2, NextRequest
    <3>4. Written = request.id
      BY <1>g, <2>1, <2>2 DEF AnswersCounted, StreamCancelled
    <3> QED BY <1>a, <3>3, <3>4
  <2> QED BY <1>0, <1>h, <2>1, <2>2 DEF AnswersCounted
<1>3. ASSUME FinishRead PROVE AnswersCounted'
  <2>1. /\ pc = "finishing" /\ UNCHANGED <<got, toClient, link, request>>
        /\ pc' = IF request.cancel THEN "closing" ELSE "applying"
    BY <1>3 DEF FinishRead, clientVars
  <2>2. CASE request.cancel
    BY <1>i, <2>1, <2>2
  <2>3. CASE ~request.cancel
    <3>1. link = "up" /\ Answers => Written = request.id - 1
      BY <1>g, <2>1, <2>3 DEF AnswersCounted
    <3> QED BY <1>0, <1>h, <2>1, <2>3, <3>1 DEF AnswersCounted
  <2> QED BY <2>2, <2>3
<1>4. ASSUME ReadNothing PROVE AnswersCounted'
  BY <1>4 DEF ReadNothing, AnswersCounted
<1>5. ASSUME ReadStream PROVE AnswersCounted'
  <2>1. CASE pc' = "done"
    BY <1>i, <2>1
  <2>2. CASE pc' # "done"
    <3>1. /\ pc = "reading" /\ pc' = "applying" /\ ~Sideband /\ toServer.arrived # <<>> /\ ~Cancelled
          /\ request' = Head(toServer.arrived) /\ UNCHANGED <<got, toClient, link>>
      BY <1>5, <2>2 DEF ReadStream, clientVars
    <3>2. Orderly
      BY <3>1 DEF Orderly, StreamCancelled, Lost
    <3>3. request'.id = request.id + 1
      BY <3>1, <3>2, NextRequest
    <3>4. link = "up" /\ Answers => Written = request.id
      BY <1>g, <3>1 DEF AnswersCounted, StreamCancelled
    <3>5. link = "up" /\ Answers => Written = request'.id - 1
      BY <1>a, <3>3, <3>4
    <3> QED BY <1>0, <1>h, <3>1, <3>5 DEF AnswersCounted
  <2> QED BY <2>1, <2>2
<1>6. ASSUME CallWriter PROVE AnswersCounted'
  <2>1. pc = "applying" /\ pc' \in {"applying", "undefined"} /\ UNCHANGED <<got, toClient, link, request>>
    BY <1>6 DEF CallWriter, clientVars
  <2> QED BY <1>0, <1>g, <1>h, <2>1 DEF AnswersCounted
<1>7. ASSUME WritersCalled PROVE AnswersCounted'
  <2>1. /\ pc = "applying" /\ pc' = AfterWriters /\ UNCHANGED <<got, toClient, link, request>>
    BY <1>7 DEF WritersCalled, clientVars
  <2>2. CASE Answers
    <3>1. pc' = "sampling"
      <4>1. CASE Sideband
        <5>1. readMonikers # <<>>
          BY <2>2, <4>1 DEF Answers, Sideband
        <5>2. readers # <<>>
          <6>1. Len(readers) = Len(readMonikers)
            BY <2>1, ListLengths
          <6>2. Len(readMonikers) # 0
            BY <5>1, EmptySeq, LenProperties DEF TypeOK
          <6> QED BY <6>1, <6>2
        <5> QED BY <2>1, <4>1, <5>2 DEF AfterWriters, Sideband
      <4>2. CASE call = "StreamReadWrite" /\ initialWrite
        BY <2>1, <4>2 DEF AfterWriters, Sideband
      <4> QED BY <1>f, <2>2, <4>1, <4>2 DEF Answers, Sideband
    <3>2. link = "up" => Written = request.id - 1
      BY <1>g, <2>1, <2>2 DEF AnswersCounted
    <3> QED BY <1>0, <1>h, <2>1, <2>2, <3>1, <3>2 DEF AnswersCounted
  <2>3. CASE ~Answers
    <3>1. pc' = "reading"
      <4>1. CASE Sideband
        <5>1. readMonikers = <<>> /\ initialWrite
          BY <1>f, <2>3, <4>1 DEF Answers, Sideband
        <5>2. Len(readers) = 0
          <6>1. Len(readers) = Len(readMonikers)
            BY <2>1, ListLengths
          <6> QED BY <5>1, <6>1
        <5>3. readers = <<>>
          BY <5>2, EmptySeq, LenProperties DEF TypeOK
        <5> QED BY <2>1, <4>1, <5>1, <5>3 DEF AfterWriters, Sideband
      <4>2. CASE call = "StreamWrite"
        BY <2>1, <4>2 DEF AfterWriters, Sideband
      <4> QED BY <1>f, <2>3, <4>1, <4>2 DEF Answers, Sideband
    <3> QED BY <1>0, <2>3, <3>1 DEF AnswersCounted
  <2> QED BY <2>2, <2>3
<1>8. ASSUME CheckCancelled PROVE AnswersCounted'
  <2>1. pc = "checking" /\ pc' = IF Cancelled THEN "done" ELSE "sampling"
    BY <1>8 DEF CheckCancelled
  <2>2. Cancelled
    BY <1>f, <2>1 DEF CallPaths, StreamCancelled
  <2> QED BY <1>i, <2>1, <2>2
<1>9. ASSUME CallReader \/ ReadersCalled PROVE AnswersCounted'
  <2>1. /\ pc = "sampling" /\ pc' \in {"sampling", "writing", "undefined"}
        /\ UNCHANGED <<got, toClient, link, request>>
    BY <1>9 DEF CallReader, ReadersCalled, loopVars, clientVars
  <2> QED BY <1>0, <1>g, <1>h, <2>1 DEF AnswersCounted
<1>10. ASSUME WriteAnswer \/ WriteFails PROVE AnswersCounted'
  <2>1. /\ pc = "writing" /\ pc' \in {AfterWrite, "undefined"} /\ UNCHANGED <<got, link, request, ending>>
    BY <1>10 DEF WriteAnswer, WriteFails, clientVars
  <2>2. AfterWrite \in {"closing", "reading"}
    <3>1. call # "StreamWrite" /\ initialWrite
      BY <1>f, <2>1 DEF CallPaths
    <3> QED BY <1>e, <3>1 DEF AfterWrite
  <2>3. ASSUME pc' = "reading", link' = "up", Answers, ~StreamCancelled' PROVE Written' = request.id
    <3>1. Written = request.id - 1
      BY <1>g, <2>1, <2>3 DEF AnswersCounted
    <3>2. WriteAnswer
      <4>1. ~WriteFails
        BY <1>0, <2>1, <2>3 DEF WriteFails, StreamCancelled, Cancelled
      <4> QED BY <1>10, <4>1
    <3> DEFINE A == Seq(Samples)
    <3>3. toClient \in Direction(A) /\ result \in A
      BY DEF TypeOK
    <3> HIDE DEF A
    <3>4. Len(Contents(toClient')) = Len(Contents(toClient)) + 1
      <4>1. toClient' = [toClient EXCEPT !.sending = Append(@, result)]
        BY <3>2 DEF WriteAnswer
      <4> QED BY <3>3, <4>1, SentContents
    <3>5. Written' = Written + 1
      <4> DEFINE c == Len(Contents(toClient))
                 g == Len(got)
      <4>1. c \in Nat /\ g \in Nat /\ Written = g + c /\ Written' = g + (c + 1)
        BY <1>a, <1>b, <2>1, <3>4 DEF Written
      <4> HIDE DEF c, g
      <4> QED BY <4>1
    <3> QED BY <1>a, <3>1, <3>5
  <2> QED BY <1>0, <1>i, <2>1, <2>2, <2>3 DEF AnswersCounted
<1>11. ASSUME Close PROVE AnswersCounted'
  BY <1>11, <1>i DEF Close
<1>12. ASSUME Outside \/ UNCHANGED vars, pc # "starting" PROVE AnswersCounted'
  <2>1. /\ UNCHANGED <<pc, request>>
        /\ link' = "up" => link = "up"
        /\ StreamCancelled => StreamCancelled'
    <3>1. UNCHANGED <<pc, request>>
      BY <1>12, OutsideSteps DEF vars, loopVars
    <3>2. link' = "up" => link = "up"
      BY <1>12, OutsideSteps DEF vars
    <3>3. StreamCancelled => StreamCancelled'
      BY <1>0, <1>12, OutsideSteps DEF vars, clientVars, StreamCancelled, Cancelled
    <3> QED BY <3>1, <3>2, <3>3
  <2>2. ASSUME link' = "up" PROVE Written' = Written
    <3> DEFINE A == Seq(Samples)
    <3>1. toClient \in Direction(A) /\ got \in Seq(A)
      BY DEF TypeOK
    <3> HIDE DEF A
    <3>2. CASE TransmitToClient
      <4>1. toClient' = Moved(toClient) /\ CanMove(toClient) /\ got' = got
        BY <3>2 DEF TransmitToClient, clientVars
      <4>2. Contents(toClient') = Contents(toClient)
        BY <3>1, <4>1, MovedContents
      <4> QED BY <1>b, <4>1, <4>2 DEF Written
    <3>3. CASE ReadAnswer
      <4>1. /\ toClient.arrived # <<>> /\ toClient' = [toClient EXCEPT !.arrived = Tail(@)]
        BY <3>3 DEF ReadAnswer
      <4>2. /\ Head(toClient.arrived) \in A
            /\ Len(Contents(toClient')) = Len(Contents(toClient)) - 1
        BY <3>1, <4>1, TakenContents
      <4>3. Len(got') = Len(got) + 1
        BY <3>1, <3>3, <4>2, AppendProperties DEF ReadAnswer
      <4> DEFINE c == Len(Contents(toClient))
                 g == Len(got)
      <4>4. c \in Nat /\ g \in Nat /\ Written = g + c /\ Written' = (g + 1) + (c - 1)
        BY <1>a, <1>b, <4>2, <4>3 DEF Written
      <4> HIDE DEF c, g
      <4> QED BY <4>4
    <3>4. CASE ~TransmitToClient /\ ~ReadAnswer
      <4>1. UNCHANGED <<got, toClient>>
        BY <1>12, <2>2, <3>4 DEF Outside, TransmitToServer, Break, Client, BeginRequest, SendRequest, BeginCancel,
                                 SendCancel, CancelStream, FinishStream, vars, clientVars
      <4> QED BY <1>h, <4>1
    <3> QED BY <3>2, <3>3, <3>4
  <2> QED BY <1>0, <1>g, <1>12, <2>1, <2>2 DEF AnswersCounted
<1>13. \A source \in Endpoints : RegisterMonikerEndpoint(source) => pc = "starting"
  BY DEF RegisterMonikerEndpoint
<1>14. Start \/ StartCancelled => pc = "starting"
  BY DEF Start, StartCancelled
<1> QED BY <1>1, <1>2, <1>3, <1>4, <1>5, <1>6, <1>7, <1>8, <1>9, <1>10, <1>11, <1>12, <1>13, <1>14
        DEF Next, Server, Failure, Outside

\* The client may have many requests under way and may cancel, the sideband may
\* break: the n-th answer it reads is to its n-th request, and was read after
\* the endpoints were given that request and nothing of the next.
THEOREM AnswersAreForTheirRequests == Safety => []AnswerForItsRequest
<1>1. Init => AnswersInOrder /\ AnswersCounted
  BY DEF Init, AnswersInOrder, AnswersCounted, Well
<1>2. /\ TypeOK /\ ListsFound /\ CallPaths /\ LoopIndex /\ (HandingOver /\ InTheirOrder)
      /\ (AnswersInOrder /\ AnswersCounted) /\ [Next]_vars
      => (AnswersInOrder /\ AnswersCounted)'
  BY AnswersKeepOrder, AnswersKeepCount
<1>3. TypeOK /\ ListsFound /\ AnswersInOrder => AnswerForItsRequest
  <2> SUFFICES ASSUME TypeOK, ListsFound, AnswersInOrder, WellFormed, call # "StreamRead",
                      NEW n \in DOMAIN got
               PROVE  got[n] = [r \in DOMAIN readMonikers |-> [during |-> n, given |-> n * Len(writeMonikers)]]
    BY DEF AnswerForItsRequest
  <2>1. n \in 1 .. Len(got) /\ DOMAIN readMonikers = 1 .. Len(readMonikers)
    BY LenProperties DEF TypeOK
  <2>2. pc # "starting"
    <3>1. CASE pc = "starting"
      <4>1. Len(got) = 0
        BY <3>1 DEF ListsFound
      <4> QED BY <2>1, <4>1
    <3> QED BY <3>1
  <2> QED BY <2>1, <2>2 DEF AnswersInOrder, Well, Answer, Values
<1> QED BY <1>1, <1>2, <1>3, TypeCorrect, ListsAreFound, CallsKeepToTheirPaths, LoopsStayInTheirLists,
           RequestsComeInOrder, PTL DEF Safety
=============================================================================
