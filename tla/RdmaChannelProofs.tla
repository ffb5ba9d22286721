-------------------------- MODULE RdmaChannelProofs --------------------------
(***************************************************************************)
(* Proofs about RdmaChannel, for any number of regions, messages and       *)
(* reads, and whether or not the connection may break: the safety          *)
(* invariants of its run, and that the channel delivers the messages of    *)
(* MessageChannel.                                                         *)
(***************************************************************************)
EXTENDS RdmaChannel, SequenceTheorems, TLAPS

-----------------------------------------------------------------------------
(* Queues of regions *)

\* No element is in the queue twice.
Once(q) == \A i, j \in DOMAIN q : q[i] = q[j] => i = j

\* A queue that is added to holds what it held, and the new element.
LEMMA InSeqAppend ==
  ASSUME NEW S, NEW q \in Seq(S), NEW e \in S, NEW x
  PROVE  InSeq(x, Append(q, e)) <=> InSeq(x, q) \/ x = e
<1>1. /\ Append(q, e) \in Seq(S)
      /\ Len(Append(q, e)) = Len(q) + 1
      /\ \A i \in 1 .. Len(q) : Append(q, e)[i] = q[i]
      /\ Append(q, e)[Len(q) + 1] = e
      /\ Len(q) \in Nat
      /\ DOMAIN q = 1 .. Len(q)
      /\ DOMAIN Append(q, e) = 1 .. Len(q) + 1
  BY AppendProperties, LenProperties
<1>2. ASSUME InSeq(x, Append(q, e)) PROVE InSeq(x, q) \/ x = e
  BY <1>1, <1>2 DEF InSeq
<1>3. ASSUME InSeq(x, q) PROVE InSeq(x, Append(q, e))
  BY <1>1, <1>3 DEF InSeq
<1>4. ASSUME x = e PROVE InSeq(x, Append(q, e))
  BY <1>1, <1>4 DEF InSeq
<1> QED BY <1>2, <1>3, <1>4

\* A region that is not in a queue can be added to it.
LEMMA OnceAppend ==
  ASSUME NEW S, NEW q \in Seq(S), NEW e \in S, Once(q), ~InSeq(e, q)
  PROVE  Once(Append(q, e))
<1>1. /\ Len(Append(q, e)) = Len(q) + 1
      /\ \A i \in 1 .. Len(q) : Append(q, e)[i] = q[i]
      /\ Append(q, e)[Len(q) + 1] = e
      /\ Len(q) \in Nat
      /\ DOMAIN q = 1 .. Len(q)
      /\ DOMAIN Append(q, e) = 1 .. Len(q) + 1
  BY AppendProperties, LenProperties
<1> QED BY <1>1 DEF Once, InSeq

\* What a queue holds is what it holds behind its head, and the head.
LEMMA InSeqTail ==
  ASSUME NEW S, NEW q \in Seq(S), q # <<>>
  PROVE  /\ InSeq(Head(q), q)
         /\ \A x : InSeq(x, Tail(q)) => InSeq(x, q)
         /\ Once(q) => ~InSeq(Head(q), Tail(q)) /\ Once(Tail(q))
<1>1. /\ Head(q) = q[1]
      /\ Len(q) \in Nat \ {0}
      /\ Len(Tail(q)) = Len(q) - 1
      /\ \A i \in 1 .. Len(q) - 1 : Tail(q)[i] = q[i + 1]
      /\ DOMAIN q = 1 .. Len(q)
      /\ DOMAIN Tail(q) = 1 .. Len(q) - 1
  BY HeadTailProperties, LenProperties, EmptySeq
<1>2. InSeq(Head(q), q)
  BY <1>1 DEF InSeq
<1>3. ASSUME NEW x, InSeq(x, Tail(q)) PROVE InSeq(x, q)
  BY <1>1, <1>3 DEF InSeq
<1>4. ASSUME Once(q) PROVE ~InSeq(Head(q), Tail(q)) /\ Once(Tail(q))
  BY <1>1, <1>4 DEF InSeq, Once
<1> QED BY <1>2, <1>3, <1>4

-----------------------------------------------------------------------------

\* The variables keep their types; in particular a region is at hand whenever
\* one is written to, loaded from, queued or released.
THEOREM TypeCorrect == Safety => []TypeOK
<1>1. Init => TypeOK
  <2> SUFFICES ASSUME Init PROVE TypeOK
    OBVIOUS
  <2>1. /\ [r \in AllRegions |-> Blank] \in [AllRegions -> 0 .. MaxMessages]
        /\ <<>> \in Seq(AllRegions)
        /\ <<>> \in Seq({Empty} \cup (0 .. MaxMessages) \X (0 .. MaxMessages))
    BY ChannelAssumption, EmptySeq DEF Blank
  <2>2. InHand = {}
    BY DEF Init, InHand
  <2>3. /\ outgoing \in [AllRegions -> 0 .. MaxMessages]
        /\ incoming \in [AllRegions -> 0 .. MaxMessages]
        /\ queued \in Seq(AllRegions)
        /\ received \in Seq(AllRegions)
        /\ delivered \in Seq({Empty} \cup (0 .. MaxMessages) \X (0 .. MaxMessages))
    BY <2>1 DEF Init, RegionsInit
  <2>4. free = AllRegions /\ posted = AllRegions /\ up = TRUE
    BY DEF Init, RegionsInit
  <2>5. /\ written \in 0 .. MaxMessages /\ writeBuffer = 0 /\ readBuffer = 0
        /\ seen \in 0 .. MaxMessages
        /\ reads \in 0 .. MaxReads
    BY ChannelAssumption DEF Init, Blank
  <2>6. /\ layout \in {"raw", "prefixed"} /\ wpc = "idle" /\ rpc = "idle" /\ call = "none"
        /\ failed \in BOOLEAN
        /\ kept = {}
    BY DEF Init
  <2> QED BY <2>2, <2>3, <2>4, <2>5, <2>6 DEF TypeOK
<1>2. TypeOK /\ [Next]_vars => TypeOK'
  <2> SUFFICES ASSUME TypeOK, [Next]_vars PROVE TypeOK'
    OBVIOUS
  <2> USE ChannelAssumption DEF TypeOK, InHand
  <2>1. ASSUME BeginWrite PROVE TypeOK'
    BY <2>1 DEF BeginWrite, regionVars, readerVars
  <2>2. ASSUME AcquireSendRegion PROVE TypeOK'
    BY SMTT(30), <2>2 DEF AcquireSendRegion, AcquireSend, readerVars, AllRegions
  <2>3. ASSUME AcquireSendFails PROVE TypeOK'
    BY <2>3 DEF AcquireSendFails, regionVars, readerVars
  <2>4. ASSUME Fill PROVE TypeOK'
    <3>1. outgoing' \in [AllRegions -> 0 .. MaxMessages]
      BY <2>4 DEF Fill, FillSend
    <3> QED BY <2>4, <3>1 DEF Fill, FillSend, readerVars
  <2>5. ASSUME QueueRegion PROVE TypeOK'
    BY <2>5 DEF QueueRegion, QueueSend, readerVars
  <2>6. ASSUME Network PROVE TypeOK'
    <3>1. ASSUME Transmit PROVE TypeOK'
      BY SMTT(30), <2>6, <3>1 DEF Network, Transmit, writerVars, readerVars
    <3>2. ASSUME Disconnect PROVE TypeOK'
      <4>1. queued' \in Seq(AllRegions) /\ up' \in BOOLEAN
        BY <3>2, EmptySeq DEF Disconnect
      <4>2. UNCHANGED <<layout, free, outgoing, posted, received, incoming, written, wpc, writeBuffer, rpc, call,
                        readBuffer, seen, reads, delivered, failed, kept>>
        BY <2>6, <3>2 DEF Network, Disconnect, writerVars, readerVars
      <4> QED BY <4>1, <4>2
    <3> QED BY <2>6, <3>1, <3>2 DEF Network
  <2>7. ASSUME BeginRead PROVE TypeOK'
    BY <2>7 DEF BeginRead, ReadCalls, regionVars, writerVars
  <2>8. ASSUME AcquireReceivedRegion PROVE TypeOK'
    BY <2>8 DEF AcquireReceivedRegion, AcquireReceived, writerVars
  <2>9. ASSUME AcquireReceivedFails PROVE TypeOK'
    BY <2>9 DEF AcquireReceivedFails, regionVars, writerVars
  <2>10. ASSUME ParseNothing PROVE TypeOK'
    BY <2>10 DEF ParseNothing, Empty, regionVars, writerVars
  <2>11. ASSUME LoadFirst PROVE TypeOK'
    BY <2>11 DEF LoadFirst, regionVars, writerVars
  <2>12. ASSUME LoadRest PROVE TypeOK'
    <3>1. incoming[readBuffer] \in 0 .. MaxMessages /\ readBuffer \in AllRegions
      BY <2>12 DEF LoadRest
    <3>2. <<seen, incoming[readBuffer]>> \in (0 .. MaxMessages) \X (0 .. MaxMessages)
      BY <3>1
    <3>3. delivered' \in Seq({Empty} \cup (0 .. MaxMessages) \X (0 .. MaxMessages))
      BY <2>12, <3>2, AppendProperties DEF LoadRest
    <3> QED BY <2>12, <3>1, <3>3 DEF LoadRest, regionVars, writerVars
  <2>13. ASSUME ReleaseRegion PROVE TypeOK'
    BY <2>13 DEF ReleaseRegion, Release, writerVars
  <2>14. CASE UNCHANGED vars
    BY <2>14 DEF vars, regionVars, writerVars, readerVars
  <2> QED BY <2>1, <2>2, <2>3, <2>4, <2>5, <2>6, <2>7, <2>8, <2>9, <2>10, <2>11, <2>12, <2>13, <2>14
          DEF Next, Writer, Reader
<1> QED BY <1>1, <1>2, PTL DEF Safety
-----------------------------------------------------------------------------

\* A receive region is in one place: posted, waiting to be acquired, at hand or
\* kept.  A region leaves each place by the step that brings it to the next:
\* the network takes a posted one, the reader the head of those received.
THEOREM ReceiveRegionsStayApart == Safety => []ReceiveRegionsApart
<1> USE DEF ReceiveRegionsApart
<1>1. Init => ReceiveRegionsApart
  BY EmptySeq DEF Init, RegionsInit, InHand, InSeq
<1>2. TypeOK /\ ReceiveRegionsApart /\ [Next]_vars => ReceiveRegionsApart'
  <2> SUFFICES ASSUME TypeOK, ReceiveRegionsApart, [Next]_vars PROVE ReceiveRegionsApart'
    OBVIOUS
  <2>1. ASSUME Writer PROVE ReceiveRegionsApart'
    <3>1. UNCHANGED <<posted, received, InHand, kept>>
      BY <2>1 DEF Writer, BeginWrite, AcquireSendRegion, AcquireSend, AcquireSendFails, Fill, FillSend,
                  QueueRegion, QueueSend, regionVars, readerVars, InHand
    <3> QED BY <3>1 DEF InSeq
  <2>2. ASSUME Network PROVE ReceiveRegionsApart'
    <3>1. UNCHANGED <<InHand, kept>>
      BY <2>2 DEF Network, readerVars, InHand
    <3>2. CASE Transmit
      <4>1. PICK r \in posted : posted' = posted \ {r} /\ received' = Append(received, r)
        BY <3>2 DEF Transmit
      <4>2. r \in AllRegions /\ ~InSeq(r, received) /\ r \notin InHand \cup kept
        BY <4>1 DEF TypeOK
      <4>3. \A x : InSeq(x, received') <=> InSeq(x, received) \/ x = r
        BY <4>1, <4>2, InSeqAppend DEF TypeOK
      <4>4. Once(received)
        BY DEF Once
      <4>5. Once(received')
        BY <4>1, <4>2, <4>4, OnceAppend DEF TypeOK
      <4> QED BY <3>1, <4>1, <4>2, <4>3, <4>5 DEF Once
    <3>3. CASE Disconnect
      BY <3>1, <3>3 DEF Disconnect, InSeq
    <3> QED BY <2>2, <3>2, <3>3 DEF Network
  <2>3. ASSUME AcquireReceivedRegion PROVE ReceiveRegionsApart'
    <3>1. /\ received # <<>>
          /\ received' = Tail(received)
          /\ InHand = {}
          /\ InHand' = {Head(received)}
          /\ UNCHANGED <<posted, kept>>
      BY <2>3 DEF AcquireReceivedRegion, AcquireReceived, InHand
    <3>2. /\ InSeq(Head(received), received)
          /\ \A x : InSeq(x, received') => InSeq(x, received)
          /\ ~InSeq(Head(received), received')
          /\ Once(received')
      BY <3>1, InSeqTail DEF TypeOK, Once
    <3> QED BY <3>1, <3>2 DEF Once
  <2>4. ASSUME LoadRest PROVE ReceiveRegionsApart'
    <3>1. /\ InHand = {readBuffer}
          /\ \/ kept' = kept \cup {readBuffer} /\ InHand' = {}
             \/ kept' = kept /\ InHand' = {readBuffer}
          /\ UNCHANGED <<posted, received>>
      BY <2>4 DEF LoadRest, regionVars, InHand
    <3> QED BY <3>1 DEF InSeq
  <2>5. ASSUME ReleaseRegion PROVE ReceiveRegionsApart'
    <3>1. /\ InHand = {readBuffer}
          /\ InHand' = {}
          /\ posted' = posted \cup {readBuffer}
          /\ UNCHANGED <<received, kept>>
      BY <2>5 DEF ReleaseRegion, Release, InHand
    <3> QED BY <3>1 DEF InSeq
  <2>6. ASSUME BeginRead \/ AcquireReceivedFails \/ ParseNothing \/ LoadFirst
        PROVE  ReceiveRegionsApart'
    <3>1. UNCHANGED <<posted, received, InHand, kept>>
      BY <2>6 DEF BeginRead, AcquireReceivedFails, ParseNothing, LoadFirst, regionVars, InHand
    <3> QED BY <3>1 DEF InSeq
  <2>7. CASE UNCHANGED vars
    BY <2>7 DEF vars, regionVars, readerVars, InHand, InSeq
  <2> QED BY <2>1, <2>2, <2>3, <2>4, <2>5, <2>6, <2>7 DEF Next, Reader
<1> QED BY <1>1, <1>2, TypeCorrect, PTL DEF Safety

-----------------------------------------------------------------------------

\* What is at most in one place on the sending side: a region that can be
\* acquired is not queued, none is queued twice, and one that a writer holds
\* while the connection is up is neither.  Once the connection is down nothing
\* is queued, so what a writer does with an old region hurts nothing.
SendRegionsApart ==
    /\ \A r \in free : ~InSeq(r, queued)
    /\ Once(queued)
    /\ up /\ wpc \in {"filling", "queueing"} => writeBuffer \notin free /\ ~InSeq(writeBuffer, queued)
    /\ ~up => queued = <<>>

\* easyrdma never gives a writer a region that is still queued.
THEOREM SendRegionsStayApart == Safety => []SendRegionsApart
<1> USE DEF SendRegionsApart
<1>1. Init => SendRegionsApart
  BY EmptySeq DEF Init, RegionsInit, InSeq, Once
<1>2. TypeOK /\ SendRegionsApart /\ [Next]_vars => SendRegionsApart'
  <2> SUFFICES ASSUME TypeOK, SendRegionsApart, [Next]_vars PROVE SendRegionsApart'
    OBVIOUS
  <2>1. ASSUME AcquireSendRegion PROVE SendRegionsApart'
    <3>1. PICK r \in AllRegions : AcquireSend(r) /\ writeBuffer' = r
      BY <2>1 DEF AcquireSendRegion
    <3> QED BY <3>1 DEF AcquireSend, InSeq, Once
  <2>2. ASSUME QueueRegion PROVE SendRegionsApart'
    <3>1. CASE up
      <4>1. /\ queued' = Append(queued, writeBuffer)
            /\ wpc' = "idle"
            /\ UNCHANGED <<free, up>>
            /\ writeBuffer \in AllRegions
            /\ writeBuffer \notin free
            /\ ~InSeq(writeBuffer, queued)
        BY <2>2, <3>1 DEF QueueRegion, QueueSend, TypeOK
      <4>2. /\ \A x : InSeq(x, queued') <=> InSeq(x, queued) \/ x = writeBuffer
            /\ Once(queued')
        BY <4>1, InSeqAppend, OnceAppend DEF TypeOK
      <4> QED BY <3>1, <4>1, <4>2
    <3>2. CASE ~up
      BY <2>2, <3>2 DEF QueueRegion, QueueSend, InSeq, Once
    <3> QED BY <3>1, <3>2
  <2>3. ASSUME Network PROVE SendRegionsApart'
    <3>1. CASE Transmit
      <4>1. /\ queued # <<>>
            /\ queued' = Tail(queued)
            /\ free' = free \cup {Head(queued)}
            /\ up
            /\ UNCHANGED <<up, wpc, writeBuffer>>
        BY <2>3, <3>1 DEF Network, Transmit, writerVars
      <4>2. /\ InSeq(Head(queued), queued)
            /\ \A x : InSeq(x, queued') => InSeq(x, queued)
            /\ ~InSeq(Head(queued), queued')
            /\ Once(queued')
        BY <4>1, InSeqTail DEF TypeOK
      <4> QED BY <4>1, <4>2
    <3>2. CASE Disconnect
      BY <3>2, EmptySeq DEF Disconnect, InSeq, Once
    <3> QED BY <2>3, <3>1, <3>2 DEF Network
  <2>4. ASSUME BeginWrite \/ AcquireSendFails \/ Fill PROVE SendRegionsApart'
    BY <2>4 DEF BeginWrite, AcquireSendFails, Fill, FillSend, regionVars, InSeq, Once
  <2>5. ASSUME Reader PROVE SendRegionsApart'
    <3>1. UNCHANGED <<free, queued, up, wpc, writeBuffer>>
      BY <2>5 DEF Reader, BeginRead, AcquireReceivedRegion, AcquireReceived, AcquireReceivedFails,
                  ParseNothing, LoadFirst, LoadRest, ReleaseRegion, Release, regionVars, writerVars
    <3> QED BY <3>1 DEF InSeq, Once
  <2>6. CASE UNCHANGED vars
    BY <2>6 DEF vars, regionVars, writerVars, InSeq, Once
  <2> QED BY <2>1, <2>2, <2>3, <2>4, <2>5, <2>6 DEF Next, Writer
<1> QED BY <1>1, <1>2, TypeCorrect, PTL DEF Safety

\* A region that Write, WriteLengthPrefixed or FinishDirectWrite has queued is
\* not written to before the network has taken its content, whatever becomes
\* of the connection.
THEOREM NoQueuedRegionRewritten == Safety => []QueuedNotRewritten
<1>1. SendRegionsApart => QueuedNotRewritten
  BY EmptySeq DEF SendRegionsApart, QueuedNotRewritten, InSeq
<1> QED BY <1>1, SendRegionsStayApart, PTL
-----------------------------------------------------------------------------

\* An error means that the connection is lost: a reader was refused a region,
\* a writer went on with a pointer it does not have, or a caller parses nothing.
ErrorsFollowLoss == /\ failed => ~up
                    /\ wpc = "undefined" => ~up
                    /\ rpc = "parsingNothing" => failed

\* AcquireSendRegion and AcquireReceivedRegion are only refused a region after
\* the connection broke, and it is not repaired.
THEOREM ErrorsOnlyAfterLoss == Safety => []ErrorsFollowLoss
<1> USE DEF ErrorsFollowLoss
<1>1. Init => ErrorsFollowLoss
  BY DEF Init, RegionsInit
<1>2. ErrorsFollowLoss /\ [Next]_vars => ErrorsFollowLoss'
  <2> SUFFICES ASSUME ErrorsFollowLoss, [Next]_vars PROVE ErrorsFollowLoss'
    OBVIOUS
  <2>1. ASSUME Writer PROVE ErrorsFollowLoss'
    BY <2>1 DEF Writer, BeginWrite, AcquireSendRegion, AcquireSend, AcquireSendFails, Fill, FillSend,
                QueueRegion, QueueSend, regionVars, readerVars
  <2>2. ASSUME Network PROVE ErrorsFollowLoss'
    BY <2>2 DEF Network, Transmit, Disconnect, writerVars, readerVars
  <2>3. ASSUME Reader PROVE ErrorsFollowLoss'
    BY <2>3 DEF Reader, BeginRead, AcquireReceivedRegion, AcquireReceived, AcquireReceivedFails,
                ParseNothing, LoadFirst, LoadRest, ReleaseRegion, Release, regionVars, writerVars
  <2>4. CASE UNCHANGED vars
    BY <2>4 DEF vars, regionVars, writerVars, readerVars
  <2> QED BY <2>1, <2>2, <2>3, <2>4 DEF Next
<1> QED BY <1>1, <1>2, PTL DEF Safety

-----------------------------------------------------------------------------
(* Where the messages are *)

\* How many messages the reader was given or is loading.
Taken == Len(delivered) + IF rpc \in {"loading", "loadingRest"} THEN 1 ELSE 0

\* How many messages the writer is through with.
Ended == written - IF wpc = "idle" THEN 0 ELSE 1

\* Until the reader is refused a region, the messages written are, in order,
\* those delivered, the one that is being loaded, those in the received
\* regions, those in the queued regions, and the one that is being written; a
\* connection that is down may have lost some of the last.
MessagesInOrder ==
    ~failed =>
        /\ \A i \in DOMAIN delivered : delivered[i] = Message(i)
        /\ rpc \in {"loading", "loadingRest"} => incoming[readBuffer] = Taken
        /\ rpc = "loadingRest" => seen = Taken
        /\ \A i \in DOMAIN received : incoming[received[i]] = Taken + i
        /\ \A i \in DOMAIN queued : outgoing[queued[i]] = Taken + Len(received) + i
        /\ up /\ wpc = "queueing" => outgoing[writeBuffer] = written
        /\ up => Taken + Len(received) + Len(queued) = Ended
        /\ Taken + Len(received) <= written

\* The lengths of the sequences are numbers, and their elements what they
\* should be.
LEMMA LengthsAndElements ==
  ASSUME TypeOK
  PROVE  /\ Len(delivered) \in Nat /\ DOMAIN delivered = 1 .. Len(delivered)
         /\ Len(received) \in Nat /\ DOMAIN received = 1 .. Len(received)
         /\ Len(queued) \in Nat /\ DOMAIN queued = 1 .. Len(queued)
         /\ \A i \in 1 .. Len(received) : received[i] \in AllRegions
         /\ \A i \in 1 .. Len(queued) : queued[i] \in AllRegions
         /\ Taken \in Nat
         /\ written \in Nat
<1>1. /\ Len(delivered) \in Nat /\ DOMAIN delivered = 1 .. Len(delivered)
      /\ Len(received) \in Nat /\ DOMAIN received = 1 .. Len(received)
      /\ Len(queued) \in Nat /\ DOMAIN queued = 1 .. Len(queued)
      /\ \A i \in 1 .. Len(received) : received[i] \in AllRegions
      /\ \A i \in 1 .. Len(queued) : queued[i] \in AllRegions
  BY LenProperties, ElementOfSeq DEF TypeOK
<1> QED BY <1>1, ChannelAssumption DEF TypeOK, Taken

\* The writer's calls: a message is behind all others when it is queued, and a
\* region is filled while it is not queued.
LEMMA WriterKeepsOrder ==
  ASSUME TypeOK, SendRegionsApart, MessagesInOrder, Writer
  PROVE  MessagesInOrder'
<1>0. /\ UNCHANGED <<delivered, received, incoming, rpc, readBuffer, seen, failed, up, Taken>>
  BY DEF Writer, BeginWrite, AcquireSendRegion, AcquireSend, AcquireSendFails, Fill, FillSend,
         QueueRegion, QueueSend, regionVars, readerVars, Taken
<1>1. ASSUME BeginWrite PROVE MessagesInOrder'
  BY <1>0, <1>1, LengthsAndElements DEF BeginWrite, regionVars, MessagesInOrder, Ended
<1>2. ASSUME AcquireSendRegion PROVE MessagesInOrder'
  BY <1>0, <1>2 DEF AcquireSendRegion, AcquireSend, MessagesInOrder, Ended
<1>3. ASSUME AcquireSendFails PROVE MessagesInOrder'
  BY <1>0, <1>3 DEF AcquireSendFails, regionVars, MessagesInOrder
<1>4. ASSUME Fill PROVE MessagesInOrder'
  <2>1. /\ outgoing' = [outgoing EXCEPT ![writeBuffer] = written]
        /\ writeBuffer \in AllRegions
        /\ wpc = "filling" /\ wpc' = "queueing"
        /\ UNCHANGED <<queued, written, writeBuffer>>
    BY <1>4 DEF Fill, FillSend, TypeOK
  <2>2. outgoing'[writeBuffer] = written /\ UNCHANGED Ended
    BY <2>1 DEF TypeOK, Ended
  <2>3. \A i \in DOMAIN queued : outgoing'[queued[i]] = outgoing[queued[i]]
    BY <2>1, LengthsAndElements, EmptySeq DEF TypeOK, SendRegionsApart, InSeq
  <2> QED BY <1>0, <2>1, <2>2, <2>3 DEF MessagesInOrder
<1>5. ASSUME QueueRegion PROVE MessagesInOrder'
  <2>1. CASE up
    <3>1. /\ queued' = Append(queued, writeBuffer)
          /\ writeBuffer \in AllRegions
          /\ wpc = "queueing" /\ wpc' = "idle"
          /\ UNCHANGED <<outgoing, written, writeBuffer>>
      BY <1>5, <2>1 DEF QueueRegion, QueueSend, TypeOK
    <3>2. /\ Len(queued') = Len(queued) + 1
          /\ DOMAIN queued' = 1 .. Len(queued) + 1
          /\ \A i \in 1 .. Len(queued) : queued'[i] = queued[i]
          /\ queued'[Len(queued) + 1] = writeBuffer
      BY <3>1, AppendProperties, LenProperties DEF TypeOK
    <3>3. Ended = written - 1 /\ Ended' = written
      BY <3>1, LengthsAndElements DEF Ended
    <3> SUFFICES ASSUME ~failed PROVE MessagesInOrder'
      BY <1>0 DEF MessagesInOrder
    <3>4. Taken + Len(received) + Len(queued) + 1 = written /\ outgoing[writeBuffer] = written
      BY <2>1, <3>1, <3>3, LengthsAndElements DEF MessagesInOrder
    <3>5. \A i \in DOMAIN queued' : outgoing'[queued'[i]] = Taken' + Len(received') + i
      <4>1. \A i \in 1 .. Len(queued) : outgoing[queued[i]] = Taken + Len(received) + i
        BY LengthsAndElements DEF MessagesInOrder
      <4>2. \A i \in DOMAIN queued' : i \in 1 .. Len(queued) \/ i = Len(queued) + 1
        BY <3>2, LengthsAndElements
      <4>3. UNCHANGED <<Taken, Len(received), outgoing>>
        BY <1>0, <3>1
      <4>4. ASSUME NEW i \in 1 .. Len(queued) PROVE outgoing'[queued'[i]] = Taken' + Len(received') + i
        BY <3>2, <4>1, <4>3
      <4>5. outgoing'[queued'[Len(queued) + 1]] = Taken' + Len(received') + Len(queued) + 1
        BY <3>2, <3>4, <4>3
      <4>6. Taken' + Len(received') \in Nat /\ Len(queued) \in Nat
        BY <4>3, LengthsAndElements
      <4>7. Taken' + Len(received') + Len(queued) + 1 = Taken' + Len(received') + (Len(queued) + 1)
        BY <4>6
      <4> QED BY <4>2, <4>4, <4>5, <4>7
    <3>6. Taken' + Len(received') + Len(queued') = Ended' /\ Taken' + Len(received') <= written'
      BY <1>0, <3>1, <3>2, <3>3, <3>4, LengthsAndElements
    <3> QED BY <1>0, <3>1, <3>5, <3>6 DEF MessagesInOrder
  <2>2. CASE ~up
    BY <1>0, <1>5, <2>2 DEF QueueRegion, QueueSend, MessagesInOrder
  <2> QED BY <2>1, <2>2
<1> QED BY <1>1, <1>2, <1>3, <1>4, <1>5 DEF Writer

\* The network takes the first message that is queued and puts it behind those
\* received, in a region nobody looks at; a loss of the connection leaves what
\* was received.
LEMMA NetworkKeepsOrder ==
  ASSUME TypeOK, ReceiveRegionsApart, MessagesInOrder, Network
  PROVE  MessagesInOrder'
<1>0. UNCHANGED <<delivered, rpc, readBuffer, seen, failed, written, wpc, writeBuffer, outgoing, Taken, Ended>>
  BY DEF Network, Transmit, Disconnect, writerVars, readerVars, Taken, Ended
<1> Taken \in Nat /\ Len(received) \in Nat /\ Len(queued) \in Nat /\ written \in Nat
  BY LengthsAndElements
<1>1. CASE Transmit
  <2>1. PICK r \in posted : /\ incoming' = [incoming EXCEPT ![r] = outgoing[Head(queued)]]
                            /\ received' = Append(received, r)
    BY <1>1 DEF Transmit
  <2>2. /\ queued # <<>>
        /\ queued' = Tail(queued)
        /\ up' = up /\ up
    BY <1>1 DEF Transmit
  <2>3. /\ r \in AllRegions
        /\ ~InSeq(r, received)
        /\ rpc \in {"loading", "loadingRest"} => readBuffer # r
    BY DEF TypeOK, ReceiveRegionsApart, InHand
  <2>4. /\ Len(received') = Len(received) + 1
        /\ DOMAIN received' = 1 .. Len(received) + 1
        /\ \A i \in 1 .. Len(received) : received'[i] = received[i]
        /\ received'[Len(received) + 1] = r
    BY <2>1, <2>3, AppendProperties, LenProperties DEF TypeOK
  <2>5. /\ Head(queued) = queued[1]
        /\ 1 \in DOMAIN queued
        /\ Len(queued') = Len(queued) - 1
        /\ DOMAIN queued' = 1 .. Len(queued) - 1
        /\ \A i \in 1 .. Len(queued) - 1 : queued'[i] = queued[i + 1]
    BY <2>2, HeadTailProperties, LenProperties, EmptySeq DEF TypeOK
  <2>6. /\ incoming'[r] = outgoing[queued[1]]
        /\ \A x \in AllRegions \ {r} : incoming'[x] = incoming[x]
    BY <2>1, <2>3, <2>5 DEF TypeOK
  <2>7. ASSUME ~failed
        PROVE  \A i \in DOMAIN received' : incoming'[received'[i]] = Taken + i
    <3>1. incoming'[r] = Taken + (Len(received) + 1)
      <4>1. outgoing[queued[1]] = Taken + Len(received) + 1
        BY <2>5, <2>7 DEF MessagesInOrder
      <4> QED BY <2>6, <4>1
    <3>2. \A i \in 1 .. Len(received) : incoming'[received[i]] = Taken + i
      BY <2>3, <2>6, <2>7, LengthsAndElements DEF MessagesInOrder, InSeq
    <3>3. ASSUME NEW i \in 1 .. Len(received) + 1 PROVE incoming'[received'[i]] = Taken + i
      <4>1. CASE i = Len(received) + 1
        BY <2>4, <3>1, <4>1
      <4>2. CASE i \in 1 .. Len(received)
        BY <2>4, <3>2, <4>2
      <4> QED BY <4>1, <4>2
    <3> QED BY <2>4, <3>3
  <2>8. ASSUME ~failed
        PROVE  \A i \in DOMAIN queued' : outgoing[queued'[i]] = Taken + Len(received') + i
    <3>1. \A i \in DOMAIN queued : outgoing[queued[i]] = Taken + Len(received) + i
      BY <2>8 DEF MessagesInOrder
    <3>2. ASSUME NEW i \in 1 .. Len(queued) - 1
          PROVE  outgoing[queued'[i]] = Taken + Len(received') + i
      <4>1. queued'[i] = queued[i + 1] /\ i + 1 \in DOMAIN queued
        BY <2>5, LengthsAndElements
      <4> QED BY <2>4, <3>1, <4>1
    <3> QED BY <2>5, <3>2
  <2>9. rpc \in {"loading", "loadingRest"} => incoming'[readBuffer] = incoming[readBuffer]
    BY <2>3, <2>6 DEF TypeOK, InHand
  <2>10. ASSUME ~failed
         PROVE  /\ Taken + Len(received') + Len(queued') = Ended
                /\ Taken + Len(received') <= written
    <3>1. Taken + Len(received) + Len(queued) = Ended
      BY <2>2, <2>10 DEF MessagesInOrder
    <3>2. Ended \in Int /\ Ended <= written /\ Len(queued) >= 1
      BY <2>5, LengthsAndElements DEF Ended
    <3>3. Len(received') = Len(received) + 1 /\ Len(queued') = Len(queued) - 1
      BY <2>4, <2>5
    <3> QED BY <3>1, <3>2, <3>3
  <2> QED BY <1>0, <2>2, <2>7, <2>8, <2>9, <2>10 DEF MessagesInOrder
<1>2. CASE Disconnect
  BY <1>0, <1>2 DEF Disconnect, MessagesInOrder
<1> QED BY <1>1, <1>2 DEF Network

\* The reader takes the first message received and appends it to what it was
\* given; one that was refused a region promises nothing any more.
LEMMA ReaderKeepsOrder ==
  ASSUME TypeOK, ErrorsFollowLoss, MessagesInOrder, Reader
  PROVE  MessagesInOrder'
<1>0. UNCHANGED <<queued, outgoing, incoming, up, written, wpc, writeBuffer, Ended>>
  BY DEF Reader, BeginRead, AcquireReceivedRegion, AcquireReceived, AcquireReceivedFails,
         ParseNothing, LoadFirst, LoadRest, ReleaseRegion, Release, regionVars, writerVars, Ended
<1> Taken \in Nat /\ Len(received) \in Nat
  BY LengthsAndElements
<1>1. ASSUME BeginRead \/ ReleaseRegion PROVE MessagesInOrder'
  BY <1>0, <1>1 DEF BeginRead, ReleaseRegion, Release, regionVars, MessagesInOrder, Taken
<1>2. ASSUME AcquireReceivedRegion PROVE MessagesInOrder'
  <2>1. /\ received # <<>>
        /\ received' = Tail(received)
        /\ readBuffer' = Head(received)
        /\ rpc = "acquiring" /\ rpc' = "loading"
        /\ UNCHANGED <<delivered, failed>>
    BY <1>2 DEF AcquireReceivedRegion, AcquireReceived
  <2>2. /\ Head(received) = received[1]
        /\ 1 \in DOMAIN received
        /\ Len(received') = Len(received) - 1
        /\ DOMAIN received' = 1 .. Len(received) - 1
        /\ \A i \in 1 .. Len(received) - 1 : received'[i] = received[i + 1]
    BY <2>1, HeadTailProperties, LenProperties, EmptySeq DEF TypeOK
  <2>3. Taken' = Taken + 1
    BY <2>1, LengthsAndElements DEF Taken
  <2>4. ASSUME ~failed
        PROVE  /\ incoming[readBuffer'] = Taken'
               /\ \A i \in DOMAIN received' : incoming[received'[i]] = Taken' + i
               /\ Taken' + Len(received') = Taken + Len(received)
    <3>1. \A i \in DOMAIN received : incoming[received[i]] = Taken + i
      BY <2>4 DEF MessagesInOrder
    <3>2. incoming[readBuffer'] = Taken'
      BY <2>1, <2>2, <2>3, <3>1
    <3>3. ASSUME NEW i \in 1 .. Len(received) - 1 PROVE incoming[received'[i]] = Taken' + i
      <4>1. received'[i] = received[i + 1] /\ i + 1 \in DOMAIN received
        BY <2>2, LengthsAndElements
      <4> QED BY <2>3, <3>1, <4>1
    <3>4. Taken' + Len(received') = Taken + Len(received)
      BY <2>2, <2>3
    <3> QED BY <2>2, <3>2, <3>3, <3>4
  <2>5. ASSUME ~failed
        PROVE  \A i \in DOMAIN queued : outgoing[queued[i]] = Taken' + Len(received') + i
    BY <2>4, <2>5 DEF MessagesInOrder
  <2>6. ASSUME ~failed
        PROVE  /\ Taken' + Len(received') <= written
               /\ up => Taken' + Len(received') + Len(queued) = Ended
    BY <2>4, <2>6 DEF MessagesInOrder
  <2>7. /\ ~failed => \A i \in DOMAIN delivered : delivered[i] = Message(i)
        /\ ~failed /\ up /\ wpc = "queueing" => outgoing[writeBuffer] = written
    BY DEF MessagesInOrder
  <2> QED BY <1>0, <2>1, <2>4, <2>5, <2>6, <2>7 DEF MessagesInOrder
<1>3. ASSUME AcquireReceivedFails PROVE MessagesInOrder'
  BY <1>3 DEF AcquireReceivedFails, MessagesInOrder
<1>4. ASSUME ParseNothing PROVE MessagesInOrder'
  BY <1>4 DEF ParseNothing, ErrorsFollowLoss, MessagesInOrder
<1>5. ASSUME LoadFirst PROVE MessagesInOrder'
  BY <1>0, <1>5 DEF LoadFirst, regionVars, MessagesInOrder, Taken
<1>6. ASSUME LoadRest PROVE MessagesInOrder'
  <2>1. /\ delivered' = Append(delivered, <<seen, incoming[readBuffer]>>)
        /\ rpc = "loadingRest" /\ rpc' \in {"idle", "releasing"}
        /\ UNCHANGED <<received, readBuffer, seen, failed>>
    BY <1>6 DEF LoadRest, regionVars
  <2>2. <<seen, incoming[readBuffer]>> \in (0 .. MaxMessages) \X (0 .. MaxMessages)
    BY <2>1 DEF TypeOK, InHand
  <2>3. /\ Len(delivered') = Len(delivered) + 1
        /\ DOMAIN delivered' = 1 .. Len(delivered) + 1
        /\ \A i \in 1 .. Len(delivered) : delivered'[i] = delivered[i]
        /\ delivered'[Len(delivered) + 1] = <<seen, incoming[readBuffer]>>
    BY <2>1, <2>2, AppendProperties, LenProperties DEF TypeOK
  <2>4. Taken' = Taken /\ Taken = Len(delivered) + 1
    BY <2>1, <2>3, LengthsAndElements DEF Taken
  <2>5. ASSUME ~failed PROVE \A i \in DOMAIN delivered' : delivered'[i] = Message(i)
    <3>1. <<seen, incoming[readBuffer]>> = Message(Len(delivered) + 1)
      BY <2>1, <2>4, <2>5 DEF MessagesInOrder, Message
    <3> QED BY <2>3, <2>5, <3>1, LengthsAndElements DEF MessagesInOrder
  <2> QED BY <1>0, <2>1, <2>4, <2>5 DEF MessagesInOrder
<1> QED BY <1>1, <1>2, <1>3, <1>4, <1>5, <1>6 DEF Reader

\* Wherever a message is between WriteSidebandMessage and ReadSidebandMessage,
\* the regions hold the messages whole, once and in order.
THEOREM MessagesStayInOrder == Safety => []MessagesInOrder
<1>1. Init => MessagesInOrder
  BY ChannelAssumption, EmptySeq DEF Init, RegionsInit, MessagesInOrder, Taken, Ended
<1>2. /\ TypeOK /\ ReceiveRegionsApart /\ SendRegionsApart /\ ErrorsFollowLoss /\ MessagesInOrder
      /\ [Next]_vars
      => MessagesInOrder'
  <2> SUFFICES ASSUME TypeOK, ReceiveRegionsApart, SendRegionsApart, ErrorsFollowLoss, MessagesInOrder,
                      [Next]_vars
               PROVE  MessagesInOrder'
    OBVIOUS
  <2>1. CASE UNCHANGED vars
    BY <2>1 DEF vars, regionVars, writerVars, readerVars, MessagesInOrder, Taken, Ended
  <2> QED BY <2>1, WriterKeepsOrder, NetworkKeepsOrder, ReaderKeepsOrder DEF Next
<1> QED BY <1>1, <1>2, TypeCorrect, ReceiveRegionsStayApart, SendRegionsStayApart, ErrorsOnlyAfterLoss,
           PTL DEF Safety
-----------------------------------------------------------------------------
(* The promise to ReadSidebandMessage and WriteSidebandMessage *)

\* The messages written so far, as MessageChannel has them.
Messages(n) == [k \in 1 .. n |-> Message(k)]

LEMMA MessagesProperties ==
  ASSUME NEW n \in Nat
  PROVE  /\ Messages(n) \in Seq(Nat \X Nat)
         /\ Len(Messages(n)) = n
         /\ \A i \in 1 .. n : Messages(n)[i] = Message(i)
<1>1. \A i \in 1 .. n : Message(i) \in Nat \X Nat
  BY DEF Message
<1>2. Messages(n) \in [1 .. n -> Nat \X Nat]
  BY <1>1 DEF Messages
<1> QED BY <1>2, SeqDef DEF Messages

\* Beginning a message adds one behind those written.
LEMMA OneMoreMessage ==
  ASSUME NEW n \in Nat
  PROVE  Channel!OneMore(Messages(n), Messages(n + 1))
<1>1. /\ Messages(n) \in Seq(Nat \X Nat) /\ Len(Messages(n)) = n
      /\ Messages(n + 1) \in Seq(Nat \X Nat) /\ Len(Messages(n + 1)) = n + 1
      /\ \A i \in 1 .. n : Messages(n)[i] = Messages(n + 1)[i]
  <2>1. n + 1 \in Nat /\ \A i \in 1 .. n : i \in 1 .. n + 1
    OBVIOUS
  <2> QED BY <2>1, MessagesProperties
<1>2. \A i \in 1 .. n : Messages(n + 1)[i] \in Nat \X Nat
  BY <1>1, ElementOfSeq
<1>3. /\ SubSeq(Messages(n + 1), 1, n) \in Seq(Nat \X Nat)
      /\ Len(SubSeq(Messages(n + 1), 1, n)) = n
      /\ \A i \in 1 .. n : SubSeq(Messages(n + 1), 1, n)[i] = Messages(n + 1)[i]
  BY <1>2, SubSeqProperties
<1>4. SubSeq(Messages(n + 1), 1, n) = Messages(n)
  BY <1>1, <1>3, SeqEqual
<1> QED BY <1>1, <1>4 DEF Channel!OneMore

\* So does appending to what was delivered.
LEMMA OneMoreDelivered ==
  ASSUME NEW S, NEW q \in Seq(S), NEW e \in S
  PROVE  Channel!OneMore(q, Append(q, e))
<1>1. /\ Append(q, e) \in Seq(S)
      /\ Len(Append(q, e)) = Len(q) + 1
      /\ \A i \in 1 .. Len(q) : Append(q, e)[i] = q[i]
      /\ Len(q) \in Nat
  BY AppendProperties, LenProperties
<1>2. \A i \in 1 .. Len(q) : Append(q, e)[i] \in S
  BY <1>1, ElementOfSeq
<1>3. /\ SubSeq(Append(q, e), 1, Len(q)) \in Seq(S)
      /\ Len(SubSeq(Append(q, e), 1, Len(q))) = Len(q)
      /\ \A i \in 1 .. Len(q) : SubSeq(Append(q, e), 1, Len(q))[i] = Append(q, e)[i]
  BY <1>1, <1>2, SubSeqProperties
<1>4. SubSeq(Append(q, e), 1, Len(q)) = q
  BY <1>1, <1>3, SeqEqual
<1> QED BY <1>1, <1>4 DEF Channel!OneMore

\* What the reader is given next is the message that was written next, while
\* it was refused nothing.
LEMMA LoadIsDelivery ==
  ASSUME TypeOK, MessagesInOrder, LoadRest
  PROVE  Channel!Deliver \/ Channel!Stray
<1>1. /\ delivered' = Append(delivered, <<seen, incoming[readBuffer]>>)
      /\ rpc = "loadingRest"
      /\ UNCHANGED <<written, failed>>
  BY DEF LoadRest, writerVars
<1>2. <<seen, incoming[readBuffer]>> \in {Empty} \cup (0 .. MaxMessages) \X (0 .. MaxMessages)
  BY <1>1 DEF TypeOK, InHand
<1>3. CASE failed
  BY <1>1, <1>2, <1>3, OneMoreDelivered DEF TypeOK, Channel!Stray
<1>4. CASE ~failed
  <2>1. /\ Len(delivered) \in Nat /\ Len(received) \in Nat /\ written \in Nat
        /\ Taken = Len(delivered) + 1
    BY <1>1, LengthsAndElements DEF Taken
  <2>2. /\ seen = Taken /\ incoming[readBuffer] = Taken
        /\ Taken + Len(received) <= written
    BY <1>1, <1>4 DEF MessagesInOrder
  <2>3. Len(delivered) < written /\ Len(delivered) + 1 \in 1 .. written
    BY <2>1, <2>2
  <2>4. /\ <<seen, incoming[readBuffer]>> = Messages(written)[Len(delivered) + 1]
        /\ Len(delivered) < Len(Messages(written))
    BY <2>1, <2>2, <2>3, MessagesProperties DEF Message
  <2> QED BY <1>1, <1>4, <2>4 DEF Channel!Deliver, Messages
<1> QED BY <1>3, <1>4

\* Every step of the channel is a step of MessageChannel, or changes nothing
\* it speaks of.
LEMMA StepsAreChannelSteps ==
  ASSUME TypeOK, ErrorsFollowLoss, MessagesInOrder, [Next]_vars
  PROVE  [Channel!Next]_Channel!vars
<1> USE DEF Channel!Next
<1>1. ASSUME BeginWrite PROVE Channel!Write
  <2>1. written' = written + 1 /\ written \in Nat /\ UNCHANGED <<delivered, failed>>
    BY <1>1, LengthsAndElements DEF BeginWrite, readerVars
  <2>2. Channel!OneMore(Messages(written), Messages(written'))
    BY <2>1, OneMoreMessage
  <2> QED BY <2>1, <2>2 DEF Channel!Write, Messages
<1>2. ASSUME AcquireReceivedFails PROVE Channel!Break
  BY <1>2 DEF AcquireReceivedFails, writerVars, Channel!Break
<1>3. ASSUME ParseNothing PROVE Channel!Stray
  <2>1. /\ failed
        /\ delivered' = Append(delivered, Empty)
        /\ UNCHANGED <<written, failed>>
    BY <1>3 DEF ParseNothing, writerVars, ErrorsFollowLoss
  <2>2. Channel!OneMore(delivered, delivered')
    BY <2>1, OneMoreDelivered DEF TypeOK
  <2> QED BY <2>1, <2>2 DEF Channel!Stray
<1>4. ASSUME LoadRest PROVE Channel!Deliver \/ Channel!Stray
  BY <1>4, LoadIsDelivery
<1>5. ASSUME \/ AcquireSendRegion \/ AcquireSendFails \/ Fill \/ QueueRegion \/ Network
             \/ BeginRead \/ AcquireReceivedRegion \/ LoadFirst \/ ReleaseRegion
             \/ UNCHANGED vars
      PROVE  UNCHANGED Channel!vars
  <2>1. UNCHANGED <<written, delivered, failed>>
    BY <1>5 DEF AcquireSendRegion, AcquireSendFails, Fill, QueueRegion, Network, BeginRead,
                AcquireReceivedRegion, LoadFirst, ReleaseRegion, vars, writerVars, readerVars
  <2> QED BY <2>1 DEF Channel!vars
<1> QED BY <1>1, <1>2, <1>3, <1>4, <1>5 DEF Next, Writer, Reader

\* By whichever of its calls they are written and read, an RDMA sideband
\* delivers the messages whole, once and in the order they were written, until
\* the reader is refused a region: it implements MessageChannel.
THEOREM DeliversMessages == Safety => ImplementsMessageChannel
<1>1. Init => Channel!Init
  <2> SUFFICES ASSUME Init PROVE Channel!Init
    OBVIOUS
  <2>1. written = 0 /\ delivered = <<>> /\ failed = FALSE
    BY DEF Init
  <2>2. Messages(0) = <<>>
    BY MessagesProperties, EmptySeq
  <2> QED BY <2>1, <2>2 DEF Channel!Init, Messages
<1>2. TypeOK /\ ErrorsFollowLoss /\ MessagesInOrder /\ [Next]_vars => [Channel!Next]_Channel!vars
  BY StepsAreChannelSteps
<1> QED BY <1>1, <1>2, TypeCorrect, ErrorsOnlyAfterLoss, MessagesStayInOrder, PTL
        DEF Safety, ImplementsMessageChannel, Channel!Spec
=============================================================================
