----------------------------- MODULE RdmaChannel -----------------------------
(***************************************************************************)
(* Messages over one direction of an RDMA sideband: the calls of           *)
(* RdmaSidebandDataImp (sideband_rdma.cc) on the regions of RdmaRegions,   *)
(* alone and as WriteSidebandMessage and ReadSidebandMessage               *)
(* (sideband_grpc.h) use them.                                             *)
(*                                                                         *)
(* The two ends agree on a layout.  Without a prefix a message is written  *)
(* by Write and read by Read or by BeginDirectRead and FinishDirectRead;   *)
(* with one it is written by WriteLengthPrefixed or by BeginDirectWrite    *)
(* and FinishDirectWrite, which do the same to the regions, and read by    *)
(* ReadLengthPrefix and ReadFromLengthPrefixed or by                       *)
(* BeginDirectReadLengthPrefixed and FinishDirectRead.  Messages fit both  *)
(* the region and the caller's buffer.                                     *)
(***************************************************************************)
EXTENDS RdmaRegions

CONSTANTS MaxMessages, \* bound: how many messages are written
          MaxReads,    \* bound: how many reads are begun
          Breakable    \* whether the connection may break

ASSUME ChannelAssumption == /\ Regions \in Nat \ {0}
                            /\ MaxMessages \in Nat
                            /\ MaxReads \in Nat
                            /\ Breakable \in BOOLEAN

VARIABLES layout,      \* "raw" or "prefixed"
          written,     \* how many messages the writer has begun to write
          wpc,         \* where the writer is
          writeBuffer, \* _writeBuffer: the region acquired last, or 0
          rpc,         \* where the reader is
          call,        \* the call it reads by
          readBuffer,  \* _readBuffer: the region acquired for this read, or 0
          seen,        \* what it has loaded so far
          reads,       \* how many reads it has begun
          delivered,   \* the messages it was given
          failed,      \* whether it was refused a region
          kept         \* the regions ReadFromLengthPrefixed left acquired

regionVars == <<free, queued, outgoing, posted, received, incoming, up>>
writerVars == <<written, wpc, writeBuffer>>
readerVars == <<rpc, call, readBuffer, seen, reads, delivered, failed, kept>>
vars == <<layout, regionVars, writerVars, readerVars>>

ReadCalls == IF layout = "raw" THEN {"Read", "DirectRead"}
                               ELSE {"ReadLengthPrefixed", "DirectReadLengthPrefixed"}

Blank == 0

\* A message is loaded in two parts; the empty one has only a length.
Message(k) == <<k, k>>
Empty == <<>>

Init == /\ layout \in {"raw", "prefixed"}
        /\ RegionsInit(Blank)
        /\ written = 0
        /\ wpc = "idle"
        /\ writeBuffer = 0
        /\ rpc = "idle"
        /\ call = "none"
        /\ readBuffer = 0
        /\ seen = Blank
        /\ reads = 0
        /\ delivered = <<>>
        /\ failed = FALSE
        /\ kept = {}

-----------------------------------------------------------------------------
(* Write, WriteLengthPrefixed, BeginDirectWrite and FinishDirectWrite *)

BeginWrite == /\ wpc = "idle"
              /\ written < MaxMessages
              /\ written' = written + 1
              /\ wpc' = "acquiring"
              /\ UNCHANGED <<layout, regionVars, writeBuffer, readerVars>>

AcquireSendRegion == /\ wpc = "acquiring"
                     /\ \E r \in AllRegions : AcquireSend(r) /\ writeBuffer' = r
                     /\ wpc' = "filling"
                     /\ UNCHANGED <<layout, written, readerVars>>

\* Mutated form: the wait for a region has an end, with timeoutMs at least 0.
AcquireSendTimesOut == /\ wpc = "acquiring"
                       /\ ~up \/ free = {}
                       /\ wpc' = IF layout = "raw" THEN "idle"
                                  ELSE IF writeBuffer = 0 THEN "undefined" ELSE "filling"
                       /\ UNCHANGED <<layout, regionVars, written, writeBuffer, readerVars>>

\* Write returns false.  The other two do not look at the result and go on
\* with the region they had before; without one the pointer is not initialised.
AcquireSendFails == /\ wpc = "acquiring"
                    /\ ~up
                    /\ wpc' = IF layout = "raw" THEN "idle"
                               ELSE IF writeBuffer = 0 THEN "undefined" ELSE "filling"
                    /\ UNCHANGED <<layout, regionVars, written, writeBuffer, readerVars>>

Fill == /\ wpc = "filling"
        /\ FillSend(writeBuffer, written)
        /\ wpc' = "queueing"
        /\ UNCHANGED <<layout, written, writeBuffer, readerVars>>

QueueRegion == /\ wpc = "queueing"
               /\ QueueSend(writeBuffer)
               /\ wpc' = "idle"
               /\ UNCHANGED <<layout, written, writeBuffer, readerVars>>

-----------------------------------------------------------------------------
(* Read and the calls made of it *)

\* _readBuffer = {} is the first thing Read does.
BeginRead == /\ rpc = "idle"
             /\ reads < MaxReads
             /\ reads' = reads + 1
             /\ call' \in ReadCalls
             /\ readBuffer' = 0
             /\ rpc' = "acquiring"
             /\ UNCHANGED <<layout, regionVars, writerVars, seen, delivered, failed, kept>>

\* Mutated form: the region is released as soon as it is acquired.
AcquireAndRelease == /\ rpc = "acquiring"
                     /\ received # <<>>
                     /\ readBuffer' = Head(received)
                     /\ received' = Tail(received)
                     /\ posted' = posted \cup {Head(received)}
                     /\ rpc' = "loading"
                     /\ UNCHANGED <<layout, free, queued, outgoing, incoming, up, writerVars,
                                    call, seen, reads, delivered, failed, kept>>

AcquireReceivedRegion == /\ rpc = "acquiring"
                         /\ \E r \in AllRegions : AcquireReceived(r) /\ readBuffer' = r
                         /\ rpc' = "loading"
                         /\ UNCHANGED <<layout, writerVars, call, seen, reads, delivered, failed, kept>>

\* Mutated form: Read does not look at the result.
AcquireReceivedUnchecked == /\ rpc = "acquiring"
                            /\ ~up
                            /\ failed' = TRUE
                            /\ rpc' = "loading"
                            /\ UNCHANGED <<layout, regionVars, writerVars, call, readBuffer, seen, reads,
                                           delivered, kept>>

\* Read fails, and its caller gives up or is left with a length of 0.
AcquireReceivedFails == /\ rpc = "acquiring"
                        /\ ~up
                        /\ failed' = TRUE
                        /\ rpc' = IF layout = "raw" THEN "idle" ELSE "parsingNothing"
                        /\ UNCHANGED <<layout, regionVars, writerVars, call, readBuffer, seen, reads,
                                       delivered, kept>>

\* ReadSidebandMessage parses no bytes and returns the empty message.
ParseNothing == /\ rpc = "parsingNothing"
                /\ delivered' = Append(delivered, Empty)
                /\ rpc' = "idle"
                /\ UNCHANGED <<layout, regionVars, writerVars, call, readBuffer, seen, reads, failed, kept>>

LoadFirst == /\ rpc = "loading"
             /\ seen' = incoming[readBuffer]
             /\ rpc' = "loadingRest"
             /\ UNCHANGED <<layout, regionVars, writerVars, call, readBuffer, reads, delivered, failed, kept>>

\* ReadFromLengthPrefixed returns without releasing the region.
LoadRest == /\ rpc = "loadingRest"
            /\ delivered' = Append(delivered, <<seen, incoming[readBuffer]>>)
            /\ IF call = "ReadLengthPrefixed"
               THEN /\ kept' = kept \cup {readBuffer}
                    /\ rpc' = "idle"
               ELSE /\ rpc' = "releasing"
                    /\ UNCHANGED kept
            /\ UNCHANGED <<layout, regionVars, writerVars, call, readBuffer, seen, reads, failed>>

\* Mutated form: FinishDirectRead only returns true, as for shared memory.
ReleaseNothing == /\ rpc = "releasing"
                  /\ rpc' = "idle"
                  /\ UNCHANGED <<layout, regionVars, writerVars, call, readBuffer, seen, reads, delivered,
                                 failed, kept>>

\* The end of Read, or FinishDirectRead.
ReleaseRegion == /\ rpc = "releasing"
                 /\ Release(readBuffer)
                 /\ rpc' = "idle"
                 /\ UNCHANGED <<layout, writerVars, call, readBuffer, seen, reads, delivered, failed, kept>>

-----------------------------------------------------------------------------

Network == /\ Transmit \/ (Breakable /\ Disconnect)
           /\ UNCHANGED <<layout, writerVars, readerVars>>

Writer == BeginWrite \/ AcquireSendRegion \/ AcquireSendFails \/ Fill \/ QueueRegion

Reader == \/ BeginRead \/ AcquireReceivedRegion \/ AcquireReceivedFails \/ ParseNothing
          \/ LoadFirst \/ LoadRest \/ ReleaseRegion

Next == Writer \/ Network \/ Reader

\* A thread in a call goes on when it can, the reader reads again, and the
\* network moves what is queued to a posted region.  Nothing makes the writer
\* begin a message, and no error need be reported.
Fairness == /\ WF_vars(AcquireSendRegion) /\ WF_vars(Fill) /\ WF_vars(QueueRegion)
            /\ WF_vars(BeginRead) /\ WF_vars(AcquireReceivedRegion) /\ WF_vars(LoadFirst)
            /\ WF_vars(LoadRest) /\ WF_vars(ReleaseRegion)
            /\ WF_vars(Transmit /\ UNCHANGED <<layout, writerVars, readerVars>>)

Safety == Init /\ [][Next]_vars

Spec == Safety /\ Fairness

-----------------------------------------------------------------------------

InHand == IF rpc \in {"loading", "loadingRest", "releasing"} THEN {readBuffer} ELSE {}

\* Types of the variables; a region is there when it is loaded from.
TypeOK == /\ layout \in {"raw", "prefixed"}
          /\ free \subseteq AllRegions
          /\ queued \in Seq(AllRegions)
          /\ outgoing \in [AllRegions -> 0 .. MaxMessages]
          /\ posted \subseteq AllRegions
          /\ received \in Seq(AllRegions)
          /\ incoming \in [AllRegions -> 0 .. MaxMessages]
          /\ up \in BOOLEAN
          /\ written \in 0 .. MaxMessages
          /\ wpc \in {"idle", "acquiring", "filling", "queueing", "undefined"}
          /\ writeBuffer \in {0} \cup AllRegions
          /\ wpc \in {"filling", "queueing"} => writeBuffer # 0
          /\ rpc \in {"idle", "acquiring", "loading", "loadingRest", "releasing", "parsingNothing"}
          /\ call \in {"none", "Read", "DirectRead", "ReadLengthPrefixed", "DirectReadLengthPrefixed"}
          /\ readBuffer \in {0} \cup AllRegions
          /\ InHand \subseteq AllRegions
          /\ seen \in 0 .. MaxMessages
          /\ reads \in 0 .. MaxReads
          /\ delivered \in Seq({Empty} \cup (0 .. MaxMessages) \X (0 .. MaxMessages))
          /\ failed \in BOOLEAN
          /\ kept \subseteq AllRegions

\* A receive region is in one place: what a reader holds, or has kept, is not
\* the network's to write to, nor is it waiting to be acquired again.
ReceiveRegionsApart ==
    /\ \A r \in InHand \cup kept : r \notin posted /\ ~InSeq(r, received)
    /\ InHand \cap kept = {}
    /\ \A r \in posted : ~InSeq(r, received)
    /\ \A i, j \in DOMAIN received : received[i] = received[j] => i = j

\* A send region that was queued is not written to before it has been
\* transmitted, by a writer that goes on with its next message.
QueuedNotRewritten == \A r \in AllRegions : InSeq(r, queued) =>
                          /\ r \notin free
                          /\ wpc \in {"filling", "queueing"} => writeBuffer # r

Channel == INSTANCE MessageChannel
               WITH written <- [k \in 1 .. written |-> Message(k)], broken <- failed

\* By whichever calls they are written and read, messages arrive whole, once
\* and in order, until the reader is refused a region.
ImplementsMessageChannel == Channel!Spec

\* What is written arrives, unless the connection breaks or the two-call read
\* has kept every region: nobody else waits for a region that is not released.
EveryMessageArrives == \A n \in 1 .. MaxMessages :
    written = n ~> \/ Len(delivered) >= n
                   \/ ~up
                   \/ kept = AllRegions
=============================================================================
