----------------------------- MODULE RdmaRegions -----------------------------
(***************************************************************************)
(* One direction of an RDMA connection as sideband_rdma.cc uses it: the    *)
(* buffer regions of the two easyrdma sessions, which the library owns and *)
(* the code acquires, fills, queues and releases.  easyrdma is not in the  *)
(* repository; what is here is what the code relies on.  The operations    *)
(* are fragments that the modules of the users compose with their steps.   *)
(***************************************************************************)
EXTENDS Naturals, Sequences

CONSTANT Regions  \* easyrdma_ConfigureBuffers(..., 2) at each end

VARIABLES free,      \* the send regions that can be acquired
          queued,    \* those handed over and not yet transmitted, in order
          outgoing,  \* the contents of the send regions
          posted,    \* the receive regions the network may write to
          received,  \* those it has written and nobody acquired, in order
          incoming,  \* the contents of the receive regions
          up         \* whether the connection holds

AllRegions == 1 .. Regions

InSeq(r, q) == \E i \in DOMAIN q : q[i] = r

RegionsInit(blank) == /\ free = AllRegions
                      /\ queued = <<>>
                      /\ outgoing = [r \in AllRegions |-> blank]
                      /\ posted = AllRegions
                      /\ received = <<>>
                      /\ incoming = [r \in AllRegions |-> blank]
                      /\ up = TRUE

\* easyrdma_AcquireSendRegion succeeds with region r.
AcquireSend(r) == /\ up
                  /\ r \in free
                  /\ free' = free \ {r}
                  /\ UNCHANGED <<queued, outgoing, posted, received, incoming, up>>

\* The code writes to the region it holds, or held.
FillSend(r, content) == /\ outgoing' = [outgoing EXCEPT ![r] = content]
                        /\ UNCHANGED <<free, queued, posted, received, incoming, up>>

\* easyrdma_QueueBufferRegion; it fails when the connection is down.
QueueSend(r) == /\ queued' = IF up THEN Append(queued, r) ELSE queued
                /\ UNCHANGED <<free, outgoing, posted, received, incoming, up>>

\* The network moves a region's content to a region the other end has posted,
\* and the send region can be acquired again.
Transmit == /\ up
            /\ queued # <<>>
            /\ \E r \in posted : /\ incoming' = [incoming EXCEPT ![r] = outgoing[Head(queued)]]
                                 /\ posted' = posted \ {r}
                                 /\ received' = Append(received, r)
            /\ free' = free \cup {Head(queued)}
            /\ queued' = Tail(queued)
            /\ UNCHANGED <<outgoing, up>>

\* easyrdma_AcquireReceivedRegion succeeds with region r.
AcquireReceived(r) == /\ received # <<>>
                      /\ r = Head(received)
                      /\ received' = Tail(received)
                      /\ UNCHANGED <<free, queued, outgoing, posted, incoming, up>>

\* easyrdma_ReleaseReceivedBufferRegion: the region is posted again.
Release(r) == /\ posted' = posted \cup {r}
              /\ UNCHANGED <<free, queued, outgoing, received, incoming, up>>

\* The connection breaks, or an end closes its session.
Disconnect == /\ up
              /\ up' = FALSE
              /\ queued' = <<>>
              /\ UNCHANGED <<free, outgoing, posted, received, incoming>>
=============================================================================
