----------------------------- MODULE SocketStream -----------------------------
(***************************************************************************)
(* Messages over an established socket sideband: WriteSidebandMessage and  *)
(* ReadSidebandMessage (sideband_grpc.h) over the length-prefixed calls,   *)
(* the send and recv loops of SocketSidebandData (sideband_sockets.cc) and *)
(* the serialize buffer of SidebandData (sideband_data.cc).                *)
(*                                                                         *)
(* One direction of the connection: one endpoint writes, the other reads.  *)
(* A byte is named by the frame it belongs to and its place there, so that *)
(* a byte in the wrong place is seen; the digits of a length prefix are    *)
(* computed, least significant first, because a reader may act on a prefix *)
(* it has in part.                                                         *)
(***************************************************************************)
EXTENDS Integers, Sequences

CONSTANTS PrefixSize,   \* bytes of a length prefix (8 in the code)
          Base,         \* values of a byte (256)
          Sizes,        \* bound: the sizes of the messages written
          MaxMessages,  \* bound: how many are written
          MaxReads,     \* bound: how many the reader returns, phantoms included
          Capacity,     \* bytes the connection holds before send blocks
          Resettable,   \* whether the connection may break
          NonBlocking   \* whether send fails rather than blocks (FIONBIO, set
                        \* for low latency on Windows)

\* Base^n, the weight of a digit.
Weight[n \in Nat] == IF n = 0 THEN 1 ELSE Base * Weight[n - 1]

ASSUME StreamAssumption ==
    /\ PrefixSize \in Nat \ {0}
    /\ Base \in Nat \ {0, 1}
    /\ Sizes \subseteq 0 .. Weight[PrefixSize] - 1
    /\ MaxMessages \in Nat
    /\ MaxReads \in Nat
    /\ Capacity \in Nat \ {0}
    /\ Resettable \in BOOLEAN
    /\ NonBlocking \in BOOLEAN

VARIABLES written,    \* the sizes of the messages written so far
          wpc,        \* the writer: between messages, in WriteToSocket of a part, or closed
          unsent,     \* its remainingBytes
          wire,       \* the bytes sent and not received
          reset,      \* whether the connection broke
          rpc,        \* the reader: before or in ReadFromSocket of a part, or parsing
          awaited,    \* its remainingBytes
          prefix,     \* the bytes of the prefix it has
          length,     \* what ReadLengthPrefix returned
          buffer,     \* its _serializeBuffer
          failed,     \* whether recv reported an error to it
          delivered   \* the contents ReadSidebandMessage returned with success

writerVars == <<written, wpc, unsent>>
readerVars == <<rpc, awaited, prefix, length, buffer, failed, delivered>>
vars == <<writerVars, wire, reset, readerVars>>

MaxLength == Weight[PrefixSize] - 1

\* Byte i of frame k; those up to PrefixSize are its prefix.
Byte == (1 .. MaxMessages) \X (1 .. PrefixSize + MaxLength)

Blank == <<0, 0>>  \* what std::vector fills a new buffer with

Payload(k) == [i \in 1 .. written[k] |-> <<k, PrefixSize + i>>]

\* The values byte b can have: those of a payload are any.
Digits(b) == IF b[2] <= PrefixSize THEN {(written[b[1]] \div Weight[b[2] - 1]) % Base}
                                   ELSE 0 .. Base - 1

\* The integers that some first bytes, over an int64_t set to zero, can make.
Lengths(bytes) == {l \in 0 .. MaxLength : \A i \in 1 .. PrefixSize :
                       (l \div Weight[i - 1]) % Base \in IF i <= Len(bytes) THEN Digits(bytes[i]) ELSE {0}}

Init == /\ written = <<>>
        /\ wpc = "idle"
        /\ unsent = 0
        /\ wire = <<>>
        /\ reset = FALSE
        /\ rpc = "idle"
        /\ awaited = 0
        /\ prefix = <<>>
        /\ length = 0
        /\ buffer = [i \in 1 .. MaxLength |-> Blank]
        /\ failed = FALSE
        /\ delivered = <<>>

-----------------------------------------------------------------------------
(* WriteSidebandMessage, WriteLengthPrefixed, WriteToSocket *)

BeginWrite == /\ wpc = "idle"
              /\ Len(written) < MaxMessages
              /\ \E size \in Sizes : written' = Append(written, size)
              /\ wpc' = "prefix"
              /\ unsent' = PrefixSize
              /\ UNCHANGED <<wire, reset, readerVars>>

FrameSize == PrefixSize + written[Len(written)]

\* The place in its frame of the last byte the writer sent.
SentUpTo == IF wpc = "prefix" THEN PrefixSize - unsent ELSE FrameSize - unsent

\* send() takes the next n bytes.
Transmit(n) == /\ wpc \in {"prefix", "payload"}
               /\ ~reset
               /\ n <= Capacity - Len(wire)
               /\ wire' = wire \o [i \in 1 .. n |-> <<Len(written), SentUpTo + i>>]
               /\ UNCHANGED <<written, wpc, reset, readerVars>>

\* Mutated form: a send that takes part of the bytes is not repeated.
SendOnce == \E n \in 1 .. unsent : Transmit(n) /\ unsent' = 0

Send == \E n \in 1 .. unsent : Transmit(n) /\ unsent' = unsent - n

PrefixSent == /\ wpc = "prefix"
              /\ unsent = 0
              /\ wpc' = "payload"
              /\ unsent' = written[Len(written)]
              /\ UNCHANGED <<written, wire, reset, readerVars>>

FrameSent == /\ wpc = "payload"
             /\ unsent = 0
             /\ wpc' = "idle"
             /\ UNCHANGED <<written, unsent, wire, reset, readerVars>>

\* send() < 0: WriteLengthPrefixed gives the frame up, and WriteSidebandMessage
\* returns the size all the same.
SendFails == /\ wpc \in {"prefix", "payload"}
             /\ unsent > 0
             /\ reset \/ (NonBlocking /\ Len(wire) = Capacity)
             /\ wpc' = "idle"
             /\ unsent' = 0
             /\ UNCHANGED <<written, wire, reset, readerVars>>

\* CloseSidebandData: the stream ends after what was sent.
Close == /\ wpc = "idle"
         /\ wpc' = "closed"
         /\ UNCHANGED <<written, unsent, wire, reset, readerVars>>

-----------------------------------------------------------------------------
(* The connection *)

\* The connection breaks; what has not reached the reader's host is lost.
Reset == /\ Resettable
         /\ ~reset
         /\ reset' = TRUE
         /\ \E n \in 0 .. Len(wire) : wire' = SubSeq(wire, 1, n)
         /\ UNCHANGED <<writerVars, readerVars>>

-----------------------------------------------------------------------------
(* ReadSidebandMessage, ReadLengthPrefix, ReadFromLengthPrefixed, ReadFromSocket *)

BeginRead == /\ rpc = "idle"
             /\ Len(delivered) < MaxReads
             /\ rpc' = "prefix"
             /\ awaited' = PrefixSize
             /\ prefix' = <<>>
             /\ UNCHANGED <<writerVars, wire, reset, length, buffer, failed, delivered>>

\* Mutated form: `start` is not advanced between two calls of recv.
FilledAtStart(start, n) == [i \in 1 .. MaxLength |-> IF i <= n THEN wire[i] ELSE buffer[i]]

\* Where ReadFromSocket's `start` puts the next n bytes of the payload.
Filled(start, n) == [i \in 1 .. MaxLength |->
                        IF i \in start + 1 .. start + n THEN wire[i - start] ELSE buffer[i]]

Take(n) == /\ wire' = SubSeq(wire, n + 1, Len(wire))
           /\ awaited' = awaited - n
           /\ \/ /\ rpc = "prefix"
                 /\ prefix' = prefix \o SubSeq(wire, 1, n)
                 /\ UNCHANGED buffer
              \/ /\ rpc = "payload"
                 /\ buffer' = Filled(length - awaited, n)
                 /\ UNCHANGED prefix
           /\ UNCHANGED <<writerVars, reset, rpc, length, failed, delivered>>

\* Mutated form: recv is asked for more than the rest of this part.
ReceiveMore == \E n \in 1 .. Len(wire) : Take(n)

\* recv() returns n bytes.  At the end of the stream it returns none, and
\* the loop goes round without a change, forever.
Receive == \E n \in 1 .. awaited : n <= Len(wire) /\ Take(n)

\* Mutated form: the prefix is used before it is complete.
PrefixReadEarly == /\ rpc = "prefix"
                   /\ prefix # <<>>
                   /\ length' \in Lengths(prefix)
                   /\ awaited' = length'
                   /\ rpc' = "payload"
                   /\ UNCHANGED <<writerVars, wire, reset, prefix, buffer, failed, delivered>>

PrefixRead == /\ rpc = "prefix"
              /\ awaited = 0
              /\ length' \in Lengths(prefix)
              /\ awaited' = length'
              /\ rpc' = "payload"
              /\ UNCHANGED <<writerVars, wire, reset, prefix, buffer, failed, delivered>>

\* recv() < 0: the loop ends and no caller looks at the result.
ReceiveFails == /\ rpc \in {"prefix", "payload"}
                /\ awaited > 0
                /\ reset /\ wire = <<>>
                /\ failed' = TRUE
                /\ \/ /\ rpc = "prefix"
                      /\ length' \in Lengths(prefix)
                      /\ awaited' = length'
                      /\ rpc' = "payload"
                   \/ /\ rpc = "payload"
                      /\ awaited' = 0
                      /\ UNCHANGED <<rpc, length>>
                /\ UNCHANGED <<writerVars, wire, reset, prefix, buffer, delivered>>

\* What ParseFromArray is given.
Content == SubSeq(buffer, 1, length)

\* The array is a serialized message; the empty array is one.
WellFormed == Content = <<>> \/ \E k \in 1 .. Len(written) : Content = Payload(k)

\* ParseFromArray returns true; it may do so on bytes nobody wrote together.
Parse == /\ rpc = "payload"
         /\ awaited = 0
         /\ delivered' = Append(delivered, Content)
         /\ rpc' = "idle"
         /\ UNCHANGED <<writerVars, wire, reset, awaited, prefix, length, buffer, failed>>

\* It returns false, and assert(success) ends the process.
ParseAborts == /\ rpc = "payload"
               /\ awaited = 0
               /\ ~WellFormed
               /\ rpc' = "aborted"
               /\ UNCHANGED <<writerVars, wire, reset, awaited, prefix, length, buffer, failed, delivered>>

-----------------------------------------------------------------------------

Writer == BeginWrite \/ Send \/ PrefixSent \/ FrameSent \/ SendFails \/ Close

Reader == BeginRead \/ Receive \/ PrefixRead \/ ReceiveFails \/ Parse \/ ParseAborts

Next == Writer \/ Reset \/ Reader

\* send and recv return when they can, and the threads that called them go on;
\* nothing makes the writer write another message or close.  Whether recv goes
\* on reporting an error, or an end, after a reset differs between systems.
Fairness == /\ WF_vars(Send) /\ WF_vars(PrefixSent) /\ WF_vars(FrameSent)
            /\ WF_vars(BeginRead) /\ WF_vars(Receive) /\ WF_vars(PrefixRead) /\ WF_vars(Parse)

Safety == Init /\ [][Next]_vars

Spec == Safety /\ Fairness

-----------------------------------------------------------------------------

\* Types of the variables; a loop that takes more than it was asked for leaves
\* a negative remainingBytes.
TypeOK == /\ written \in Seq(Sizes)
          /\ Len(written) <= MaxMessages
          /\ wpc \in {"idle", "prefix", "payload", "closed"}
          /\ unsent \in 0 .. PrefixSize + MaxLength
          /\ wire \in Seq(Byte)
          /\ reset \in BOOLEAN
          /\ rpc \in {"idle", "prefix", "payload", "aborted"}
          /\ awaited \in 0 .. PrefixSize + MaxLength
          /\ prefix \in Seq(Byte)
          /\ length \in 0 .. MaxLength
          /\ buffer \in [1 .. MaxLength -> Byte \cup {Blank}]
          /\ failed \in BOOLEAN
          /\ delivered \in Seq(Seq(Byte \cup {Blank}))

\* While no error was reported, a reader between two frames finds the first
\* byte of a frame next: no frame is read short or beyond its end.
FrameAligned == ~failed /\ wire # <<>> =>
    /\ rpc = "idle" => wire[1][2] = 1
    /\ rpc = "prefix" /\ awaited > 0 => wire[1][2] = Len(prefix) + 1
    /\ rpc = "payload" /\ awaited = 0 => wire[1][2] = 1

\* assert(success) in ReadSidebandMessage (sideband_grpc.h:51).
ParseSucceeds == rpc # "aborted"

Channel == INSTANCE MessageChannel
               WITH written <- [k \in DOMAIN written |-> Payload(k)], broken <- failed

\* However send and recv cut the bytes, messages of any sizes arrive whole,
\* once and in order; the end of the stream is never taken for a message; and
\* only after recv reported an error can anything else be returned.
ImplementsMessageChannel == Channel!Spec

\* What was written arrives, unless the connection breaks: writer and reader
\* never wait for each other with bytes to move.
EveryMessageArrives ==
    \A n \in 1 .. MaxMessages : Len(written) = n ~> Len(delivered) >= n \/ reset
=============================================================================
