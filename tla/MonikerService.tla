--------------------------- MODULE MonikerService ---------------------------
(***************************************************************************)
(* One call of the data moniker service (moniker_service.cc): the read and *)
(* write loops of BeginSidebandStream, which runs over an RDMA sideband,   *)
(* and of StreamReadWrite, StreamRead and StreamWrite, which run over gRPC *)
(* streams, with the client at the other end.                              *)
(*                                                                         *)
(* A direction of either transport holds at most Room messages at each of  *)
(* its ends: the two regions of an easyrdma session (RdmaChannel shows     *)
(* that messages over them arrive whole and in order), or what the flow    *)
(* control of a gRPC stream lets through.  The client is not in the        *)
(* repository.  It sends one value for each write moniker, with at most    *)
(* Window requests unanswered, on the thread that reads the answers.       *)
(***************************************************************************)
EXTENDS Naturals, Sequences, SequencesExt

CONSTANTS Sources,     \* the data sources monikers name
          Endpoints,   \* those the program registers an endpoint for
          MaxReaders,  \* bound: how many read monikers a call has
          MaxWriters,  \* bound: how many write monikers a call has
          Room,        \* how many messages fit each end of a direction
          Window,      \* how many requests the client leaves unanswered
          MaxRequests, \* bound: how many requests the client sends
          MaxAnswers   \* bound: how many answers the client reads

NullEndpoint == "null"

ASSUME ServiceAssumption == /\ Endpoints \subseteq Sources
                            /\ NullEndpoint \notin Sources
                            /\ {MaxReaders, MaxWriters, MaxRequests, MaxAnswers} \subseteq Nat
                            /\ Room \in Nat \ {0}
                            /\ Window \in 1 .. 4 * Room + 1

VARIABLES endpoints,     \* _endpoints: the data sources with an endpoint
          call,          \* which of the four calls
          initialWrite,  \* is_initial_write
          readMonikers, writeMonikers,  \* the data sources of the moniker list
          pc,            \* where the call's thread is
          readers, writers,             \* the endpoints found for them
          request,       \* writeRequest
          x,             \* how many endpoints the present loop has called
          result,        \* readResult
          handed,        \* what the write endpoints were given, in order
          answered,      \* whether an answer was written yet
          link,          \* "up", "closed" by the server, or "broken"
          toServer, toClient,           \* the two directions
          cpc,           \* where the client is
          sent,          \* how many requests it has sent
          ending,        \* whether it has said that it is done, or cancelled
          got            \* the answers it has read

listVars == <<endpoints, call, initialWrite, readMonikers, writeMonikers>>
loopVars == <<readers, writers, request, x, result, handed, answered>>
clientVars == <<cpc, sent, ending, got>>
vars == <<listVars, pc, loopVars, link, toServer, toClient, clientVars>>

Calls == {"BeginSidebandStream", "StreamReadWrite", "StreamRead", "StreamWrite"}

Sideband == call = "BeginSidebandStream"

ListInStream == call \in {"StreamReadWrite", "StreamWrite"}

\* A message of values; the first one of a gRPC stream and the one parsed from
\* no bytes have none.  The id tells apart what has no value to tell it by.
NoRequest == [id |-> 0, values |-> <<>>, cancel |-> FALSE]
CancelRequest == [NoRequest EXCEPT !.cancel = TRUE]
Request(k) == [id |-> k, values |-> [i \in DOMAIN writeMonikers |-> <<k, i>>], cancel |-> FALSE]

Init == /\ endpoints = {}
        /\ call \in Calls
        /\ initialWrite \in IF call \in {"StreamRead", "StreamWrite"} THEN {FALSE} ELSE BOOLEAN
        /\ readMonikers \in BoundedSeq(Sources, MaxReaders)
        /\ writeMonikers \in BoundedSeq(Sources, MaxWriters)
        /\ pc = "starting"
        /\ readers = <<>>
        /\ writers = <<>>
        /\ request = NoRequest
        /\ x = 0
        /\ result = <<>>
        /\ handed = <<>>
        /\ answered = FALSE
        /\ link = "up"
        /\ toServer = [sending |-> <<>>,
                       arrived |-> IF ListInStream THEN <<NoRequest>> ELSE <<>>]
        /\ toClient = [sending |-> <<>>, arrived |-> <<>>]
        /\ cpc = "idle"
        /\ sent = 0
        /\ ending = "no"
        /\ got = <<>>

Cancelled == ending = "cancelled"

HasRoom(direction) == Len(direction.sending) < Room

-----------------------------------------------------------------------------
(* The start of a call *)

\* Nothing protects the map: it is left alone once the call looks in it.
RegisterMonikerEndpoint(source) ==
    /\ pc = "starting"
    /\ source \notin endpoints
    /\ endpoints' = endpoints \cup {source}
    /\ UNCHANGED <<call, initialWrite, readMonikers, writeMonikers, pc, loopVars, link, toServer, toClient,
                   clientVars>>

\* A source nobody registered gives a null pointer in the list.
InitiateMonikerList(monikers) ==
    [i \in DOMAIN monikers |-> IF monikers[i] \in endpoints THEN monikers[i] ELSE NullEndpoint]

\* Where the loop begins: with a request, with an answer, or with a look at
\* context->IsCancelled().
LoopHead == CASE Sideband                                     -> IF initialWrite THEN "reading" ELSE "sampling"
              [] call = "StreamWrite"                         -> "reading"
              [] call = "StreamReadWrite" /\ initialWrite     -> "reading"
              [] OTHER                                        -> "checking"

\* The list is the argument of the call, or in the first message of the stream.
Start == /\ pc = "starting"
         /\ IF ListInStream THEN toServer' = [toServer EXCEPT !.arrived = Tail(@)]
                            ELSE UNCHANGED toServer
         /\ readers' = InitiateMonikerList(readMonikers)
         /\ writers' = InitiateMonikerList(writeMonikers)
         /\ pc' = LoopHead
         /\ UNCHANGED <<listVars, request, x, result, handed, answered, link, toClient, clientVars>>

\* The stream is cancelled before its first message is read; the result of that
\* read is not looked at, and the lists are empty.
StartCancelled == /\ pc = "starting"
                  /\ ListInStream
                  /\ Cancelled
                  /\ pc' = IF call = "StreamWrite" THEN "reading" ELSE "checking"
                  /\ UNCHANGED <<listVars, loopVars, link, toServer, toClient, clientVars>>

-----------------------------------------------------------------------------
(* ReadSidebandMessage and stream->Read *)

\* BeginDirectReadLengthPrefixed and the parse: the region stays acquired.
ReadMessage == /\ pc = "reading"
               /\ Sideband
               /\ toServer.arrived # <<>>
               /\ request' = Head(toServer.arrived)
               /\ pc' = "finishing"
               /\ UNCHANGED <<listVars, readers, writers, x, result, handed, answered, link, toServer,
                              toClient, clientVars>>

\* Mutated form: only the result of the read is looked at.
FinishReadIgnoresCancel ==
    /\ pc = "finishing"
    /\ toServer' = [toServer EXCEPT !.arrived = Tail(@)]
    /\ x' = 0
    /\ pc' = "applying"
    /\ UNCHANGED <<listVars, readers, writers, request, result, handed, answered, link, toClient, clientVars>>

\* Mutated form: the region is kept until the answer has one to go to.
FinishReadWithRoom ==
    /\ pc = "finishing"
    /\ HasRoom(toClient)
    /\ toServer' = [toServer EXCEPT !.arrived = Tail(@)]
    /\ x' = 0
    /\ pc' = IF request.cancel THEN "closing" ELSE "applying"
    /\ UNCHANGED <<listVars, readers, writers, request, result, handed, answered, link, toClient, clientVars>>

\* FinishDirectRead, and what the loop makes of the message.
FinishRead == /\ pc = "finishing"
              /\ toServer' = [toServer EXCEPT !.arrived = Tail(@)]
              /\ x' = 0
              /\ pc' = IF request.cancel THEN "closing" ELSE "applying"
              /\ UNCHANGED <<listVars, readers, writers, request, result, handed, answered, link, toClient,
                             clientVars>>

\* The region is refused; no bytes are parsed, into a message without values
\* that does not cancel, and the read has succeeded.
ReadNothing == /\ pc = "reading"
               /\ Sideband
               /\ link = "broken"
               /\ request' = NoRequest
               /\ x' = 0
               /\ pc' = "applying"
               /\ UNCHANGED <<listVars, readers, writers, result, handed, answered, link, toServer, toClient,
                              clientVars>>

\* stream->Read(&writeRequest) && !context->IsCancelled()
ReadStream == /\ pc = "reading"
              /\ ~Sideband
              /\ \/ /\ toServer.arrived # <<>>
                    /\ request' = Head(toServer.arrived)
                    /\ toServer' = [toServer EXCEPT !.arrived = Tail(@)]
                    /\ pc' = IF Cancelled THEN "done" ELSE "applying"
                 \/ /\ Cancelled \/ (ending = "finished" /\ toServer.arrived \o toServer.sending = <<>>)
                    /\ pc' = "done"
                    /\ UNCHANGED <<request, toServer>>
              /\ x' = 0
              /\ UNCHANGED <<listVars, readers, writers, result, handed, answered, link, toClient, clientVars>>

-----------------------------------------------------------------------------
(* The loops over the endpoints *)

\* Where a loop goes when the writers have been called.  Only the sideband
\* loop asks whether there are readers.
AfterWriters == CASE call = "StreamWrite"                                  -> "reading"
                  [] call = "StreamReadWrite" /\ ~initialWrite             -> "checking"
                  [] Sideband /\ initialWrite /\ readers = <<>>            -> "reading"
                  [] OTHER                                                 -> "sampling"

\* Mutated form: every writer is given the first value.
CallWriterWithFirst ==
    /\ pc = "applying"
    /\ x < Len(writers)
    /\ IF writers[x + 1] = NullEndpoint \/ x >= Len(request.values)
       THEN /\ pc' = "undefined"
            /\ UNCHANGED <<x, handed>>
       ELSE /\ handed' = Append(handed, <<x + 1, request.values[1]>>)
            /\ x' = x + 1
            /\ UNCHANGED pc
    /\ UNCHANGED <<listVars, readers, writers, request, result, answered, link, toServer, toClient, clientVars>>

\* Mutated form: x is incremented before it is used.
CallWriterWithNext ==
    /\ pc = "applying"
    /\ x < Len(writers)
    /\ IF writers[x + 1] = NullEndpoint \/ x + 1 >= Len(request.values)
       THEN /\ pc' = "undefined"
            /\ UNCHANGED <<x, handed>>
       ELSE /\ handed' = Append(handed, <<x + 1, request.values[x + 2]>>)
            /\ x' = x + 1
            /\ UNCHANGED pc
    /\ UNCHANGED <<listVars, readers, writers, request, result, answered, link, toServer, toClient, clientVars>>

\* values(x++) does not check its index, nor does the call its pointer.
CallWriter == /\ pc = "applying"
              /\ x < Len(writers)
              /\ IF writers[x + 1] = NullEndpoint \/ x >= Len(request.values)
                 THEN /\ pc' = "undefined"
                      /\ UNCHANGED <<x, handed>>
                 ELSE /\ handed' = Append(handed, <<x + 1, request.values[x + 1]>>)
                      /\ x' = x + 1
                      /\ UNCHANGED pc
              /\ UNCHANGED <<listVars, readers, writers, request, result, answered, link, toServer, toClient,
                             clientVars>>

\* Mutated form: readResult is declared outside the loop, like writeRequest.
WritersCalledKeepsResult ==
    /\ pc = "applying"
    /\ x = Len(writers)
    /\ pc' = AfterWriters
    /\ x' = 0
    /\ UNCHANGED <<listVars, readers, writers, request, result, handed, answered, link, toServer, toClient,
                   clientVars>>

WritersCalled == /\ pc = "applying"
                 /\ x = Len(writers)
                 /\ pc' = AfterWriters
                 /\ x' = 0
                 /\ result' = <<>>
                 /\ UNCHANGED <<listVars, readers, writers, request, handed, answered, link, toServer,
                                toClient, clientVars>>

\* while (!context->IsCancelled())
CheckCancelled == /\ pc = "checking"
                  /\ pc' = IF Cancelled THEN "done" ELSE "sampling"
                  /\ x' = 0
                  /\ result' = <<>>
                  /\ UNCHANGED <<listVars, readers, writers, request, handed, answered, link, toServer,
                                 toClient, clientVars>>

\* An endpoint's value shows what the endpoints were given before; the request
\* it was read during is recorded with it.
Sample == [during |-> request.id, given |-> Len(handed)]

\* add_values() makes room for a value, mutable_values(x++) expects it there.
AddsValues == initialWrite \/ call = "StreamRead"

CallReader == /\ pc = "sampling"
              /\ x < Len(readers)
              /\ IF readers[x + 1] = NullEndpoint \/ ~AddsValues
                 THEN /\ pc' = "undefined"
                      /\ UNCHANGED <<x, result>>
                 ELSE /\ result' = Append(result, Sample)
                      /\ x' = x + 1
                      /\ UNCHANGED pc
              /\ UNCHANGED <<listVars, readers, writers, request, handed, answered, link, toServer, toClient,
                             clientVars>>

ReadersCalled == /\ pc = "sampling"
                 /\ x = Len(readers)
                 /\ pc' = "writing"
                 /\ UNCHANGED <<listVars, loopVars, link, toServer, toClient, clientVars>>

-----------------------------------------------------------------------------
(* WriteSidebandMessage, stream->Write and CloseSidebandData *)

\* WriteSidebandMessage returns the size of the message: an answer without
\* values counts as a failure.  stream->Write is not asked.
AfterWrite == CASE Sideband /\ result = <<>>                                     -> "closing"
                [] call = "StreamRead"                                           -> "checking"
                [] call = "StreamReadWrite" /\ ~initialWrite                     -> "applying"
                [] Sideband /\ ~initialWrite /\ result # <<>> /\ writers = <<>> -> "sampling"
                [] OTHER                                                         -> "reading"

\* Mutated form: the wait for a send region has an end, and is not looked at.
WriteAnswerAnyway == /\ pc = "writing"
                     /\ link = "up"
                     /\ toClient' = [toClient EXCEPT !.sending = Append(@, result)]
                     /\ answered' = TRUE
                     /\ x' = 0
                     /\ pc' = AfterWrite
                     /\ UNCHANGED <<listVars, readers, writers, request, result, handed, link, toServer,
                                    clientVars>>

WriteAnswer == /\ pc = "writing"
               /\ link = "up"
               /\ HasRoom(toClient)
               /\ toClient' = [toClient EXCEPT !.sending = Append(@, result)]
               /\ answered' = TRUE
               /\ x' = 0
               /\ pc' = AfterWrite
               /\ UNCHANGED <<listVars, readers, writers, request, result, handed, link, toServer, clientVars>>

\* The write fails and the loop goes on.  Over the sideband it has used the
\* region of the answer before; with none the pointer is not initialised.
WriteFails == /\ pc = "writing"
              /\ IF Sideband THEN link = "broken" ELSE Cancelled
              /\ x' = 0
              /\ pc' = IF Sideband /\ ~answered THEN "undefined" ELSE AfterWrite
              /\ UNCHANGED <<listVars, readers, writers, request, result, handed, answered, link, toServer,
                             toClient, clientVars>>

\* What was queued and not yet transmitted is lost.
Close == /\ pc = "closing"
         /\ link' = IF link = "up" THEN "closed" ELSE link
         /\ toServer' = [toServer EXCEPT !.sending = <<>>]
         /\ toClient' = [toClient EXCEPT !.sending = <<>>]
         /\ pc' = "done"
         /\ UNCHANGED <<listVars, loopVars, clientVars>>

-----------------------------------------------------------------------------
(* The transports *)

Moved(direction) == [sending |-> Tail(direction.sending),
                     arrived |-> Append(direction.arrived, Head(direction.sending))]

CanMove(direction) == direction.sending # <<>> /\ Len(direction.arrived) < Room

TransmitToServer == /\ link = "up"
                    /\ CanMove(toServer)
                    /\ toServer' = Moved(toServer)
                    /\ UNCHANGED <<listVars, pc, loopVars, link, toClient, clientVars>>

TransmitToClient == /\ link = "up"
                    /\ CanMove(toClient)
                    /\ toClient' = Moved(toClient)
                    /\ UNCHANGED <<listVars, pc, loopVars, link, toServer, clientVars>>

\* The client ends or loses the sideband without a word.  A gRPC call whose
\* client is gone is cancelled.
Break == /\ Sideband
         /\ link = "up"
         /\ pc # "starting"
         /\ link' = "broken"
         /\ toServer' = [toServer EXCEPT !.sending = <<>>]
         /\ toClient' = [toClient EXCEPT !.sending = <<>>]
         /\ UNCHANGED <<listVars, pc, loopVars, clientVars>>

-----------------------------------------------------------------------------
(* The client *)

\* Whether the call writes an answer to every request.
Answers == \/ call = "StreamReadWrite"
           \/ Sideband /\ readMonikers # <<>>

Alive == link = "up" /\ ~Cancelled

\* The message to send is within the window; a cancel counts like a request.
InWindow == Answers => sent - Len(got) < Window

BeginRequest == /\ call # "StreamRead"
                /\ Alive
                /\ ending = "no"
                /\ cpc = "idle"
                /\ sent < MaxRequests
                /\ InWindow
                /\ sent' = sent + 1
                /\ cpc' = "sending"
                /\ UNCHANGED <<listVars, pc, loopVars, link, toServer, toClient, ending, got>>

\* The thread is in WriteSidebandMessage, or stream->Write, until there is room.
SendRequest == /\ cpc = "sending"
               /\ link = "up"
               /\ HasRoom(toServer)
               /\ toServer' = [toServer EXCEPT !.sending = Append(@, Request(sent))]
               /\ cpc' = "idle"
               /\ UNCHANGED <<listVars, pc, loopVars, link, toClient, sent, ending, got>>

\* The sideband is cancelled by a message, in its turn.
BeginCancel == /\ Sideband
               /\ Alive
               /\ cpc = "idle"
               /\ InWindow
               /\ cpc' = "cancelling"
               /\ UNCHANGED <<listVars, pc, loopVars, link, toServer, toClient, sent, ending, got>>

SendCancel == /\ cpc = "cancelling"
              /\ link = "up"
              /\ HasRoom(toServer)
              /\ toServer' = [toServer EXCEPT !.sending = Append(@, CancelRequest)]
              /\ ending' = "cancelled"
              /\ cpc' = "idle"
              /\ UNCHANGED <<listVars, pc, loopVars, link, toClient, sent, got>>

\* A stream is cancelled at any time, or finished by WritesDone.
CancelStream == /\ ~Sideband
                /\ Alive
                /\ pc # "done"
                /\ ending' = "cancelled"
                /\ UNCHANGED <<listVars, pc, loopVars, link, toServer, toClient, cpc, sent, got>>

FinishStream == /\ ListInStream
                /\ ending = "no"
                /\ cpc = "idle"
                /\ pc # "done"
                /\ ending' = "finished"
                /\ UNCHANGED <<listVars, pc, loopVars, link, toServer, toClient, cpc, sent, got>>

ReadAnswer == /\ cpc = "idle"
              /\ Sideband \/ ~Cancelled
              /\ toClient.arrived # <<>>
              /\ Len(got) < MaxAnswers
              /\ got' = Append(got, Head(toClient.arrived))
              /\ toClient' = [toClient EXCEPT !.arrived = Tail(@)]
              /\ UNCHANGED <<listVars, pc, loopVars, link, toServer, cpc, sent, ending>>

-----------------------------------------------------------------------------

Server == \/ Start \/ StartCancelled \/ ReadMessage \/ FinishRead \/ ReadStream \/ CallWriter \/ WritersCalled
          \/ CheckCancelled \/ CallReader \/ ReadersCalled \/ WriteAnswer \/ Close

Failure == ReadNothing \/ WriteFails \/ Break

Client == \/ BeginRequest \/ SendRequest \/ BeginCancel \/ SendCancel \/ CancelStream \/ FinishStream
          \/ ReadAnswer

Next == \/ \E source \in Endpoints : RegisterMonikerEndpoint(source)
        \/ Server \/ Failure \/ TransmitToServer \/ TransmitToClient \/ Client

\* The call's thread goes on when it can, gRPC fails a write of a cancelled
\* call, the transports move what they can, and the client finishes what it
\* has begun to send and reads its answers.  Nobody need send, cancel or fail,
\* and the sideband need not report an error.
Fairness == /\ WF_vars(Server)
            /\ WF_vars(WriteFails /\ ~Sideband)
            /\ WF_vars(TransmitToServer)
            /\ WF_vars(TransmitToClient)
            /\ WF_vars(SendRequest)
            /\ WF_vars(SendCancel)
            /\ WF_vars(ReadAnswer)

Safety == Init /\ [][Next]_vars

Spec == Safety /\ Fairness

-----------------------------------------------------------------------------

Messages == {NoRequest, CancelRequest} \cup {Request(k) : k \in 1 .. MaxRequests}

Samples == [during : 0 .. MaxRequests, given : Nat]

Direction(messages) == [sending : Seq(messages), arrived : Seq(messages)]

\* Types of the variables; neither end of a direction holds more than it has
\* room for, and a message is there when it is taken.
TypeOK == /\ endpoints \subseteq Endpoints
          /\ call \in Calls
          /\ initialWrite \in BOOLEAN
          /\ readMonikers \in Seq(Sources) /\ Len(readMonikers) <= MaxReaders
          /\ writeMonikers \in Seq(Sources) /\ Len(writeMonikers) <= MaxWriters
          /\ pc \in {"starting", "reading", "finishing", "applying", "checking", "sampling", "writing",
                     "closing", "done", "undefined"}
          /\ readers \in Seq(Endpoints \cup {NullEndpoint})
          /\ writers \in Seq(Endpoints \cup {NullEndpoint})
          /\ request \in Messages
          /\ x \in Nat
          /\ result \in Seq(Samples)
          /\ handed \in Seq((1 .. MaxWriters) \X ((1 .. MaxRequests) \X (1 .. MaxWriters)))
          /\ answered \in BOOLEAN
          /\ link \in {"up", "closed", "broken"}
          /\ toServer \in Direction(Messages)
          /\ toClient \in Direction(Seq(Samples))
          /\ Len(toServer.sending) <= Room /\ Len(toServer.arrived) <= Room
          /\ Len(toClient.sending) <= Room /\ Len(toClient.arrived) <= Room
          /\ pc = "finishing" \/ (pc = "starting" /\ ListInStream) => toServer.arrived # <<>>
          /\ cpc \in {"idle", "sending", "cancelling"}
          /\ sent \in 0 .. MaxRequests
          /\ cpc = "sending" => sent > 0
          /\ ending \in {"no", "finished", "cancelled"}
          /\ got \in Seq(Seq(Samples))

\* The calls the loops are written for: every moniker names a registered endpoint, and
\* a call that writes and reads begins with the client's write.
WellFormed == /\ Range(readMonikers) \cup Range(writeMonikers) \subseteq endpoints
              /\ initialWrite \/ call \in {"StreamRead", "StreamWrite"}

\* Such a call reaches no null endpoint, no value past the end of a message
\* and no region it never acquired, unless its sideband breaks.
NothingUndefined == pc = "undefined" => ~WellFormed \/ link = "broken"

\* Every write endpoint is given its own value of every request, once, in the
\* order of the requests and of the monikers; also by a call that is cancelled
\* half way, or whose sideband breaks.
HandedInOrder == LET w == Len(writeMonikers) IN
    \A j \in DOMAIN handed : LET i == ((j - 1) % w) + 1
                                 k == ((j - 1) \div w) + 1 IN handed[j] = <<i, <<k, i>>>>

\* However many requests are under way, the n-th answer the client reads is to
\* its n-th request: one value for each read moniker, read after the endpoints
\* were given all of that request and nothing of the next.
AnswerForItsRequest == WellFormed /\ call # "StreamRead" =>
    \A n \in DOMAIN got :
        got[n] = [r \in DOMAIN readMonikers |-> [during |-> n, given |-> n * Len(writeMonikers)]]

\* A request that is sent is answered, or where nothing is to be answered its
\* values are handed over, unless the client cancels or the sideband breaks.
\* Up to the window, client and server never both wait for room.
EveryRequestServed == \A n \in 1 .. MaxRequests :
    sent >= n /\ WellFormed ~> \/ IF Answers THEN Len(got) >= n
                                             ELSE Len(handed) >= n * Len(writeMonikers)
                               \/ ~Alive

\* A call that the client ends comes to its end, and a sideband is closed.
EndedCallEnds == (ending # "no" /\ WellFormed) ~> \/ pc = "done"
                                                  \/ link = "broken"
=============================================================================
