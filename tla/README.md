# TLA+ specifications of grpc-sideband

grpc-sideband gives a gRPC service a second, faster channel beside its gRPC
connection. The gRPC handler offers a session, the client connects to it, and
from then on one thread of the server and the client exchange messages over
sockets, RDMA or shared memory. These modules specify how a session gets its
channel and what the channel carries, check it with TLC on small instances and
prove with TLAPS the safety properties they check, for any number of sessions,
threads and messages.

Paths below are relative to the repository's `src/` directory of the library,
unless they say otherwise.

## The system

| Component | State | Operations | Interacts with |
|---|---|---|---|
| Registry and C API, `sideband_data.cc` | `_buffers` (usage id to object), its mutex and condition variable, `_nextId` | Init{Owner,Client}SidebandData, QueueSidebandConnection, GetOwnerSidebandDataToken, RegisterSidebandData, CloseSidebandData, and forwarders that cast a token to an object | every other component; a token is the object's address |
| Semaphore, `sideband_semaphore.h` | a count, a mutex, a condition variable | wait, notify | one each for socket and RDMA set-up |
| Socket set-up, `sideband_sockets.cc` | the semaphore `_connectQueue` and the static parameters of the next connection | QueueSidebandConnection, ClientInit, RunSidebandSocketsAccept, InitFromConnection | the handler takes the semaphore's unit, the accept loop gives it back; registers in the registry |
| Socket stream, `sideband_sockets.cc` | a socket | Write, Read, WriteLengthPrefixed, ReadLengthPrefix, ReadFromLengthPrefixed | loops of send and recv |
| gRPC helpers, `sideband_grpc.h` | the object's serialize buffer | WriteSidebandMessage, ReadSidebandMessage | a direct path (RDMA, shared memory) or a path over the serialize buffer (sockets) |
| RDMA set-up, `sideband_rdma.cc` | a semaphore, the static parameters, two static pending connections | QueueSidebandConnection, ClientInit, AcceptSidebandRdma{Send,Receive}Requests, InitFromConnection | two accept threads share the statics; registers in the registry |
| RDMA channel, `sideband_rdma.cc` | two sessions, the send and receive regions in hand | prefixed, unprefixed and direct reads and writes | the external library easyrdma |
| Shared memory, `sideband_shared_memory.cc` | a mapped region, by a name all sessions share | the same calls; the region is mapped on first use and unlinked by destruction | the kernel's shared memory names |
| Double-buffered shared memory, the same file | two of the above and which is current | the same calls, each exchanging the two | as above |
| Moniker service, `../moniker_src/moniker_service.cc` | the map of endpoints; a detached thread per session | BeginSidebandStream with RunSidebandReadWriteLoop, StreamReadWrite, StreamRead, StreamWrite | InitOwner, Queue, GetOwnerToken, messages, Close; gRPC streams |
| Connection address, `GetConnectionAddress` | the address and port given to the socket listener | a choice by strategy | BeginSidebandStream puts it in its response |

What is hard here: nothing but a semaphore taken in one thread and released in
another ties a session's parameters to the connection that arrives for it, and
a connection is accepted before the server knows whose it is; the registry
hands out raw pointers and is waited on with a condition variable; the two RDMA
accept threads meet in unprotected statics; the stream calls cut messages
anywhere and several results of reads are not looked at; an RDMA region is used
between two calls and there are only two of them; all shared memory sessions
have one name, which each end opens and frees when it likes, and nothing tells
a reader that a region is being written; clients fail while everybody else
waits. `PROJECT.json` lists each of these at its line.

What makes each part correct:

* Semaphore: it is a counting semaphore; no wakeup is lost.
* Registry: a thread waiting for an id gets it; an id is registered once; an
  object in use is not deleted.
* Set-up: sessions are offered one at a time; a session's thread gets the
  connection its own client made, with its own parameters; a client that fails
  does not hand its unit to two sessions, and one that behaves is served.
* Stream and channels: messages arrive whole, once and in order; an error is
  not taken for a message; no end waits for a region nobody will release.
* Shared memory: the two ends of a session use one region, and it is not read
  while it is written.
* Moniker service: endpoints get every value once and in order; the n-th answer
  is to the n-th request; a call that its client ends comes to its end.

## The modules

| Module | What it is |
|---|---|
| `CountingSemaphore` | abstract: what a semaphore promises |
| `Semaphore` | the class, one action per locked region and wait; implements `CountingSemaphore` |
| `SemaphoreProofs` | its theorems |
| `SidebandRegistry` | the operations on `_buffers` and the threads blocked on it, as action fragments that the set-up modules compose with their threads |
| `SessionPairing` | abstract: sessions are offered one at a time and each is served over its own client's connection |
| `SocketRendezvous` | handlers, clients, accept loop and serving threads of SOCKETS sessions over `SidebandRegistry`; implements `SessionPairing` |
| `SocketRendezvousProofs` | its theorems |
| `RdmaRendezvous` | the same for RDMA, with two connections and two accept threads; implements `SessionPairing` under a proviso |
| `RdmaRendezvousProofs` | its theorems, under the proviso |
| `MessageChannel` | abstract: messages whole, once and in order until an error is reported |
| `SocketStream` | WriteSidebandMessage and ReadSidebandMessage over partial send and recv; implements `MessageChannel` |
| `SocketStreamProofs` | its theorems, on blocking sockets |
| `RdmaRegions` | one direction of an RDMA connection: the buffer regions of easyrdma, as action fragments |
| `RdmaChannel` | the calls of RdmaSidebandDataImp over `RdmaRegions`; implements `MessageChannel` |
| `RdmaChannelProofs` | its theorems |
| `SharedMemory` | shared memory sessions, single and double-buffered, from Init to Close, over `SidebandRegistry` |
| `SharedMemoryProofs` | its theorems, where sessions do not overlap |
| `MonikerService` | the loops of the four streaming calls, with a client, over transports with limited room |
| `MonikerServiceProofs` | its theorems |
| `MCSocketRendezvous`, `MCRdmaRendezvous` | sessions with distinct parameters for TLC |

### How state and actions correspond to the code

`Semaphore`. `mtx`, `count` and the wait set are the members; `pc` is the line
a thread is at. The unlock of the `unique_lock` is part of the last statement
under it. A sleeper may wake without a notification.

`SidebandRegistry`. `buffers` is `_buffers`, `sleepers` the threads in
`_bufferLock.wait`. Each operation runs under `_bufferLockMutex` from beginning
to end, so it is one step. An insertion leaves an entry that is there as it is,
like `std::map::emplace`; that is the library built without assertions, and
the assertions are invariants (`NewIdUnregistered`, `ServedObjectLive`).

`SocketRendezvous`. `gate` is the count of `_connectQueue`, of which the module
uses what `CountingSemaphore` promises. `nextConnect` is the three statics;
filling it and reading it are steps of their own although no mutex makes them
so, and `FieldsNotRaced` shows that they never overlap. `handler`, `acceptor`
and `loop` are the lines of BeginSidebandStream, RunSidebandSocketsAccept with
InitFromConnection, and the session's thread. `wire` is the client's connection
as the server can observe it. An id is the number that NextConnectionId
formats; a read of the id that fails part-way leaves other bytes, which are a
member of `GarbageIds`. At an orderly end of the stream recv returns 0 for
ever and the loop in ReadFromSocket does not end: the accept loop has no step
then. The read and write loop between GetOwnerSidebandDataToken and
CloseSidebandData is a single state here.

`RdmaRendezvous`. `pending` is `_pendingWriteSession` and
`_pendingReadSession`. Storing a connection, testing both and building the
object from both are separate steps of each accept thread. The client is told
the port GetConnectionAddress gives, which is the socket listener's also for
RDMA (the second assignment lacks an `else`, `sideband_data.cc:333-337`): the
constant `SocketsPort`. Unless it is 50060, where the RDMA listener is, no RDMA
client connects. `Prompt` is described under Bounds.

`SocketStream`. `wire` is the bytes in transit, each named by its frame and
place, so a byte out of place is seen. `unsent` and `awaited` are the
`remainingBytes` of the two loops, `buffer` the reader's serialize buffer,
which keeps what earlier messages left there. A failed recv leaves the prefix
or the payload as far as it got, and the caller goes on. ParseFromArray is
external: it succeeds on a serialized message, and may succeed or fail on bytes
nobody wrote together.

`RdmaRegions`. A send region is free, held by the writer or `queued`; a receive
region is `posted` for the network, `received`, or held by the reader. easyrdma
is not in the repository; the fragments are what its calls are relied on for.
Transmission is a step of its own: until it is taken the content of a queued
region can still be changed, and does change what arrives.

`RdmaChannel`. `writeBuffer` and `readBuffer` are the members of those names,
which outlive a call. Begin and Finish of a direct call are separate steps and
the use of the region lies between them, in two loads. Waits have no end, as
`timeoutMs` is -1 (`sideband_rdma.cc:19`), so a region is refused only when the
connection is down: Write then returns false, and WriteLengthPrefixed and
BeginDirectWrite go on with the region they had (`AcquireSendFails`). A refused
prefixed read leaves a length of 0 and its caller parses an empty message
(`ParseNothing`). `kept` is what ReadFromLengthPrefixed never releases.

`SharedMemory`. `regions` are the objects of the kernel, `linked` what a name
stands for, `window` what an object has mapped (`_buffer`), `current` is
`_current`. `Stores` and `Expected` give the order and the place of each call's
stores and loads in the first eight bytes and the rest; `Fits` computes from
them which calls understand each other. Write with Read does, for both kinds,
and WriteLengthPrefixed with the length-prefixed reads for the single buffer;
neither kind fits the calls that WriteSidebandMessage and ReadSidebandMessage
make, since BeginDirectWrite and FinishDirectWrite store no prefix. The double
buffer's WriteLengthPrefixed stores the prefix and then the payload at offset 0,
so it fits Read and none of the length-prefixed reads. A program picks from the
pairs that fit. What a program does to tell its peer that something is written
or read is outside the library and is a change of `sent` and `got` here.

`MonikerService`. `pc` is the line of the call's thread, `request`, `result`
and `x` the locals. One action serves the places where the loops do the same
thing and `AfterWriters`, `AfterWrite` and `LoopHead` say where they differ: the
sideband loop alone asks whether there are readers, takes the size of its
answer for success and reads in the server-first form. The lists hold null
where no endpoint is registered. `values(x++)` past the end, a null endpoint,
`mutable_values` of a value that was not added, and a region that was never
acquired are the state "undefined", after which nothing is said of the call.
`toServer` and `toClient` have room for `Room` messages at each end: the two
regions of each session, where a received one stays until FinishDirectRead, or
what gRPC flow control lets through. They carry whole messages in order, which
is what `RdmaChannel` shows. GetOwnerSidebandDataToken has returned: the set-up
modules are about that.

## The runs

| Run | Instance | What it shows |
|---|---|---|
| `semaphore` | 3 threads, 1 unit at first, at most 3 | `TypeOK`, `NoLostWakeup`, `ImplementsCountingSemaphore` with its fairness; no deadlock |
| `rendezvous` | 3 sessions, clients may fail, the accept loop may fail or stop | the safety of socket set-up, `PairsSessions`, `IdentifiedIsServed`, `AllServed` |
| `register_assertion` | 2 sessions, both may fail | violated: the assertion of RegisterSidebandData |
| `rdma_rendezvous` | 3 sessions, 1 client may fail, `Prompt` | the safety of RDMA set-up, `PairsSessions`, `AllServed` |
| `rdma_accept_race` | 3 sessions, no failure, not `Prompt` | violated: the same assertion, by the two accept threads |
| `stream` | 3 messages of sizes 0, 1, 3; the connection may break | `FrameAligned`, `ImplementsMessageChannel`, `EveryMessageArrives` |
| `stream_reset` | the same | violated: the assertion of ReadSidebandMessage |
| `stream_nonblocking` | the same without breaks, on a non-blocking socket | violated: the same assertion |
| `shared_memory` | 2 sessions one after the other, 3 messages each, both processes may crash | `TokenLive`, `OneRegion`, `NoRace`, `NamesReleased`, `ReadsWhatWasWritten` |
| `shared_memory_overlap` | 2 sessions at once, no crash | violated: the assertion of CloseSidebandData |
| `rdma_channel` | 2 regions, 4 messages, the connection may break | `ReceiveRegionsApart`, `QueuedNotRewritten`, `ImplementsMessageChannel`, `EveryMessageArrives` |
| `moniker_service` | 4 calls, up to 2 write monikers and 1 read moniker, known or not; room for 1 message, 5 of 6 requests unanswered | `NothingUndefined`, `HandedInOrder`, `AnswerForItsRequest`, `EveryRequestServed`, `EndedCallEnds` |

### Bounds, and why they are enough

Three sessions: one being set up, one waiting for the semaphore and one whose
thread is served or closed are the roles that interact; with three, the unit
also passes from a session that failed to one behind it. All session
parameters differ in pairs, so an exchange shows. Two failing clients are
needed for two equal garbage ids, hence `Mortal` has two members in the runs
about it. One garbage id is the case in which garbage collides; a second would
only add executions in which it does not.

`Semaphore`: three threads are two waiters and a notifier, or a notifier, a
sleeper and a late waiter that overtakes it. `MaxCount` bounds how often notify
is called.

`SocketStream`: a prefix of two binary digits and sizes 0, 1 and 3 give the
empty message, a message shorter than the buffer and the longest one; a
capacity of three is shorter than a frame, so prefix and payload are cut, and
longer than a prefix, so that one transfer can span two frames. `MaxReads` is
one more than `MaxMessages`, so a message out of nothing would be seen. With a
message left over in the serialize buffer, three messages are enough for every
mixture of old and new bytes.

`Prompt` in `RdmaRendezvous` says that an accept thread returns from
InitFromConnection before the other thread accepts a connection. Nothing in the
code ensures it: it is what happens when the threads run at once and the
client's second connect takes a round trip. `rdma_accept_race` shows what
happens otherwise, and `rdma_rendezvous` that the set-up is right in every
other respect the properties speak of.

`SharedMemory`: two sessions are one and the next, which finds what the first
left; three messages bring a double buffer back to its first window, written
over while the second is read. The run rests on what a program must do, since
the library does not:

* a session begins when both ends of those before it have ended
  (`MayBegin`). The owner's end is not enough: a client that lingers closes
  later and frees the name the next session has, whose ends then map different
  regions (`OneRegion` and `NoRace` fail). With no order at all the assertion
  of CloseSidebandData fails (`shared_memory_overlap`);
* an end closes when its peer has mapped what it has (`MayClose`); else the
  peer's first use makes a new region;
* a reader reads when a message is announced, and the writer is one message
  ahead at most, two for a stream over a double buffer (`Depth`).

`RdmaChannel`: two regions as in the code; four messages use every region twice
at both ends; one read more than there are messages.

`MonikerService`: `Room` is 1 although RDMA has two regions, which makes the
limit on unanswered requests `4 * Room + 1` = 5: one message at each end of
each direction and one in the server's hands. Six requests go past it. The
module assumes `Window` to be within the limit: one more, and client and server
wait for each other's room, a cancel not excepted (it takes a place in the
window too). The same holds with `Room` 2 and `Window` 9 (345596 states, which
take too long for a run that is repeated often). Two write monikers show an
index out of step; two sources are a known and an unknown one.

### Fairness

Weak fairness of each step of a thread that can run: the operating system
schedules it, and a blocked call returns when it can. The semaphore promises
only that some waiting handler passes, as `CountingSemaphore` states, and only
that is assumed of it; `Semaphore` is shown to give it from weak fairness of
its own threads. A client that does not fail is assumed to go on to connect and
to send its id. Nothing makes a session end, a writer write, or a client fail.
In `SocketStream` no fairness is given to an error being reported, because
systems differ in whether recv reports it again.

`RdmaChannel` gives none to a region being refused, and the reader reads again.
In `MonikerService` the call's thread goes on when it can, gRPC fails a write
of a cancelled call, and the client finishes what it has begun to send and
reads its answers: a client that does not read them stops the server, which the
code leaves to it.

Liveness is conditional where the code makes it so. `EveryMessageArrives` of
`RdmaChannel` excludes a broken connection and the state in which
ReadFromLengthPrefixed has kept both regions; `EveryRequestServed` and
`EndedCallEnds` a broken sideband, after which the server's loop is indeed not
known to end, and calls whose monikers are unknown or which begin with the
server's answer. `AllServed` excludes
clients that fail before they connect, or whose stream ends before the id: the
first keep the semaphore's unit, the second keep the accept loop in recv, and
every later session waits. `IdentifiedIsServed` has no such condition.

## Findings

1. `register_assertion`. ReadConnectionId ignores a failed read
   (`sideband_sockets.cc:229`) and the object is registered under what was in
   the buffer; the second such connection fails `assert` at
   `sideband_data.cc:287`.
2. `rdma_accept_race`. Both accept threads may find both connections pending
   (`sideband_rdma.cc:305-314`) and make the session's object twice; the same
   assertion fails, or without assertions the semaphore gets two units.
3. `stream_reset`. A connection that breaks inside a message makes
   ReadSidebandMessage parse what is in the buffer, and its
   `assert(success)` (`sideband_grpc.h:51`) ends the process in place of the
   `false` its callers test for.
4. `stream_nonblocking`. On Windows a low-latency client's socket does not
   block, WriteToSocket takes a full socket for an error
   (`sideband_sockets.cc:156`) in the middle of a frame, and the peer loses its
   place in the stream.

5. `shared_memory_overlap`. Every shared memory session has the usage id
   "TestBuffer" (`sideband_shared_memory.cc:52`, `248`): two sessions share one
   object, which the first to close deletes under the other, and the other's
   CloseSidebandData fails `assert` at `sideband_data.cc:318`.

## What is proved

`SemaphoreProofs`, for any finite set of threads and any initial count:
`TypeCorrect`, `MutexIsHeld`, `NoWakeupIsLost`, and `SemaphoreRefinesCounting`,
the safety half of `ImplementsCountingSemaphore`. `NoLostWakeup` is inductive
with `TypeOK` and `MutexHeld`: a notifier adds one unit and wakes one sleeper,
if there is one, and only the holder of the mutex consumes a unit, by which it
stops being a contender.

`SocketRendezvousProofs`, for any set of sessions, parameters, failing clients
and garbage ids (`RendezvousAssumption`: ids the server draws are positive,
garbage is negative): every safety property that `rendezvous` checks, and that
every behaviour implements `SessionPairing`. All follow from the inductive
invariant `IInv`, the conjunction of

* `AcceptorInv`, `ConnectionInv`, `BacklogInv`: where the one connection under
  way is. Without them nothing says that the connection the accept loop takes
  belongs to the session that filled the statics.
* `UnitInv`: the unit lies in the semaphore or belongs to exactly one session.
  This is what makes `ParamsMatch` true, though no step compares a session with
  a connection.
* `FieldsInv`: from filling until the object is made the statics are those of
  the session that holds the unit.
* `IdInv`, `ObjectIdInv`: drawn ids differ, and an object's id is its own
  session's or garbage; so what a thread finds under its id is its own.
* `RegistryInv`, `LoopInv`: the registry holds live objects under their ids, a
  serving thread's token is its own object, a sleeper's id is missing.

Each action has a lemma that it preserves `IInv`; `Invariance` joins them. The
refinement proof has a lemma for each step of `SessionPairing` and one for the
steps that leave the mapping alone.

`RdmaRendezvousProofs`, for any sessions, parameters and failing clients, where
accept threads take turns (the theorems have `Prompt /\ Safety` as hypothesis;
without `Prompt` they are false, as `rdma_accept_race` shows): every safety
property that `rdma_rendezvous` checks, and `SessionPairing`. A connection has no
id here, so the invariant has to say whose it is: `UnitInv`, `FieldsInv`,
`ClientInv` and `PlaceInv` together say that the unit, the static fields and every
connection that has no object yet belong to one session, `PromptInv` that one
accept thread works at a time, and `ObjectInv` that no session has two objects.

`RdmaChannelProofs`, for any number of regions, messages and reads:
`ReceiveRegionsApart`, its counterpart `SendRegionsApart`, `QueuedNotRewritten`
and `MessageChannel`. `SendRegionsApart` is what keeps a queued region from being
written again; `ErrorsFollowLoss` separates the cases in which a call goes on with
a region it no longer has; and `MessagesInOrder` says where the messages are that
are written and not delivered: in the region in the reader's hands, the filled ones,
the network and the queued ones, in this order. The refinement needs that each
call's step leaves this sequence alone, or moves its first or its last member.

`MonikerServiceProofs`, for any endpoints, lists, room and window
(`ServiceAssumption`, of which the proofs need that null is no source):
`HandedInOrder`, `NothingUndefined`, `AnswerForItsRequest`. They follow from
invariants proved one after another, each from those before: which call can be at
which place (`CallPaths`), that a call uses the lists of the client's message
(`ListsFound`), that the index is within its list (`LoopIndex`), that the first
message stays until its region is returned (`RegionHeld`), that requests are taken
in order and the number of values handed over follows from the request and the
index (`InTheirOrder`, `HandingOver`), and that the answers under way are, in order,
those to the requests taken (`AnswersInOrder`, `AnswersCounted`).

`SharedMemoryProofs`, for any number of sessions and messages, all programs that
`Fits` admits and any crashes, where sessions follow one another (`~Overlapping`;
otherwise they are false, as `shared_memory_overlap` shows): every invariant that
`shared_memory` checks. All follow from one inductive invariant `IInv`:

* `PhaseInv`, `EntryInv`: one session is active, the others have not begun or are
  over, and the registry has its owner's object. So a step of one session need
  only be shown harmless to sessions at rest (`OthersStay`).
* `LinkInv`, `NamedOf`, `LeftInv`: a region has one name, that of the window it
  is mapped in, and a name stands for nothing but such a region unless an end
  crashed. This is what keeps the two windows apart (`RegionsApart`).
* `MapOf`: what one end has mapped its peer has mapped too, or will find.
* `CountOf`: at most two regions to a session, so that regions are a finite type.
* `CallOf`: each end's `current` is the window of the message its call is about,
  although each end counts for itself and one may be two messages behind.
* `UnreadOf`: a message that is written and unread lies whole in the region where
  its reader will look, which it may not have mapped yet; `StoreOf`, `LoadOf` and
  `GotOf` say the same in the middle of a write, in the middle of a read, and of
  what was read.

Each action has a lemma here too. The inductive invariants were checked by TLC on
the module's run before they were proved. Proving changed four definitions
whose cases overlapped (`AfterWrite`, `AcquireSendFails`, `Stores`, `Phase`): their
guards now exclude each other, as the code's branches do. And a power of `Base` is the
recursive function `Weight`, since the provers know nothing of exponents.

`SocketStreamProofs`, for a prefix and bytes of any size, any sizes and numbers of
messages and any capacity, whether or not the connection breaks, on blocking
sockets (`~NonBlocking`; otherwise they are false, as `stream_nonblocking` shows):
`FrameAligned`, `MessageChannel`, and that the assertion of ReadSidebandMessage
fails only after an error (`AbortsFollowErrors`). `TypeCorrect` needs no such
hypothesis. `IInv` says where the ends are: `NextOut` is the byte the writer sends
next, `NextIn` the byte the reader should receive, `WireInv` that the wire has the
bytes from one to the other, and `ReaderInv` that the reader has its frame up to
`NextIn`. That n bytes received are the next n of the frame, and that a complete
prefix has one value (`DigitsUnique`), are inductions over the naturals. They are
proved with `Induction`, which is stated for a set in place of a predicate and
follows from the well-foundedness of `<`; by it `WeightIs` also gives the recursive
function `Weight` its value.

Only model-checked: all liveness (`ImplementsCountingSemaphore` with its
fairness, of which the safety half is proved, `IdentifiedIsServed`, `AllServed`,
`EveryMessageArrives`, `EveryRequestServed`, `EndedCallEnds`), which the provers do
not reach.

## Not modelled

The registry on the client's side: a process that is the client of two servers,
or owner and client at once, meets one id twice and the assertion of
InitClientSidebandData (`sideband_data.cc:274`) fails in a single call. The
internals of easyrdma, gRPC, protobuf and the kernel: what the code relies on is
modelled and marked external. Failures of shm_open, ftruncate and mmap, and what
a destroyed shared memory object leaks (its descriptor, and its mapping but for
one page). BeginSidebandStream over sockets or shared memory in
`MonikerService`: over sockets the messages are those of `SocketStream`, over
shared memory its messages do not fit. An endpoint registered while a call
looks it up. Host names, interface enumeration, CPU affinity, socket options
other than blocking, logging and the build are left out: they are input and
output, or have no state the properties depend on. The range of the id counter
(2^31 ids) is not modelled; nor is a message larger than the buffer, against
which the code has no check to model.

## Plan

Done: all modules, and the proofs of every safety property that a passing run
checks. Left are the safety halves of the liveness properties, as invariants which
say that someone can always move:

1. `MonikerService`: with `Window <= 4 * Room + 1` the server never waits for room
   for an answer while the client waits for room for a request. It follows from
   the number of requests that are unanswered and the places they can be in.
2. `SocketStream` and `RdmaChannel`: while the connection is up and a message is
   undelivered, a byte or a region can move.
3. `SocketRendezvous` and `RdmaRendezvous`: while a session waits for the unit,
   the session that has it has a step to take, unless its client failed.
