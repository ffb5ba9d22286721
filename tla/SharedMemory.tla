----------------------------- MODULE SharedMemory -----------------------------
(***************************************************************************)
(* Sessions over shared memory, single and double-buffered                 *)
(* (sideband_shared_memory.cc), from InitOwnerSidebandData and             *)
(* InitClientSidebandData to CloseSidebandData (sideband_data.cc).         *)
(*                                                                         *)
(* All sessions have the usage id "TestBuffer" and the names made from it. *)
(* An end maps a window when it first uses it, creating the region if the  *)
(* name is free, and the end that closes frees the name.  The library does *)
(* not tell an end when there is something to read: a program tells its    *)
(* peer over gRPC.  The traffic here is of two kinds, a stream from the    *)
(* owner and an exchange that the client begins.                           *)
(*                                                                         *)
(* A call's bytes go to a region, and come from it, in several steps, so   *)
(* that a read that overlaps a write is seen.  A region has two cells, the *)
(* first eight bytes and the next.                                         *)
(***************************************************************************)
EXTENDS Integers, Sequences, SidebandRegistry

CONSTANTS LastSession, \* sessions are numbered in the order they begin
          MaxMessages, \* bound: the messages written in a session
          Overlapping, \* whether a session may begin before those before it
                       \* have ended at both ends
          MayCrash     \* the ends whose process may end without closing

ASSUME SharedMemoryAssumption == /\ LastSession \in Nat \ {0}
                                 /\ MaxMessages \in Nat
                                 /\ Overlapping \in BOOLEAN
                                 /\ MayCrash \subseteq {"owner", "client"}

Sessions == 1 .. LastSession
Ends     == {"owner", "client"}
Kinds    == {"single", "double"}
Windows  == {"A", "B"}  \* _bufferA and _bufferB; a single buffer is the first
Cells    == {0, 8}

UsageId == "TestBuffer"

\* The name of a region: the kind stands for whether a suffix is appended.
Names == Kinds \X Windows

VARIABLES program, \* what a session is for, see Programs
          phase,   \* how far each end of a session is
          token,   \* the session whose object GetOwnerSidebandDataToken gave; 0 before
          live,    \* the objects that have been made and not deleted
          window,  \* _buffer: the region an object has mapped in each window, or 0
          current, \* _current of an object
          linked,  \* the region a name stands for, or 0
          regions, \* the cells of the regions in the order they were made
          pc,      \* what an end's program is doing
          step,    \* how many of its stores or loads it has done
          loaded,  \* what the first load gave
          sent,    \* how many messages have been announced to the reader
          got      \* what was read

objectVars == <<live, window, current>>
memoryVars == <<linked, regions>>
callVars   == <<pc, step, loaded>>
dataVars   == <<sent, got>>
registry   == <<buffers, sleepers>>
vars == <<program, phase, token, objectVars, memoryVars, callVars, dataVars, registry>>

-----------------------------------------------------------------------------
(* Where the calls put the parts of a message and where they look for them *)

\* "Write" is also BeginDirectWrite with FinishDirectWrite, "Read" BeginDirectRead
\* with FinishDirectRead, and "ReadLengthPrefixed" both ReadLengthPrefix with
\* ReadFromLengthPrefixed and BeginDirectReadLengthPrefixed with FinishDirectRead.
WriteCalls == {"Write", "WriteLengthPrefixed"}
ReadCalls  == {"Read", "ReadLengthPrefixed"}

\* The cells a call stores to, in order, with the part it stores there.  The
\* double buffer's WriteLengthPrefixed is two calls of Write, each at offset 0.
Stores(kind, call) ==
    IF call = "Write" THEN << <<0, "head">>, <<8, "tail">> >>
    ELSE IF kind = "single" THEN << <<0, "length">>, <<8, "head">> >>
    ELSE << <<0, "length">>, <<0, "head">>, <<8, "tail">> >>

\* The parts a reader takes the two cells for.
Expected(call) == IF call = "Read" THEN <<"head", "tail">> ELSE <<"length", "head">>

\* The part an undisturbed call leaves in a cell.
Left(kind, call, cell) ==
    LET stores == Stores(kind, call)
        last == CHOOSE i \in DOMAIN stores :
                    /\ stores[i][1] = cell
                    /\ \A j \in DOMAIN stores : stores[j][1] = cell => j <= i
    IN  stores[last][2]

\* The calls that fit each other when nothing disturbs them.  Those of
\* WriteSidebandMessage and ReadSidebandMessage do not: no prefix is stored.
Fits(kind, write, read) == Expected(read) = <<Left(kind, write, 0), Left(kind, write, 8)>>

Programs == {p \in [kind : Kinds, traffic : {"stream", "exchange"}, write : WriteCalls, read : ReadCalls] :
                 Fits(p.kind, p.write, p.read)}

Blank == <<0, 0, "none">>

-----------------------------------------------------------------------------

\* A serving thread works on the object its token points to.
Object(s, e) == IF e = "owner" THEN <<token[s], e>> ELSE <<s, e>>

Peer(e) == IF e = "owner" THEN "client" ELSE "owner"

Name(s, w) == <<program[s].kind, w>>

Init == /\ program \in [Sessions -> Programs]
        /\ phase = [s \in Sessions |-> [e \in Ends |-> "none"]]
        /\ token = [s \in Sessions |-> 0]
        /\ live = {}
        /\ window = [o \in Sessions \X Ends |-> [w \in Windows |-> 0]]
        /\ current = [o \in Sessions \X Ends |-> "A"]
        /\ linked = [n \in Names |-> 0]
        /\ regions = <<>>
        /\ pc = [s \in Sessions |-> [e \in Ends |-> "idle"]]
        /\ step = [s \in Sessions |-> [e \in Ends |-> 0]]
        /\ loaded = [s \in Sessions |-> Blank]
        /\ sent = [s \in Sessions |-> 0]
        /\ got = [s \in Sessions |-> <<>>]
        /\ RegistryInit

-----------------------------------------------------------------------------
(* Beginning *)

Ended(s, e) == phase[s][e] \in {"closed", "crashed"}

MayBegin(s) == Overlapping \/ \A r \in 1 .. s - 1 : \A e \in Ends : Ended(r, e)

\* InitOwnerSidebandData: a new object, not inserted if another is there.
InitOwner(s) == /\ phase[s]["owner"] = "none"
                /\ MayBegin(s)
                /\ Emplace(UsageId, s)
                /\ live' = live \cup {<<s, "owner">>}
                /\ phase' = [phase EXCEPT ![s]["owner"] = "initialised"]
                /\ UNCHANGED <<program, token, window, current, memoryVars, callVars, dataVars, sleepers>>

\* The serving thread gets the object of that id.  Were there none it would
\* wait, and nothing that happens here would notify it.
GetOwnerToken(s) == /\ phase[s]["owner"] = "initialised"
                    /\ Registered(UsageId)
                    /\ token' = [token EXCEPT ![s] = buffers[UsageId]]
                    /\ phase' = [phase EXCEPT ![s]["owner"] = "open"]
                    /\ UNCHANGED <<program, objectVars, memoryVars, callVars, dataVars, registry>>

\* InitClientSidebandData, in a process that has no such session open.
InitClient(s) == /\ phase[s]["client"] = "none"
                 /\ phase[s]["owner"] # "none"
                 /\ live' = live \cup {<<s, "client">>}
                 /\ phase' = [phase EXCEPT ![s]["client"] = "open"]
                 /\ UNCHANGED <<program, token, window, current, memoryVars, callVars, dataVars, registry>>

-----------------------------------------------------------------------------
(* Messages *)

WriterOf(s, n) == IF program[s].traffic = "stream" \/ n % 2 = 0 THEN "owner" ELSE "client"

\* How many messages the program lets be unread: a double buffer is for
\* writing the next one while the one before it is read.
Depth(s) == IF program[s].kind = "double" /\ program[s].traffic = "stream" THEN 2 ELSE 1

Free(s, e) == phase[s][e] = "open" /\ pc[s][e] = "idle" /\ Object(s, e) \in live

\* Mutated form: Init frees the name once it has the region.
MapWindowPrivately(s, e) ==
    LET o == Object(s, e)
    IN  /\ window' = [window EXCEPT ![o][current[o]] = IF @ = 0 THEN Len(regions) + 1 ELSE @]
        /\ regions' = IF window[o][current[o]] # 0 THEN regions
                      ELSE Append(regions, [c \in Cells |-> Blank])
        /\ UNCHANGED linked

\* GetBuffer and Init: shm_open with O_CREAT, ftruncate and mmap, once.
MapWindow(s, e) ==
    LET o == Object(s, e)
        w == current[o]
        n == Name(s, w)
    IN  \/ /\ window[o][w] # 0
           /\ UNCHANGED <<window, linked, regions>>
        \/ /\ window[o][w] = 0 /\ linked[n] # 0
           /\ window' = [window EXCEPT ![o][w] = linked[n]]
           /\ UNCHANGED <<linked, regions>>
        \/ /\ window[o][w] = 0 /\ linked[n] = 0
           /\ regions' = Append(regions, [c \in Cells |-> Blank])
           /\ linked' = [linked EXCEPT ![n] = Len(regions) + 1]
           /\ window' = [window EXCEPT ![o][w] = Len(regions) + 1]

Begin(s, e, call) == /\ MapWindow(s, e)
                     /\ pc' = [pc EXCEPT ![s][e] = call]
                     /\ step' = [step EXCEPT ![s][e] = 0]
                     /\ UNCHANGED <<program, phase, token, live, current, loaded, dataVars, registry>>

BeginWrite(s, e) == /\ Free(s, e)
                    /\ sent[s] < MaxMessages
                    /\ WriterOf(s, sent[s] + 1) = e
                    /\ sent[s] - Len(got[s]) < Depth(s)
                    /\ Begin(s, e, "write")

BeginRead(s, e) == /\ Free(s, e)
                   /\ Len(got[s]) < sent[s]
                   /\ WriterOf(s, Len(got[s]) + 1) = Peer(e)
                   /\ Begin(s, e, "read")

\* The region an end's call works on.
InUse(s, e) == LET o == Object(s, e) IN window[o][current[o]]

\* Mutated form: a double buffer's call leaves _current alone.
ExchangeNothing(s, e) == UNCHANGED current

\* What a call of the double buffer does last.
Exchange(s, e) == current' = IF program[s].kind = "single" THEN current
                             ELSE [current EXCEPT ![Object(s, e)] = IF @ = "A" THEN "B" ELSE "A"]

\* The next store of a write; after the last the program tells the reader.
Store(s, e) ==
    LET stores == Stores(program[s].kind, program[s].write)
        i == step[s][e] + 1
    IN  /\ pc[s][e] = "write"
        /\ regions' = [regions EXCEPT ![InUse(s, e)][stores[i][1]] = <<s, sent[s] + 1, stores[i][2]>>]
        /\ step' = [step EXCEPT ![s][e] = i]
        /\ IF i < Len(stores) THEN UNCHANGED <<current, pc, sent>>
           ELSE /\ Exchange(s, e)
                /\ pc' = [pc EXCEPT ![s][e] = "idle"]
                /\ sent' = [sent EXCEPT ![s] = @ + 1]
        /\ UNCHANGED <<program, phase, token, live, window, linked, loaded, got, registry>>

LoadFirst(s, e) == /\ pc[s][e] = "read"
                   /\ step[s][e] = 0
                   /\ loaded' = [loaded EXCEPT ![s] = regions[InUse(s, e)][0]]
                   /\ step' = [step EXCEPT ![s][e] = 1]
                   /\ UNCHANGED <<program, phase, token, objectVars, memoryVars, pc, dataVars, registry>>

\* The read is complete, and the program tells the writer.
LoadSecond(s, e) == /\ pc[s][e] = "read"
                    /\ step[s][e] = 1
                    /\ got' = [got EXCEPT ![s] = Append(@, <<loaded[s], regions[InUse(s, e)][8]>>)]
                    /\ loaded' = [loaded EXCEPT ![s] = Blank]
                    /\ step' = [step EXCEPT ![s][e] = 0]
                    /\ pc' = [pc EXCEPT ![s][e] = "idle"]
                    /\ Exchange(s, e)
                    /\ UNCHANGED <<program, phase, token, live, window, memoryVars, sent, registry>>

-----------------------------------------------------------------------------
(* Ending *)

\* An end closes when its peer has mapped what it has, or has gone.
MayClose(s, e) == \/ Ended(s, Peer(e))
                  \/ \A w \in Windows : window[Object(s, e)][w] # 0 =>
                         phase[s][Peer(e)] = "open" /\ window[Object(s, Peer(e))][w] # 0

\* Mutated form: the destructor does not free the names.
DestroyLinked(s, e) == /\ live' = live \ {Object(s, e)}
                       /\ window' = [window EXCEPT ![Object(s, e)] = [w \in Windows |-> 0]]
                       /\ UNCHANGED linked

\* ~SharedMemorySidebandData: unmap, and free the name of what was mapped,
\* whatever region it stands for by now.
Destroy(s, e) ==
    /\ live' = live \ {Object(s, e)}
    /\ window' = [window EXCEPT ![Object(s, e)] = [w \in Windows |-> 0]]
    /\ linked' = [n \in Names |->
                     IF \E w \in Windows : n = Name(s, w) /\ window[Object(s, e)][w] # 0 THEN 0 ELSE linked[n]]

\* Mutated form: the object is deleted and its entry stays.
EraseNothing == UNCHANGED registry

EraseEntry == Erase(UsageId)

\* CloseSidebandData; each process has a registry, the client's is not kept here.
Close(s, e) == /\ Free(s, e)
               /\ MayClose(s, e)
               /\ Destroy(s, e)
               /\ IF e = "owner" THEN EraseEntry ELSE UNCHANGED registry
               /\ phase' = [phase EXCEPT ![s][e] = "closed"]
               /\ UNCHANGED <<program, token, current, regions, callVars, dataVars>>

\* A process ends, perhaps within a call, and the kernel unmaps its windows.
Vanish(lost) == /\ phase' = [s \in Sessions |-> [e \in Ends |->
                                IF <<s, e>> \in lost THEN "crashed" ELSE phase[s][e]]]
                /\ pc' = [s \in Sessions |-> [e \in Ends |->
                                IF <<s, e>> \in lost THEN "idle" ELSE pc[s][e]]]
                /\ live' = live \ lost
                /\ window' = [o \in Sessions \X Ends |->
                                IF o \in lost THEN [w \in Windows |-> 0] ELSE window[o]]
                /\ UNCHANGED <<program, token, current, memoryVars, step, loaded, dataVars>>

ServerCrash == /\ "owner" \in MayCrash
               /\ \E s \in Sessions : phase[s]["owner"] \in {"initialised", "open"}
               /\ Vanish({o \in live : o[2] = "owner"})
               /\ buffers' = [id \in {} |-> id]
               /\ UNCHANGED sleepers

ClientCrash(s) == /\ "client" \in MayCrash
                  /\ phase[s]["client"] = "open"
                  /\ Vanish({<<s, "client">>})
                  /\ UNCHANGED registry

-----------------------------------------------------------------------------

User(s, e) == BeginWrite(s, e) \/ Store(s, e) \/ BeginRead(s, e) \/ LoadFirst(s, e) \/ LoadSecond(s, e)
              \/ Close(s, e)

Next == \E s \in Sessions : \/ InitOwner(s) \/ GetOwnerToken(s) \/ InitClient(s) \/ ClientCrash(s)
                            \/ \E e \in Ends : User(s, e)
        \/ ServerCrash

Spec == Init /\ [][Next]_vars

-----------------------------------------------------------------------------

Part == Sessions \X (1 .. MaxMessages) \X {"length", "head", "tail"} \cup {Blank}

\* Types of the variables; each window of a session is one region at most.
TypeOK == /\ program \in [Sessions -> Programs]
          /\ phase \in [Sessions -> [Ends -> {"none", "initialised", "open", "closed", "crashed"}]]
          /\ token \in [Sessions -> 0 .. LastSession]
          /\ live \subseteq Sessions \X Ends
          /\ regions \in Seq([Cells -> Part])
          /\ Len(regions) <= 2 * LastSession
          /\ window \in [Sessions \X Ends -> [Windows -> 0 .. Len(regions)]]
          /\ current \in [Sessions \X Ends -> Windows]
          /\ linked \in [Names -> 0 .. Len(regions)]
          /\ pc \in [Sessions -> [Ends -> {"idle", "write", "read"}]]
          /\ step \in [Sessions -> [Ends -> 0 .. 3]]
          /\ loaded \in [Sessions -> Part]
          /\ sent \in [Sessions -> 0 .. MaxMessages]
          /\ got \in [Sessions -> Seq(Part \X Part)]
          /\ DOMAIN buffers \subseteq {UsageId}
          /\ sleepers = {}

\* The assertion of CloseSidebandData (sideband_data.cc:318), and what it is
\* about: an open token is that of an object that is registered and not deleted.
TokenLive == \A s \in Sessions : phase[s]["owner"] = "open" =>
                 /\ Registered(UsageId) /\ buffers[UsageId] = token[s]
                 /\ <<token[s], "owner">> \in live

\* The two ends of a session that have mapped a window have mapped one region,
\* though each opened it by a name that ends of other sessions make and free.
OneRegion == \A s \in Sessions, w \in Windows :
                 LET regionsOf == {window[<<s, e>>][w] : e \in Ends} \ {0}
                 IN  \A r, q \in regionsOf : r = q

\* Nobody reads a region that is being written: the exchange of the buffers at
\* each end keeps them apart while the writer is one message ahead.
NoRace == \A s, r \in Sessions, e, f \in Ends :
              pc[s][e] = "write" /\ pc[r][f] = "read" => InUse(s, e) # InUse(r, f)

\* When every session that began has been closed, no region is left behind.
NamesReleased == (\A s \in Sessions : phase[s]["owner"] = "none" \/ \A e \in Ends : phase[s][e] = "closed")
                     => \A n \in Names : linked[n] = 0

\* Within a session every message is read whole, once and in order, as
\* MessageChannel has it: neither what the regions held before, nor a message
\* that is being written, nor another session's is taken for it.
ReadsWhatWasWritten == \A s \in Sessions : \A n \in 1 .. Len(got[s]) :
                           /\ n <= sent[s]
                           /\ \A i \in {1, 2} : got[s][n][i] = <<s, n, Expected(program[s].read)[i]>>
=============================================================================
