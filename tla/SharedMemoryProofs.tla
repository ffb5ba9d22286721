-------------------------- MODULE SharedMemoryProofs --------------------------
(***************************************************************************)
(* Proofs about SharedMemory where a session begins when those before it   *)
(* have ended (~Overlapping), for any number of sessions and messages, all *)
(* programs and any crashes.  One session at a time does anything; IInv    *)
(* says where its ends, its regions and its messages are.  With            *)
(* overlapping sessions it does not hold, and the run SharedMemoryOverlap  *)
(* shows what happens.                                                     *)
(***************************************************************************)
EXTENDS SharedMemory, SequenceTheorems, TLAPS

Active(s, e) == phase[s][e] \in {"initialised", "open"}

Begun(s) == phase[s]["owner"] # "none"

Over(s) == \A e \in Ends : Ended(s, e)

\* A session begins when those before it are over, and its client begins after
\* its owner.
PhaseInv == \A s \in Sessions : /\ phase[s]["client"] # "initialised"
                                /\ phase[s]["client"] # "none" => Begun(s)
                                /\ Begun(s) => \A r \in Sessions : r < s => Over(r)

\* An object lives from the beginning of its end to the close or crash; only an
\* end that is open has mapped anything or is in a call; and the object that a
\* serving thread got is its own session's.
LiveOf(s) == /\ \A e \in Ends : /\ <<s, e>> \in live <=> Active(s, e)
                                /\ pc[s][e] # "idle" => phase[s][e] = "open"
                                /\ \A w \in Windows : window[<<s, e>>][w] # 0 => phase[s][e] = "open"
             /\ phase[s]["owner"] = "open" => token[s] = s

\* The registry has the active owner's object.
EntryInv == /\ \A s \in Sessions : Active(s, "owner") => Registered(UsageId) /\ buffers[UsageId] = s
            /\ Registered(UsageId) => \E s \in Sessions : Active(s, "owner")

\* The two ends of a session have one region in a window, and an end that has yet
\* to map a window its peer has mapped will find that region by its name.
MapOf(s) == \A e \in Ends, w \in Windows : window[<<s, e>>][w] # 0 =>
    /\ window[<<s, Peer(e)>>][w] \in {0, window[<<s, e>>][w]}
    /\ window[<<s, Peer(e)>>][w] = 0 /\ ~Ended(s, Peer(e)) => linked[Name(s, w)] = window[<<s, e>>][w]

\* A region has one name, also for those that mapped it.
LinkInv == \A n, m \in Names : linked[n] = linked[m] /\ linked[n] # 0 => n = m

NamedOf(s) == \A e \in Ends, w \in Windows : window[<<s, e>>][w] # 0 =>
    /\ \A n \in Names : linked[n] = window[<<s, e>>][w] => n = Name(s, w)
    /\ \A v \in Windows : window[<<s, e>>][v] = window[<<s, e>>][w] => v = w

\* A name that stands for a region is that of a mapped window, or a crash left it.
LeftInv == \A n \in Names : linked[n] # 0 =>
    \/ \E s \in Sessions, e \in Ends : phase[s][e] = "crashed"
    \/ \E s \in Sessions, e \in Ends, w \in Windows : n = Name(s, w) /\ window[<<s, e>>][w] # 0

\* Nobody has made a region for a window of the session.
ToMake(s, w) == linked[Name(s, w)] = 0 /\ \A e \in Ends : window[<<s, e>>][w] = 0

One(b) == IF b THEN 1 ELSE 0

\* A session makes one region for a window, whichever ends close or crash.
CountOf(s) == /\ Begun(s) /\ ~Over(s) => Len(regions) + One(ToMake(s, "A")) + One(ToMake(s, "B")) <= 2 * s
              /\ ~Begun(s) /\ (\A r \in Sessions : r < s => Over(r)) => Len(regions) <= 2 * (s - 1)

\* The window of the n-th message of a session.
WindowOf(s, n) == IF program[s].kind = "single" \/ n % 2 = 1 THEN "A" ELSE "B"

\* How many messages an end has written or read: its peer may be behind by those
\* that are unread.
Calls(s, e) == IF sent[s] > Len(got[s]) /\ WriterOf(s, sent[s]) = e THEN sent[s] ELSE Len(got[s])

\* An end's calls are on the window of the message they are about.
CallOf(s) ==
    /\ Len(got[s]) <= sent[s] /\ sent[s] - Len(got[s]) <= Depth(s)
    /\ ~Begun(s) => sent[s] = 0
    /\ \A e \in Ends :
         /\ current[<<s, e>>] = WindowOf(s, Calls(s, e) + 1)
         /\ pc[s][e] = "write" => /\ sent[s] < MaxMessages /\ WriterOf(s, sent[s] + 1) = e
                                  /\ sent[s] - Len(got[s]) < Depth(s)
         /\ pc[s][e] = "read" => Len(got[s]) < sent[s] /\ WriterOf(s, Len(got[s]) + 1) = Peer(e)
         /\ pc[s][e] # "idle" => window[<<s, e>>][current[<<s, e>>]] # 0

\* The region an end has in a window, or will find when it maps it.
Found(s, e, w) == IF window[<<s, e>>][w] # 0 THEN window[<<s, e>>][w] ELSE linked[Name(s, w)]

Written(s, n, c) == <<s, n, Left(program[s].kind, program[s].write, c)>>

\* A message that is written and unread is whole, in the region where its reader
\* will look.
UnreadOf(s) == \A e \in Ends : ~Ended(s, e) =>
    \A n \in Len(got[s]) + 1 .. sent[s] : WriterOf(s, n) = Peer(e) =>
        /\ Found(s, e, WindowOf(s, n)) # 0
        /\ \A c \in Cells : regions[Found(s, e, WindowOf(s, n))][c] = Written(s, n, c)

StoresOf(s) == Stores(program[s].kind, program[s].write)

\* A region has, in each cell, the last of the first i stores there.
Stored(region, stores, i, s, n) ==
    \A j \in 1 .. i : \/ region[stores[j][1]] = <<s, n, stores[j][2]>>
                      \/ \E k \in j + 1 .. i : stores[k][1] = stores[j][1]

\* A write has made the stores it has made.
StoreOf(s) == \A e \in Ends : pc[s][e] = "write" =>
    /\ step[s][e] < Len(StoresOf(s))
    /\ Stored(regions[window[<<s, e>>][current[<<s, e>>]]], StoresOf(s), step[s][e], s, sent[s] + 1)

\* A read has the first part of the message it is about.
LoadOf(s) == \A e \in Ends : pc[s][e] = "read" =>
    /\ step[s][e] \in {0, 1}
    /\ step[s][e] = 1 => loaded[s] = Written(s, Len(got[s]) + 1, 0)

GotOf(s) == \A n \in 1 .. Len(got[s]) : /\ n <= sent[s]
                                        /\ \A i \in {1, 2} : got[s][n][i] = <<s, n, Expected(program[s].read)[i]>>

InvOf(s) == /\ LiveOf(s) /\ MapOf(s) /\ NamedOf(s) /\ CountOf(s)
            /\ CallOf(s) /\ UnreadOf(s) /\ StoreOf(s) /\ LoadOf(s) /\ GotOf(s)

IInv == /\ TypeOK /\ PhaseInv /\ EntryInv /\ LinkInv /\ LeftInv
        /\ \A s \in Sessions : InvOf(s)

-----------------------------------------------------------------------------
(* The constants' sets, and who may act *)

LEMMA TwoEnds == /\ "owner" \in Ends /\ "client" \in Ends
                 /\ \A e \in Ends : e = "owner" \/ e = "client"
                 /\ \A e \in Ends : Peer(e) \in Ends /\ Peer(e) # e /\ Peer(Peer(e)) = e
                 /\ \A e, f \in Ends : f # e => f = Peer(e)
BY DEF Ends, Peer

LEMMA TwoWindows == /\ "A" \in Windows /\ "B" \in Windows
                    /\ \A w \in Windows : w = "A" \/ w = "B"
                    /\ \A s, n : WindowOf(s, n) \in Windows
BY DEF Windows, WindowOf

LEMMA SessionNumbers == /\ Sessions \subseteq Nat
                        /\ LastSession \in Nat
                        /\ \A s \in Sessions : s # 0 /\ s <= LastSession
BY SharedMemoryAssumption DEF Sessions

LEMMA ProgramFields ==
  ASSUME TypeOK, NEW s \in Sessions
  PROVE  /\ program[s] \in Programs
         /\ program[s].kind \in Kinds
         /\ program[s].traffic \in {"stream", "exchange"}
         /\ program[s].write \in WriteCalls
         /\ program[s].read \in ReadCalls
         /\ Fits(program[s].kind, program[s].write, program[s].read)
<1>1. program[s] \in Programs
  BY DEF TypeOK
<1> QED BY <1>1 DEF Programs

LEMMA NamesDiffer ==
  ASSUME TypeOK, NEW s \in Sessions
  PROVE  /\ \A w \in Windows : Name(s, w) \in Names
         /\ \A v, w \in Windows : Name(s, v) = Name(s, w) => v = w
<1>1. program[s].kind \in Kinds
  BY ProgramFields
<1> QED BY <1>1 DEF Name, Names

\* An end that is open works on its own session's object.
LEMMA OwnObject ==
  ASSUME IInv, NEW s \in Sessions, NEW e \in Ends, phase[s][e] = "open"
  PROVE  Object(s, e) = <<s, e>>
<1>1. e = "owner" => token[s] = s
  BY DEF IInv, InvOf, LiveOf
<1> QED BY <1>1 DEF Object

\* Sessions that are over or have not begun have nothing that a step could disturb.
Rest(s) == ~Begun(s) \/ Over(s)

LEMMA OthersRest ==
  ASSUME PhaseInv, NEW s \in Sessions, Begun(s), ~Over(s), NEW r \in Sessions, r # s
  PROVE  Rest(r) /\ (r < s => Over(r)) /\ (s < r => ~Begun(r))
<1>1. r < s \/ s < r
  BY SessionNumbers
<1>2. r < s => Over(r)
  BY DEF PhaseInv
<1>3. s < r => ~Begun(r)
  BY DEF PhaseInv
<1> QED BY <1>1, <1>2, <1>3 DEF Rest

LEMMA ActiveBegan ==
  ASSUME TypeOK, PhaseInv, NEW s \in Sessions, NEW e \in Ends, Active(s, e)
  PROVE  Begun(s) /\ ~Over(s) /\ ~Ended(s, e)
BY DEF PhaseInv, Active, Begun, Over, Ended, Ends

LEMMA RestIsQuiet ==
  ASSUME TypeOK, PhaseInv, NEW s \in Sessions, Rest(s)
  PROVE  \A e \in Ends : ~Active(s, e)
BY DEF Active, PhaseInv, Rest, Begun, Over, Ended, Ends

LEMMA OneActive ==
  ASSUME TypeOK, PhaseInv, NEW s \in Sessions, NEW r \in Sessions, NEW e \in Ends, NEW f \in Ends,
         Active(s, e), Active(r, f)
  PROVE  r = s
BY ActiveBegan, OthersRest, RestIsQuiet

\* What a step of one session leaves of another.
Stays(r) == /\ \A e \in Ends : /\ phase'[r][e] = phase[r][e] /\ pc'[r][e] = pc[r][e] /\ step'[r][e] = step[r][e]
                               /\ current'[<<r, e>>] = current[<<r, e>>]
                               /\ \A w \in Windows : window'[<<r, e>>][w] = window[<<r, e>>][w]
                               /\ <<r, e>> \in live' <=> <<r, e>> \in live
            /\ UNCHANGED <<token[r], loaded[r], sent[r], got[r], program[r]>>

\* Of a session at rest a step of another disturbs no more than the count of regions.
LEMMA RestStays ==
  ASSUME TypeOK, PhaseInv, NEW r \in Sessions, InvOf(r), Rest(r), Stays(r), CountOf(r)'
  PROVE  InvOf(r)'
<1>1. \A e \in Ends : phase[r][e] # "open" /\ ~Active(r, e)
  BY RestIsQuiet DEF Active
<1>2. \A e \in Ends : pc[r][e] = "idle" /\ \A w \in Windows : window[<<r, e>>][w] = 0
  BY <1>1 DEF InvOf, LiveOf
<1>3. (Begun(r)' <=> Begun(r)) /\ \A e \in Ends : (Ended(r, e)' <=> Ended(r, e)) /\ (Active(r, e)' <=> Active(r, e))
  <2>1. phase'[r]["owner"] = phase[r]["owner"]
    BY TwoEnds DEF Stays
  <2>2. \A e \in Ends : phase'[r][e] = phase[r][e]
    BY DEF Stays
  <2> QED BY <2>1, <2>2 DEF Begun, Ended, Active
<1>4. LiveOf(r)'
  <2>1. \A e \in Ends : phase'[r][e] # "open" /\ pc'[r][e] = "idle" /\ \A w \in Windows : window'[<<r, e>>][w] = 0
    BY <1>1, <1>2 DEF Stays
  <2>2. \A e \in Ends : <<r, e>> \in live' <=> Active(r, e)'
    BY <1>3 DEF Stays, InvOf, LiveOf
  <2>3. phase'[r]["owner"] # "open"
    BY <2>1, TwoEnds
  <2> QED BY <2>1, <2>2, <2>3 DEF LiveOf
<1>5. MapOf(r)' /\ NamedOf(r)'
  BY <1>2 DEF Stays, MapOf, NamedOf
<1>6. CallOf(r)'
  <2>1. (Depth(r)' = Depth(r)) /\ \A e \in Ends : Calls(r, e)' = Calls(r, e)
    BY DEF Stays, Depth, Calls, WriterOf
  <2>2. \A n : WindowOf(r, n)' = WindowOf(r, n)
    BY DEF Stays, WindowOf
  <2>3. \A e \in Ends : current'[<<r, e>>] = WindowOf(r, Calls(r, e) + 1)'
    BY <2>1, <2>2 DEF Stays, InvOf, CallOf
  <2> QED BY <1>2, <1>3, <2>1, <2>3 DEF Stays, InvOf, CallOf
<1>7. UnreadOf(r)'
  <2>1. CASE Over(r)
    BY <1>3, <2>1 DEF Over, UnreadOf
  <2>2. CASE ~Begun(r)
    <3>1. sent[r] = 0 /\ Len(got[r]) <= 0 /\ Len(got[r]) \in Nat
      BY <2>2, LenProperties DEF InvOf, CallOf, TypeOK
    <3>2. Len(got[r])' + 1 .. sent[r]' = {}
      BY <3>1 DEF Stays
    <3> QED BY <3>2 DEF UnreadOf
  <2> QED BY <2>1, <2>2 DEF Rest
<1>8. StoreOf(r)' /\ LoadOf(r)'
  BY <1>2 DEF Stays, StoreOf, LoadOf
<1>9. GotOf(r)'
  BY DEF Stays, InvOf, GotOf
<1> QED BY <1>4, <1>5, <1>6, <1>7, <1>8, <1>9 DEF InvOf

LEMMA LenIsNat == ASSUME TypeOK, NEW s \in Sessions PROVE Len(got[s]) \in Nat /\ Len(regions) \in Nat
BY LenProperties DEF TypeOK

\* While a session is neither to begin nor over, no other has anything to lose.
LEMMA OthersStay ==
  ASSUME IInv, NEW s \in Sessions, Begun(s), ~Over(s),
         \A r \in Sessions : r # s => Stays(r),
         Begun(s)', phase'[s]["client"] # "initialised",
         Over(s)' => Len(regions') = Len(regions)
  PROVE  PhaseInv' /\ \A r \in Sessions : r # s => InvOf(r)'
<1>1. TypeOK /\ PhaseInv
  BY DEF IInv
<1>2. ASSUME NEW r \in Sessions, r # s
      PROVE  /\ Over(r)' <=> Over(r)
             /\ Begun(r)' <=> Begun(r)
             /\ phase'[r]["client"] = phase[r]["client"]
  <2>1. phase'[r]["owner"] = phase[r]["owner"] /\ phase'[r]["client"] = phase[r]["client"]
    BY <1>2, TwoEnds DEF Stays
  <2>2. \A e \in Ends : phase'[r][e] = phase[r][e]
    BY <1>2 DEF Stays
  <2> QED BY <2>1, <2>2 DEF Begun, Over, Ended
<1>3. \A r \in Sessions : r # s => (r < s => Over(r)) /\ (s < r => ~Begun(r)) /\ Rest(r)
  BY <1>1, OthersRest
<1>4. PhaseInv'
  <2> SUFFICES ASSUME NEW r \in Sessions
               PROVE  /\ phase'[r]["client"] # "initialised"
                      /\ phase'[r]["client"] # "none" => Begun(r)'
                      /\ Begun(r)' => \A q \in Sessions : q < r => Over(q)'
    BY DEF PhaseInv
  <2>1. CASE r = s
    BY <2>1, <1>2, <1>3, SessionNumbers
  <2>2. CASE r # s
    <3>1. Begun(r) => r < s
      BY <2>2, <1>3, SessionNumbers
    <3>2. \A q \in Sessions : q < r /\ r < s => q # s /\ q < s
      BY SessionNumbers
    <3> QED BY <2>2, <1>1, <1>2, <1>3, <3>1, <3>2 DEF PhaseInv
  <2> QED BY <2>1, <2>2
<1>5. ASSUME NEW r \in Sessions, r # s
      PROVE  CountOf(r)'
  <2>1. CASE r < s
    <3>1. Over(r)' /\ Begun(r)'
      BY <2>1, <1>2, <1>3, <1>5, TwoEnds DEF Over, Ended, Begun
    <3> QED BY <3>1 DEF CountOf
  <2>2. CASE s < r
    <3>1. ~Begun(r)'
      BY <2>2, <1>2, <1>3, <1>5
    <3>2. (\A q \in Sessions : q < r => Over(q)') => Len(regions') <= 2 * (r - 1)
      <4>1. Len(regions) + One(ToMake(s, "A")) + One(ToMake(s, "B")) <= 2 * s
        BY DEF IInv, InvOf, CountOf
      <4>2. One(ToMake(s, "A")) \in {0, 1} /\ One(ToMake(s, "B")) \in {0, 1}
        BY DEF One
      <4> QED BY <2>2, <4>1, <4>2, <1>1, LenIsNat, SessionNumbers
    <3> QED BY <3>1, <3>2 DEF CountOf
  <2> QED BY <2>1, <2>2, <1>5, SessionNumbers
<1>6. ASSUME NEW r \in Sessions, r # s
      PROVE  InvOf(r)'
  BY <1>1, <1>3, <1>5, <1>6, RestStays DEF IInv
<1> QED BY <1>4, <1>6

LEMMA StoresAre ==
  ASSUME NEW kind \in Kinds, NEW call \in WriteCalls
  PROVE  /\ Len(Stores(kind, call)) \in {2, 3}
         /\ \A i \in 1 .. Len(Stores(kind, call)) :
               Stores(kind, call)[i][1] \in Cells /\ Stores(kind, call)[i][2] \in {"length", "head", "tail"}
         /\ \A c \in Cells : \E j \in 1 .. Len(Stores(kind, call)) :
               /\ Stores(kind, call)[j][1] = c
               /\ \A k \in j + 1 .. Len(Stores(kind, call)) : Stores(kind, call)[k][1] # c
               /\ Left(kind, call, c) = Stores(kind, call)[j][2]
<1> DEFINE S == Stores(kind, call)
<1>1. \/ S = << <<0, "head">>, <<8, "tail">> >>
      \/ S = << <<0, "length">>, <<8, "head">> >>
      \/ S = << <<0, "length">>, <<0, "head">>, <<8, "tail">> >>
  BY DEF Stores
<1>2. /\ Len(S) \in {2, 3}
      /\ DOMAIN S = 1 .. Len(S)
      /\ \A i \in 1 .. Len(S) : S[i][1] \in Cells /\ S[i][2] \in {"length", "head", "tail"}
      /\ \A c \in Cells : \E j \in 1 .. Len(S) : S[j][1] = c /\ \A k \in 1 .. Len(S) : S[k][1] = c => k <= j
  <2>1. CASE S = << <<0, "head">>, <<8, "tail">> >>
    BY <2>1 DEF Cells
  <2>2. CASE S = << <<0, "length">>, <<8, "head">> >>
    BY <2>2 DEF Cells
  <2>3. CASE S = << <<0, "length">>, <<0, "head">>, <<8, "tail">> >>
    <3> HIDE DEF S
    <3>1. /\ Len(S) = 3 /\ DOMAIN S = 1 .. 3
          /\ S[1][1] = 0 /\ S[2][1] = 0 /\ S[3][1] = 8
          /\ S[1][2] = "length" /\ S[2][2] = "head" /\ S[3][2] = "tail"
      BY <2>3
    <3>2. \A c \in Cells : \E j \in 1 .. 3 : S[j][1] = c /\ \A k \in 1 .. 3 : S[k][1] = c => k <= j
      BY <3>1 DEF Cells
    <3>3. \A i \in 1 .. 3 : S[i][1] \in Cells /\ S[i][2] \in {"length", "head", "tail"}
      BY <3>1 DEF Cells
    <3> QED BY <3>1, <3>2, <3>3
  <2> HIDE DEF S
  <2> QED BY <1>1, <2>1, <2>2, <2>3
<1> HIDE DEF S
<1>3. ASSUME NEW c \in Cells
      PROVE  \E j \in 1 .. Len(S) : /\ S[j][1] = c
                                    /\ \A k \in j + 1 .. Len(S) : S[k][1] # c
                                    /\ Left(kind, call, c) = S[j][2]
  <2> DEFINE j == CHOOSE i \in DOMAIN S : S[i][1] = c /\ \A k \in DOMAIN S : S[k][1] = c => k <= i
  <2>1. j \in 1 .. Len(S) /\ S[j][1] = c /\ \A k \in 1 .. Len(S) : S[k][1] = c => k <= j
    BY <1>2
  <2>2. Left(kind, call, c) = S[j][2]
    BY DEF Left, S
  <2> HIDE DEF j
  <2>3. \A k \in j + 1 .. Len(S) : k \in 1 .. Len(S) /\ ~(k <= j)
    BY <2>1, <1>2
  <2> QED BY <2>1, <2>2, <2>3
<1> QED BY <1>2, <1>3 DEF S

-----------------------------------------------------------------------------
(* Windows, turns and regions within a session *)

LEMMA WindowsAlternate ==
  ASSUME TypeOK, NEW s \in Sessions, NEW n \in Nat
  PROVE  WindowOf(s, n + 1) = IF program[s].kind = "single" THEN "A"
                              ELSE IF WindowOf(s, n) = "A" THEN "B" ELSE "A"
<1>1. n % 2 \in {0, 1} /\ (n + 1) % 2 = 1 - (n % 2)
  OBVIOUS
<1> QED BY <1>1 DEF WindowOf

LEMMA DepthIs ==
  ASSUME TypeOK, NEW s \in Sessions
  PROVE  /\ Depth(s) \in {1, 2}
         /\ Depth(s) = 2 => program[s].kind = "double" /\ \A n : WriterOf(s, n) = "owner"
         /\ \A n : WriterOf(s, n) \in Ends
BY TwoEnds DEF Depth, WriterOf

\* An end that may write has done with all messages before.
LEMMA WriterIsDone ==
  ASSUME TypeOK, NEW s \in Sessions, CallOf(s), NEW e \in Ends,
         WriterOf(s, sent[s] + 1) = e, sent[s] - Len(got[s]) < Depth(s)
  PROVE  /\ Calls(s, e) = sent[s] /\ current[<<s, e>>] = WindowOf(s, sent[s] + 1)
         /\ Calls(s, Peer(e)) = Len(got[s])
<1>1. Len(got[s]) \in Nat /\ sent[s] \in Nat /\ Len(got[s]) <= sent[s]
  BY LenIsNat DEF CallOf, TypeOK
<1>2. sent[s] = Len(got[s]) \/ (Depth(s) = 2 /\ \A n : WriterOf(s, n) = "owner")
  BY <1>1, DepthIs
<1>3. Calls(s, e) = sent[s] /\ Calls(s, Peer(e)) = Len(got[s])
  BY <1>1, <1>2, TwoEnds DEF Calls
<1> QED BY <1>3 DEF CallOf

\* An end that may read has done with all messages before the one it reads.
LEMMA ReaderIsDone ==
  ASSUME TypeOK, NEW s \in Sessions, CallOf(s), NEW e \in Ends,
         Len(got[s]) < sent[s], WriterOf(s, Len(got[s]) + 1) = Peer(e)
  PROVE  /\ Calls(s, e) = Len(got[s]) /\ current[<<s, e>>] = WindowOf(s, Len(got[s]) + 1)
         /\ WriterOf(s, sent[s]) = Peer(e)
<1>1. Len(got[s]) \in Nat /\ sent[s] \in Nat /\ sent[s] - Len(got[s]) <= Depth(s)
  BY LenIsNat DEF CallOf, TypeOK
<1>2. sent[s] = Len(got[s]) + 1 \/ (Depth(s) = 2 /\ \A n : WriterOf(s, n) = "owner")
  BY <1>1, DepthIs
<1>3. WriterOf(s, sent[s]) = Peer(e)
  BY <1>2
<1>4. Calls(s, e) = Len(got[s])
  BY <1>3, TwoEnds DEF Calls
<1> QED BY <1>3, <1>4 DEF CallOf

\* Windows that differ are on regions that differ, at either end.
LEMMA RegionsApart ==
  ASSUME TypeOK, NEW s \in Sessions, MapOf(s), NamedOf(s), NEW e \in Ends, NEW f \in Ends, ~Ended(s, f),
         NEW v \in Windows, NEW w \in Windows, v # w, window[<<s, e>>][v] # 0
  PROVE  Found(s, f, w) # window[<<s, e>>][v]
<1>1. Name(s, v) \in Names /\ Name(s, w) \in Names /\ Name(s, v) # Name(s, w)
  BY NamesDiffer
<1>2. CASE window[<<s, f>>][w] = 0
  BY <1>1, <1>2 DEF NamedOf, Found
<1>3. CASE window[<<s, f>>][w] # 0 /\ window[<<s, f>>][v] # 0
  <2>1. window[<<s, f>>][w] # window[<<s, f>>][v]
    BY <1>3 DEF NamedOf
  <2>2. e = f \/ e = Peer(f)
    BY TwoEnds
  <2>3. e = Peer(f) => window[<<s, e>>][v] = window[<<s, f>>][v]
    BY <1>3 DEF MapOf
  <2> QED BY <1>3, <2>1, <2>2, <2>3 DEF Found
<1>4. CASE window[<<s, f>>][w] # 0 /\ window[<<s, f>>][v] = 0
  <2>1. f = Peer(e)
    BY <1>4, TwoEnds
  <2>2. linked[Name(s, v)] = window[<<s, e>>][v]
    BY <1>4, <2>1 DEF MapOf
  <2>3. \A n \in Names : linked[n] = window[<<s, f>>][w] => n = Name(s, w)
    BY <1>4 DEF NamedOf
  <2>4. window[<<s, f>>][w] # window[<<s, e>>][v]
    BY <1>1, <2>2, <2>3
  <2> QED BY <1>4, <2>4 DEF Found
<1> QED BY <1>2, <1>3, <1>4

\* What an end has mapped or will find is a region.
LEMMA FoundIsRegion ==
  ASSUME TypeOK, NEW s \in Sessions, NEW e \in Ends, NEW w \in Windows
  PROVE  /\ Found(s, e, w) \in 0 .. Len(regions)
         /\ window[<<s, e>>][w] \in 0 .. Len(regions)
         /\ linked[Name(s, w)] \in 0 .. Len(regions)
<1>1. Name(s, w) \in Names
  BY NamesDiffer
<1>2. window[<<s, e>>][w] \in 0 .. Len(regions) /\ linked[Name(s, w)] \in 0 .. Len(regions)
  BY <1>1 DEF TypeOK
<1> QED BY <1>2 DEF Found

-----------------------------------------------------------------------------
(* Beginning *)

LEMMA InitialState == Init => IInv
<1> SUFFICES ASSUME Init PROVE IInv
  OBVIOUS
<1>1. /\ DOMAIN buffers = {} /\ sleepers = {}
      /\ \A s \in Sessions : /\ \A e \in Ends : phase[s][e] = "none" /\ pc[s][e] = "idle" /\ step[s][e] = 0
                             /\ sent[s] = 0 /\ got[s] = <<>> /\ token[s] = 0 /\ loaded[s] = Blank
      /\ \A s \in Sessions, e \in Ends : current[<<s, e>>] = "A" /\ \A w \in Windows : window[<<s, e>>][w] = 0
      /\ live = {} /\ regions = <<>> /\ \A n \in Names : linked[n] = 0
  BY DEF Init, RegistryInit
<1>2. Len(regions) = 0 /\ \A s \in Sessions : Len(got[s]) = 0
  BY <1>1
<1>3. TypeOK
  <2>1. regions \in Seq([Cells -> Part]) /\ \A s \in Sessions : got[s] \in Seq(Part \X Part)
    BY <1>1, EmptySeq
  <2>2. got \in [Sessions -> Seq(Part \X Part)]
    BY <2>1 DEF Init
  <2>3. loaded \in [Sessions -> Part]
    BY DEF Init, Part
  <2>4. 0 \in 0 .. LastSession /\ 0 \in 0 .. MaxMessages /\ 0 <= 2 * LastSession
    BY SharedMemoryAssumption
  <2>5. /\ token \in [Sessions -> 0 .. LastSession] /\ sent \in [Sessions -> 0 .. MaxMessages]
        /\ linked \in [Names -> 0 .. Len(regions)]
        /\ window \in [Sessions \X Ends -> [Windows -> 0 .. Len(regions)]]
    BY <1>2, <2>4 DEF Init
  <2>6. /\ phase \in [Sessions -> [Ends -> {"none", "initialised", "open", "closed", "crashed"}]]
        /\ pc \in [Sessions -> [Ends -> {"idle", "write", "read"}]]
        /\ step \in [Sessions -> [Ends -> 0 .. 3]]
        /\ current \in [Sessions \X Ends -> Windows]
        /\ live \subseteq Sessions \X Ends
    BY DEF Init, Windows
  <2> QED BY <1>1, <1>2, <2>1, <2>2, <2>3, <2>4, <2>5, <2>6 DEF Init, TypeOK
<1>4. \A s \in Sessions : ~Begun(s) /\ \A e \in Ends : ~Active(s, e) /\ ~Ended(s, e)
  BY <1>1, TwoEnds DEF Begun, Active, Ended
<1>5. PhaseInv /\ EntryInv /\ LinkInv /\ LeftInv
  BY <1>1, <1>4, TwoEnds DEF PhaseInv, EntryInv, LinkInv, LeftInv, Registered
<1>6. ASSUME NEW s \in Sessions PROVE InvOf(s)
  <2>1. LiveOf(s) /\ MapOf(s) /\ NamedOf(s) /\ StoreOf(s) /\ LoadOf(s)
    BY <1>1, <1>4, TwoEnds DEF LiveOf, MapOf, NamedOf, StoreOf, LoadOf
  <2>2. CountOf(s)
    BY <1>2, <1>4, SessionNumbers DEF CountOf
  <2>3. CallOf(s)
    <3>1. \A e \in Ends : Calls(s, e) = 0
      BY <1>1, <1>2 DEF Calls
    <3>2. 1 % 2 = 1
      OBVIOUS
    <3>3. WindowOf(s, 0 + 1) = "A"
      BY <3>2 DEF WindowOf
    <3> QED BY <1>1, <1>2, <1>3, <3>1, <3>3, DepthIs DEF CallOf
  <2>4. UnreadOf(s) /\ GotOf(s)
    BY <1>1, <1>2 DEF UnreadOf, GotOf
  <2> QED BY <2>1, <2>2, <2>3, <2>4 DEF InvOf
<1> QED BY <1>3, <1>5, <1>6 DEF IInv

\* A step that neither maps nor calls leaves what the calls rely on.
LEMMA CallsKept ==
  ASSUME TypeOK, NEW s \in Sessions, InvOf(s),
         UNCHANGED <<program, window, current, memoryVars, callVars, dataVars>>,
         Begun(s)', \A e \in Ends : Ended(s, e) <=> Ended(s, e)'
  PROVE  /\ MapOf(s)' /\ NamedOf(s)' /\ CallOf(s)' /\ UnreadOf(s)' /\ StoreOf(s)' /\ LoadOf(s)' /\ GotOf(s)'
         /\ (\A w \in Windows : ToMake(s, w)' <=> ToMake(s, w))
<1>1. MapOf(s)' /\ NamedOf(s)'
  BY TwoEnds DEF InvOf, MapOf, NamedOf, memoryVars, Name
<1>2. CallOf(s)'
  <2>1. Depth(s)' = Depth(s) /\ (\A e \in Ends : Calls(s, e)' = Calls(s, e)) /\ \A n : WriterOf(s, n)' = WriterOf(s, n)
    BY DEF Depth, Calls, WriterOf, dataVars
  <2>2. \A n : WindowOf(s, n)' = WindowOf(s, n)
    BY DEF WindowOf
  <2>3. \A e \in Ends : WindowOf(s, Calls(s, e) + 1)' = WindowOf(s, Calls(s, e) + 1)
    BY <2>1, <2>2
  <2> QED BY <2>1, <2>3 DEF InvOf, CallOf, callVars, dataVars
<1>3. UnreadOf(s)'
  <2>1. /\ \A e, w : Found(s, e, w)' = Found(s, e, w)
        /\ \A n, c : Written(s, n, c)' = Written(s, n, c)
        /\ \A n : WindowOf(s, n)' = WindowOf(s, n) /\ WriterOf(s, n)' = WriterOf(s, n)
    BY DEF Found, Written, WindowOf, WriterOf, Name, memoryVars
  <2>2. \A e, n : Found(s, e, WindowOf(s, n))' = Found(s, e, WindowOf(s, n))
    BY <2>1
  <2> QED BY <2>1, <2>2 DEF InvOf, UnreadOf, memoryVars, dataVars
<1>4. StoreOf(s)' /\ LoadOf(s)' /\ GotOf(s)'
  BY DEF InvOf, StoreOf, StoresOf, LoadOf, GotOf, Written, memoryVars, callVars, dataVars
<1>5. \A w \in Windows : ToMake(s, w)' <=> ToMake(s, w)
  BY DEF ToMake, Name, memoryVars
<1> QED BY <1>1, <1>2, <1>3, <1>4, <1>5

LEMMA InitOwnerStep ==
  ASSUME IInv, ~Overlapping, NEW s \in Sessions, InitOwner(s)
  PROVE  IInv'
<1>1. TypeOK /\ PhaseInv /\ EntryInv /\ LinkInv /\ LeftInv /\ InvOf(s)
  BY DEF IInv
<1>2. /\ phase[s]["owner"] = "none" /\ phase[s]["client"] = "none"
      /\ ~Begun(s) /\ \A r \in Sessions : r < s => Over(r)
  <2>1. \A r \in Sessions : r < s => r \in 1 .. s - 1
    BY SessionNumbers DEF Sessions
  <2>2. \A r \in Sessions : r < s => Over(r)
    BY <2>1 DEF InitOwner, MayBegin, Over
  <2> QED BY <1>1, <2>2 DEF InitOwner, PhaseInv, Begun
<1>3. \A r \in Sessions : r # s => Rest(r) /\ (s < r => ~Begun(r)) /\ (r < s => Over(r))
  <2>1. ~Over(s)
    BY <1>2, TwoEnds DEF Over, Ended
  <2>2. \A r \in Sessions : s < r => ~Begun(r)
    BY <1>1, <2>1 DEF PhaseInv
  <2> QED BY <1>2, <2>2, SessionNumbers DEF Rest
<1>4. /\ phase' = [phase EXCEPT ![s]["owner"] = "initialised"]
      /\ live' = live \cup {<<s, "owner">>}
      /\ UNCHANGED <<program, token, window, current, memoryVars, callVars, dataVars, sleepers>>
      /\ DOMAIN buffers' = {UsageId} /\ (~Registered(UsageId) => buffers'[UsageId] = s)
  <2>1. DOMAIN buffers \subseteq {UsageId}
    BY <1>1 DEF TypeOK
  <2>2. buffers' = [i \in DOMAIN buffers \cup {UsageId} |-> IF Registered(i) THEN buffers[i] ELSE s]
    BY DEF InitOwner, Emplace
  <2>3. DOMAIN buffers' = {UsageId} /\ (~Registered(UsageId) => buffers'[UsageId] = s)
    BY <2>1, <2>2
  <2> QED BY <2>3 DEF InitOwner
<1>5. /\ \A r \in Sessions, e \in Ends : phase'[r][e] = IF r = s /\ e = "owner" THEN "initialised" ELSE phase[r][e]
      /\ \A r \in Sessions, e \in Ends : <<r, e>> \in live' <=> <<r, e>> \in live \/ (r = s /\ e = "owner")
  BY <1>1, <1>4 DEF TypeOK
<1>6. TypeOK'
  <2>1. phase' \in [Sessions -> [Ends -> {"none", "initialised", "open", "closed", "crashed"}]]
    BY <1>1, <1>4 DEF TypeOK
  <2>2. live' \subseteq Sessions \X Ends
    BY <1>1, <1>4, TwoEnds DEF TypeOK
  <2> QED BY <1>1, <1>4, <2>1, <2>2 DEF TypeOK, memoryVars, callVars, dataVars
<1>7. /\ \A r \in Sessions : Over(r)' <=> Over(r)
      /\ \A r \in Sessions : Begun(r)' <=> Begun(r) \/ r = s
      /\ \A r \in Sessions, e \in Ends : Ended(r, e)' <=> Ended(r, e)
  <2>1. \A r \in Sessions, e \in Ends : Ended(r, e)' <=> Ended(r, e)
    BY <1>2, <1>5 DEF Ended
  <2>2. \A r \in Sessions : Begun(r)' <=> Begun(r) \/ r = s
    BY <1>5, TwoEnds DEF Begun
  <2> QED BY <2>1, <2>2 DEF Over
<1>8. PhaseInv'
  <2> SUFFICES ASSUME NEW r \in Sessions
               PROVE  /\ phase'[r]["client"] # "initialised"
                      /\ phase'[r]["client"] # "none" => Begun(r)'
                      /\ Begun(r)' => \A q \in Sessions : q < r => Over(q)'
    BY DEF PhaseInv
  <2> QED BY <1>1, <1>2, <1>5, <1>7, TwoEnds DEF PhaseInv
<1>9. \A r \in Sessions, e \in Ends : Active(r, e)' <=> r = s /\ e = "owner"
  BY <1>1, <1>2, <1>3, <1>5, RestIsQuiet, TwoEnds DEF Active
<1>10. EntryInv'
  <2>1. ~Registered(UsageId)
    <3>1. \A r \in Sessions : ~Active(r, "owner")
      BY <1>1, <1>2, <1>3, RestIsQuiet, TwoEnds DEF Rest
    <3> QED BY <1>1, <3>1 DEF EntryInv
  <2>2. Registered(UsageId)' /\ buffers'[UsageId] = s
    BY <1>4, <2>1 DEF Registered
  <2> QED BY <1>9, <2>2, TwoEnds DEF EntryInv
<1>11. LinkInv' /\ LeftInv'
  <2>1. \A r \in Sessions, e \in Ends : phase[r][e] = "crashed" => phase'[r][e] = "crashed"
    BY <1>2, <1>5
  <2>2. \A r, w : Name(r, w)' = Name(r, w)
    BY <1>4 DEF Name
  <2>3. LeftInv'
    <3>1. UNCHANGED <<linked, window>>
      BY <1>4 DEF memoryVars
    <3> QED BY <1>1, <2>1, <2>2, <3>1 DEF LeftInv
  <2> QED BY <1>1, <1>4, <2>3 DEF LinkInv, memoryVars
<1>12. ASSUME NEW r \in Sessions, r # s PROVE InvOf(r)'
  <2>1. Stays(r)
    BY <1>4, <1>5, <1>12 DEF Stays, callVars, dataVars
  <2>2. CountOf(r)'
    <3>1. r < s => Over(r)' /\ Begun(r)'
      BY <1>3, <1>7, <1>12, TwoEnds DEF Over, Ended, Begun
    <3>2. s < r => ~Begun(r)' /\ ~Over(s)'
      BY <1>2, <1>3, <1>7, <1>12, TwoEnds DEF Over, Ended
    <3> QED BY <1>12, <3>1, <3>2, SessionNumbers DEF CountOf
  <2> QED BY <1>1, <1>3, <1>12, <2>1, <2>2, RestStays DEF IInv
<1>13. InvOf(s)'
  <2>1. /\ MapOf(s)' /\ NamedOf(s)' /\ CallOf(s)' /\ UnreadOf(s)' /\ StoreOf(s)' /\ LoadOf(s)' /\ GotOf(s)'
    BY <1>1, <1>4, <1>7, CallsKept
  <2>2. LiveOf(s)'
    <3>1. \A e \in Ends : pc'[s][e] = pc[s][e] /\ \A w \in Windows : window'[<<s, e>>][w] = window[<<s, e>>][w]
      BY <1>4 DEF callVars
    <3>2. \A e \in Ends : pc[s][e] = "idle" /\ \A w \in Windows : window[<<s, e>>][w] = 0
      BY <1>1, <1>2, TwoEnds DEF InvOf, LiveOf
    <3>3. \A e \in Ends : <<s, e>> \in live' <=> Active(s, e)'
      BY <1>1, <1>2, <1>5, <1>9, TwoEnds DEF InvOf, LiveOf, Active
    <3>4. phase'[s]["owner"] # "open"
      BY <1>5, TwoEnds
    <3> QED BY <3>1, <3>2, <3>3, <3>4 DEF LiveOf
  <2>3. CountOf(s)'
    <3>1. Len(regions) <= 2 * (s - 1)
      BY <1>1, <1>2 DEF InvOf, CountOf
    <3>2. One(ToMake(s, "A"))' \in {0, 1} /\ One(ToMake(s, "B"))' \in {0, 1}
      BY DEF One
    <3>3. Len(regions') = Len(regions) /\ Len(regions) \in Nat
      BY <1>1, <1>4, LenIsNat DEF memoryVars
    <3>4. Len(regions') + One(ToMake(s, "A"))' + One(ToMake(s, "B"))' <= 2 * s
      BY <3>1, <3>2, <3>3, SessionNumbers
    <3> QED BY <3>4, <1>7 DEF CountOf
  <2> QED BY <2>1, <2>2, <2>3 DEF InvOf
<1> QED BY <1>6, <1>8, <1>10, <1>11, <1>12, <1>13 DEF IInv

\* A step that moves an end of an active session on to "open" and no more.
LEMMA OpenStep ==
  ASSUME IInv, NEW s \in Sessions, Begun(s), ~Over(s), NEW e \in Ends,
         ~Ended(s, e), e = "client" => phase[s][e] = "none",
         phase' = [phase EXCEPT ![s][e] = "open"],
         live' = live \cup {<<s, e>>}, Active(s, "owner") \/ e = "client",
         token' \in [Sessions -> 0 .. LastSession],
         \A r \in Sessions : r # s => token'[r] = token[r],
         phase'[s]["owner"] = "open" => token'[s] = s,
         UNCHANGED <<program, window, current, memoryVars, callVars, dataVars, registry>>
  PROVE  IInv'
<1>1. TypeOK /\ PhaseInv /\ EntryInv /\ LinkInv /\ LeftInv /\ InvOf(s)
  BY DEF IInv
<1>2. /\ \A r \in Sessions, f \in Ends : phase'[r][f] = IF r = s /\ f = e THEN "open" ELSE phase[r][f]
      /\ \A r \in Sessions, f \in Ends : <<r, f>> \in live' <=> <<r, f>> \in live \/ (r = s /\ f = e)
  BY <1>1 DEF TypeOK
<1>3. TypeOK'
  <2>1. phase' \in [Sessions -> [Ends -> {"none", "initialised", "open", "closed", "crashed"}]]
    BY <1>1 DEF TypeOK
  <2>2. live' \subseteq Sessions \X Ends
    BY <1>1 DEF TypeOK
  <2> QED BY <1>1, <2>1, <2>2 DEF TypeOK, memoryVars, callVars, dataVars, registry
<1>4. /\ \A r \in Sessions, f \in Ends : Ended(r, f)' <=> Ended(r, f)
      /\ \A r \in Sessions : Over(r)' <=> Over(r)
  <2>1. \A r \in Sessions, f \in Ends : Ended(r, f)' <=> Ended(r, f)
    BY <1>2 DEF Ended
  <2> QED BY <2>1 DEF Over
<1>5. Begun(s)' /\ ~Over(s)' /\ phase'[s]["client"] # "initialised"
  BY <1>1, <1>2, <1>4, TwoEnds DEF Begun, PhaseInv
<1>6. \A r \in Sessions : r # s => Stays(r)
  BY <1>2 DEF Stays, callVars, dataVars
<1>7. PhaseInv' /\ \A r \in Sessions : r # s => InvOf(r)'
  BY <1>5, <1>6, OthersStay
<1>8. \A r \in Sessions : Active(r, "owner")' <=> Active(r, "owner")
  BY <1>2, TwoEnds DEF Active
<1>9. EntryInv'
  BY <1>1, <1>8 DEF EntryInv, Registered, registry
<1>10. LinkInv' /\ LeftInv'
  <2>1. \A r \in Sessions, f \in Ends : phase[r][f] = "crashed" => phase'[r][f] = "crashed"
    BY <1>2 DEF Ended
  <2>2. linked' = linked /\ window' = window
    BY DEF memoryVars
  <2>3. \A r, w : Name(r, w)' = Name(r, w)
    BY DEF Name
  <2>4. LeftInv'
    <3> SUFFICES ASSUME NEW n \in Names, linked[n] # 0
                 PROVE  \/ \E r \in Sessions, f \in Ends : phase'[r][f] = "crashed"
                        \/ \E r \in Sessions, f \in Ends, w \in Windows : n = Name(r, w) /\ window[<<r, f>>][w] # 0
      BY <2>2, <2>3 DEF LeftInv
    <3> QED BY <1>1, <2>1 DEF LeftInv
  <2> QED BY <1>1, <2>2, <2>4 DEF LinkInv
<1>11. InvOf(s)'
  <2>1. /\ MapOf(s)' /\ NamedOf(s)' /\ CallOf(s)' /\ UnreadOf(s)' /\ StoreOf(s)' /\ LoadOf(s)' /\ GotOf(s)'
        /\ \A w \in Windows : ToMake(s, w)' <=> ToMake(s, w)
    BY <1>1, <1>4, <1>5, CallsKept
  <2>2. LiveOf(s)'
    <3>1. \A f \in Ends : pc'[s][f] = pc[s][f] /\ \A w \in Windows : window'[<<s, f>>][w] = window[<<s, f>>][w]
      BY DEF callVars
    <3>2. \A f \in Ends : phase[s][f] = "open" => phase'[s][f] = "open"
      BY <1>2
    <3>3. \A f \in Ends : <<s, f>> \in live' <=> Active(s, f)'
      BY <1>1, <1>2 DEF InvOf, LiveOf, Active
    <3> QED BY <1>1, <3>1, <3>2, <3>3 DEF InvOf, LiveOf
  <2>3. CountOf(s)'
    <3>1. One(ToMake(s, "A"))' = One(ToMake(s, "A")) /\ One(ToMake(s, "B"))' = One(ToMake(s, "B"))
      BY <2>1, TwoWindows DEF One
    <3> QED BY <1>1, <1>5, <3>1 DEF InvOf, CountOf, memoryVars
  <2> QED BY <2>1, <2>2, <2>3 DEF InvOf
<1> QED BY <1>3, <1>7, <1>9, <1>10, <1>11 DEF IInv

LEMMA GetOwnerTokenStep ==
  ASSUME IInv, NEW s \in Sessions, GetOwnerToken(s)
  PROVE  IInv'
<1>1. TypeOK /\ PhaseInv /\ EntryInv /\ InvOf(s) /\ "owner" \in Ends
  BY TwoEnds DEF IInv
<1>2. Active(s, "owner") /\ Begun(s) /\ ~Over(s) /\ ~Ended(s, "owner")
  BY <1>1, ActiveBegan DEF GetOwnerToken, Active
<1>3. buffers[UsageId] = s /\ <<s, "owner">> \in live
  BY <1>1, <1>2 DEF EntryInv, InvOf, LiveOf
<1>4. token' = [token EXCEPT ![s] = s] /\ live' = live \cup {<<s, "owner">>}
  BY <1>3 DEF GetOwnerToken, objectVars
<1>5. /\ token' \in [Sessions -> 0 .. LastSession] /\ token'[s] = s
      /\ \A r \in Sessions : r # s => token'[r] = token[r]
  BY <1>1, <1>4, SessionNumbers DEF TypeOK
<1>6. UNCHANGED <<program, window, current, memoryVars, callVars, dataVars, registry>>
  BY DEF GetOwnerToken, objectVars
<1>7. phase' = [phase EXCEPT ![s]["owner"] = "open"]
  BY DEF GetOwnerToken
<1> QED BY <1>1, <1>2, <1>4, <1>5, <1>6, <1>7, OpenStep

LEMMA InitClientStep ==
  ASSUME IInv, NEW s \in Sessions, InitClient(s)
  PROVE  IInv'
<1>1. TypeOK /\ PhaseInv /\ InvOf(s) /\ "client" \in Ends
  BY TwoEnds DEF IInv
<1>2. Begun(s) /\ ~Over(s) /\ ~Ended(s, "client")
  BY <1>1 DEF InitClient, Begun, Over, Ended
<1>3. phase'[s]["owner"] = "open" => token'[s] = s
  <2>1. phase'[s]["owner"] = phase[s]["owner"]
    BY <1>1, TwoEnds DEF InitClient, TypeOK
  <2> QED BY <1>1, <2>1 DEF InitClient, InvOf, LiveOf
<1>4. token' \in [Sessions -> 0 .. LastSession] /\ \A r \in Sessions : r # s => token'[r] = token[r]
  BY <1>1 DEF InitClient, TypeOK
<1>5. /\ UNCHANGED <<program, window, current, memoryVars, callVars, dataVars, registry>>
      /\ phase' = [phase EXCEPT ![s]["client"] = "open"] /\ live' = live \cup {<<s, "client">>}
      /\ phase[s]["client"] = "none"
  BY DEF InitClient
<1> QED BY <1>1, <1>2, <1>3, <1>4, <1>5, OpenStep

-----------------------------------------------------------------------------
(* Mapping a window *)

\* What an end's window is mapped to after MapWindow.
Mapped(s, e, w) == IF Found(s, e, w) # 0 THEN Found(s, e, w) ELSE Len(regions) + 1

\* The effect of MapWindow on a window w.
MapsIt(s, e, w) ==
    /\ window' \in [Sessions \X Ends -> [Windows -> 0 .. Len(regions')]]
    /\ linked' \in [Names -> 0 .. Len(regions')]
    /\ regions' \in Seq([Cells -> Part])
    /\ window'[<<s, e>>][w] = Mapped(s, e, w)
    /\ \A r \in Sessions, f \in Ends, v \in Windows :
           r # s \/ f # e \/ v # w => window'[<<r, f>>][v] = window[<<r, f>>][v]
    /\ Found(s, e, w) # 0 => regions' = regions /\ linked' = linked
    /\ Found(s, e, w) = 0 => /\ Len(regions') = Len(regions) + 1
                             /\ \A i \in 1 .. Len(regions) : regions'[i] = regions[i]
                             /\ linked' = [linked EXCEPT ![Name(s, w)] = Len(regions) + 1]

LEMMA MapWindowIs ==
  ASSUME IInv, NEW s \in Sessions, NEW e \in Ends, phase[s][e] = "open", MapWindow(s, e),
         NEW w \in Windows, w = current[<<s, e>>]
  PROVE  MapsIt(s, e, w)
<1>1. TypeOK /\ Object(s, e) = <<s, e>> /\ Name(s, w) \in Names
  BY OwnObject, NamesDiffer DEF IInv
<1>2. /\ window \in [Sessions \X Ends -> [Windows -> 0 .. Len(regions)]]
      /\ linked \in [Names -> 0 .. Len(regions)]
      /\ regions \in Seq([Cells -> Part]) /\ Len(regions) \in Nat
  BY <1>1, LenIsNat DEF TypeOK
<1>3. \/ window[<<s, e>>][w] # 0 /\ UNCHANGED <<window, linked, regions>>
      \/ /\ window[<<s, e>>][w] = 0 /\ linked[Name(s, w)] # 0
         /\ window' = [window EXCEPT ![<<s, e>>][w] = linked[Name(s, w)]]
         /\ UNCHANGED <<linked, regions>>
      \/ /\ window[<<s, e>>][w] = 0 /\ linked[Name(s, w)] = 0
         /\ regions' = Append(regions, [c \in Cells |-> Blank])
         /\ linked' = [linked EXCEPT ![Name(s, w)] = Len(regions) + 1]
         /\ window' = [window EXCEPT ![<<s, e>>][w] = Len(regions) + 1]
  BY <1>1 DEF MapWindow
<1>4. CASE window[<<s, e>>][w] # 0 /\ UNCHANGED <<window, linked, regions>>
  BY <1>2, <1>4 DEF MapsIt, Found, Mapped
<1>5. CASE /\ window[<<s, e>>][w] = 0 /\ linked[Name(s, w)] # 0
           /\ window' = [window EXCEPT ![<<s, e>>][w] = linked[Name(s, w)]]
           /\ UNCHANGED <<linked, regions>>
  <2>1. Found(s, e, w) = linked[Name(s, w)] /\ Mapped(s, e, w) = linked[Name(s, w)]
    BY <1>5 DEF Found, Mapped
  <2>2. linked[Name(s, w)] \in 0 .. Len(regions)
    BY <1>1, <1>2
  <2> QED BY <1>2, <1>5, <2>1, <2>2 DEF MapsIt
<1>6. CASE /\ window[<<s, e>>][w] = 0 /\ linked[Name(s, w)] = 0
           /\ regions' = Append(regions, [c \in Cells |-> Blank])
           /\ linked' = [linked EXCEPT ![Name(s, w)] = Len(regions) + 1]
           /\ window' = [window EXCEPT ![<<s, e>>][w] = Len(regions) + 1]
  <2>1. Found(s, e, w) = 0 /\ Mapped(s, e, w) = Len(regions) + 1
    BY <1>6 DEF Found, Mapped
  <2>2. [c \in Cells |-> Blank] \in [Cells -> Part]
    BY DEF Part
  <2>3. /\ regions' \in Seq([Cells -> Part]) /\ Len(regions') = Len(regions) + 1
        /\ \A i \in 1 .. Len(regions) : regions'[i] = regions[i]
    BY <1>2, <1>6, <2>2, AppendProperties
  <2>4. 0 .. Len(regions) \subseteq 0 .. Len(regions') /\ Len(regions) + 1 \in 0 .. Len(regions')
    BY <1>2, <2>3
  <2>5. /\ window' \in [Sessions \X Ends -> [Windows -> 0 .. Len(regions')]]
        /\ linked' \in [Names -> 0 .. Len(regions')]
    <3>1. linked \in [Names -> 0 .. Len(regions')] /\ window \in [Sessions \X Ends -> [Windows -> 0 .. Len(regions')]]
      BY <1>2, <2>4
    <3> HIDE <1>2
    <3> QED BY <1>6, <2>4, <3>1
  <2>6. /\ window'[<<s, e>>][w] = Mapped(s, e, w)
         /\ \A r \in Sessions, f \in Ends, v \in Windows :
               r # s \/ f # e \/ v # w => window'[<<r, f>>][v] = window[<<r, f>>][v]
    BY <1>2, <1>6, <2>1
  <2> QED BY <1>6, <2>1, <2>3, <2>5, <2>6 DEF MapsIt
<1> QED BY <1>3, <1>4, <1>5, <1>6

\* An end finds the same regions whichever end maps a window, and the ends agree.
LEMMA MapKeeps ==
  ASSUME IInv, NEW s \in Sessions, NEW e \in Ends, phase[s][e] = "open", MapWindow(s, e),
         NEW w \in Windows, w = current[<<s, e>>], UNCHANGED <<program, phase>>
  PROVE  /\ MapOf(s)' /\ NamedOf(s)' /\ LinkInv' /\ LeftInv'
         /\ \A f \in Ends, v \in Windows : ~Ended(s, f) /\ Found(s, f, v) # 0 => Found(s, f, v)' = Found(s, f, v)
         /\ ToMake(s, w) <=> Found(s, e, w) = 0
         /\ ~ToMake(s, w)'
         /\ \A v \in Windows : v # w => (ToMake(s, v)' <=> ToMake(s, v))
<1>1. TypeOK /\ LinkInv /\ LeftInv /\ MapOf(s) /\ NamedOf(s) /\ ~Ended(s, e)
  BY DEF IInv, InvOf, Ended
<1>2. /\ Name(s, w) \in Names /\ \A v \in Windows : Name(s, v) \in Names /\ (Name(s, v) = Name(s, w) => v = w)
      /\ \A v \in Windows : Name(s, v)' = Name(s, v)
      /\ Len(regions) \in Nat
      /\ \A n \in Names : linked[n] \in 0 .. Len(regions)
      /\ \A f \in Ends, v \in Windows : window[<<s, f>>][v] \in 0 .. Len(regions)
  BY <1>1, NamesDiffer, LenIsNat, FoundIsRegion DEF Name, TypeOK
<1>3. /\ window'[<<s, e>>][w] = Mapped(s, e, w)
      /\ \A r \in Sessions, f \in Ends, v \in Windows :
               r # s \/ f # e \/ v # w => window'[<<r, f>>][v] = window[<<r, f>>][v]
      /\ Found(s, e, w) # 0 => regions' = regions /\ linked' = linked
      /\ Found(s, e, w) = 0 => \A n \in Names : linked'[n] = IF n = Name(s, w) THEN Len(regions) + 1 ELSE linked[n]
  <2>1. /\ window'[<<s, e>>][w] = Mapped(s, e, w)
        /\ \A r \in Sessions, f \in Ends, v \in Windows :
               r # s \/ f # e \/ v # w => window'[<<r, f>>][v] = window[<<r, f>>][v]
        /\ Found(s, e, w) # 0 => regions' = regions /\ linked' = linked
        /\ Found(s, e, w) = 0 => linked' = [linked EXCEPT ![Name(s, w)] = Len(regions) + 1]
    <3>1. MapsIt(s, e, w)
      BY MapWindowIs
    <3> QED BY <3>1 DEF MapsIt
  <2>2. linked \in [Names -> 0 .. Len(regions)]
    BY <1>1 DEF TypeOK
  <2> QED BY <2>1, <2>2
<1>4. /\ \A f \in Ends : Ended(s, f)' <=> Ended(s, f)
      /\ Mapped(s, e, w) # 0 /\ window'[<<s, e>>][w] = Mapped(s, e, w)
  BY <1>2, <1>3 DEF Ended, Mapped
<1>5. window[<<s, Peer(e)>>][w] \in {0, Mapped(s, e, w)}
  <2>1. CASE window[<<s, e>>][w] # 0
    BY <1>1, <2>1 DEF MapOf, Found, Mapped
  <2>2. CASE window[<<s, e>>][w] = 0
    BY <1>1, <2>2, TwoEnds DEF MapOf, Found, Mapped
  <2> QED BY <2>1, <2>2
<1>6. \A v \in Windows : ToMake(s, v) <=> linked[Name(s, v)] = 0 /\ window[<<s, e>>][v] = 0 /\ window[<<s, Peer(e)>>][v] = 0
  BY TwoEnds DEF ToMake
<1>7. ToMake(s, w) <=> Found(s, e, w) = 0
  BY <1>5, <1>6, <1>2, TwoEnds DEF Found, Mapped
<1>8. ~ToMake(s, w)'
  BY <1>4 DEF ToMake
<1>9. \A v \in Windows : v # w => /\ linked'[Name(s, v)] = linked[Name(s, v)]
                                  /\ \A f \in Ends : window'[<<s, f>>][v] = window[<<s, f>>][v]
  BY <1>2, <1>3
<1>10. \A v \in Windows : v # w => (ToMake(s, v)' <=> ToMake(s, v))
  BY <1>2, <1>9 DEF ToMake
<1>11. LinkInv'
  BY <1>1, <1>2, <1>3 DEF LinkInv
<1>12. LeftInv'
  <2> SUFFICES ASSUME NEW n \in Names, linked'[n] # 0
               PROVE  \/ \E r \in Sessions, f \in Ends : phase[r][f] = "crashed"
                      \/ \E r \in Sessions, f \in Ends, v \in Windows : n = Name(r, v) /\ window'[<<r, f>>][v] # 0
    BY DEF LeftInv, Name
  <2>1. CASE n = Name(s, w)
    BY <2>1, <1>4
  <2>2. CASE n # Name(s, w)
    <3>1. linked[n] # 0
      BY <2>2, <1>3
    <3>2. \A r \in Sessions, f \in Ends, v \in Windows : window[<<r, f>>][v] # 0 => window'[<<r, f>>][v] # 0
      BY <1>3, <1>4
    <3> QED BY <1>1, <3>1, <3>2 DEF LeftInv
  <2> QED BY <2>1, <2>2
<1>13. ASSUME NEW f \in Ends, NEW v \in Windows, ~Ended(s, f), Found(s, f, v) # 0
       PROVE  Found(s, f, v)' = Found(s, f, v)
  <2>1. CASE v # w
    BY <2>1, <1>2, <1>9 DEF Found
  <2>2. CASE v = w /\ f = e
    BY <2>2, <1>2, <1>4, <1>13 DEF Found, Mapped
  <2>3. CASE v = w /\ f # e
    <3>1. f = Peer(e) /\ window'[<<s, f>>][w] = window[<<s, f>>][w]
      BY <2>3, <1>3, TwoEnds
    <3>2. window[<<s, f>>][w] = 0 => linked'[Name(s, w)] = linked[Name(s, w)]
      BY <2>3, <3>1, <1>3, <1>13 DEF Found
    <3> QED BY <2>3, <1>2, <3>1, <3>2 DEF Found
  <2> QED BY <2>1, <2>2, <2>3
<1>14. MapOf(s)'
  <2> SUFFICES ASSUME NEW f \in Ends, NEW v \in Windows, window'[<<s, f>>][v] # 0
               PROVE  /\ window'[<<s, Peer(f)>>][v] \in {0, window'[<<s, f>>][v]}
                      /\ window'[<<s, Peer(f)>>][v] = 0 /\ ~Ended(s, Peer(f)) =>
                             linked'[Name(s, v)] = window'[<<s, f>>][v]
    BY <1>2, <1>4, TwoEnds DEF MapOf
  <2>1. CASE v # w
    BY <2>1, <1>1, <1>9, TwoEnds DEF MapOf
  <2>2. CASE v = w /\ f = e
    <3>1. window'[<<s, Peer(e)>>][w] = window[<<s, Peer(e)>>][w]
      BY <1>3, TwoEnds
    <3>2. window[<<s, Peer(e)>>][w] = 0 /\ ~Ended(s, Peer(e)) => linked'[Name(s, w)] = Mapped(s, e, w)
      <4>1. CASE window[<<s, e>>][w] # 0
        BY <4>1, <1>1, <1>3 DEF MapOf, Found, Mapped
      <4>2. CASE window[<<s, e>>][w] = 0
        BY <4>2, <1>2, <1>3 DEF Found, Mapped
      <4> QED BY <4>1, <4>2
    <3> QED BY <2>2, <3>1, <3>2, <1>4, <1>5
  <2>3. CASE v = w /\ f = Peer(e)
    <3>1. window'[<<s, f>>][w] = window[<<s, f>>][w]
      BY <2>3, <1>3, TwoEnds
    <3> QED BY <2>3, <3>1, <1>4, <1>5, TwoEnds
  <2> QED BY <2>1, <2>2, <2>3, TwoEnds
<1>15. NamedOf(s)'
  <2>1. ASSUME NEW v \in Windows, v # w
        PROVE  window[<<s, e>>][v] # Mapped(s, e, w)
    <3>1. CASE Found(s, e, w) = 0
      BY <3>1, <1>2 DEF Mapped
    <3>2. CASE Found(s, e, w) # 0 /\ window[<<s, e>>][v] # 0
      BY <3>2, <2>1, <1>1, RegionsApart DEF Mapped
    <3>3. CASE window[<<s, e>>][v] = 0
      BY <3>3, <1>4
    <3> QED BY <3>1, <3>2, <3>3
  <2>2. \A n \in Names : linked'[n] = Mapped(s, e, w) => n = Name(s, w)
    <3>1. CASE Found(s, e, w) = 0
      BY <3>1, <1>2, <1>3 DEF Mapped
    <3>2. CASE Found(s, e, w) # 0 /\ window[<<s, e>>][w] # 0
      BY <3>2, <1>1, <1>3 DEF Mapped, Found, NamedOf
    <3>3. CASE Found(s, e, w) # 0 /\ window[<<s, e>>][w] = 0
      BY <3>3, <1>1, <1>2, <1>3 DEF Mapped, Found, LinkInv
    <3> QED BY <3>1, <3>2, <3>3
  <2>3. \A n \in Names, f \in Ends, v \in Windows :
            window[<<s, f>>][v] # 0 /\ linked'[n] = window[<<s, f>>][v] => n = Name(s, v)
    BY <1>1, <1>2, <1>3 DEF NamedOf
  <2> SUFFICES ASSUME NEW f \in Ends, NEW v \in Windows, window'[<<s, f>>][v] # 0
               PROVE  /\ \A n \in Names : linked'[n] = window'[<<s, f>>][v] => n = Name(s, v)
                      /\ \A u \in Windows : window'[<<s, f>>][u] = window'[<<s, f>>][v] => u = v
    BY <1>2 DEF NamedOf
  <2>4. CASE f = e /\ v = w
    BY <2>4, <2>1, <2>2, <1>3
  <2>5. CASE f = e /\ v # w
    <3>1. window'[<<s, f>>][v] = window[<<s, f>>][v]
      BY <2>5, <1>3
    <3>2. ASSUME NEW u \in Windows, window'[<<s, f>>][u] = window'[<<s, f>>][v]
          PROVE  u = v
      <4>1. u # w
        BY <3>1, <3>2, <2>1, <2>5, <1>3
      <4>2. window'[<<s, f>>][u] = window[<<s, f>>][u]
        BY <4>1, <1>3
      <4> QED BY <3>1, <3>2, <4>2, <1>1 DEF NamedOf
    <3> QED BY <3>1, <3>2, <2>3
  <2>6. CASE f # e
    <3>1. \A u \in Windows : window'[<<s, f>>][u] = window[<<s, f>>][u]
      BY <2>6, <1>3
    <3> QED BY <3>1, <2>3, <1>1 DEF NamedOf
  <2> QED BY <2>4, <2>5, <2>6
<1> QED BY <1>7, <1>8, <1>10, <1>11, <1>12, <1>13, <1>14, <1>15

LEMMA BeginStep ==
  ASSUME IInv, NEW s \in Sessions, NEW e \in Ends, Free(s, e), NEW call \in {"write", "read"}, Begin(s, e, call),
         call = "write" => /\ sent[s] < MaxMessages /\ WriterOf(s, sent[s] + 1) = e
                           /\ sent[s] - Len(got[s]) < Depth(s),
         call = "read" => Len(got[s]) < sent[s] /\ WriterOf(s, Len(got[s]) + 1) = Peer(e)
  PROVE  IInv'
<1>1. /\ TypeOK /\ PhaseInv /\ EntryInv /\ LinkInv /\ LeftInv /\ InvOf(s)
      /\ phase[s][e] = "open" /\ pc[s][e] = "idle" /\ Begun(s) /\ ~Over(s)
  <2>1. phase[s][e] = "open" /\ pc[s][e] = "idle"
    BY DEF Free
  <2> QED BY <2>1, ActiveBegan DEF IInv, Active
<1>2. PICK w \in Windows : w = current[<<s, e>>]
  BY <1>1 DEF TypeOK
<1>3. MapsIt(s, e, w) /\ MapWindow(s, e)
  BY <1>1, <1>2, MapWindowIs DEF Begin
<1>4. /\ UNCHANGED <<program, phase, token, live, current, loaded, sent, got, buffers, sleepers>>
      /\ pc' = [pc EXCEPT ![s][e] = call] /\ step' = [step EXCEPT ![s][e] = 0]
  BY DEF Begin, dataVars, registry
<1>5. /\ MapOf(s)' /\ NamedOf(s)' /\ LinkInv' /\ LeftInv'
      /\ \A f \in Ends, v \in Windows : ~Ended(s, f) /\ Found(s, f, v) # 0 => Found(s, f, v)' = Found(s, f, v)
      /\ ToMake(s, w) <=> Found(s, e, w) = 0
      /\ ~ToMake(s, w)'
      /\ \A v \in Windows : v # w => (ToMake(s, v)' <=> ToMake(s, v))
  BY <1>1, <1>2, <1>3, <1>4, MapKeeps
<1>6. /\ Len(regions) \in Nat
      /\ Found(s, e, w) # 0 => Len(regions') = Len(regions)
      /\ Found(s, e, w) = 0 => Len(regions') = Len(regions) + 1
      /\ \A i \in 1 .. Len(regions) : regions'[i] = regions[i]
      /\ \A f \in Ends, v \in Windows : f # e \/ v # w => window'[<<s, f>>][v] = window[<<s, f>>][v]
      /\ window'[<<s, e>>][w] # 0
  BY <1>1, <1>3, LenIsNat DEF MapsIt, Mapped
<1>7. Len(regions') + One(ToMake(s, "A"))' + One(ToMake(s, "B"))' <= 2 * s /\ Len(regions') <= 2 * LastSession
  <2>1. Len(regions) + One(ToMake(s, "A")) + One(ToMake(s, "B")) <= 2 * s
    BY <1>1 DEF InvOf, CountOf
  <2>2. /\ w = "A" => One(ToMake(s, "B"))' = One(ToMake(s, "B"))
        /\ w = "B" => One(ToMake(s, "A"))' = One(ToMake(s, "A"))
        /\ w = "A" => One(ToMake(s, "A"))' = 0 /\ One(ToMake(s, "A")) = IF Found(s, e, w) = 0 THEN 1 ELSE 0
        /\ w = "B" => One(ToMake(s, "B"))' = 0 /\ One(ToMake(s, "B")) = IF Found(s, e, w) = 0 THEN 1 ELSE 0
    BY <1>5, TwoWindows DEF One
  <2>3. One(ToMake(s, "A"))' \in {0, 1} /\ One(ToMake(s, "B"))' \in {0, 1}
    BY DEF One
  <2> HIDE <1>1, <1>3, <1>5
  <2> QED BY <2>1, <2>2, <2>3, <1>2, <1>6, TwoWindows, SessionNumbers
<1>8. TypeOK'
  <2>1. pc' \in [Sessions -> [Ends -> {"idle", "write", "read"}]] /\ step' \in [Sessions -> [Ends -> 0 .. 3]]
    BY <1>1, <1>4 DEF TypeOK
  <2>2. /\ window' \in [Sessions \X Ends -> [Windows -> 0 .. Len(regions')]]
        /\ linked' \in [Names -> 0 .. Len(regions')]
        /\ regions' \in Seq([Cells -> Part])
    BY <1>3 DEF MapsIt
  <2> QED BY <1>1, <1>4, <1>7, <2>1, <2>2 DEF TypeOK
<1>9. /\ \A f \in Ends : pc'[s][f] = IF f = e THEN call ELSE pc[s][f]
      /\ \A f \in Ends : step'[s][f] = IF f = e THEN 0 ELSE step[s][f]
      /\ \A r \in Sessions, f \in Ends : r # s => pc'[r][f] = pc[r][f] /\ step'[r][f] = step[r][f]
  BY <1>1, <1>4 DEF TypeOK
<1>10. PhaseInv' /\ \A r \in Sessions : r # s => InvOf(r)'
  <2>1. \A r \in Sessions : r # s => Stays(r)
    BY <1>3, <1>4, <1>9 DEF MapsIt, Stays
  <2>2. Begun(s)' /\ ~Over(s)' /\ phase'[s]["client"] # "initialised"
    BY <1>1, <1>4 DEF Begun, Over, Ended, PhaseInv
  <2> QED BY <1>1, <2>1, <2>2, OthersStay
<1>11. EntryInv'
  BY <1>1, <1>4 DEF EntryInv, Registered, Active
<1>12. LiveOf(s)'
  <2>1. \A f \in Ends : pc'[s][f] # "idle" => phase[s][f] = "open"
    BY <1>1, <1>9 DEF InvOf, LiveOf
  <2>2. \A f \in Ends, v \in Windows : window'[<<s, f>>][v] # 0 => phase[s][f] = "open"
    BY <1>1, <1>6 DEF InvOf, LiveOf
  <2> QED BY <1>1, <1>4, <2>1, <2>2 DEF InvOf, LiveOf, Active
<1>13. CountOf(s)'
  BY <1>1, <1>4, <1>7 DEF CountOf, Begun
<1>14. CallOf(s)'
  <2>1. /\ Depth(s)' = Depth(s)
        /\ \A n : WriterOf(s, n)' = WriterOf(s, n)
        /\ \A n : WindowOf(s, n)' = WindowOf(s, n)
        /\ \A f \in Ends : Calls(s, f)' = Calls(s, f)
    BY <1>4 DEF Depth, WriterOf, WindowOf, Calls
  <2>2. \A f \in Ends : current'[<<s, f>>] = WindowOf(s, Calls(s, f) + 1)'
    BY <1>1, <1>4, <2>1 DEF InvOf, CallOf
  <2>3. \A f \in Ends : pc'[s][f] # "idle" => window'[<<s, f>>][current[<<s, f>>]] # 0
    <3>1. \A f \in Ends : current[<<s, f>>] \in Windows
      BY <1>1 DEF TypeOK
    <3> QED BY <1>1, <1>2, <1>6, <1>9, <3>1 DEF InvOf, CallOf
  <2>4. \A f \in Ends : pc'[s][f] = "write" => /\ sent[s] < MaxMessages /\ WriterOf(s, sent[s] + 1) = f
                                               /\ sent[s] - Len(got[s]) < Depth(s)
    BY <1>1, <1>9 DEF InvOf, CallOf
  <2>5. \A f \in Ends : pc'[s][f] = "read" => Len(got[s]) < sent[s] /\ WriterOf(s, Len(got[s]) + 1) = Peer(f)
    BY <1>1, <1>9 DEF InvOf, CallOf
  <2> QED BY <1>1, <1>4, <2>1, <2>2, <2>3, <2>4, <2>5 DEF InvOf, CallOf, Begun
<1>15. UnreadOf(s)'
  <2> SUFFICES ASSUME NEW f \in Ends, ~Ended(s, f), NEW n \in Len(got[s]) + 1 .. sent[s], WriterOf(s, n) = Peer(f)
               PROVE  /\ Found(s, f, WindowOf(s, n))' # 0
                      /\ \A c \in Cells : regions'[Found(s, f, WindowOf(s, n))'][c] = Written(s, n, c)
    BY <1>4, ZenonT(30) DEF UnreadOf, Ended, WriterOf, WindowOf, Written
  <2>1. PICK v \in Windows : v = WindowOf(s, n)
    BY TwoWindows
  <2>2. Found(s, f, v) # 0 /\ \A c \in Cells : regions[Found(s, f, v)][c] = Written(s, n, c)
    BY <1>1, <2>1 DEF InvOf, UnreadOf
  <2>3. Found(s, f, v)' = Found(s, f, v) /\ WindowOf(s, n)' = v
    <3>1. Found(s, f, v)' = Found(s, f, v)
      BY <1>5, <2>2
    <3>2. WindowOf(s, n)' = WindowOf(s, n)
      BY <1>4 DEF WindowOf
    <3> QED BY <2>1, <3>1, <3>2
  <2>4. Found(s, f, v) \in 1 .. Len(regions)
    <3>1. Found(s, f, v) \in 0 .. Len(regions)
      BY <1>1, FoundIsRegion
    <3> QED BY <3>1, <1>6, <2>2
  <2>5. regions'[Found(s, f, v)] = regions[Found(s, f, v)]
    BY <1>6, <2>4
  <2> QED BY <2>1, <2>2, <2>3, <2>5
<1>16. StoreOf(s)'
  <2>1. StoresOf(s)' = StoresOf(s) /\ Len(StoresOf(s)) \in {2, 3}
    BY <1>1, <1>4, StoresAre, ProgramFields DEF StoresOf
  <2> SUFFICES ASSUME NEW f \in Ends, pc'[s][f] = "write"
               PROVE  /\ step'[s][f] < Len(StoresOf(s))
                      /\ Stored(regions'[window'[<<s, f>>][current[<<s, f>>]]], StoresOf(s), step'[s][f], s, sent[s] + 1)
    BY <1>4, <2>1 DEF StoreOf
  <2>3. CASE f = e
    <3>1. step'[s][f] = 0
      BY <2>3, <1>9
    <3>2. 0 < Len(StoresOf(s))
      BY <2>1
    <3>3. Stored(regions'[window'[<<s, f>>][current[<<s, f>>]]], StoresOf(s), 0, s, sent[s] + 1)
      BY DEF Stored
    <3> QED BY <3>1, <3>2, <3>3
  <2>4. CASE f # e
    <3>1. pc[s][f] = "write" /\ step'[s][f] = step[s][f]
      BY <2>4, <1>9
    <3>2. PICK v \in Windows : v = current[<<s, f>>]
      BY <1>1 DEF TypeOK
    <3>3. window'[<<s, f>>][v] = window[<<s, f>>][v] /\ window[<<s, f>>][v] \in 1 .. Len(regions)
      <4>1. window[<<s, f>>][v] # 0
        BY <1>1, <3>1, <3>2 DEF InvOf, CallOf
      <4>2. window[<<s, f>>][v] \in 0 .. Len(regions)
        BY <1>1, FoundIsRegion
      <4> QED BY <4>1, <4>2, <1>6, <2>4
    <3>4. regions'[window[<<s, f>>][v]] = regions[window[<<s, f>>][v]]
      BY <1>6, <3>3
    <3>5. /\ step[s][f] < Len(StoresOf(s))
          /\ Stored(regions[window[<<s, f>>][current[<<s, f>>]]], StoresOf(s), step[s][f], s, sent[s] + 1)
      BY <1>1, <3>1 DEF InvOf, StoreOf
    <3> QED BY <3>1, <3>2, <3>3, <3>4, <3>5
  <2> QED BY <2>3, <2>4
<1>17. LoadOf(s)' /\ GotOf(s)'
  <2>1. \A n, c : Written(s, n, c)' = Written(s, n, c)
    BY <1>4 DEF Written
  <2> QED BY <1>1, <1>4, <1>9, <2>1 DEF InvOf, LoadOf, GotOf
<1> QED BY <1>5, <1>8, <1>10, <1>11, <1>12, <1>13, <1>14, <1>15, <1>16, <1>17 DEF IInv, InvOf

-----------------------------------------------------------------------------
(* Calls *)

\* While an end writes, what is unread is in another window and another region.
LEMMA UnreadIsApart ==
  ASSUME TypeOK, NEW s \in Sessions, MapOf(s), NamedOf(s), CallOf(s), NEW e \in Ends, pc[s][e] = "write",
         NEW f \in Ends, ~Ended(s, f), NEW n \in Len(got[s]) + 1 .. sent[s]
  PROVE  Found(s, f, WindowOf(s, n)) # window[<<s, e>>][current[<<s, e>>]]
<1>1. /\ WriterOf(s, sent[s] + 1) = e /\ sent[s] - Len(got[s]) < Depth(s)
      /\ window[<<s, e>>][current[<<s, e>>]] # 0
      /\ Len(got[s]) \in Nat /\ sent[s] \in Nat
  BY LenIsNat DEF CallOf, TypeOK
<1>2. Depth(s) = 2 /\ n = sent[s]
  BY <1>1, DepthIs
<1>3. current[<<s, e>>] = WindowOf(s, sent[s] + 1)
  BY <1>1, WriterIsDone
<1>4. WindowOf(s, sent[s] + 1) # WindowOf(s, sent[s])
  <2>1. program[s].kind = "double"
    BY <1>2, DepthIs
  <2> QED BY <2>1, <1>1, WindowsAlternate
<1>5. WindowOf(s, sent[s] + 1) \in Windows /\ WindowOf(s, n) \in Windows
  BY TwoWindows
<1> QED BY <1>1, <1>2, <1>3, <1>4, <1>5, RegionsApart

LEMMA StoredMore ==
  ASSUME NEW stores, NEW i \in Nat, NEW s, NEW n, NEW region, DOMAIN region = Cells, Stored(region, stores, i, s, n),
         \A j \in 1 .. i + 1 : stores[j][1] \in Cells,
         NEW more, more = [region EXCEPT ![stores[i + 1][1]] = <<s, n, stores[i + 1][2]>>]
  PROVE  Stored(more, stores, i + 1, s, n)
<1> SUFFICES ASSUME NEW j \in 1 .. i + 1
             PROVE  \/ more[stores[j][1]] = <<s, n, stores[j][2]>>
                    \/ \E k \in j + 1 .. i + 1 : stores[k][1] = stores[j][1]
  BY DEF Stored
<1>1. CASE j = i + 1
  BY <1>1
<1>2. CASE j # i + 1 /\ stores[j][1] = stores[i + 1][1]
  BY <1>2
<1>3. CASE j # i + 1 /\ stores[j][1] # stores[i + 1][1]
  <2>1. j \in 1 .. i /\ more[stores[j][1]] = region[stores[j][1]]
    BY <1>3
  <2>2. \A k \in j + 1 .. i : k \in j + 1 .. i + 1
    OBVIOUS
  <2> QED BY <2>1, <2>2 DEF Stored
<1> QED BY <1>1, <1>2, <1>3

\* Once it has made all its stores, a write has left what Left says.
LEMMA StoredWhole ==
  ASSUME TypeOK, NEW s \in Sessions, NEW region, NEW n, Stored(region, StoresOf(s), Len(StoresOf(s)), s, n)
  PROVE  \A c \in Cells : region[c] = Written(s, n, c)
<1>1. program[s].kind \in Kinds /\ program[s].write \in WriteCalls
  BY ProgramFields
<1> SUFFICES ASSUME NEW c \in Cells PROVE region[c] = Written(s, n, c)
  OBVIOUS
<1>2. PICK j \in 1 .. Len(StoresOf(s)) :
           /\ StoresOf(s)[j][1] = c
           /\ \A k \in j + 1 .. Len(StoresOf(s)) : StoresOf(s)[k][1] # c
           /\ Left(program[s].kind, program[s].write, c) = StoresOf(s)[j][2]
  BY <1>1, StoresAre DEF StoresOf
<1>3. region[c] = <<s, n, StoresOf(s)[j][2]>>
  BY <1>2 DEF Stored
<1> QED BY <1>2, <1>3 DEF Written

\* What a store or a load cannot change.
LEMMA CallStep ==
  ASSUME IInv, NEW s \in Sessions, NEW e \in Ends, pc[s][e] # "idle",
         UNCHANGED <<program, phase, token, live, window, linked, registry>>,
         Len(regions') = Len(regions), \A f \in Ends : pc[s][f] = "idle" => pc'[s][f] = "idle",
         \A r \in Sessions : r # s => Stays(r)
  PROVE  /\ PhaseInv' /\ EntryInv' /\ LinkInv' /\ LeftInv'
         /\ \A r \in Sessions : r # s => InvOf(r)'
         /\ LiveOf(s)' /\ MapOf(s)' /\ NamedOf(s)' /\ CountOf(s)'
<1>1. /\ TypeOK /\ PhaseInv /\ EntryInv /\ LinkInv /\ LeftInv /\ InvOf(s)
      /\ phase[s][e] = "open" /\ Begun(s) /\ ~Over(s)
  <2>1. phase[s][e] = "open"
    BY DEF IInv, InvOf, LiveOf
  <2> QED BY <2>1, ActiveBegan DEF IInv, Active
<1>2. PhaseInv' /\ \A r \in Sessions : r # s => InvOf(r)'
  <2>1. Begun(s)' /\ ~Over(s)' /\ phase'[s]["client"] # "initialised"
    BY <1>1 DEF Begun, Over, Ended, PhaseInv
  <2> QED BY <1>1, <2>1, OthersStay
<1>3. EntryInv' /\ LinkInv'
  BY <1>1 DEF EntryInv, LinkInv, Registered, Active, registry
<1>4. LeftInv'
  BY <1>1 DEF LeftInv, Name
<1>5. LiveOf(s)'
  BY <1>1 DEF InvOf, LiveOf, Active
<1>6. MapOf(s)' /\ NamedOf(s)'
  BY <1>1 DEF InvOf, MapOf, NamedOf, Name, Ended
<1>7. CountOf(s)'
  <2>1. ToMake(s, "A")' = ToMake(s, "A") /\ ToMake(s, "B")' = ToMake(s, "B")
    BY DEF ToMake, Name
  <2>2. One(ToMake(s, "A"))' = One(ToMake(s, "A")) /\ One(ToMake(s, "B"))' = One(ToMake(s, "B"))
    BY <2>1 DEF One
  <2> QED BY <1>1, <2>2 DEF InvOf, CountOf, Begun, Over, Ended
<1> QED BY <1>2, <1>3, <1>4, <1>5, <1>6, <1>7

\* What a call relies on that is not in the regions: the turn and the window.
LEMMA OwnCall ==
  ASSUME IInv, NEW s \in Sessions, NEW e \in Ends, pc[s][e] # "idle"
  PROVE  /\ phase[s][e] = "open" /\ Object(s, e) = <<s, e>>
         /\ current[<<s, e>>] \in Windows
         /\ InUse(s, e) = window[<<s, e>>][current[<<s, e>>]]
         /\ InUse(s, e) \in 1 .. Len(regions)
<1>1. TypeOK /\ phase[s][e] = "open" /\ window[<<s, e>>][current[<<s, e>>]] # 0
  BY DEF IInv, InvOf, LiveOf, CallOf
<1>2. current[<<s, e>>] \in Windows /\ Object(s, e) = <<s, e>>
  BY <1>1, OwnObject DEF TypeOK
<1>3. window[<<s, e>>][current[<<s, e>>]] \in 0 .. Len(regions) /\ Len(regions) \in Nat
  BY <1>1, <1>2, FoundIsRegion, LenIsNat
<1> QED BY <1>1, <1>2, <1>3 DEF InUse

LEMMA ExchangeIs ==
  ASSUME TypeOK, NEW s \in Sessions, NEW e \in Ends, Object(s, e) = <<s, e>>, Exchange(s, e)
  PROVE  /\ current' \in [Sessions \X Ends -> Windows]
         /\ \A r \in Sessions, f \in Ends : r # s \/ f # e => current'[<<r, f>>] = current[<<r, f>>]
         /\ \A n \in Nat : current[<<s, e>>] = WindowOf(s, n) => current'[<<s, e>>] = WindowOf(s, n + 1)
<1>1. current \in [Sessions \X Ends -> Windows]
  BY DEF TypeOK
<1>2. CASE program[s].kind = "single"
  BY <1>1, <1>2 DEF Exchange, WindowOf
<1>3. CASE program[s].kind # "single"
  <2>1. current' = [current EXCEPT ![<<s, e>>] = IF current[<<s, e>>] = "A" THEN "B" ELSE "A"]
    BY <1>3 DEF Exchange
  <2>2. /\ current' \in [Sessions \X Ends -> Windows]
        /\ \A r \in Sessions, f \in Ends : r # s \/ f # e => current'[<<r, f>>] = current[<<r, f>>]
        /\ current'[<<s, e>>] = IF current[<<s, e>>] = "A" THEN "B" ELSE "A"
    BY <1>1, <2>1 DEF Windows
  <2>3. \A n \in Nat : WindowOf(s, n + 1) = IF WindowOf(s, n) = "A" THEN "B" ELSE "A"
    BY <1>3, WindowsAlternate
  <2> QED BY <2>2, <2>3
<1> QED BY <1>2, <1>3

LEMMA StoreStep ==
  ASSUME IInv, NEW s \in Sessions, NEW e \in Ends, Store(s, e)
  PROVE  IInv'
<1>1. /\ TypeOK /\ InvOf(s) /\ pc[s][e] = "write"
      /\ phase[s][e] = "open" /\ Object(s, e) = <<s, e>> /\ InUse(s, e) = window[<<s, e>>][current[<<s, e>>]]
      /\ Begun(s) /\ ~Ended(s, e)
  BY OwnCall, ActiveBegan DEF IInv, Store, Active
<1>2. PICK R \in 1 .. Len(regions) : R = InUse(s, e)
  BY <1>1, OwnCall
<1>3. PICK i \in 1 .. 3 : i = step[s][e] + 1 /\ i \in 1 .. Len(StoresOf(s))
  <2>1. step[s][e] < Len(StoresOf(s))
    BY <1>1 DEF InvOf, StoreOf
  <2>2. step[s][e] \in 0 .. 3
    BY <1>1 DEF TypeOK
  <2>3. Len(StoresOf(s)) \in {2, 3}
    BY <1>1, StoresAre, ProgramFields DEF StoresOf
  <2>4. step[s][e] + 1 \in 1 .. 3 /\ step[s][e] + 1 \in 1 .. Len(StoresOf(s))
    <3>1. PICK len \in {2, 3} : len = Len(StoresOf(s))
      BY <2>3
    <3>2. PICK before \in 0 .. 3 : before = step[s][e]
      BY <2>2
    <3>3. before < len
      BY <2>1, <3>1, <3>2
    <3>4. before + 1 \in 1 .. 3 /\ before + 1 \in 1 .. len
      BY <3>3
    <3> QED BY <3>1, <3>2, <3>4
  <2> QED BY <2>4
<1>4. PICK cell \in Cells, part \in {"length", "head", "tail"} : cell = StoresOf(s)[i][1] /\ part = StoresOf(s)[i][2]
  <2>1. StoresOf(s)[i][1] \in Cells /\ StoresOf(s)[i][2] \in {"length", "head", "tail"}
    BY <1>1, <1>3, StoresAre, ProgramFields DEF StoresOf
  <2> QED BY <2>1
<1>5. /\ Len(StoresOf(s)) \in {2, 3} /\ \A j \in 1 .. Len(StoresOf(s)) : StoresOf(s)[j][1] \in Cells
      /\ Len(got[s]) \in Nat /\ sent[s] \in 0 .. MaxMessages /\ MaxMessages \in Nat /\ Len(got[s]) <= sent[s]
      /\ sent[s] < MaxMessages /\ WriterOf(s, sent[s] + 1) = e /\ sent[s] - Len(got[s]) < Depth(s)
      /\ sent[s] - Len(got[s]) <= Depth(s)
  <2>1. Len(StoresOf(s)) \in {2, 3} /\ \A j \in 1 .. Len(StoresOf(s)) : StoresOf(s)[j][1] \in Cells
    BY <1>1, StoresAre, ProgramFields DEF StoresOf
  <2>2. Len(got[s]) \in Nat /\ sent[s] \in 0 .. MaxMessages /\ MaxMessages \in Nat
    BY <1>1, LenIsNat, SharedMemoryAssumption DEF TypeOK
  <2> QED BY <1>1, <2>1, <2>2 DEF InvOf, CallOf
<1>6. /\ regions' = [regions EXCEPT ![R][cell] = <<s, sent[s] + 1, part>>]
      /\ step' = [step EXCEPT ![s][e] = i]
      /\ UNCHANGED <<program, phase, token, live, window, linked, loaded, got, registry>>
  BY <1>2, <1>3, <1>4 DEF Store, StoresOf
<1>7. \/ i # Len(StoresOf(s)) /\ UNCHANGED <<current, pc, sent>>
      \/ /\ i = Len(StoresOf(s)) /\ Exchange(s, e)
         /\ pc' = [pc EXCEPT ![s][e] = "idle"] /\ sent' = [sent EXCEPT ![s] = sent[s] + 1]
  BY <1>3, <1>5 DEF Store, StoresOf
<1>8. /\ regions' \in Seq([Cells -> Part]) /\ Len(regions') = Len(regions)
      /\ \A q \in 1 .. Len(regions) : q # R => regions'[q] = regions[q]
      /\ regions'[R] = [regions[R] EXCEPT ![cell] = <<s, sent[s] + 1, part>>]
      /\ regions[R] \in [Cells -> Part]
  <2>1. regions \in Seq([Cells -> Part])
    BY <1>1 DEF TypeOK
  <2>2. <<s, sent[s] + 1, part>> \in Part
    BY <1>5 DEF Part
  <2>3. regions[R] \in [Cells -> Part]
    BY <2>1, ElementOfSeq
  <2>4. PICK region \in [Cells -> Part] : region = [regions[R] EXCEPT ![cell] = <<s, sent[s] + 1, part>>]
    BY <2>2, <2>3
  <2>5. regions' = [regions EXCEPT ![R] = region]
    BY <1>6, <2>4
  <2>6. /\ [regions EXCEPT ![R] = region] \in Seq([Cells -> Part])
        /\ Len([regions EXCEPT ![R] = region]) = Len(regions)
        /\ \A q \in 1 .. Len(regions) : [regions EXCEPT ![R] = region][q] = IF q = R THEN region ELSE regions[q]
    BY <2>1, ExceptSeq
  <2> HIDE <1>6
  <2> QED BY <2>3, <2>4, <2>5, <2>6
<1>9. /\ current' \in [Sessions \X Ends -> Windows]
      /\ \A r \in Sessions, f \in Ends : r # s \/ f # e => current'[<<r, f>>] = current[<<r, f>>]
  BY <1>1, <1>7, ExchangeIs DEF TypeOK
<1>10. /\ \A r \in Sessions, f \in Ends : r # s \/ f # e => pc'[r][f] = pc[r][f] /\ step'[r][f] = step[r][f]
       /\ step'[s][e] = i
       /\ pc'[s][e] \in {"write", "idle"}
       /\ \A r \in Sessions : r # s => sent'[r] = sent[r]
  BY <1>1, <1>6, <1>7 DEF TypeOK
<1>11. TypeOK'
  <2>1. /\ pc' \in [Sessions -> [Ends -> {"idle", "write", "read"}]]
        /\ step' \in [Sessions -> [Ends -> 0 .. 3]]
    <3>1. i \in 0 .. 3
      OBVIOUS
    <3>2. pc' \in [Sessions -> [Ends -> {"idle", "write", "read"}]]
      <4>1. pc' = pc \/ pc' = [pc EXCEPT ![s][e] = "idle"]
        BY <1>7
      <4>2. pc \in [Sessions -> [Ends -> {"idle", "write", "read"}]]
        BY <1>1 DEF TypeOK
      <4> QED BY <4>1, <4>2
    <3>3. step \in [Sessions -> [Ends -> 0 .. 3]]
      BY <1>1 DEF TypeOK
    <3> QED BY <1>6, <3>1, <3>2, <3>3
  <2>2. sent' \in [Sessions -> 0 .. MaxMessages]
    <3>1. sent \in [Sessions -> 0 .. MaxMessages]
      BY <1>1 DEF TypeOK
    <3>2. sent[s] + 1 \in 0 .. MaxMessages
      BY <1>5
    <3> QED BY <3>1, <3>2, <1>7
  <2> QED BY <1>1, <1>6, <1>8, <1>9, <2>1, <2>2 DEF TypeOK, registry
<1>12. /\ PhaseInv' /\ EntryInv' /\ LinkInv' /\ LeftInv'
       /\ \A r \in Sessions : r # s => InvOf(r)'
       /\ LiveOf(s)' /\ MapOf(s)' /\ NamedOf(s)' /\ CountOf(s)'
  <2>1. \A r \in Sessions : r # s => Stays(r)
    BY <1>6, <1>9, <1>10 DEF Stays
  <2>2. \A f \in Ends : pc[s][f] = "idle" => pc'[s][f] = "idle"
    BY <1>1, <1>10
  <2> QED BY <1>1, <1>6, <1>8, <2>1, <2>2, CallStep
<1>13. /\ Depth(s)' = Depth(s) /\ StoresOf(s)' = StoresOf(s)
       /\ \A n : WriterOf(s, n)' = WriterOf(s, n) /\ WindowOf(s, n)' = WindowOf(s, n)
       /\ \A f, w : Found(s, f, w)' = Found(s, f, w)
       /\ \A n, c : Written(s, n, c)' = Written(s, n, c)
       /\ \A f \in Ends : Ended(s, f)' = Ended(s, f)
  BY <1>6 DEF Depth, StoresOf, WriterOf, WindowOf, Found, Name, Written, Ended
<1>14. Stored(regions'[R], StoresOf(s), i, s, sent[s] + 1)
  <2>1. PICK before \in 0 .. 3 : before = step[s][e] /\ i = before + 1
    BY <1>1, <1>3 DEF TypeOK
  <2>2. PICK stores : /\ stores = StoresOf(s)
                      /\ \A j \in 1 .. Len(stores) : stores[j][1] \in Cells
                      /\ Len(stores) \in {2, 3} /\ i <= Len(stores)
    <3>1. i <= Len(StoresOf(s))
      BY <1>3, <1>5
    <3> QED BY <1>5, <3>1
  <2>3. PICK n : n = sent[s] + 1
    OBVIOUS
  <2>4. PICK region \in [Cells -> Part] : \E more : region = regions[R] /\ more = regions'[R]
    BY <1>8
  <2>5. PICK more : region = regions[R] /\ more = regions'[R]
    BY <2>4
  <2>6. Stored(region, stores, before, s, n)
    BY <1>1, <1>2, <2>1, <2>2, <2>3, <2>5 DEF InvOf, StoreOf
  <2>7. more = [region EXCEPT ![stores[before + 1][1]] = <<s, n, stores[before + 1][2]>>]
    BY <1>4, <1>8, <2>1, <2>2, <2>3, <2>5
  <2>8. \A j \in 1 .. before + 1 : stores[j][1] \in Cells
    BY <2>1, <2>2
  <2>9. Stored(more, stores, before + 1, s, n)
    <3>1. before \in Nat /\ DOMAIN region = Cells
      OBVIOUS
    <3> QED BY <3>1, <2>6, <2>7, <2>8, StoredMore
  <2> QED BY <2>1, <2>2, <2>3, <2>5, <2>9
<1>15. \A f \in Ends : f # e => pc[s][f] # "write" /\ f = Peer(e)
  BY <1>1, <1>5, TwoEnds DEF InvOf, CallOf
<1>16. CallOf(s)'
  <2>1. CASE i # Len(StoresOf(s))
    <3>1. UNCHANGED <<current, pc, sent>>
      BY <2>1, <1>7
    <3>2. \A f \in Ends : Calls(s, f)' = Calls(s, f)
      BY <1>6, <3>1 DEF Calls, WriterOf
    <3>3. \A f \in Ends : WindowOf(s, Calls(s, f) + 1)' = WindowOf(s, Calls(s, f) + 1)
      BY <1>13, <3>2
    <3> QED BY <1>1, <1>6, <1>13, <3>1, <3>2, <3>3 DEF InvOf, CallOf, Begun
  <2>2. CASE i = Len(StoresOf(s))
    <3>1. /\ Exchange(s, e) /\ pc'[s][e] = "idle" /\ sent'[s] = sent[s] + 1
          /\ got' = got
      BY <2>2, <1>1, <1>6, <1>7 DEF TypeOK
    <3>2. Calls(s, e) = sent[s] /\ current[<<s, e>>] = WindowOf(s, sent[s] + 1) /\ Calls(s, Peer(e)) = Len(got[s])
      BY <1>1, <1>5, WriterIsDone DEF InvOf
    <3>3. Calls(s, e)' = sent[s] + 1 /\ Calls(s, Peer(e))' = Len(got[s])
      <4>1. WriterOf(s, sent[s])' = e
        BY <1>5, <1>6, <3>1 DEF WriterOf
      <4>2. sent'[s] > Len(got'[s])
        BY <1>5, <3>1
      <4> QED BY <3>1, <4>1, <4>2, TwoEnds DEF Calls
    <3>4. current'[<<s, e>>] = WindowOf(s, Calls(s, e)' + 1)
      BY <1>1, <1>5, <3>1, <3>2, <3>3, ExchangeIs
    <3>5. current'[<<s, Peer(e)>>] = WindowOf(s, Calls(s, Peer(e))' + 1)
      <4>1. current[<<s, Peer(e)>>] = WindowOf(s, Calls(s, Peer(e)) + 1)
        BY <1>1, TwoEnds DEF InvOf, CallOf
      <4>2. current'[<<s, Peer(e)>>] = current[<<s, Peer(e)>>]
        BY <1>9, TwoEnds
      <4> QED BY <3>2, <3>3, <4>1, <4>2
    <3>6. \A f \in Ends : current'[<<s, f>>] = WindowOf(s, Calls(s, f) + 1)'
      BY <1>13, <3>4, <3>5, TwoEnds
    <3>7. \A f \in Ends : f # e => /\ pc'[s][f] # "write"
                                  /\ pc'[s][f] = pc[s][f]
                                  /\ current'[<<s, f>>] = current[<<s, f>>]
      BY <1>9, <1>10, <1>15
    <3>8. Len(got[s]) <= sent[s] + 1 /\ sent[s] + 1 - Len(got[s]) <= Depth(s)
      BY <1>1, <1>5, DepthIs
    <3>9. \A f \in Ends : pc'[s][f] = "read" => Len(got[s]) < sent[s] + 1 /\ WriterOf(s, Len(got[s]) + 1)' = Peer(f)
      <4> SUFFICES ASSUME NEW f \in Ends, pc'[s][f] = "read"
                   PROVE  Len(got[s]) < sent[s] + 1 /\ WriterOf(s, Len(got[s]) + 1)' = Peer(f)
        OBVIOUS
      <4>1. pc[s][f] = "read"
        BY <3>1, <3>7
      <4>2. Len(got[s]) < sent[s] /\ WriterOf(s, Len(got[s]) + 1) = Peer(f)
        BY <1>1, <4>1 DEF InvOf, CallOf
      <4>3. WriterOf(s, Len(got[s]) + 1)' = WriterOf(s, Len(got[s]) + 1)
        BY <1>6 DEF WriterOf
      <4> QED BY <1>5, <4>2, <4>3
    <3>10. \A f \in Ends : pc'[s][f] # "idle" => window[<<s, f>>][current'[<<s, f>>]] # 0
      BY <1>1, <3>1, <3>7 DEF InvOf, CallOf
    <3>11. Begun(s)' /\ \A f \in Ends : pc'[s][f] # "write"
      BY <1>1, <1>6, <3>1, <3>7 DEF Begun
    <3>12. Len(got'[s]) <= sent'[s] /\ sent'[s] - Len(got'[s]) <= Depth(s)'
      <4>1. Len(got'[s]) = Len(got[s]) /\ sent'[s] = sent[s] + 1 /\ Depth(s)' = Depth(s)
        BY <1>13, <3>1
      <4>2. Len(got[s]) \in Nat /\ sent[s] \in Nat /\ Depth(s) \in {1, 2}
        BY <1>1, <1>5, DepthIs
      <4> QED BY <3>8, <4>1, <4>2
    <3>13. window' = window /\ got' = got /\ sent'[s] = sent[s] + 1
      BY <1>6, <3>1
    <3> HIDE <1>6, <1>7, <1>13, <3>1, <3>8
    <3> QED BY <3>6, <3>9, <3>10, <3>11, <3>12, <3>13 DEF CallOf
  <2> QED BY <2>1, <2>2
<1>17. UnreadOf(s)'
  <2>1. /\ sent'[s] = sent[s] \/ sent'[s] = sent[s] + 1
        /\ sent'[s] = sent[s] + 1 => i = Len(StoresOf(s))
    BY <1>1, <1>5, <1>7 DEF TypeOK
  <2> SUFFICES ASSUME NEW f \in Ends, ~Ended(s, f), NEW n \in Len(got[s]) + 1 .. sent'[s], WriterOf(s, n) = Peer(f)
               PROVE  /\ Found(s, f, WindowOf(s, n)) # 0
                      /\ \A c \in Cells : regions'[Found(s, f, WindowOf(s, n))][c] = Written(s, n, c)
    BY <1>6, <1>13 DEF UnreadOf
  <2>2. PICK w \in Windows : w = WindowOf(s, n)
    BY TwoWindows
  <2>3. CASE n <= sent[s]
    <3>1. n \in Len(got[s]) + 1 .. sent[s]
      BY <1>5, <2>1, <2>3
    <3>2. /\ Found(s, f, w) # 0 /\ Found(s, f, w) # R
          /\ \A c \in Cells : regions[Found(s, f, w)][c] = Written(s, n, c)
      BY <1>1, <1>2, <2>2, <3>1, UnreadIsApart DEF InvOf, UnreadOf
    <3>3. Found(s, f, w) \in 0 .. Len(regions) /\ Len(regions) \in Nat
      BY <1>1, FoundIsRegion, LenIsNat
    <3>4. regions'[Found(s, f, w)] = regions[Found(s, f, w)]
      BY <1>8, <3>2, <3>3
    <3> QED BY <2>2, <3>2, <3>4
  <2>4. CASE n > sent[s]
    <3>1. n = sent[s] + 1 /\ i = Len(StoresOf(s)) /\ f = Peer(e)
      BY <1>5, <2>1, <2>4, TwoEnds
    <3>2. current[<<s, e>>] = w /\ window[<<s, e>>][w] = R
      BY <1>1, <1>2, <1>5, <2>2, <3>1, WriterIsDone DEF InvOf
    <3>3. Found(s, f, w) = R
      BY <1>1, <3>1, <3>2 DEF InvOf, MapOf, Found
    <3>4. \A c \in Cells : regions'[R][c] = Written(s, n, c)
      BY <1>1, <1>14, <3>1, StoredWhole
    <3> QED BY <2>2, <3>3, <3>4
  <2> QED BY <1>5, <2>1, <2>3, <2>4
<1>18. StoreOf(s)'
  <2> SUFFICES ASSUME NEW f \in Ends, pc'[s][f] = "write"
               PROVE  /\ step'[s][f] < Len(StoresOf(s))
                      /\ Stored(regions'[window[<<s, f>>][current'[<<s, f>>]]], StoresOf(s), step'[s][f], s, sent'[s] + 1)
    BY <1>6, <1>13 DEF StoreOf
  <2>1. f = e
    BY <1>10, <1>15
  <2>2. i # Len(StoresOf(s)) /\ UNCHANGED <<current, pc, sent>>
    BY <2>1, <1>1, <1>7 DEF TypeOK
  <2>3. i < Len(StoresOf(s))
    <3>1. PICK len \in {2, 3} : len = Len(StoresOf(s))
      BY <1>5
    <3> QED BY <1>3, <2>2, <3>1
  <2>4. window[<<s, f>>][current'[<<s, f>>]] = R /\ sent'[s] = sent[s] /\ step'[s][f] = i
    BY <2>1, <2>2, <1>1, <1>2, <1>10
  <2> QED BY <2>3, <2>4, <1>14
<1>19. LoadOf(s)' /\ GotOf(s)'
  <2>1. \A f \in Ends : pc'[s][f] = "read" => pc[s][f] = "read" /\ step'[s][f] = step[s][f]
    BY <1>10
  <2>2. LoadOf(s)'
    BY <1>1, <1>6, <1>13, <2>1 DEF InvOf, LoadOf
  <2>3. sent[s] <= sent'[s]
    BY <1>1, <1>5, <1>7 DEF TypeOK
  <2>4. GotOf(s)'
    <3> SUFFICES ASSUME NEW n \in 1 .. Len(got[s])
                 PROVE  n <= sent'[s] /\ \A j \in {1, 2} : got[s][n][j] = <<s, n, Expected(program[s].read)[j]>>
      BY <1>6 DEF GotOf
    <3>1. n <= sent[s] /\ \A j \in {1, 2} : got[s][n][j] = <<s, n, Expected(program[s].read)[j]>>
      BY <1>1 DEF InvOf, GotOf
    <3>2. sent'[s] \in 0 .. MaxMessages
      BY <1>11 DEF TypeOK
    <3> QED BY <1>5, <2>3, <3>1, <3>2
  <2> QED BY <2>2, <2>4
<1> QED BY <1>11, <1>12, <1>16, <1>17, <1>18, <1>19 DEF IInv, InvOf

\* A read works on the message it is about, and nobody else reads.
LEMMA ReadsAMessage ==
  ASSUME IInv, NEW s \in Sessions, NEW e \in Ends, pc[s][e] = "read"
  PROVE  /\ \A c \in Cells : regions[InUse(s, e)][c] = Written(s, Len(got[s]) + 1, c)
         /\ \A c \in Cells : regions[InUse(s, e)][c] \in Part
         /\ \A f \in Ends : f # e => pc[s][f] # "read" /\ f = Peer(e)
<1>1. /\ TypeOK /\ InvOf(s) /\ Len(got[s]) < sent[s] /\ WriterOf(s, Len(got[s]) + 1) = Peer(e)
      /\ InUse(s, e) = window[<<s, e>>][current[<<s, e>>]] /\ InUse(s, e) \in 1 .. Len(regions)
      /\ phase[s][e] = "open"
  BY OwnCall DEF IInv, InvOf, CallOf
<1>2. /\ Len(got[s]) + 1 \in Len(got[s]) + 1 .. sent[s]
      /\ current[<<s, e>>] = WindowOf(s, Len(got[s]) + 1)
  <2>1. Len(got[s]) \in Nat /\ sent[s] \in 0 .. MaxMessages
    BY <1>1, LenIsNat DEF TypeOK
  <2>2. current[<<s, e>>] = WindowOf(s, Len(got[s]) + 1)
    BY <1>1, ReaderIsDone DEF InvOf
  <2> QED BY <1>1, <2>1, <2>2, SharedMemoryAssumption
<1>3. PICK n, w : n = Len(got[s]) + 1 /\ w = WindowOf(s, n)
  OBVIOUS
<1>4. Found(s, e, w) = InUse(s, e)
  BY <1>1, <1>2, <1>3 DEF Found
<1>5. ~Ended(s, e)
  BY <1>1 DEF Ended
<1>6. \A c \in Cells : regions[Found(s, e, w)][c] = Written(s, n, c)
  BY <1>1, <1>2, <1>3, <1>5 DEF InvOf, UnreadOf
<1>7. \A c \in Cells : regions[InUse(s, e)][c] \in Part
  <2>1. regions \in Seq([Cells -> Part])
    BY <1>1 DEF TypeOK
  <2>2. regions[InUse(s, e)] \in [Cells -> Part]
    BY <1>1, <2>1, ElementOfSeq
  <2> QED BY <2>2
<1>8. \A f \in Ends : f # e => pc[s][f] # "read" /\ f = Peer(e)
  BY <1>1, TwoEnds DEF InvOf, CallOf
<1> QED BY <1>3, <1>4, <1>6, <1>7, <1>8

LEMMA LoadFirstStep ==
  ASSUME IInv, NEW s \in Sessions, NEW e \in Ends, LoadFirst(s, e)
  PROVE  IInv'
<1>1. /\ TypeOK /\ InvOf(s) /\ pc[s][e] = "read" /\ phase[s][e] = "open" /\ Begun(s)
  BY OwnCall, ActiveBegan DEF IInv, LoadFirst, Active
<1>2. /\ loaded' = [loaded EXCEPT ![s] = regions[InUse(s, e)][0]]
      /\ step' = [step EXCEPT ![s][e] = 1]
      /\ UNCHANGED <<program, phase, token, live, window, current, linked, regions, pc, sent, got, registry>>
  BY DEF LoadFirst, objectVars, memoryVars, dataVars
<1>3. regions[InUse(s, e)][0] = Written(s, Len(got[s]) + 1, 0) /\ regions[InUse(s, e)][0] \in Part
  <2>1. 0 \in Cells
    BY DEF Cells
  <2> QED BY <1>1, <2>1, ReadsAMessage
<1>4. /\ \A r \in Sessions, f \in Ends : r # s \/ f # e => step'[r][f] = step[r][f]
      /\ step'[s][e] = 1
      /\ \A r \in Sessions : r # s => loaded'[r] = loaded[r]
      /\ loaded'[s] = Written(s, Len(got[s]) + 1, 0)
  BY <1>1, <1>2, <1>3 DEF TypeOK
<1>5. TypeOK'
  <2>1. step' \in [Sessions -> [Ends -> 0 .. 3]] /\ loaded' \in [Sessions -> Part]
    BY <1>1, <1>2, <1>3 DEF TypeOK
  <2> QED BY <1>1, <1>2, <2>1 DEF TypeOK, registry
<1>6. /\ PhaseInv' /\ EntryInv' /\ LinkInv' /\ LeftInv'
      /\ \A r \in Sessions : r # s => InvOf(r)'
      /\ LiveOf(s)' /\ MapOf(s)' /\ NamedOf(s)' /\ CountOf(s)'
  <2>1. \A r \in Sessions : r # s => Stays(r)
    BY <1>2, <1>4 DEF Stays
  <2> QED BY <1>1, <1>2, <2>1, CallStep
<1>7. CallOf(s)' /\ UnreadOf(s)' /\ GotOf(s)'
  <2>1. /\ Depth(s)' = Depth(s) /\ \A f \in Ends : Calls(s, f)' = Calls(s, f)
        /\ \A n : WriterOf(s, n)' = WriterOf(s, n) /\ WindowOf(s, n)' = WindowOf(s, n)
        /\ \A f, w : Found(s, f, w)' = Found(s, f, w)
        /\ \A n, c : Written(s, n, c)' = Written(s, n, c)
    BY <1>2 DEF Depth, Calls, WriterOf, WindowOf, Found, Name, Written
  <2>2. \A f \in Ends : WindowOf(s, Calls(s, f) + 1)' = WindowOf(s, Calls(s, f) + 1)
    BY <2>1
  <2>3. CallOf(s)'
    BY <1>1, <1>2, <2>1, <2>2 DEF InvOf, CallOf, Begun
  <2>4. UnreadOf(s)'
    BY <1>1, <1>2, <2>1 DEF InvOf, UnreadOf, Ended
  <2> QED BY <1>1, <1>2, <2>3, <2>4 DEF InvOf, GotOf
<1>8. StoreOf(s)'
  <2>1. \A f \in Ends : pc[s][f] = "write" => step'[s][f] = step[s][f]
    BY <1>1, <1>4
  <2> QED BY <1>1, <1>2, <2>1 DEF InvOf, StoreOf, StoresOf
<1>9. LoadOf(s)'
  <2>1. \A f \in Ends : pc[s][f] = "read" => f = e
    BY <1>1, ReadsAMessage
  <2>2. \A n, c : Written(s, n, c)' = Written(s, n, c)
    BY <1>2 DEF Written
  <2> QED BY <1>2, <1>4, <2>1, <2>2 DEF LoadOf
<1> QED BY <1>5, <1>6, <1>7, <1>8, <1>9 DEF IInv, InvOf

LEMMA LoadSecondStep ==
  ASSUME IInv, NEW s \in Sessions, NEW e \in Ends, LoadSecond(s, e)
  PROVE  IInv'
<1>1. /\ TypeOK /\ InvOf(s) /\ pc[s][e] = "read" /\ step[s][e] = 1 /\ phase[s][e] = "open" /\ Begun(s)
      /\ Object(s, e) = <<s, e>>
  BY OwnCall, ActiveBegan DEF IInv, LoadSecond, Active
<1>2. /\ Len(got[s]) \in Nat /\ sent[s] \in 0 .. MaxMessages /\ MaxMessages \in Nat
      /\ Len(got[s]) < sent[s] /\ WriterOf(s, Len(got[s]) + 1) = Peer(e)
      /\ sent[s] - Len(got[s]) <= Depth(s) /\ Depth(s) \in {1, 2}
  <2>1. Len(got[s]) \in Nat /\ sent[s] \in 0 .. MaxMessages /\ MaxMessages \in Nat
    BY <1>1, LenIsNat, SharedMemoryAssumption DEF TypeOK
  <2> QED BY <1>1, <2>1, DepthIs DEF InvOf, CallOf
<1>3. PICK first \in Part, second \in Part :
           /\ first = loaded[s] /\ second = regions[InUse(s, e)][8]
           /\ first = Written(s, Len(got[s]) + 1, 0) /\ second = Written(s, Len(got[s]) + 1, 8)
  <2>1. loaded[s] \in Part /\ loaded[s] = Written(s, Len(got[s]) + 1, 0)
    BY <1>1 DEF InvOf, LoadOf, TypeOK
  <2>2. 8 \in Cells
    BY DEF Cells
  <2>3. regions[InUse(s, e)][8] \in Part /\ regions[InUse(s, e)][8] = Written(s, Len(got[s]) + 1, 8)
    BY <1>1, <2>2, ReadsAMessage
  <2> QED BY <2>1, <2>3
<1>4. /\ got' = [got EXCEPT ![s] = Append(got[s], <<first, second>>)]
      /\ loaded' = [loaded EXCEPT ![s] = Blank]
      /\ step' = [step EXCEPT ![s][e] = 0] /\ pc' = [pc EXCEPT ![s][e] = "idle"]
      /\ Exchange(s, e)
      /\ UNCHANGED <<program, phase, token, live, window, linked, regions, sent, registry>>
  BY <1>3 DEF LoadSecond, memoryVars
<1>5. /\ got \in [Sessions -> Seq(Part \X Part)] /\ got[s] \in Seq(Part \X Part)
      /\ <<first, second>> \in Part \X Part
  BY <1>1 DEF TypeOK
<1>6. /\ got'[s] \in Seq(Part \X Part) /\ Len(got'[s]) = Len(got[s]) + 1
      /\ \A n \in 1 .. Len(got[s]) : got'[s][n] = got[s][n]
      /\ got'[s][Len(got[s]) + 1] = <<first, second>>
      /\ \A r \in Sessions : r # s => got'[r] = got[r]
  <2>1. got'[s] = Append(got[s], <<first, second>>) /\ \A r \in Sessions : r # s => got'[r] = got[r]
    BY <1>4, <1>5
  <2> QED BY <1>5, <2>1, AppendProperties
<1>7. /\ current' \in [Sessions \X Ends -> Windows]
      /\ \A r \in Sessions, f \in Ends : r # s \/ f # e => current'[<<r, f>>] = current[<<r, f>>]
      /\ \A n \in Nat : current[<<s, e>>] = WindowOf(s, n) => current'[<<s, e>>] = WindowOf(s, n + 1)
  BY <1>1, <1>4, ExchangeIs
<1>8. /\ \A r \in Sessions, f \in Ends : r # s \/ f # e => step'[r][f] = step[r][f] /\ pc'[r][f] = pc[r][f]
      /\ pc'[s][e] = "idle"
      /\ \A r \in Sessions : r # s => loaded'[r] = loaded[r]
  BY <1>1, <1>4 DEF TypeOK
<1>9. \A f \in Ends : f # e => pc'[s][f] # "read" /\ f = Peer(e)
  BY <1>1, <1>8, ReadsAMessage
<1>10. TypeOK'
  <2>1. /\ step' \in [Sessions -> [Ends -> 0 .. 3]]
        /\ pc' \in [Sessions -> [Ends -> {"idle", "write", "read"}]]
        /\ loaded' \in [Sessions -> Part]
    BY <1>1, <1>4 DEF TypeOK, Part
  <2>2. got' \in [Sessions -> Seq(Part \X Part)]
    BY <1>4, <1>5, <1>6
  <2> QED BY <1>1, <1>4, <1>7, <2>1, <2>2 DEF TypeOK, registry
<1>11. /\ PhaseInv' /\ EntryInv' /\ LinkInv' /\ LeftInv'
       /\ \A r \in Sessions : r # s => InvOf(r)'
       /\ LiveOf(s)' /\ MapOf(s)' /\ NamedOf(s)' /\ CountOf(s)'
  <2>1. \A r \in Sessions : r # s => Stays(r)
    BY <1>4, <1>6, <1>7, <1>8 DEF Stays
  <2>2. \A f \in Ends : pc[s][f] = "idle" => pc'[s][f] = "idle"
    BY <1>1, <1>8
  <2> QED BY <1>1, <1>4, <2>1, <2>2, CallStep
<1>12. /\ Depth(s)' = Depth(s)
       /\ \A n : WriterOf(s, n)' = WriterOf(s, n) /\ WindowOf(s, n)' = WindowOf(s, n)
       /\ \A f, w : Found(s, f, w)' = Found(s, f, w)
       /\ \A n, c : Written(s, n, c)' = Written(s, n, c)
  BY <1>4 DEF Depth, WriterOf, WindowOf, Found, Name, Written
<1>13. CallOf(s)'
  <2>1. Calls(s, e) = Len(got[s]) /\ current[<<s, e>>] = WindowOf(s, Len(got[s]) + 1) /\ WriterOf(s, sent[s]) = Peer(e)
    BY <1>1, <1>2, ReaderIsDone DEF InvOf
  <2>2. WriterOf(s, sent[s])' = WriterOf(s, sent[s])
    BY <1>4 DEF WriterOf
  <2>3. Calls(s, e)' = Len(got[s]) + 1
    BY <1>4, <1>6, <2>1, <2>2, TwoEnds DEF Calls
  <2>4. Calls(s, Peer(e))' = Calls(s, Peer(e))
    BY <1>2, <1>4, <1>6, <2>1, <2>2 DEF Calls
  <2>5. current'[<<s, e>>] = WindowOf(s, Calls(s, e)' + 1)
    BY <1>2, <1>7, <2>1, <2>3
  <2>6. current'[<<s, Peer(e)>>] = WindowOf(s, Calls(s, Peer(e))' + 1)
    <3>1. current[<<s, Peer(e)>>] = WindowOf(s, Calls(s, Peer(e)) + 1)
      BY <1>1, TwoEnds DEF InvOf, CallOf
    <3>2. current'[<<s, Peer(e)>>] = current[<<s, Peer(e)>>]
      BY <1>7, TwoEnds
    <3> QED BY <2>4, <3>1, <3>2
  <2>7. \A f \in Ends : current'[<<s, f>>] = WindowOf(s, Calls(s, f) + 1)'
    BY <1>12, <2>5, <2>6, TwoEnds
  <2>8. Len(got'[s]) <= sent'[s] /\ sent'[s] - Len(got'[s]) <= Depth(s)'
    BY <1>2, <1>4, <1>6, <1>12
  <2>9. \A f \in Ends : pc'[s][f] = "write" => /\ sent'[s] < MaxMessages /\ WriterOf(s, sent[s] + 1)' = f
                                               /\ sent'[s] - Len(got'[s]) < Depth(s)'
    <3> SUFFICES ASSUME NEW f \in Ends, pc'[s][f] = "write"
                 PROVE  /\ sent'[s] < MaxMessages /\ WriterOf(s, sent[s] + 1)' = f
                        /\ sent'[s] - Len(got'[s]) < Depth(s)'
      OBVIOUS
    <3>1. pc[s][f] = "write"
      BY <1>8
    <3>2. sent[s] < MaxMessages /\ WriterOf(s, sent[s] + 1) = f /\ sent[s] - Len(got[s]) < Depth(s)
      BY <1>1, <3>1 DEF InvOf, CallOf
    <3>3. WriterOf(s, sent[s] + 1)' = WriterOf(s, sent[s] + 1)
      BY <1>4 DEF WriterOf
    <3> QED BY <1>2, <1>4, <1>6, <1>12, <3>2, <3>3
  <2>10. \A f \in Ends : pc'[s][f] # "idle" => window'[<<s, f>>][current'[<<s, f>>]] # 0
    BY <1>1, <1>4, <1>7, <1>8 DEF InvOf, CallOf
  <2>11. Begun(s)' /\ \A f \in Ends : pc'[s][f] # "read"
    BY <1>1, <1>4, <1>8, <1>9 DEF Begun
  <2> HIDE <1>4, <1>6
  <2> QED BY <2>7, <2>8, <2>9, <2>10, <2>11 DEF CallOf
<1>14. UnreadOf(s)'
  <2>1. \A n \in Len(got'[s]) + 1 .. sent'[s] : n \in Len(got[s]) + 1 .. sent[s]
    BY <1>2, <1>4, <1>6
  <2> QED BY <1>1, <1>4, <1>12, <2>1 DEF InvOf, UnreadOf, Ended
<1>15. StoreOf(s)'
  <2>1. \A f \in Ends : pc'[s][f] = "write" => /\ pc[s][f] = "write" /\ step'[s][f] = step[s][f]
                                               /\ current'[<<s, f>>] = current[<<s, f>>]
    BY <1>7, <1>8
  <2> QED BY <1>1, <1>4, <2>1 DEF InvOf, StoreOf, StoresOf
<1>16. LoadOf(s)'
  BY <1>8, <1>9 DEF LoadOf
<1>17. GotOf(s)'
  <2> SUFFICES ASSUME NEW n \in 1 .. Len(got'[s])
               PROVE  n <= sent[s] /\ \A i \in {1, 2} : got'[s][n][i] = <<s, n, Expected(program[s].read)[i]>>
    BY <1>4 DEF GotOf
  <2>1. CASE n \in 1 .. Len(got[s])
    BY <2>1, <1>1, <1>6 DEF InvOf, GotOf
  <2>2. CASE n = Len(got[s]) + 1
    <3>1. Expected(program[s].read) = <<Left(program[s].kind, program[s].write, 0),
                                        Left(program[s].kind, program[s].write, 8)>>
      BY <1>1, ProgramFields DEF Fits
    <3>2. n <= sent[s]
      BY <2>2, <1>2
    <3>3. got'[s][n] = <<first, second>>
      BY <2>2, <1>6
    <3> QED BY <2>2, <1>3, <3>1, <3>2, <3>3 DEF Written
  <2> QED BY <1>2, <1>6, <2>1, <2>2
<1> QED BY <1>10, <1>11, <1>13, <1>14, <1>15, <1>16, <1>17 DEF IInv, InvOf

-----------------------------------------------------------------------------
(* Ending *)

\* What a close and a crash have in common: the end has mapped nothing any more,
\* and frees no name that the other end has yet to use.
EndsIt(s, e) ==
    /\ phase' \in [Sessions -> [Ends -> {"none", "initialised", "open", "closed", "crashed"}]]
    /\ pc' \in [Sessions -> [Ends -> {"idle", "write", "read"}]]
    /\ window' \in [Sessions \X Ends -> [Windows -> 0 .. Len(regions)]]
    /\ linked' \in [Names -> 0 .. Len(regions)]
    /\ \A r \in Sessions, f \in Ends : r # s \/ f # e =>
           /\ phase'[r][f] = phase[r][f] /\ pc'[r][f] = pc[r][f]
           /\ \A w \in Windows : window'[<<r, f>>][w] = window[<<r, f>>][w]
    /\ phase'[s][e] \in {"closed", "crashed"} /\ pc'[s][e] = "idle"
    /\ \A w \in Windows : window'[<<s, e>>][w] = 0
    /\ live' = live \ {<<s, e>>}
    /\ \A n \in Names : linked'[n] \in {0, linked[n]}
    /\ \A w \in Windows : linked'[Name(s, w)] # linked[Name(s, w)] =>
           Ended(s, Peer(e)) \/ window[<<s, Peer(e)>>][w] # 0
    /\ phase'[s][e] = "closed" => \A w \in Windows : window[<<s, e>>][w] # 0 => linked'[Name(s, w)] = 0
    /\ UNCHANGED <<program, token, current, regions, step, loaded, sent, got, sleepers>>
    /\ DOMAIN buffers' \subseteq {UsageId}

LEMMA EndStep ==
  ASSUME IInv, NEW s \in Sessions, NEW e \in Ends, Active(s, e), EndsIt(s, e), EntryInv'
  PROVE  IInv'
<1>1. /\ TypeOK /\ PhaseInv /\ EntryInv /\ LinkInv /\ LeftInv /\ InvOf(s)
      /\ Begun(s) /\ ~Over(s) /\ ~Ended(s, e)
  BY ActiveBegan DEF IInv
<1>2. /\ UNCHANGED <<program, token, current, regions, step, loaded, sent, got, sleepers>>
      /\ live' = live \ {<<s, e>>}
      /\ phase'[s][e] \in {"closed", "crashed"} /\ pc'[s][e] = "idle"
      /\ \A w \in Windows : window'[<<s, e>>][w] = 0
      /\ \A r \in Sessions, f \in Ends : r # s \/ f # e =>
           /\ phase'[r][f] = phase[r][f] /\ pc'[r][f] = pc[r][f]
           /\ \A w \in Windows : window'[<<r, f>>][w] = window[<<r, f>>][w]
  BY DEF EndsIt
<1>3. \A n \in Names : linked'[n] \in {0, linked[n]}
  BY DEF EndsIt
<1>4. TypeOK'
  <2>1. live' \subseteq Sessions \X Ends
    BY <1>1, <1>2 DEF TypeOK
  <2>2. /\ phase' \in [Sessions -> [Ends -> {"none", "initialised", "open", "closed", "crashed"}]]
        /\ pc' \in [Sessions -> [Ends -> {"idle", "write", "read"}]]
        /\ window' \in [Sessions \X Ends -> [Windows -> 0 .. Len(regions)]]
        /\ linked' \in [Names -> 0 .. Len(regions)]
        /\ DOMAIN buffers' \subseteq {UsageId}
    BY DEF EndsIt
  <2> QED BY <1>1, <1>2, <2>1, <2>2 DEF TypeOK
<1>5. /\ Ended(s, e)' /\ Begun(s)' /\ phase'[s]["client"] # "initialised"
      /\ Ended(s, Peer(e))' <=> Ended(s, Peer(e))
  <2>1. phase'[s][Peer(e)] = phase[s][Peer(e)]
    BY <1>2, TwoEnds
  <2>2. Ended(s, e)' /\ (Ended(s, Peer(e))' <=> Ended(s, Peer(e)))
    BY <1>2, <2>1 DEF Ended
  <2>3. Begun(s)' /\ phase'[s]["client"] # "initialised"
    BY <1>1, <1>2, TwoEnds DEF Begun, PhaseInv
  <2> QED BY <2>2, <2>3
<1>6. PhaseInv' /\ \A r \in Sessions : r # s => InvOf(r)'
  <2>1. \A r \in Sessions : r # s => Stays(r)
    BY <1>2 DEF Stays
  <2> QED BY <1>1, <1>2, <1>5, <2>1, OthersStay
<1>7. LinkInv'
  BY <1>1, <1>3 DEF LinkInv
<1>8. LeftInv'
  <2> SUFFICES ASSUME NEW n \in Names, linked'[n] # 0
               PROVE  \/ \E r \in Sessions, f \in Ends : phase'[r][f] = "crashed"
                      \/ \E r \in Sessions, f \in Ends, w \in Windows : n = Name(r, w) /\ window'[<<r, f>>][w] # 0
    BY <1>2 DEF LeftInv, Name
  <2>1. linked[n] = linked'[n] /\ linked[n] # 0
    BY <1>3
  <2>2. CASE \E r \in Sessions, f \in Ends : phase[r][f] = "crashed"
    <3>1. phase[s][e] # "crashed"
      BY <1>1 DEF Ended
    <3> QED BY <2>2, <3>1, <1>2
  <2>3. CASE \E r \in Sessions, f \in Ends, w \in Windows : n = Name(r, w) /\ window[<<r, f>>][w] # 0
    <3>1. PICK r \in Sessions, f \in Ends, w \in Windows : n = Name(r, w) /\ window[<<r, f>>][w] # 0
      BY <2>3
    <3>2. CASE r # s \/ f # e
      BY <3>1, <3>2, <1>2
    <3>3. CASE r = s /\ f = e
      <4>1. phase'[s][e] # "closed"
        BY <3>1, <3>3 DEF EndsIt
      <4> QED BY <4>1, <1>2
    <3> QED BY <3>2, <3>3
  <2> QED BY <1>1, <2>1, <2>2, <2>3 DEF LeftInv
<1>9. LiveOf(s)'
  <2>1. \A f \in Ends : <<s, f>> \in live' <=> Active(s, f)'
    BY <1>1, <1>2 DEF InvOf, LiveOf, Active
  <2>2. \A f \in Ends : /\ pc'[s][f] # "idle" => phase'[s][f] = "open"
                        /\ \A w \in Windows : window'[<<s, f>>][w] # 0 => phase'[s][f] = "open"
    BY <1>1, <1>2 DEF InvOf, LiveOf
  <2>3. phase'[s]["owner"] = "open" => token'[s] = s
    BY <1>1, <1>2, TwoEnds DEF InvOf, LiveOf
  <2> QED BY <2>1, <2>2, <2>3 DEF LiveOf
<1>10. MapOf(s)' /\ NamedOf(s)'
  <2>1. \A w \in Windows : window'[<<s, Peer(e)>>][w] = window[<<s, Peer(e)>>][w]
    BY <1>2, TwoEnds
  <2>2. MapOf(s)'
    BY <1>2, <1>5, <2>1, TwoEnds DEF MapOf
  <2>3. \A w \in Windows : Name(s, w)' = Name(s, w)
    BY <1>2 DEF Name
  <2>4. NamedOf(s)'
    BY <1>1, <1>2, <1>3, <2>1, <2>3, TwoEnds DEF InvOf, NamedOf
  <2> QED BY <2>2, <2>4
<1>11. ASSUME ~Ended(s, Peer(e)), NEW w \in Windows
       PROVE  /\ Found(s, Peer(e), w)' = Found(s, Peer(e), w)
              /\ ToMake(s, w)' => ToMake(s, w)
  <2>1. window'[<<s, Peer(e)>>][w] = window[<<s, Peer(e)>>][w] /\ Name(s, w)' = Name(s, w)
    BY <1>2, TwoEnds DEF Name
  <2>2. window[<<s, Peer(e)>>][w] = 0 => linked'[Name(s, w)] = linked[Name(s, w)]
    BY <1>11 DEF EndsIt
  <2>3. Found(s, Peer(e), w)' = Found(s, Peer(e), w)
    BY <2>1, <2>2 DEF Found
  <2>4. window[<<s, Peer(e)>>][w] = 0 /\ linked[Name(s, w)] = 0 => window[<<s, e>>][w] = 0
    BY <1>1, <1>11 DEF InvOf, MapOf
  <2>5. ToMake(s, w)' => ToMake(s, w)
    BY <2>1, <2>2, <2>4, TwoEnds DEF ToMake
  <2> QED BY <2>3, <2>5
<1>12. CountOf(s)'
  <2>1. CASE Ended(s, Peer(e))
    BY <1>5, <2>1, TwoEnds DEF CountOf, Over
  <2>2. CASE ~Ended(s, Peer(e))
    <3>1. Len(regions) + One(ToMake(s, "A")) + One(ToMake(s, "B")) <= 2 * s
      BY <1>1 DEF InvOf, CountOf
    <3>2. /\ (ToMake(s, "A")' => ToMake(s, "A")) /\ (ToMake(s, "B")' => ToMake(s, "B"))
      BY <1>11, <2>2, TwoWindows
    <3>3. /\ One(ToMake(s, "A"))' \in {0, 1} /\ One(ToMake(s, "A")) \in {0, 1}
          /\ One(ToMake(s, "A"))' <= One(ToMake(s, "A"))
          /\ One(ToMake(s, "B"))' \in {0, 1} /\ One(ToMake(s, "B")) \in {0, 1}
          /\ One(ToMake(s, "B"))' <= One(ToMake(s, "B"))
      BY <3>2 DEF One
    <3>4. Len(regions)' = Len(regions) /\ Len(regions) \in Nat
      BY <1>1, <1>2, LenIsNat
    <3>5. Len(regions)' + One(ToMake(s, "A"))' + One(ToMake(s, "B"))' <= 2 * s
      BY <3>1, <3>3, <3>4, SessionNumbers
    <3> QED BY <1>5, <3>5 DEF CountOf
  <2> QED BY <2>1, <2>2
<1>13. CallOf(s)'
  <2>1. /\ Depth(s)' = Depth(s) /\ (\A f \in Ends : Calls(s, f)' = Calls(s, f))
        /\ (\A n : WriterOf(s, n)' = WriterOf(s, n) /\ WindowOf(s, n)' = WindowOf(s, n))
    BY <1>2 DEF Depth, Calls, WriterOf, WindowOf
  <2>2. \A f \in Ends : WindowOf(s, Calls(s, f) + 1)' = WindowOf(s, Calls(s, f) + 1)
    BY <2>1
  <2>3. \A f \in Ends : pc'[s][f] # "idle" => /\ pc'[s][f] = pc[s][f]
                                              /\ \A w \in Windows : window'[<<s, f>>][w] = window[<<s, f>>][w]
    BY <1>2
  <2>4. \A f \in Ends : current[<<s, f>>] \in Windows
    BY <1>1 DEF TypeOK
  <2> QED BY <1>1, <1>2, <1>5, <2>1, <2>2, <2>3, <2>4 DEF InvOf, CallOf
<1>14. UnreadOf(s)'
  <2> SUFFICES ASSUME NEW f \in Ends, ~Ended(s, f)', NEW n \in Len(got[s]) + 1 .. sent[s], WriterOf(s, n)' = Peer(f)
               PROVE  /\ Found(s, f, WindowOf(s, n))' # 0
                      /\ \A c \in Cells : regions[Found(s, f, WindowOf(s, n))'][c] = Written(s, n, c)'
    BY <1>2 DEF UnreadOf
  <2>1. f = Peer(e) /\ ~Ended(s, f)
    BY <1>5, TwoEnds
  <2>2. PICK w \in Windows : w = WindowOf(s, n)
    BY TwoWindows
  <2>3. WindowOf(s, n)' = w /\ WriterOf(s, n) = Peer(f) /\ \A c : Written(s, n, c)' = Written(s, n, c)
    BY <1>2, <2>2 DEF WindowOf, WriterOf, Written
  <2>4. Found(s, f, w)' = Found(s, f, w)
    BY <1>11, <2>1
  <2>5. Found(s, f, w) # 0 /\ \A c \in Cells : regions[Found(s, f, w)][c] = Written(s, n, c)
    BY <1>1, <2>1, <2>2, <2>3 DEF InvOf, UnreadOf
  <2> QED BY <2>3, <2>4, <2>5
<1>15. StoreOf(s)' /\ LoadOf(s)' /\ GotOf(s)'
  <2>1. \A f \in Ends : pc'[s][f] # "idle" => /\ pc'[s][f] = pc[s][f]
                                              /\ \A w \in Windows : window'[<<s, f>>][w] = window[<<s, f>>][w]
    BY <1>2
  <2>2. \A f \in Ends : current[<<s, f>>] \in Windows
    BY <1>1 DEF TypeOK
  <2>3. StoreOf(s)'
    BY <1>1, <1>2, <2>1, <2>2 DEF InvOf, StoreOf, StoresOf
  <2>4. LoadOf(s)' /\ GotOf(s)'
    BY <1>1, <1>2, <2>1 DEF InvOf, LoadOf, GotOf, Written
  <2> QED BY <2>3, <2>4
<1> QED BY <1>4, <1>6, <1>7, <1>8, <1>9, <1>10, <1>12, <1>13, <1>14, <1>15 DEF IInv, InvOf

LEMMA CloseStep ==
  ASSUME IInv, NEW s \in Sessions, NEW e \in Ends, Close(s, e)
  PROVE  IInv'
<1>1. /\ TypeOK /\ PhaseInv /\ EntryInv /\ InvOf(s)
      /\ phase[s][e] = "open" /\ pc[s][e] = "idle" /\ Active(s, e) /\ Object(s, e) = <<s, e>>
  <2>1. phase[s][e] = "open" /\ pc[s][e] = "idle"
    BY DEF Close, Free
  <2> QED BY <2>1, OwnObject DEF IInv, Active
<1>2. /\ phase' = [phase EXCEPT ![s][e] = "closed"]
      /\ live' = live \ {<<s, e>>}
      /\ window' = [window EXCEPT ![<<s, e>>] = [w \in Windows |-> 0]]
      /\ linked' = [n \in Names |->
                     IF \E w \in Windows : n = Name(s, w) /\ window[<<s, e>>][w] # 0 THEN 0 ELSE linked[n]]
      /\ UNCHANGED <<program, token, current, regions, pc, step, loaded, sent, got>>
  BY <1>1 DEF Close, Destroy, callVars, dataVars
<1>3. sleepers' = sleepers /\ buffers' = IF e = "owner" THEN [i \in DOMAIN buffers \ {UsageId} |-> buffers[i]] ELSE buffers
  BY DEF Close, EraseEntry, Erase, registry
<1>4. DOMAIN buffers' \subseteq {UsageId}
  BY <1>1, <1>3 DEF TypeOK
<1>5. /\ phase' \in [Sessions -> [Ends -> {"none", "initialised", "open", "closed", "crashed"}]]
      /\ \A r \in Sessions, f \in Ends : phase'[r][f] = IF r = s /\ f = e THEN "closed" ELSE phase[r][f]
  BY <1>1, <1>2 DEF TypeOK
<1>6. EndsIt(s, e)
  <2>1. /\ window' \in [Sessions \X Ends -> [Windows -> 0 .. Len(regions)]]
        /\ \A w \in Windows : window'[<<s, e>>][w] = 0
        /\ \A r \in Sessions, f \in Ends : r # s \/ f # e => \A w \in Windows : window'[<<r, f>>][w] = window[<<r, f>>][w]
    <3>1. 0 \in 0 .. Len(regions)
      BY <1>1, LenIsNat
    <3>2. window \in [Sessions \X Ends -> [Windows -> 0 .. Len(regions)]]
      BY <1>1 DEF TypeOK
    <3> QED BY <1>2, <3>1, <3>2
  <2>2. linked' \in [Names -> 0 .. Len(regions)] /\ \A n \in Names : linked'[n] \in {0, linked[n]}
    <3>1. linked \in [Names -> 0 .. Len(regions)] /\ 0 \in 0 .. Len(regions)
      BY <1>1, LenIsNat DEF TypeOK
    <3> QED BY <1>2, <3>1
  <2>3. \A w \in Windows : window[<<s, e>>][w] # 0 => linked'[Name(s, w)] = 0
    BY <1>1, <1>2, NamesDiffer
  <2>4. ASSUME NEW w \in Windows, linked'[Name(s, w)] # linked[Name(s, w)]
        PROVE  Ended(s, Peer(e)) \/ window[<<s, Peer(e)>>][w] # 0
    <3>1. window[<<s, e>>][w] # 0
      BY <1>1, <1>2, <2>4, NamesDiffer
    <3>2. phase[s][Peer(e)] = "open" => Object(s, Peer(e)) = <<s, Peer(e)>>
      BY OwnObject, TwoEnds
    <3> QED BY <1>1, <3>1, <3>2 DEF Close, MayClose
  <2>5. pc' \in [Sessions -> [Ends -> {"idle", "write", "read"}]] /\ pc'[s][e] = "idle"
    BY <1>1, <1>2 DEF TypeOK
  <2>6. /\ phase'[s][e] = "closed"
        /\ \A r \in Sessions, f \in Ends : r # s \/ f # e =>
               /\ phase'[r][f] = phase[r][f] /\ pc'[r][f] = pc[r][f]
               /\ \A w \in Windows : window'[<<r, f>>][w] = window[<<r, f>>][w]
    BY <1>2, <1>5, <2>1
  <2>7. UNCHANGED <<program, token, current, regions, step, loaded, sent, got, sleepers>> /\ live' = live \ {<<s, e>>}
    BY <1>2, <1>3
  <2> HIDE <1>2, <1>3
  <2> QED BY <1>4, <1>5, <2>1, <2>2, <2>3, <2>4, <2>5, <2>6, <2>7 DEF EndsIt
<1>7. EntryInv'
  <2>1. CASE e = "owner"
    <3>1. \A r \in Sessions : ~Active(r, "owner")'
      BY <1>1, <1>5, <2>1, OneActive, TwoEnds DEF Active
    <3>2. ~Registered(UsageId)'
      BY <1>3, <2>1 DEF Registered
    <3> QED BY <3>1, <3>2 DEF EntryInv
  <2>2. CASE e # "owner"
    <3>1. \A r \in Sessions : Active(r, "owner")' <=> Active(r, "owner")
      BY <1>5, <2>2, TwoEnds DEF Active
    <3> QED BY <1>1, <1>3, <2>2, <3>1 DEF EntryInv, Registered
  <2> QED BY <2>1, <2>2
<1> QED BY <1>1, <1>6, <1>7, EndStep

LEMMA VanishIs ==
  ASSUME IInv, NEW s \in Sessions, NEW e \in Ends, Active(s, e), Vanish({<<s, e>>}), sleepers' = sleepers,
         DOMAIN buffers' \subseteq {UsageId}
  PROVE  /\ EndsIt(s, e)
         /\ \A r \in Sessions, f \in Ends : phase'[r][f] = IF r = s /\ f = e THEN "crashed" ELSE phase[r][f]
<1>1. TypeOK
  BY DEF IInv
<1>2. \A r \in Sessions, f \in Ends : <<r, f>> \in {<<s, e>>} <=> r = s /\ f = e
  OBVIOUS
<1>3. /\ phase' \in [Sessions -> [Ends -> {"none", "initialised", "open", "closed", "crashed"}]]
      /\ \A r \in Sessions, f \in Ends : phase'[r][f] = IF r = s /\ f = e THEN "crashed" ELSE phase[r][f]
  <2>1. phase' = [r \in Sessions |-> [f \in Ends |-> IF <<r, f>> \in {<<s, e>>} THEN "crashed" ELSE phase[r][f]]]
    BY DEF Vanish
  <2> QED BY <1>1, <1>2, <2>1 DEF TypeOK
<1>4. /\ pc' \in [Sessions -> [Ends -> {"idle", "write", "read"}]]
      /\ \A r \in Sessions, f \in Ends : pc'[r][f] = IF r = s /\ f = e THEN "idle" ELSE pc[r][f]
  <2>1. pc' = [r \in Sessions |-> [f \in Ends |-> IF <<r, f>> \in {<<s, e>>} THEN "idle" ELSE pc[r][f]]]
    BY DEF Vanish
  <2> QED BY <1>1, <1>2, <2>1 DEF TypeOK
<1>5. /\ window' \in [Sessions \X Ends -> [Windows -> 0 .. Len(regions)]]
      /\ \A r \in Sessions, f \in Ends, w \in Windows :
             window'[<<r, f>>][w] = IF r = s /\ f = e THEN 0 ELSE window[<<r, f>>][w]
  <2>1. window' = [o \in Sessions \X Ends |-> IF o \in {<<s, e>>} THEN [w \in Windows |-> 0] ELSE window[o]]
    BY DEF Vanish
  <2>2. window \in [Sessions \X Ends -> [Windows -> 0 .. Len(regions)]] /\ 0 \in 0 .. Len(regions)
    BY <1>1, LenIsNat DEF TypeOK
  <2> QED BY <2>1, <2>2
<1>6. /\ live' = live \ {<<s, e>>}
      /\ UNCHANGED <<program, token, current, linked, regions, step, loaded, sent, got>>
  BY DEF Vanish, memoryVars, dataVars
<1>7. linked \in [Names -> 0 .. Len(regions)]
  BY <1>1 DEF TypeOK
<1>8. phase'[s][e] = "crashed"
  BY <1>3
<1>9. EndsIt(s, e)
  BY <1>3, <1>4, <1>5, <1>6, <1>7, <1>8 DEF EndsIt
<1> QED BY <1>3, <1>9

LEMMA ClientCrashStep ==
  ASSUME IInv, NEW s \in Sessions, ClientCrash(s)
  PROVE  IInv'
<1>1. TypeOK /\ EntryInv /\ "client" \in Ends /\ Active(s, "client") /\ Vanish({<<s, "client">>}) /\ registry' = registry
  BY TwoEnds DEF IInv, ClientCrash, Active
<1>2. sleepers' = sleepers /\ buffers' = buffers /\ DOMAIN buffers' \subseteq {UsageId}
  BY <1>1 DEF registry, TypeOK
<1>3. /\ EndsIt(s, "client")
      /\ \A r \in Sessions, f \in Ends : phase'[r][f] = IF r = s /\ f = "client" THEN "crashed" ELSE phase[r][f]
  BY <1>1, <1>2, VanishIs
<1>4. EntryInv'
  <2>1. \A r \in Sessions : Active(r, "owner")' <=> Active(r, "owner")
    BY <1>3, TwoEnds DEF Active
  <2> QED BY <1>1, <1>2, <2>1 DEF EntryInv, Registered
<1> QED BY <1>1, <1>3, <1>4, EndStep

LEMMA ServerCrashStep ==
  ASSUME IInv, ServerCrash
  PROVE  IInv'
<1>1. PICK s \in Sessions : Active(s, "owner")
  BY DEF ServerCrash, Active
<1>2. TypeOK /\ PhaseInv /\ "owner" \in Ends /\ InvOf(s)
  BY TwoEnds DEF IInv
<1>3. {o \in live : o[2] = "owner"} = {<<s, "owner">>}
  <2>1. live \subseteq Sessions \X Ends
    BY <1>2 DEF TypeOK
  <2>2. <<s, "owner">> \in live
    BY <1>1, <1>2 DEF InvOf, LiveOf
  <2>3. \A r \in Sessions : <<r, "owner">> \in live => Active(r, "owner")
    BY <1>2 DEF IInv, InvOf, LiveOf
  <2>4. \A r \in Sessions : <<r, "owner">> \in live => r = s
    BY <1>1, <1>2, <2>3, OneActive
  <2>5. ASSUME NEW o \in live, o[2] = "owner" PROVE o = <<s, "owner">>
    <3>1. PICK r \in Sessions, f \in Ends : o = <<r, f>>
      BY <2>1
    <3> QED BY <2>4, <2>5, <3>1
  <2> QED BY <2>2, <2>5
<1>4. Vanish({<<s, "owner">>}) /\ sleepers' = sleepers /\ DOMAIN buffers' = {}
  <2>1. Vanish({o \in live : o[2] = "owner"}) /\ sleepers' = sleepers /\ buffers' = [id \in {} |-> id]
    BY DEF ServerCrash
  <2> QED BY <1>3, <2>1
<1>5. /\ EndsIt(s, "owner")
      /\ \A r \in Sessions, f \in Ends : phase'[r][f] = IF r = s /\ f = "owner" THEN "crashed" ELSE phase[r][f]
  BY <1>1, <1>2, <1>4, VanishIs
<1>6. EntryInv'
  <2>1. \A r \in Sessions : ~Active(r, "owner")'
    BY <1>1, <1>2, <1>5, OneActive DEF Active
  <2>2. ~Registered(UsageId)'
    BY <1>4 DEF Registered
  <2> QED BY <2>1, <2>2 DEF EntryInv
<1> QED BY <1>1, <1>2, <1>5, <1>6, EndStep

-----------------------------------------------------------------------------
(* The theorems *)

LEMMA StutterStep == ASSUME IInv, UNCHANGED vars PROVE IInv'
<1>1. UNCHANGED <<program, phase, token, live, window, current, linked, regions, pc, step, loaded, sent, got,
                  buffers, sleepers>>
  BY DEF vars, objectVars, memoryVars, callVars, dataVars, registry
<1>2. TypeOK'
  BY <1>1 DEF IInv, TypeOK
<1>3. PhaseInv' /\ EntryInv' /\ LinkInv' /\ LeftInv'
  <2>1. PhaseInv' /\ EntryInv'
    BY <1>1 DEF IInv, PhaseInv, EntryInv, Begun, Over, Ended, Active, Registered
  <2>2. LinkInv' /\ LeftInv'
    BY <1>1 DEF IInv, LinkInv, LeftInv, Name
  <2> QED BY <2>1, <2>2
<1>4. ASSUME NEW s \in Sessions PROVE InvOf(s)'
  <2>1. InvOf(s)
    BY DEF IInv
  <2>2. LiveOf(s)' /\ MapOf(s)' /\ NamedOf(s)'
    BY <1>1, <2>1 DEF InvOf, LiveOf, MapOf, NamedOf, Active, Ended, Name
  <2>3. CountOf(s)'
    BY <1>1, <2>1 DEF InvOf, CountOf, Begun, Over, Ended, One, ToMake, Name
  <2>4. CallOf(s)'
    <3>1. Depth(s)' = Depth(s) /\ \A e \in Ends : WindowOf(s, Calls(s, e) + 1)' = WindowOf(s, Calls(s, e) + 1)
      BY <1>1 DEF Depth, WindowOf, Calls, WriterOf
    <3>2. WriterOf(s, sent[s] + 1)' = WriterOf(s, sent[s] + 1) /\ WriterOf(s, Len(got[s]) + 1)' = WriterOf(s, Len(got[s]) + 1)
      BY <1>1 DEF WriterOf
    <3>3. \A e \in Ends : current'[<<s, e>>] = WindowOf(s, Calls(s, e) + 1)'
      BY <1>1, <2>1, <3>1 DEF InvOf, CallOf
    <3>4. /\ Len(got'[s]) <= sent'[s] /\ sent'[s] - Len(got'[s]) <= Depth(s)'
          /\ ~Begun(s)' => sent'[s] = 0
      BY <1>1, <2>1, <3>1 DEF InvOf, CallOf, Begun
    <3>5. \A e \in Ends : pc'[s][e] = "write" => /\ sent'[s] < MaxMessages /\ WriterOf(s, sent[s] + 1)' = e
                                                /\ sent'[s] - Len(got'[s]) < Depth(s)'
      BY <1>1, <2>1, <3>1, <3>2 DEF InvOf, CallOf
    <3>6. \A e \in Ends : pc'[s][e] = "read" => Len(got'[s]) < sent'[s] /\ WriterOf(s, Len(got[s]) + 1)' = Peer(e)
      BY <1>1, <2>1, <3>2 DEF InvOf, CallOf
    <3>7. \A e \in Ends : pc'[s][e] # "idle" => window'[<<s, e>>][current'[<<s, e>>]] # 0
      BY <1>1, <2>1 DEF InvOf, CallOf
    <3> HIDE <1>1
    <3> QED BY <3>3, <3>4, <3>5, <3>6, <3>7 DEF CallOf
  <2>5. UnreadOf(s)'
    <3>1. /\ \A n : WriterOf(s, n)' = WriterOf(s, n) /\ WindowOf(s, n)' = WindowOf(s, n)
          /\ \A e, w : Found(s, e, w)' = Found(s, e, w)
          /\ \A n, c : Written(s, n, c)' = Written(s, n, c)
      BY <1>1 DEF WriterOf, WindowOf, Found, Name, Written
    <3>2. \A e, n : Found(s, e, WindowOf(s, n))' = Found(s, e, WindowOf(s, n))
      BY <3>1
    <3> QED BY <1>1, <2>1, <3>1, <3>2 DEF InvOf, UnreadOf, Ended
  <2>6. StoreOf(s)' /\ LoadOf(s)' /\ GotOf(s)'
    BY <1>1, <2>1 DEF InvOf, StoreOf, StoresOf, LoadOf, Written, GotOf
  <2> QED BY <2>2, <2>3, <2>4, <2>5, <2>6 DEF InvOf
<1> QED BY <1>2, <1>3, <1>4 DEF IInv

LEMMA NextStep ==
  ASSUME IInv, ~Overlapping, [Next]_vars
  PROVE  IInv'
<1>1. ASSUME NEW s \in Sessions, NEW e \in Ends, User(s, e) PROVE IInv'
  <2>1. CASE BeginWrite(s, e)
    BY <2>1, BeginStep DEF BeginWrite
  <2>2. CASE BeginRead(s, e)
    BY <2>2, BeginStep DEF BeginRead
  <2> QED BY <1>1, <2>1, <2>2, StoreStep, LoadFirstStep, LoadSecondStep, CloseStep DEF User
<1>2. CASE UNCHANGED vars
  BY <1>2, StutterStep
<1>3. CASE \E s \in Sessions : InitOwner(s)
  BY <1>3, InitOwnerStep
<1>4. CASE \E s \in Sessions : GetOwnerToken(s)
  BY <1>4, GetOwnerTokenStep
<1>5. CASE \E s \in Sessions : InitClient(s)
  BY <1>5, InitClientStep
<1>6. CASE \E s \in Sessions : ClientCrash(s)
  BY <1>6, ClientCrashStep
<1>7. CASE ServerCrash
  BY <1>7, ServerCrashStep
<1> QED BY <1>1, <1>2, <1>3, <1>4, <1>5, <1>6, <1>7 DEF Next

\* In every behaviour in which sessions do not overlap the invariant holds
\* throughout: where each session is, what it has mapped and what is unread.
THEOREM Invariance == ~Overlapping /\ Spec => []IInv
<1> SUFFICES ASSUME ~Overlapping PROVE Spec => []IInv
  OBVIOUS
<1>1. IInv /\ [Next]_vars => IInv'
  BY NextStep
<1> QED BY <1>1, InitialState, PTL DEF Spec

\* The variables keep their types; in particular a session never makes more than
\* two regions, whichever ends map its windows, close or crash.
THEOREM TypeCorrect == ~Overlapping /\ Spec => []TypeOK
<1>1. IInv => TypeOK
  BY DEF IInv
<1> QED BY <1>1, Invariance, PTL

\* The object of an open serving thread is registered and not deleted, so that
\* the assertion of CloseSidebandData holds, whatever crashed before.
THEOREM TokenIsLive == ~Overlapping /\ Spec => []TokenLive
<1>1. ASSUME IInv, NEW s \in Sessions, phase[s]["owner"] = "open"
      PROVE  Registered(UsageId) /\ buffers[UsageId] = token[s] /\ <<token[s], "owner">> \in live
  <2>1. Active(s, "owner")
    BY <1>1 DEF Active
  <2> QED BY <1>1, <2>1, TwoEnds DEF IInv, EntryInv, InvOf, LiveOf
<1>2. IInv => TokenLive
  BY <1>1 DEF TokenLive
<1> QED BY <1>2, Invariance, PTL

\* The two ends of a session never work on different regions in one window,
\* though each finds its region by a name that any end can make or free.
THEOREM EndsShareOneRegion == ~Overlapping /\ Spec => []OneRegion
<1>1. ASSUME IInv, NEW s \in Sessions, NEW w \in Windows, NEW e \in Ends, NEW f \in Ends,
             window[<<s, e>>][w] # 0, window[<<s, f>>][w] # 0
      PROVE  window[<<s, e>>][w] = window[<<s, f>>][w]
  <2>1. MapOf(s)
    BY <1>1 DEF IInv, InvOf
  <2>2. e = f \/ f = Peer(e)
    BY TwoEnds
  <2> QED BY <1>1, <2>1, <2>2 DEF MapOf
<1>2. IInv => OneRegion
  BY <1>1, ZenonT(30) DEF OneRegion
<1> QED BY <1>2, Invariance, PTL

\* Nobody reads a region that is being written, also where the writer of a
\* double buffer is one message ahead of the reader.
THEOREM NoReadRacesAWrite == ~Overlapping /\ Spec => []NoRace
<1>1. ASSUME IInv, NEW s \in Sessions, NEW r \in Sessions, NEW e \in Ends, NEW f \in Ends,
             pc[s][e] = "write", pc[r][f] = "read"
      PROVE  InUse(s, e) # InUse(r, f)
  <2>1. TypeOK /\ PhaseInv /\ InvOf(s)
    BY <1>1 DEF IInv
  <2>2. phase[s][e] = "open" /\ phase[r][f] = "open" /\ InUse(s, e) = window[<<s, e>>][current[<<s, e>>]]
    BY <1>1, OwnCall
  <2>3. r = s
    BY <2>1, <2>2, OneActive DEF Active
  <2>4. InUse(s, f) = window[<<s, f>>][current[<<s, f>>]] /\ InUse(s, f) # 0
    BY <1>1, <2>3, OwnCall
  <2>5. /\ Len(got[s]) < sent[s] /\ WriterOf(s, Len(got[s]) + 1) = Peer(f)
        /\ Len(got[s]) \in Nat /\ sent[s] \in 0 .. MaxMessages
    BY <1>1, <2>1, <2>3, LenIsNat DEF InvOf, CallOf, TypeOK
  <2>6. current[<<s, f>>] = WindowOf(s, Len(got[s]) + 1)
    BY <2>1, <2>5, ReaderIsDone DEF InvOf
  <2>7. Len(got[s]) + 1 \in Len(got[s]) + 1 .. sent[s]
    BY <2>5, SharedMemoryAssumption
  <2>8. ~Ended(s, f)
    BY <2>2, <2>3 DEF Ended
  <2>9. Found(s, f, WindowOf(s, Len(got[s]) + 1)) = InUse(s, f)
    BY <2>4, <2>6 DEF Found
  <2>10. Found(s, f, WindowOf(s, Len(got[s]) + 1)) # window[<<s, e>>][current[<<s, e>>]]
    BY <1>1, <2>1, <2>7, <2>8, UnreadIsApart DEF InvOf
  <2> QED BY <2>2, <2>3, <2>9, <2>10
<1>2. IInv => NoRace
  BY <1>1 DEF NoRace
<1> QED BY <1>2, Invariance, PTL

\* When every session that began has been closed at both ends no name stands for
\* a region: nothing is left in the system.
THEOREM NamesAreReleased == ~Overlapping /\ Spec => []NamesReleased
<1>1. ASSUME IInv, \A s \in Sessions : phase[s]["owner"] = "none" \/ \A e \in Ends : phase[s][e] = "closed",
             NEW n \in Names
      PROVE  linked[n] = 0
  <2>1. \A s \in Sessions, e \in Ends : phase[s][e] \notin {"open", "crashed"}
    BY <1>1, TwoEnds DEF IInv, PhaseInv, Begun
  <2>2. \A s \in Sessions, e \in Ends, w \in Windows : window[<<s, e>>][w] = 0
    BY <1>1, <2>1 DEF IInv, InvOf, LiveOf
  <2> QED BY <1>1, <2>1, <2>2 DEF IInv, LeftInv
<1>2. IInv => NamesReleased
  BY <1>1 DEF NamesReleased
<1> QED BY <1>2, Invariance, PTL

\* Every message is read whole, once and in order, however many sessions used
\* the names before and whatever they left in the regions.
THEOREM MessagesAreReadWhole == ~Overlapping /\ Spec => []ReadsWhatWasWritten
<1>1. IInv => ReadsWhatWasWritten
  BY DEF IInv, InvOf, GotOf, ReadsWhatWasWritten
<1> QED BY <1>1, Invariance, PTL

=============================================================================
