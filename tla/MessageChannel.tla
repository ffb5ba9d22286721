---------------------------- MODULE MessageChannel ----------------------------
(***************************************************************************)
(* What a sideband promises ReadSidebandMessage and WriteSidebandMessage   *)
(* of sideband_grpc.h: messages arrive whole, once and in the order they   *)
(* were written, until an error is reported to the reading side.  Nothing  *)
(* is promised of what is read after an error.                             *)
(***************************************************************************)
EXTENDS Naturals, Sequences

VARIABLES written,    \* the messages given to WriteSidebandMessage
          delivered,  \* the messages ReadSidebandMessage returned
          broken      \* an error was reported to the reader

vars == <<written, delivered, broken>>

Init == /\ written = <<>>
        /\ delivered = <<>>
        /\ broken = FALSE

\* `new` is `old` with one message more.
OneMore(old, new) == /\ Len(new) = Len(old) + 1
                     /\ SubSeq(new, 1, Len(old)) = old

Write == /\ OneMore(written, written')
         /\ UNCHANGED <<delivered, broken>>

Deliver == /\ ~broken
           /\ Len(delivered) < Len(written)
           /\ delivered' = Append(delivered, written[Len(delivered) + 1])
           /\ UNCHANGED <<written, broken>>

Break == /\ broken' = TRUE
         /\ UNCHANGED <<written, delivered>>

Stray == /\ broken
         /\ OneMore(delivered, delivered')
         /\ UNCHANGED <<written, broken>>

Next == Write \/ Deliver \/ Break \/ Stray

Spec == Init /\ [][Next]_vars
=============================================================================
