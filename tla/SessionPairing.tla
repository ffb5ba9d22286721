---------------------------- MODULE SessionPairing ----------------------------
(***************************************************************************)
(* What connection set-up promises a streaming session: sessions are       *)
(* offered to clients one at a time, and the thread that serves a session  *)
(* gets the connection that session's own client made, once.               *)
(***************************************************************************)
CONSTANTS Sessions, None

VARIABLES phase,  \* where each session is
          owned   \* the connection its serving thread holds, or None

vars == <<phase, owned>>

Init == /\ phase = [s \in Sessions |-> "new"]
        /\ owned = [s \in Sessions |-> None]

Step(s, from, to) == /\ phase[s] = from
                     /\ phase' = [phase EXCEPT ![s] = to]

\* The session's parameters become the ones the next connection gets.
Offer(s) == /\ \A r \in Sessions : phase[r] # "offered"
            /\ Step(s, "new", "offered")
            /\ UNCHANGED owned

\* The client's connection was identified as this session's.
Establish(s) == Step(s, "offered", "established") /\ UNCHANGED owned

\* The client's connection broke before it was identified.
Lose(s) == Step(s, "offered", "lost") /\ UNCHANGED owned

\* The serving thread gets the connection.
Own(s) == /\ Step(s, "established", "owned")
          /\ owned' = [owned EXCEPT ![s] = s]

Close(s) == Step(s, "owned", "closed") /\ UNCHANGED owned

Next == \E s \in Sessions : Offer(s) \/ Establish(s) \/ Lose(s) \/ Own(s) \/ Close(s)

Spec == Init /\ [][Next]_vars
=============================================================================
