-------------------------- MODULE MCSocketRendezvous --------------------------
(* Parameters of the sessions for the runs of SocketRendezvous. *)
EXTENDS SocketRendezvous

CONSTANTS s1, s2, s3

ThreeSessions == {s1, s2, s3}
TwoSessions == {s1, s2}

\* No two sessions have the same parameters.
SessionLowLatency == [s \in Sessions |-> s # s1]
SessionBufferSize == [s \in Sessions |-> IF s = s2 THEN 1 ELSE 2]

OneGarbageId == {-1}
=============================================================================
