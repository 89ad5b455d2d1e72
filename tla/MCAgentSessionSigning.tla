----------------------- MODULE MCAgentSessionSigning -----------------------
(* Two small worlds.  Shared: three requests of one session with a budget   *)
(* of two, one from the Agent endpoint and two from dedicated routes, of    *)
(* which one presents the capability of the Agent's request.  Split: two    *)
(* sessions on two connections with one request each, so that a session     *)
(* started after a crash rewrites the records of the one before it.         *)
EXTENDS AgentSessionSigning, TLC

CONSTANTS s1, s2, r1, r2, r3, c1, c2

SharedSessions == {s1}
SharedRequests == {r1, r2, r3}
SharedConnections == {c1}
SharedDedicated == {r2, r3}
SharedSessionOf == (r1 :> s1) @@ (r2 :> s1) @@ (r3 :> s1)
SharedCapabilityOf == (r1 :> 1) @@ (r2 :> 2) @@ (r3 :> 1)
SharedNonceOf == (r1 :> 1) @@ (r2 :> 2) @@ (r3 :> 3)
SharedOwnerOf == (s1 :> c1)
SharedAgentOf == (s1 :> 1)
SharedMaxSignatures == (s1 :> 2)
SharedLeaseUsed == (s1 :> 0)

SplitSessions == {s1, s2}
SplitRequests == {r1, r2}
SplitConnections == {c1, c2}
SplitDedicated == {}
SplitSessionOf == (r1 :> s1) @@ (r2 :> s2)
SplitCapabilityOf == (r1 :> 1) @@ (r2 :> 2)
SplitOwnerOf == (s1 :> c1) @@ (s2 :> c2)
SplitAgentOf == (s1 :> 1) @@ (s2 :> 2)
SplitMaxSignatures == (s1 :> 2) @@ (s2 :> 1)
SplitLeaseUsed == (s1 :> 1) @@ (s2 :> 0)
=============================================================================
