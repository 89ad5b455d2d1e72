----------------------- MODULE MCAgentSessionRegistry -----------------------
(* Three sessions of two agents, two worktrees and two connections over a  *)
(* global ceiling of two; three requests, two of which share a capability. *)
EXTENDS AgentSessionRegistry, TLC

CONSTANTS s1, s2, s3, r1, r2, r3, c1, c2

MCSessions == {s1, s2, s3}
MCRequests == {r1, r2, r3}
MCConnections == {c1, c2}
MCSessionOf == (r1 :> s1) @@ (r2 :> s1) @@ (r3 :> s1)
MCCapabilityOf == (r1 :> 1) @@ (r2 :> 2) @@ (r3 :> 1)
MCNonceOf == (r1 :> 1) @@ (r2 :> 2) @@ (r3 :> 3)
MCOwnerOf == (s1 :> c1) @@ (s2 :> c1) @@ (s3 :> c2)
MCAgentOf == (s1 :> 1) @@ (s2 :> 2) @@ (s3 :> 1)
MCWorktreeOf == (s1 :> 1) @@ (s2 :> 1) @@ (s3 :> 2)
MCMaxSignatures == (s1 :> 2) @@ (s2 :> 1) @@ (s3 :> 1)
MCLeaseUsed == (s1 :> 0) @@ (s2 :> 0) @@ (s3 :> 1)
=============================================================================
