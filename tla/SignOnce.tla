------------------------------ MODULE SignOnce ------------------------------
(***************************************************************************)
(* What agent signing promises: the key is used at most once per request,  *)
(* at most as often per session as the lease allows, and a signature is    *)
(* handed out only for a request the key was used for.                     *)
(***************************************************************************)
EXTENDS Naturals, FiniteSets

CONSTANTS Requests, Sessions, SessionOf, MaxSignatures, LeaseUsed

VARIABLES
  calls,     \* request -> number of key uses
  replied    \* requests whose signature was handed out

\* Requests of session s the key was used for.
Keyed(s) == {r \in Requests : SessionOf[r] = s /\ calls[r] > 0}

SignOnceInit == calls = [r \in Requests |-> 0] /\ replied = {}

UseKey(r) ==
  LET s == SessionOf[r]
  IN /\ calls[r] = 0
     /\ LeaseUsed[s] + Cardinality(Keyed(s)) < MaxSignatures[s]
     /\ calls' = [calls EXCEPT ![r] = 1]
     /\ UNCHANGED replied

HandOut(r) ==
  /\ calls[r] = 1
  /\ replied' = replied \cup {r}
  /\ UNCHANGED calls

SignOnceNext == \E r \in Requests : UseKey(r) \/ HandOut(r)

SignOnceSpec == SignOnceInit /\ [][SignOnceNext]_<<calls, replied>>

=============================================================================
