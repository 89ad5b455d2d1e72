------------------------ MODULE AgentSessionSigning ------------------------
(***************************************************************************)
(* Signing one commit for an agent session: the connection coordinator     *)
(* (NativeAgentSessionCoordinator), the signing adapter that drives one    *)
(* request (NativeAgentSessionCoordinatorSigningAdapter) and the Agent     *)
(* endpoint's replay path, over the session registry and the durable       *)
(* ledger.  Registry and ledger have a lock each and an adapter holds      *)
(* neither between its calls, so every call is one step and the steps of   *)
(* several adapters, of status, close, XPC invalidation and of a crash     *)
(* interleave.  Requests of the Agent endpoint run on its serial queue;    *)
(* the requests in Dedicated come from the Host and Child routes, which    *)
(* share the coordinator from threads of their own.                        *)
(*                                                                         *)
(* Starting a session is one step here, and a session is started at most   *)
(* once, ever.  A binding observation is an input that may fail at any     *)
(* call.                                                                   *)
(***************************************************************************)
EXTENDS AgentSessionRegistry, SigningTransactionStore

CONSTANT Dedicated     \* requests issued by the Host and Child routes

ASSUME SigningAssumption == Dedicated \subseteq Requests /\ IsFiniteSet(Requests)

VARIABLES
  started,   \* sessions that were ever started (durable activation evidence)
  live,      \* connection -> "live", "revoking" or "gone"
  lease,     \* session -> usedSignatures of the coordinator's lease, or NoLease
  pc,        \* request -> next step of the thread serving it
  handoff,   \* request -> usedSignatures its handoff was issued for
  calls,     \* request -> number of provider invocations (history)
  replied    \* requests a signature was returned for (history)

threadVars == <<pc, handoff, calls, replied>>
coordinatorVars == <<started, live, lease>>
vars == <<registryVars, storeVars, coordinatorVars, threadVars>>

NoLease == -1

\* The steps of execute(provider:), in order, then its failure paths.
Steps == {"idle", "handoff", "verify", "reserve", "admit", "begin",
          "mark_intent", "mark_started", "provider", "record",
          "record_signing", "finalize", "complete", "recover",
          "release_admit", "fail_before", "release_before",
          "fail_after", "unknown", "fail_final"}

Goto(r, step) == pc' = [pc EXCEPT ![r] = step]

Conn(r) == OwnerOf[SessionOf[r]]

\* A call about s passes ensureLive.  Invalidation does not take the operation
\* lock, so a call that passed may reach the registry while it is under way;
\* once the sweep is over the registry refuses such a call itself.
Accepts(s) == store = "open" /\ live[OwnerOf[s]] # "gone"

\* The Agent endpoint's serial queue is free.
QueueFree(c) == \A r \in Requests \ Dedicated : Conn(r) = c => pc[r] = "idle"

LoseLease(s) == lease' = [lease EXCEPT ![s] = NoLease]

-----------------------------------------------------------------------------
(* Coordinator calls.                                                      *)

\* coordinator.status: a failed binding observation revokes the session, and
\* a session that is not active loses its lease.  Under check = "binding" or
\* for a session the registry does not know, the call throws.
CoordinatorStatus(s, check) ==
  /\ Accepts(s)
  /\ Published(s)
  /\ IF check = "binding"
     THEN /\ IF CanInvalidate(s) THEN Drop(s, "revoked") ELSE UNCHANGED registryVars
          /\ LoseLease(s)
     ELSE /\ Status(s, check)
          /\ lease' = IF state'[s] = "active" THEN lease
                      ELSE [lease EXCEPT ![s] = NoLease]

StatusChecks == {"live", "expired", "binding"}

\* The session starts: activated, audited and published.
Start(s) ==
  /\ store = "open"
  /\ live[OwnerOf[s]] = "live"
  /\ s \notin started
  /\ HasCapacity(s, {})
  /\ LeaseUsed[s] < MaxSignatures[s]
  /\ started' = started \cup {s}
  /\ state' = [state EXCEPT ![s] = "active"]
  /\ used' = [used EXCEPT ![s] = LeaseUsed[s]]
  /\ lease' = [lease EXCEPT ![s] = LeaseUsed[s]]
  /\ UNCHANGED <<resv, seen, storeVars, live, threadVars>>

StatusCall(s) ==
  /\ QueueFree(OwnerOf[s])
  /\ \E check \in StatusChecks : CoordinatorStatus(s, check)
  /\ UNCHANGED <<storeVars, started, live, threadVars>>

\* close does not look at the invalidation flag.  The lease is kept when the
\* close could not be audited.
CloseCall(s) ==
  /\ QueueFree(OwnerOf[s])
  /\ store = "open"
  /\ Close(s) \/ (state[s] = "closed" /\ UNCHANGED registryVars)
  /\ \E audited \in BOOLEAN :
       lease' = IF audited THEN [lease EXCEPT ![s] = NoLease] ELSE lease
  /\ UNCHANGED <<storeVars, started, live, threadVars>>

\* The XPC invalidation handler takes no operation lock: it flags the
\* connection and drops its leases, then sweeps the registry.  A call that
\* fails to revalidate the connection later sweeps again.
InvalidateConnection(c) ==
  /\ store = "open"
  /\ live[c] = "live"
  /\ live' = [live EXCEPT ![c] = "revoking"]
  /\ lease' = [s \in Sessions |-> IF OwnerOf[s] = c THEN NoLease ELSE lease[s]]
  /\ UNCHANGED <<registryVars, storeVars, started, threadVars>>

SweepConnection(c) ==
  /\ store = "open"
  /\ live[c] = "revoking"
  /\ InvalidateOwned(c)
  /\ live' = [live EXCEPT ![c] = "gone"]
  /\ UNCHANGED <<storeVars, started, lease, threadVars>>

SweepAgain(c) ==
  /\ store = "open"
  /\ live[c] = "gone"
  /\ InvalidateOwned(c)
  /\ UNCHANGED <<storeVars, coordinatorVars, threadVars>>

-----------------------------------------------------------------------------
(* One request.  Every action below is one call of the thread serving r.   *)

\* A request arrives and its identity is not in the ledger.
Submit(r) ==
  /\ store = "open"
  /\ live[Conn(r)] = "live"
  /\ pc[r] = "idle"
  /\ r \notin Dedicated => QueueFree(Conn(r))
  /\ records[r] = Absent
  /\ Goto(r, "handoff")
  /\ UNCHANGED <<registryVars, storeVars, coordinatorVars, handoff, calls, replied>>

\* makeSigningHandoff: an active session whose lease and entry agree.  A
\* denial drops the lease of a session that is not active.
MakeHandoff(r) ==
  LET s == SessionOf[r]
  IN /\ pc[r] = "handoff"
     /\ \/ /\ Accepts(s) /\ lease[s] # NoLease
           /\ state[s] = "active"
           /\ lease[s] = used[s] /\ lease[s] < MaxSignatures[s]
           /\ handoff' = [handoff EXCEPT ![r] = lease[s]]
           /\ Goto(r, "verify")
           /\ UNCHANGED <<registryVars, lease>>
        \/ \* the connection, the binding or the authority is refused
           /\ Goto(r, "idle")
           /\ UNCHANGED <<registryVars, lease, handoff>>
        \/ \* the session is not active, or its deadline has just passed
           /\ Accepts(s) /\ lease[s] # NoLease
           /\ \E check \in {"live", "expired"} : Status(s, check)
           /\ state'[s] # "active"
           /\ LoseLease(s)
           /\ Goto(r, "idle")
           /\ UNCHANGED handoff
     /\ UNCHANGED <<storeVars, started, live, calls, replied>>

\* verifyLiveLeaseBeforeReserve: the handoff is still current.
VerifyLive(r) ==
  LET s == SessionOf[r]
  IN /\ pc[r] = "verify"
     /\ \/ /\ \E check \in StatusChecks : CoordinatorStatus(s, check)
           /\ Goto(r, IF state'[s] = "active" /\ used[s] = handoff[r]
                         /\ records[r] = Absent
                      THEN "reserve" ELSE "idle")
        \/ /\ live[OwnerOf[s]] # "live" \/ ~Published(s)
           /\ Goto(r, "idle")
           /\ UNCHANGED <<registryVars, lease>>
     /\ UNCHANGED <<storeVars, started, live, handoff, calls, replied>>

ReserveSigningRequest(r) ==
  /\ pc[r] = "reserve"
  /\ \/ Accepts(SessionOf[r]) /\ Reserve(r) /\ Goto(r, "admit")
     \/ Accepts(SessionOf[r]) /\ ReserveExpired(r) /\ Goto(r, "idle")
     \/ Goto(r, "idle") /\ UNCHANGED registryVars
  /\ UNCHANGED <<storeVars, coordinatorVars, handoff, calls, replied>>

\* Mutant: a refused admission does not release the reservation.
AdmitTransaction_NoRelease(r) ==
  /\ pc[r] = "admit"
  /\ \/ \E io \in WriteOutcomes :
          Admit(r, io) /\ Goto(r, IF io = "ok" THEN "begin" ELSE "idle")
     \/ ~CanAdmit(r) /\ Goto(r, "idle") /\ UNCHANGED storeVars
  /\ UNCHANGED <<registryVars, coordinatorVars, handoff, calls, replied>>

\* A binding other than the handoff's, like a refused or failed admission,
\* gives the reservation back.
AdmitTransaction(r) ==
  /\ pc[r] = "admit"
  /\ \/ \E io \in WriteOutcomes :
          /\ Admit(r, io)
          /\ Goto(r, IF io = "ok" THEN "begin" ELSE "release_admit")
     \/ Goto(r, "release_admit") /\ UNCHANGED storeVars
  /\ UNCHANGED <<registryVars, coordinatorVars, handoff, calls, replied>>

\* The final binding observation and the registry's intent boundary.
\* Once the intent is crossed a binding other than the handoff's is ambiguous.
BeginIntent(r) ==
  /\ pc[r] = "begin"
  /\ \/ /\ Accepts(SessionOf[r]) /\ BeginSigningIntent(r)
        /\ \E step \in {"mark_intent", "fail_after"} : Goto(r, step)
     \/ Goto(r, "fail_before") /\ UNCHANGED registryVars
  /\ UNCHANGED <<storeVars, coordinatorVars, handoff, calls, replied>>

\* A ledger call of the thread: on to next, or to failed when it throws.
LedgerStep(r, at, Call(_, _), can, next, failed) ==
  /\ pc[r] = at
  /\ \/ \E io \in WriteOutcomes :
          Call(r, io) /\ Goto(r, IF io = "ok" THEN next ELSE failed)
     \/ ~can /\ Goto(r, failed) /\ UNCHANGED storeVars
  /\ UNCHANGED <<registryVars, coordinatorVars, handoff, calls>>

MarkIntentStep(r) ==
  /\ LedgerStep(r, "mark_intent", MarkIntent, CanMove(r, {"admitted"}),
                "mark_started", "fail_after")
  /\ UNCHANGED replied

MarkProviderStartedStep(r) ==
  /\ LedgerStep(r, "mark_started", MarkProviderStarted, CanMove(r, {"intent"}),
                "provider", "fail_after")
  /\ UNCHANGED replied

\* Mutant: a provider that throws is invoked again.
InvokeProvider_Retries(r) ==
  /\ pc[r] = "provider"
  /\ calls' = [calls EXCEPT ![r] = @ + 1]
  /\ \E step \in {"record", "provider"} : Goto(r, step)
  /\ UNCHANGED <<registryVars, storeVars, coordinatorVars, handoff, replied>>

\* The provider is invoked; it returns a signature or throws.
InvokeProvider(r) ==
  /\ pc[r] = "provider"
  /\ calls' = [calls EXCEPT ![r] = @ + 1]
  /\ \E step \in {"record", "fail_after"} : Goto(r, step)
  /\ UNCHANGED <<registryVars, storeVars, coordinatorVars, handoff, replied>>

RecordVerifiedStep(r) ==
  /\ LedgerStep(r, "record", RecordVerified, CanMove(r, {"provider_started"}),
                "record_signing", "fail_after")
  /\ UNCHANGED replied

\* recordSigning looks at neither the connection nor the binding.
RecordSigning(r) ==
  /\ pc[r] = "record_signing"
  /\ \/ RecordSigned(r) /\ Goto(r, "finalize")
     \/ ~Holds(r, "signing_intent") /\ Goto(r, "fail_after") /\ UNCHANGED registryVars
  /\ UNCHANGED <<storeVars, coordinatorVars, handoff, calls, replied>>

\* Mutant: the coordinator keeps the lease it had before the signature.
Finalize_StaleLease(r) ==
  /\ pc[r] = "finalize"
  /\ \/ FinalizeSigning(r) /\ Goto(r, "complete")
     \/ ~CanFinalize(r) /\ Goto(r, "fail_final") /\ UNCHANGED registryVars
  /\ UNCHANGED <<storeVars, coordinatorVars, handoff, calls, replied>>

\* finalizeSigning, then updateActiveLease: a lease already lost stays lost.
Finalize(r) ==
  LET s == SessionOf[r]
  IN /\ pc[r] = "finalize"
     /\ \/ /\ FinalizeSigning(r)
           /\ Goto(r, "complete")
           /\ lease' = [lease EXCEPT ![s] =
                IF @ = NoLease \/ state'[s] # "active" THEN NoLease ELSE used[s]]
        \/ /\ ~CanFinalize(r)
           /\ Goto(r, "fail_final")
           /\ UNCHANGED <<registryVars, lease>>
     /\ UNCHANGED <<storeVars, started, live, handoff, calls, replied>>

\* The signature is returned once the completed record is on disk.
CompleteStep(r) ==
  /\ LedgerStep(r, "complete", Complete, CanComplete(r), "idle", "fail_final")
  /\ replied' = IF pc'[r] = "idle" THEN replied \cup {r} ELSE replied

-----------------------------------------------------------------------------
(* Failure paths.  `try?` drops the error of a compensating call.          *)

\* Mutant: a failing compensation is tried again until it succeeds.
TryMarkUncertain_Retries(r, at, next) ==
  /\ pc[r] = at
  /\ \/ \E io \in WriteOutcomes :
          MarkUncertain(r, io) /\ Goto(r, IF io = "ok" THEN next ELSE at)
     \/ ~CanMove(r, Unfinished) /\ Goto(r, next) /\ UNCHANGED storeVars
  /\ UNCHANGED <<registryVars, coordinatorVars, handoff, calls, replied>>

\* markUncertain as a `try?`: any outcome, then on to next.
TryMarkUncertain(r, at, next) ==
  /\ pc[r] = at
  /\ \/ \E io \in WriteOutcomes : MarkUncertain(r, io)
     \/ ~CanMove(r, Unfinished) /\ UNCHANGED storeVars
  /\ Goto(r, next)
  /\ UNCHANGED <<registryVars, coordinatorVars, handoff, calls, replied>>

FailBefore(r) == TryMarkUncertain(r, "fail_before", "release_before")

FailAfter(r) == TryMarkUncertain(r, "fail_after", "unknown")

FailFinal(r) == TryMarkUncertain(r, "fail_final", "idle")

\* releaseSigningBeforeKey, after a refused admission or a failed begin.
Release(r) ==
  /\ pc[r] \in {"release_admit", "release_before"}
  /\ \/ ReleaseBeforeKey(r) /\ Goto(r, "idle")
     \/ /\ ~Holds(r, "request_reserved")
        /\ Goto(r, IF pc[r] = "release_admit" THEN "idle" ELSE "unknown")
        /\ UNCHANGED registryVars
  /\ UNCHANGED <<storeVars, coordinatorVars, handoff, calls, replied>>

Unknown(r) ==
  /\ pc[r] = "unknown"
  /\ \/ MarkOutcomeUnknown(r) /\ LoseLease(SessionOf[r])
     \/ ~Holds(r, "signing_intent") /\ UNCHANGED <<registryVars, lease>>
  /\ Goto(r, "idle")
  /\ UNCHANGED <<storeVars, started, live, handoff, calls, replied>>

-----------------------------------------------------------------------------
(* A request whose identity is already in the ledger.                      *)

\* A completed record is returned when the session still answers status and
\* the authority is observed unchanged.
ReplayCompleted(r) ==
  /\ pc[r] = "idle" /\ r \notin Dedicated /\ QueueFree(Conn(r))
  /\ store = "open" /\ records[r].phase = "completed"
  /\ \E check \in StatusChecks :
       /\ CoordinatorStatus(SessionOf[r], check)
       /\ replied' \in IF check = "binding" THEN {replied}
                       ELSE {replied, replied \cup {r}}
  /\ UNCHANGED <<storeVars, started, live, pc, handoff, calls>>

\* A verified record is finished on its own connection when the reservation
\* is still there, and uncertain otherwise.
ReplayVerified(r) ==
  /\ pc[r] = "idle" /\ r \notin Dedicated /\ QueueFree(Conn(r))
  /\ store = "open" /\ records[r].phase = "signed_verified"
  /\ \E check \in StatusChecks :
       /\ CoordinatorStatus(SessionOf[r], check)
       /\ Goto(r, IF check = "binding" THEN "fail_final" ELSE "recover")
  /\ UNCHANGED <<storeVars, started, live, handoff, calls, replied>>

\* The authority is observed again and the reservation looked up.
Recover(r) ==
  /\ pc[r] = "recover"
  /\ \/ Accepts(SessionOf[r]) /\ CanFinalize(r) /\ Goto(r, "finalize")
     \/ Goto(r, "fail_final")
  /\ UNCHANGED <<registryVars, storeVars, coordinatorVars, handoff, calls, replied>>

\* The same request where status refuses it (another Agent connection, whose
\* coordinator does not know the session, or its own after invalidation): a
\* verified record becomes uncertain.
ReplayElsewhere(r) ==
  /\ r \notin Dedicated
  /\ store = "open" /\ records[r].phase = "signed_verified"
  /\ \E io \in WriteOutcomes : MarkUncertain(r, io)
  /\ UNCHANGED <<registryVars, coordinatorVars, threadVars>>

-----------------------------------------------------------------------------
(* The process.                                                            *)

Crash ==
  /\ StoreCrash
  /\ RegistryEmpty
  /\ live' = [c \in Connections |->
       IF \E s \in started : OwnerOf[s] = c THEN "gone" ELSE live[c]]
  /\ lease' = [s \in Sessions |-> NoLease]
  /\ pc' = [r \in Requests |-> "idle"]
  /\ UNCHANGED <<started, handoff, calls, replied>>

Restart ==
  /\ (\E io \in WriteOutcomes : Open(io)) \/ OpenRefused
  /\ UNCHANGED <<registryVars, coordinatorVars, threadVars>>

Init ==
  /\ RegistryInit
  /\ StoreInit
  /\ started = {}
  /\ live = [c \in Connections |-> "live"]
  /\ lease = [s \in Sessions |-> NoLease]
  /\ pc = [r \in Requests |-> "idle"]
  /\ handoff = [r \in Requests |-> 0]
  /\ calls = [r \in Requests |-> 0]
  /\ replied = {}

\* The next call of the thread serving r.
ThreadStep(r) ==
  \/ MakeHandoff(r) \/ VerifyLive(r) \/ ReserveSigningRequest(r)
  \/ AdmitTransaction(r) \/ BeginIntent(r) \/ MarkIntentStep(r)
  \/ MarkProviderStartedStep(r) \/ InvokeProvider(r) \/ RecordVerifiedStep(r)
  \/ RecordSigning(r) \/ Finalize(r) \/ CompleteStep(r) \/ Recover(r)
  \/ FailBefore(r) \/ FailAfter(r) \/ FailFinal(r) \/ Release(r) \/ Unknown(r)

Arrival(r) ==
  Submit(r) \/ ReplayCompleted(r) \/ ReplayVerified(r) \/ ReplayElsewhere(r)

Next ==
  \/ \E r \in Requests : ThreadStep(r) \/ Arrival(r)
  \/ \E s \in Sessions : Start(s) \/ StatusCall(s) \/ CloseCall(s)
  \/ \E c \in Connections : 
       InvalidateConnection(c) \/ SweepConnection(c) \/ SweepAgain(c)
  \/ Crash
  \/ Restart

Spec == Init /\ [][Next]_vars

\* The threads of a running process are scheduled.
FairSpec ==
  /\ Spec
  /\ \A r \in Requests : WF_vars(ThreadStep(r))
  /\ \A c \in Connections : WF_vars(SweepConnection(c))

-----------------------------------------------------------------------------
(* Properties.                                                             *)

\* Every variable has its shape.
TypeOK ==
  /\ RegistryTypeOK /\ StoreTypeOK
  /\ started \subseteq Sessions
  /\ live \in [Connections -> {"live", "revoking", "gone"}]
  /\ lease \in [Sessions -> Nat \cup {NoLease}]
  /\ pc \in [Requests -> Steps]
  /\ handoff \in [Requests -> Nat]
  /\ calls \in [Requests -> Nat]
  /\ replied \subseteq Requests

\* Phases that tell every later reader that the key may have been used.
KeyPhases == {"provider_started", "signed_verified", "completed", "uncertain"}

\* "Every provider invocation is preceded by a fsynced provider_started
\* record": from the moment the provider may run until for ever after, in
\* memory and on disk, through failed writes, rewrites of the whole file by
\* other requests, crashes and restarts, the record says so.
ProviderDurable ==
  \A r \in Requests :
     calls[r] > 0 \/ pc[r] = "provider" =>
       /\ file[r].phase \in KeyPhases
       /\ store = "open" => records[r].phase \in KeyPhases

\* The budget unit of a request whose key use has begun is never refunded:
\* every such request of a published session is counted by its entry.
BudgetCoversKeyUse ==
  \A s \in Sessions :
     Published(s) =>
       LeaseUsed[s] + Cardinality({r \in Requests : SessionOf[r] = s /\ calls[r] > 0})
         <= used[s]

\* Steps during which the thread of a request owns the key boundary.
KeySteps == {"mark_intent", "mark_started", "provider", "record", "record_signing"}

\* One session never has two requests at the key at once, even when status,
\* close, expiry or revocation ends the session under the first of them.
KeyExclusive ==
  \A q, r \in Requests :
     q # r /\ SessionOf[q] = SessionOf[r] /\ pc[q] \in KeySteps => pc[r] \notin KeySteps

\* A signature that was returned is on disk as completed and stays so.
ReplyDurable ==
  \A r \in replied :
     /\ file[r].phase = "completed"
     /\ store = "open" => records[r].phase = "completed"

\* While a session can reserve, the lease the coordinator issues handoffs
\* from agrees with the registry's only budget.
LeaseMirrorsBudget ==
  \A s \in Sessions :
     state[s] = "active" /\ lease[s] # NoLease => lease[s] = used[s]

\* What the callers of agent signing are promised.
Abstract == INSTANCE SignOnce WITH
  Requests <- Requests, Sessions <- Sessions, SessionOf <- SessionOf,
  MaxSignatures <- MaxSignatures, LeaseUsed <- LeaseUsed,
  calls <- calls, replied <- replied

SignOnceSpec == Abstract!SignOnceSpec

\* Every request that entered the service leaves it: no order of failures
\* parks a thread, as long as the process runs its threads.
EveryRequestEnds == \A r \in Requests : pc[r] # "idle" ~> pc[r] = "idle"

\* No reservation is stranded: whatever fails, the session is freed, ended
\* or lost with the process.
ReservationEnds == \A s \in Sessions : resv[s] # NoRequest ~> resv[s] = NoRequest

=============================================================================
