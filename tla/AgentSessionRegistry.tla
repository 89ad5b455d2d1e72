------------------------ MODULE AgentSessionRegistry ------------------------
(***************************************************************************)
(* The in-memory registry of process-bound agent sessions                  *)
(* (NativeAgentSessionRegistry, with the transition table of               *)
(* NativeAgentSessionTransitionValidator).  One lock guards three maps:    *)
(* pending activations, committed-but-hidden activations and published     *)
(* entries; a session is in at most one of them, so one function `state'   *)
(* says where it is and, once published, in which state.                   *)
(*                                                                         *)
(* Abstracted: a lease is its owner connection, agent, worktree, budget    *)
(* and initial use, given by constants; a reservation is its request, as a *)
(* session never reserves a request twice.  A deadline check samples       *)
(* clocks that may also roll back or change boot, so its result is an      *)
(* input: "live", "expired" or "fault".                                    *)
(***************************************************************************)
EXTENDS SigningRequests, Integers, FiniteSets

CONSTANTS
  Sessions, Connections,
  NoRequest,          \* "no reservation"
  SessionOf,          \* request -> session it names
  CapabilityOf,       \* request -> one-time capability it carries
  NonceOf,            \* request -> nonce it carries
  OwnerOf,            \* session -> connection that starts it
  AgentOf,            \* session -> agent of its lease
  WorktreeOf,         \* session -> worktree of its lease
  MaxSignatures,      \* session -> signature budget of its lease
  LeaseUsed,          \* session -> signatures already used by its lease
  GlobalLimit, PerAgentLimit, PerWorktreeLimit

ASSUME RegistryAssumption ==
  /\ NoRequest \notin Requests
  /\ SessionOf \in [Requests -> Sessions]
  /\ OwnerOf \in [Sessions -> Connections]
  /\ MaxSignatures \in [Sessions -> Nat \ {0}]
  /\ LeaseUsed \in [Sessions -> Nat]
  /\ \A s \in Sessions : LeaseUsed[s] <= MaxSignatures[s]
  /\ IsFiniteSet(Sessions)
  /\ GlobalLimit \in Nat \ {0}
  /\ PerAgentLimit \in 1..GlobalLimit
  /\ PerWorktreeLimit \in 1..GlobalLimit

VARIABLES
  state,    \* session -> "absent", "pending", "committed" or an entry state
  used,     \* session -> usedSignatures of its entry
  resv,     \* session -> request holding its reservation, or NoRequest
  seen      \* session -> requests whose identities the entry has consumed

registryVars == <<state, used, resv, seen>>

-----------------------------------------------------------------------------
(* The closed transition table.                                            *)

Losses == {"expired", "revoked", "process_lost", "worktree_lost",
           "control_changed", "key_changed"}

Terminal == Losses \cup {"outcome_unknown", "closed"}

Reserved == {"request_reserved", "signing_intent", "signed"}

EntryStates == {"active"} \cup Reserved \cup Terminal

Unpublished == {"pending", "committed"}

Places == {"absent"} \cup Unpublished \cup EntryStates

Successors(st) ==
  CASE st = "active" -> {"request_reserved", "closed"} \cup Losses
    [] st = "request_reserved" -> {"active", "signing_intent", "closed"} \cup Losses
    [] st = "signing_intent" -> {"active", "signed", "outcome_unknown"} \cup Losses
    [] st = "signed" -> {"active", "closed"}
    [] OTHER -> {}

Published(s) == state[s] \in EntryStates

\* Sessions that admission counts: live entries and everything unpublished.
Counted(S) == {s \in S : state[s] \notin Terminal \cup {"absent"}}

DeadlineResults == {"live", "expired", "fault"}

-----------------------------------------------------------------------------
(* Two-phase activation.  gone is the set of unpublished activations whose *)
(* deadline has passed: every activation call first discards them.         *)

Prunable == {s \in Sessions : state[s] \in Unpublished}

Pruned(gone) == [s \in Sessions |-> IF s \in gone THEN "absent" ELSE state[s]]

\* Mutant: activations that are not published yet are not counted.
HasCapacity_PublishedOnly(s, gone) ==
  LET held == {t \in Counted(Sessions) \ gone : Published(t)}
  IN /\ Cardinality(held) < GlobalLimit
     /\ Cardinality({t \in held : AgentOf[t] = AgentOf[s]}) < PerAgentLimit
     /\ Cardinality({t \in held : WorktreeOf[t] = WorktreeOf[s]})
          < PerWorktreeLimit

HasCapacity(s, gone) ==
  LET held == Counted(Sessions) \ gone
  IN /\ Cardinality(held) < GlobalLimit
     /\ Cardinality({t \in held : AgentOf[t] = AgentOf[s]}) < PerAgentLimit
     /\ Cardinality({t \in held : WorktreeOf[t] = WorktreeOf[s]})
          < PerWorktreeLimit

ReserveActivation(s, gone) ==
  /\ gone \subseteq Prunable
  /\ HasCapacity(s, gone)
  /\ Pruned(gone)[s] = "absent"
  /\ state' = [Pruned(gone) EXCEPT ![s] = "pending"]
  /\ used' = [used EXCEPT ![s] = LeaseUsed[s]]
  /\ resv' = [resv EXCEPT ![s] = NoRequest]
  /\ seen' = [seen EXCEPT ![s] = {}]

CommitActivation(s, gone) ==
  /\ gone \subseteq Prunable
  /\ s \notin gone
  /\ state[s] = "pending"
  /\ state' = [Pruned(gone) EXCEPT ![s] = "committed"]
  /\ UNCHANGED <<used, resv, seen>>

\* The only step that makes a session visible to status, close and signing.
\* A lease that is already spent is published closed.
PublishActivation(s, gone) ==
  /\ gone \subseteq Prunable
  /\ s \notin gone
  /\ state[s] = "committed"
  /\ state' = [Pruned(gone) EXCEPT ![s] =
       IF LeaseUsed[s] = MaxSignatures[s] THEN "closed" ELSE "active"]
  /\ UNCHANGED <<used, resv, seen>>

\* The pruning alone, when the call that started with it then throws.
PruneOnly(gone) ==
  /\ gone \subseteq Prunable
  /\ state' = Pruned(gone)
  /\ UNCHANGED <<used, resv, seen>>

\* Abort removes a pending or hidden activation, cancel only a pending one.
AbortActivation(s) ==
  /\ state[s] \in Unpublished
  /\ state' = [state EXCEPT ![s] = "absent"]
  /\ UNCHANGED <<used, resv, seen>>

CancelActivation(s) == state[s] = "pending" /\ AbortActivation(s)

-----------------------------------------------------------------------------
(* Published sessions.                                                     *)

\* Mutant: the reservation of an entry that moves on is not cleared.
Drop_KeepsReservation(s, st) ==
  /\ state' = [state EXCEPT ![s] = st]
  /\ UNCHANGED <<used, resv, seen>>

\* An entry moves to st and gives its reservation up.
Drop(s, st) ==
  /\ state' = [state EXCEPT ![s] = st]
  /\ resv' = [resv EXCEPT ![s] = NoRequest]
  /\ UNCHANGED <<used, seen>>

\* status(): a failed deadline check expires a live entry, whatever the
\* transition table says of its state.
Status(s, check) ==
  /\ Published(s)
  /\ IF state[s] \notin Terminal /\ check # "live"
     THEN Drop(s, "expired")
     ELSE UNCHANGED registryVars

\* Mutant: only the request ID is checked for replay.
Fresh_RequestOnly(r) == r \notin seen[SessionOf[r]]

\* The identities a request consumes are new to its session.
Fresh(r) ==
  \A q \in seen[SessionOf[r]] :
     q # r /\ CapabilityOf[q] # CapabilityOf[r] /\ NonceOf[q] # NonceOf[r]

\* Mutant: any live session reserves.
CanReserve_AnyLive(r) ==
  LET s == SessionOf[r]
  IN /\ state[s] \in {"active"} \cup Reserved
     /\ Fresh(r) /\ used[s] < MaxSignatures[s]

CanReserve(r) ==
  LET s == SessionOf[r]
  IN state[s] = "active" /\ Fresh(r) /\ used[s] < MaxSignatures[s]

\* The budget unit is taken before any authorization or key access.
Reserve(r) ==
  LET s == SessionOf[r]
  IN /\ CanReserve(r)
     /\ state' = [state EXCEPT ![s] = "request_reserved"]
     /\ used' = [used EXCEPT ![s] = @ + 1]
     /\ resv' = [resv EXCEPT ![s] = r]
     /\ seen' = [seen EXCEPT ![s] = @ \cup {r}]

\* reserve() finds an active session past its deadline.
ReserveExpired(r) == state[SessionOf[r]] = "active" /\ Drop(SessionOf[r], "expired")

Holds(r, st) == state[SessionOf[r]] = st /\ resv[SessionOf[r]] = r

BeginSigningIntent(r) ==
  /\ Holds(r, "request_reserved")
  /\ state' = [state EXCEPT ![SessionOf[r]] = "signing_intent"]
  /\ UNCHANGED <<used, resv, seen>>

RecordSigned(r) ==
  /\ Holds(r, "signing_intent")
  /\ state' = [state EXCEPT ![SessionOf[r]] = "signed"]
  /\ UNCHANGED <<used, resv, seen>>

\* Mutant: the last signature of a budget does not close its session.
AfterSigning_NeverCloses(s) == "active"

\* Where a finished reservation leaves its session.
AfterSigning(s) == IF used[s] = MaxSignatures[s] THEN "closed" ELSE "active"

CompleteReservation(r) ==
  Holds(r, "signed") /\ Drop(SessionOf[r], AfterSigning(SessionOf[r]))

CanFinalize(r) == Holds(r, "signing_intent") \/ Holds(r, "signed")

FinalizeSigning(r) ==
  CanFinalize(r) /\ Drop(SessionOf[r], AfterSigning(SessionOf[r]))

\* Mutant: the refund is applied twice.
ReleaseBeforeKey_DoubleRefund(r) ==
  LET s == SessionOf[r]
  IN /\ Holds(r, "request_reserved")
     /\ state' = [state EXCEPT ![s] = "active"]
     /\ used' = [used EXCEPT ![s] = @ - 2]
     /\ resv' = [resv EXCEPT ![s] = NoRequest]
     /\ UNCHANGED seen

\* Refunds the budget unit; the identities stay consumed.
ReleaseBeforeKey(r) ==
  LET s == SessionOf[r]
  IN /\ Holds(r, "request_reserved")
     /\ state' = [state EXCEPT ![s] = "active"]
     /\ used' = [used EXCEPT ![s] = @ - 1]
     /\ resv' = [resv EXCEPT ![s] = NoRequest]
     /\ UNCHANGED seen

\* Mutant: an unknown outcome refunds the budget unit.
MarkOutcomeUnknown_Refunds(r) ==
  LET s == SessionOf[r]
  IN /\ Holds(r, "signing_intent")
     /\ state' = [state EXCEPT ![s] = "outcome_unknown"]
     /\ used' = [used EXCEPT ![s] = @ - 1]
     /\ resv' = [resv EXCEPT ![s] = NoRequest]
     /\ UNCHANGED seen

MarkOutcomeUnknown(r) ==
  Holds(r, "signing_intent") /\ Drop(SessionOf[r], "outcome_unknown")

\* Mutant: the transition table is not consulted.
CanInvalidate_AnyEntry(s) == Published(s)

\* What ends authority from outside the session's own requests.
CanInvalidate(s) == Published(s) /\ "revoked" \in Successors(state[s])

\* invalidate(): an unpublished activation is simply removed.
Invalidate(s) ==
  \/ AbortActivation(s)
  \/ CanInvalidate(s) /\ Drop(s, "revoked")

\* invalidateOwned() and invalidateAll(): every session of S, skipping the
\* entries whose state has no edge to "revoked".
InvalidateSet(S) ==
  LET hit == {s \in S : CanInvalidate(s)}
  IN /\ state' = [s \in Sessions |->
           IF s \in S /\ state[s] \in Unpublished THEN "absent"
           ELSE IF s \in hit THEN "revoked" ELSE state[s]]
     /\ resv' = [s \in Sessions |-> IF s \in hit THEN NoRequest ELSE resv[s]]
     /\ UNCHANGED <<used, seen>>

InvalidateOwned(c) == InvalidateSet({s \in Sessions : OwnerOf[s] = c})

InvalidateAll == InvalidateSet(Sessions)

CanClose(s) == Published(s) /\ "closed" \in Successors(state[s])

Close(s) == CanClose(s) /\ Drop(s, "closed")

\* Nothing of the registry survives the process.
RegistryEmpty ==
  /\ state' = [s \in Sessions |-> "absent"]
  /\ used' = [s \in Sessions |-> 0]
  /\ resv' = [s \in Sessions |-> NoRequest]
  /\ seen' = [s \in Sessions |-> {}]

RegistryInit ==
  /\ state = [s \in Sessions |-> "absent"]
  /\ used = [s \in Sessions |-> 0]
  /\ resv = [s \in Sessions |-> NoRequest]
  /\ seen = [s \in Sessions |-> {}]

-----------------------------------------------------------------------------
(* The registry on its own: its callers may call anything at any time.     *)

ActivationStep ==
  \E s \in Sessions, gone \in SUBSET Prunable :
     \/ ReserveActivation(s, gone)
     \/ CommitActivation(s, gone)
     \/ PublishActivation(s, gone)
     \/ PruneOnly(gone)

SessionStep ==
  \E s \in Sessions :
     \/ AbortActivation(s)
     \/ CancelActivation(s)
     \/ Invalidate(s)
     \/ Close(s)
     \/ \E check \in DeadlineResults : Status(s, check)

RequestStep ==
  \E r \in Requests :
     \/ Reserve(r)
     \/ ReserveExpired(r)
     \/ BeginSigningIntent(r)
     \/ RecordSigned(r)
     \/ CompleteReservation(r)
     \/ FinalizeSigning(r)
     \/ ReleaseBeforeKey(r)
     \/ MarkOutcomeUnknown(r)

RegistryNext ==
  \/ ActivationStep
  \/ SessionStep
  \/ RequestStep
  \/ \E c \in Connections : InvalidateOwned(c)
  \/ InvalidateAll

RegistrySpec == RegistryInit /\ [][RegistryNext]_registryVars

-----------------------------------------------------------------------------
(* Properties.                                                             *)

\* Every variable has its shape.
RegistryTypeOK ==
  /\ state \in [Sessions -> Places]
  /\ used \in [Sessions -> Nat]
  /\ resv \in [Sessions -> Requests \cup {NoRequest}]
  /\ seen \in [Sessions -> SUBSET Requests]

\* The admission ceilings hold at all times, whatever mix of pending, hidden
\* and published sessions fills them: a terminal entry frees its place and
\* no path brings one back (reserveActivation, commit, publish, prune).
CapacityBound ==
  /\ Cardinality(Counted(Sessions)) <= GlobalLimit
  /\ \A s \in Sessions :
       /\ Cardinality({t \in Counted(Sessions) : AgentOf[t] = AgentOf[s]})
            <= PerAgentLimit
       /\ Cardinality({t \in Counted(Sessions) : WorktreeOf[t] = WorktreeOf[s]})
            <= PerWorktreeLimit

\* The budget of a published entry is never overdrawn, and an entry that can
\* still reserve has budget left to reserve: finalize, complete and release
\* never leave an active entry with a spent budget.
BudgetBound ==
  \A s \in Sessions :
     /\ used[s] <= MaxSignatures[s]
     /\ state[s] = "active" => used[s] < MaxSignatures[s]

\* An entry holds a reservation exactly in the three reserved states, and it
\* is a reservation of a request whose identities it has consumed: no exit
\* (expiry, revocation, close, refund) leaves one behind.
ReservationConsistent ==
  \A s \in Sessions :
     /\ resv[s] # NoRequest <=> state[s] \in Reserved
     /\ resv[s] # NoRequest => resv[s] \in seen[s]

\* One capability and one nonce buy one reservation of a session, also when
\* the reservation was refunded or its session moved on.
IdentitiesConsumedOnce ==
  \A s \in Sessions : \A q, r \in seen[s] :
     q # r => CapabilityOf[q] # CapabilityOf[r] /\ NonceOf[q] # NonceOf[r]

\* A terminal entry stays in its terminal state for the life of the process,
\* and consumed identities are never given back.
TerminalForever ==
  [][\A s \in Sessions :
        Published(s) =>
          /\ state[s] \in Terminal => state'[s] = state[s]
          /\ Published(s)' /\ seen[s] \subseteq seen'[s]]_registryVars

=============================================================================
