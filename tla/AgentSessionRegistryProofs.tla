--------------------- MODULE AgentSessionRegistryProofs ---------------------
(***************************************************************************)
(* Proofs about the session registry, for any number of sessions, requests *)
(* and connections, any budgets and any admission ceilings.                *)
(*                                                                         *)
(* The named properties are not inductive together: refunding needs to     *)
(* know that the reserving entry has spent a unit, and publishing that an  *)
(* activation still has the use count of its lease.  `Accounting' adds     *)
(* both.                                                                   *)
(***************************************************************************)
EXTENDS AgentSessionRegistry, FiniteSetTheorems, TLAPS

\* An entry with a reservation has spent at least one unit, and an activation
\* that is not published has spent what its lease says.
Accounting ==
  \A s \in Sessions :
     /\ state[s] \in Reserved => used[s] > 0
     /\ state[s] \in Unpublished => used[s] = LeaseUsed[s]

\* The inductive invariant.
RegistryInv ==
  /\ RegistryTypeOK
  /\ BudgetBound
  /\ Accounting
  /\ ReservationConsistent
  /\ IdentitiesConsumedOnce

-----------------------------------------------------------------------------
(* Steps shared by several operations.                                     *)

\* The registry starts empty and satisfies the invariant.
LEMMA RegistryInitInv == RegistryInit => RegistryInv
  BY RegistryAssumption
  DEF RegistryInit, RegistryInv, RegistryTypeOK, BudgetBound, Accounting,
      ReservationConsistent, IdentitiesConsumedOnce, Reserved, Unpublished,
      Places, EntryStates, Terminal, Losses

\* An entry that gives up its reservation keeps the invariant, whichever
\* terminal state it goes to, and also as an active entry with budget left.
LEMMA DropInv ==
  ASSUME NEW s \in Sessions, NEW st \in {"active"} \cup Terminal,
         RegistryInv, Drop(s, st),
         st = "active" => used[s] < MaxSignatures[s]
  PROVE  RegistryInv'
<1> USE RegistryAssumption DEF RegistryInv
<1>1. st \in Places /\ st \notin Reserved /\ st \notin Unpublished
  BY DEF Places, EntryStates, Terminal, Losses, Reserved, Unpublished
<1>2. RegistryTypeOK'
  BY <1>1 DEF RegistryTypeOK, Drop
<1>3. BudgetBound'
  BY DEF RegistryTypeOK, BudgetBound, Drop
<1>4. Accounting'
  BY <1>1 DEF RegistryTypeOK, Accounting, Drop
<1>5. ReservationConsistent'
  BY <1>1 DEF RegistryTypeOK, ReservationConsistent, Drop
<1>6. IdentitiesConsumedOnce'
  BY DEF IdentitiesConsumedOnce, Drop
<1> QED BY <1>2, <1>3, <1>4, <1>5, <1>6

\* Where a finished reservation leaves its session is no reserved state, and
\* an active session has budget left.
LEMMA AfterSigningLive ==
  ASSUME RegistryInv, NEW s \in Sessions
  PROVE  /\ AfterSigning(s) \in {"active"} \cup Terminal
         /\ AfterSigning(s) = "active" => used[s] < MaxSignatures[s]
  BY RegistryAssumption
  DEF RegistryInv, RegistryTypeOK, BudgetBound, AfterSigning, Terminal

\* Discarding unpublished activations keeps the invariant.
LEMMA PruneInv ==
  ASSUME RegistryInv, NEW gone \in SUBSET Prunable,
         state' = Pruned(gone), UNCHANGED <<used, resv, seen>>
  PROVE  RegistryInv'
<1> USE RegistryAssumption DEF RegistryInv
<1>1. \A s \in Sessions :
        \/ state'[s] = state[s]
        \/ state[s] \in Unpublished /\ state'[s] = "absent"
  BY DEF Pruned, Prunable, RegistryTypeOK
<1>2. "absent" \in Places /\ "absent" \notin Reserved \cup Unpublished
  BY DEF Places, Reserved, Unpublished
<1>3. Reserved \cap Unpublished = {}
  BY DEF Reserved, Unpublished
<1>4. RegistryTypeOK'
  BY <1>2 DEF RegistryTypeOK, Pruned
<1>5. BudgetBound'
  BY <1>1 DEF BudgetBound
<1>6. Accounting'
  BY <1>1, <1>2 DEF Accounting
<1>7. ReservationConsistent'
  BY <1>1, <1>2, <1>3 DEF ReservationConsistent
<1>8. IdentitiesConsumedOnce'
  BY DEF IdentitiesConsumedOnce
<1> QED BY <1>4, <1>5, <1>6, <1>7, <1>8

\* Making one unpublished activation appear, move on or disappear.
LEMMA PlaceInv ==
  ASSUME RegistryInv, NEW s \in Sessions, NEW gone \in SUBSET Prunable,
         NEW st \in {"pending", "committed", "active", "closed", "absent"},
         Pruned(gone)[s] \in {"absent"} \cup Unpublished,
         state' = [Pruned(gone) EXCEPT ![s] = st],
         used' = [used EXCEPT ![s] = LeaseUsed[s]],
         st = "active" => LeaseUsed[s] < MaxSignatures[s],
         resv' = [resv EXCEPT ![s] = NoRequest],
         \/ UNCHANGED seen
         \/ seen' = [seen EXCEPT ![s] = {}]
  PROVE  RegistryInv'
<1> USE RegistryAssumption DEF RegistryInv
<1>1. \A t \in Sessions \ {s} :
        \/ state'[t] = state[t]
        \/ state[t] \in Unpublished /\ state'[t] = "absent"
  BY DEF Pruned, Prunable, RegistryTypeOK
<1>2. state'[s] = st /\ used'[s] = LeaseUsed[s] /\ resv'[s] = NoRequest
  BY DEF Pruned, RegistryTypeOK
<1>3. /\ {"pending", "committed", "active", "closed", "absent"} \subseteq Places \ Reserved
      /\ "absent" \notin Unpublished
  BY DEF Places, EntryStates, Terminal, Losses, Reserved, Unpublished
<1>4. Reserved \cap Unpublished = {}
  BY DEF Reserved, Unpublished
<1>5. RegistryTypeOK'
  <2>1. Pruned(gone) \in [Sessions -> Places]
    BY <1>3 DEF RegistryTypeOK, Pruned
  <2> QED BY <1>3, <2>1 DEF RegistryTypeOK
<1>6. \A t \in Sessions \ {s} : used'[t] = used[t] /\ resv'[t] = resv[t]
                               /\ seen'[t] = seen[t]
  BY DEF RegistryTypeOK
<1>7. BudgetBound'
  BY <1>1, <1>2, <1>6 DEF BudgetBound
<1>8. Accounting'
  BY <1>1, <1>2, <1>3, <1>6 DEF Accounting
<1>9. ReservationConsistent'
  BY <1>1, <1>2, <1>3, <1>4, <1>6 DEF ReservationConsistent
<1>10. IdentitiesConsumedOnce'
  BY DEF RegistryTypeOK, IdentitiesConsumedOnce
<1> QED BY <1>5, <1>7, <1>8, <1>9, <1>10

-----------------------------------------------------------------------------
(* One lemma per group of operations.                                      *)

\* The two-phase activation keeps the invariant.
LEMMA ActivationInv == RegistryInv /\ ActivationStep => RegistryInv'
<1> SUFFICES ASSUME RegistryInv, NEW s \in Sessions, NEW gone \in SUBSET Prunable,
                    \/ ReserveActivation(s, gone)
                    \/ CommitActivation(s, gone)
                    \/ PublishActivation(s, gone)
                    \/ PruneOnly(gone)
             PROVE  RegistryInv'
  BY DEF ActivationStep
<1> USE DEF RegistryInv
\* An unpublished activation has its lease's use count and no reservation.
<1>1. ASSUME state[s] \in Unpublished
      PROVE  used = [used EXCEPT ![s] = LeaseUsed[s]] /\ resv = [resv EXCEPT ![s] = NoRequest]
  BY <1>1 DEF RegistryTypeOK, Accounting, ReservationConsistent, Unpublished, Reserved
<1>2. CASE ReserveActivation(s, gone)
  BY <1>2, PlaceInv DEF ReserveActivation
<1>3. CASE CommitActivation(s, gone)
  <2>1. state[s] \in Unpublished /\ Pruned(gone)[s] \in Unpublished
    BY <1>3 DEF CommitActivation, Unpublished, Pruned
  <2> QED BY <1>1, <1>3, <2>1, PlaceInv DEF CommitActivation
<1>4. CASE PublishActivation(s, gone)
  <2> DEFINE st == IF LeaseUsed[s] = MaxSignatures[s] THEN "closed" ELSE "active"
  <2>1. state[s] \in Unpublished /\ Pruned(gone)[s] \in Unpublished
    BY <1>4 DEF PublishActivation, Unpublished, Pruned
  <2>2. st \in {"active", "closed"} /\ (st = "active" => LeaseUsed[s] < MaxSignatures[s])
    BY RegistryAssumption
  <2>3. state' = [Pruned(gone) EXCEPT ![s] = st] /\ UNCHANGED <<used, resv, seen>>
    BY <1>4 DEF PublishActivation
  <2> HIDE DEF st
  <2> QED BY <1>1, <2>1, <2>2, <2>3, PlaceInv
<1>5. CASE PruneOnly(gone)
  BY <1>5, PruneInv DEF PruneOnly
<1> QED BY <1>2, <1>3, <1>4, <1>5

\* Removing an unpublished activation keeps the invariant.
LEMMA AbortInv ==
  ASSUME RegistryInv, NEW s \in Sessions, AbortActivation(s)
  PROVE  RegistryInv'
<1>1. {s} \in SUBSET Prunable
  BY DEF AbortActivation, Prunable
<1>2. state' = Pruned({s})
  BY DEF AbortActivation, Pruned, RegistryInv, RegistryTypeOK
<1> QED BY <1>1, <1>2, PruneInv DEF AbortActivation

\* What is asked of one session from outside its requests.
LEMMA SessionInv == RegistryInv /\ SessionStep => RegistryInv'
<1> SUFFICES ASSUME RegistryInv, NEW s \in Sessions,
                    \/ AbortActivation(s)
                    \/ CancelActivation(s)
                    \/ Invalidate(s)
                    \/ Close(s)
                    \/ \E check \in DeadlineResults : Status(s, check)
             PROVE  RegistryInv'
  BY DEF SessionStep
<1>1. {"revoked", "closed", "expired"} \subseteq Terminal
  BY DEF Terminal, Losses
<1>2. CASE AbortActivation(s) \/ CancelActivation(s)
  BY <1>2, AbortInv DEF CancelActivation
<1>3. CASE Invalidate(s)
  BY <1>1, <1>3, AbortInv, DropInv DEF Invalidate, Terminal
<1>4. CASE Close(s)
  BY <1>1, <1>4, DropInv DEF Close, Terminal
<1>5. ASSUME NEW check \in DeadlineResults, Status(s, check)
      PROVE  RegistryInv'
  <2>1. CASE Drop(s, "expired")
    BY <1>1, <2>1, DropInv DEF Terminal
  <2>2. CASE UNCHANGED registryVars
    BY <2>2 DEF registryVars, RegistryInv, RegistryTypeOK, BudgetBound, Accounting,
                ReservationConsistent, IdentitiesConsumedOnce
  <2> QED BY <1>5, <2>1, <2>2 DEF Status
<1> QED BY <1>2, <1>3, <1>4, <1>5

\* The life of a reservation keeps the invariant.
LEMMA RequestInv == RegistryInv /\ RequestStep => RegistryInv'
<1> SUFFICES ASSUME RegistryInv, NEW r \in Requests,
                    \/ Reserve(r)
                    \/ ReserveExpired(r)
                    \/ BeginSigningIntent(r)
                    \/ RecordSigned(r)
                    \/ CompleteReservation(r)
                    \/ FinalizeSigning(r)
                    \/ ReleaseBeforeKey(r)
                    \/ MarkOutcomeUnknown(r)
             PROVE  RegistryInv'
  BY DEF RequestStep
<1> DEFINE s == SessionOf[r]
<1>0. s \in Sessions
  BY RegistryAssumption
<1>1. CASE Reserve(r)
  <2> USE <1>0, <1>1, RegistryAssumption DEF Reserve, CanReserve
  <2>1. RegistryTypeOK'
    BY DEF RegistryInv, RegistryTypeOK, Places, EntryStates, Reserved
  <2>2. BudgetBound'
    <3> SUFFICES ASSUME NEW t \in Sessions
                 PROVE  /\ used'[t] <= MaxSignatures[t]
                        /\ state'[t] = "active" => used'[t] < MaxSignatures[t]
      BY DEF BudgetBound
    <3>1. used[t] \in Nat /\ MaxSignatures[t] \in Nat
      BY DEF RegistryInv, RegistryTypeOK
    <3>2. CASE t = s
      BY <3>1, <3>2 DEF RegistryInv, RegistryTypeOK
    <3>3. CASE t # s
      BY <3>3 DEF RegistryInv, RegistryTypeOK, BudgetBound
    <3> QED BY <3>2, <3>3
  <2>3. Accounting'
    BY DEF RegistryInv, RegistryTypeOK, Accounting, Reserved, Unpublished
  <2>4. ReservationConsistent'
    BY DEF RegistryInv, RegistryTypeOK, ReservationConsistent, Reserved
  <2>5. IdentitiesConsumedOnce'
    BY DEF RegistryInv, RegistryTypeOK, IdentitiesConsumedOnce, Fresh
  <2> QED BY <2>1, <2>2, <2>3, <2>4, <2>5 DEF RegistryInv
<1>2. CASE BeginSigningIntent(r) \/ RecordSigned(r)
  <2> USE <1>0, <1>2, RegistryAssumption DEF BeginSigningIntent, RecordSigned, Holds
  <2>1. RegistryTypeOK'
    BY DEF RegistryInv, RegistryTypeOK, Places, EntryStates, Reserved
  <2>2. BudgetBound'
    BY DEF RegistryInv, RegistryTypeOK, BudgetBound
  <2>3. Accounting'
    BY DEF RegistryInv, RegistryTypeOK, Accounting, Reserved, Unpublished
  <2>4. ReservationConsistent'
    BY DEF RegistryInv, RegistryTypeOK, ReservationConsistent, Reserved
  <2>5. IdentitiesConsumedOnce'
    BY DEF RegistryInv, RegistryTypeOK, IdentitiesConsumedOnce
  <2> QED BY <2>1, <2>2, <2>3, <2>4, <2>5 DEF RegistryInv
<1>3. CASE ReleaseBeforeKey(r)
  <2> USE <1>0, <1>3, RegistryAssumption DEF ReleaseBeforeKey, Holds
  <2>1. used[s] \in Nat \ {0}
    BY DEF RegistryInv, RegistryTypeOK, Accounting, Reserved
  <2>2. RegistryTypeOK'
    BY <2>1 DEF RegistryInv, RegistryTypeOK, Places, EntryStates
  <2>3. BudgetBound'
    <3> SUFFICES ASSUME NEW t \in Sessions
                 PROVE  /\ used'[t] <= MaxSignatures[t]
                        /\ state'[t] = "active" => used'[t] < MaxSignatures[t]
      BY DEF BudgetBound
    <3>1. /\ used[t] \in Nat /\ MaxSignatures[t] \in Nat
          /\ used[t] <= MaxSignatures[t]
      BY DEF RegistryInv, RegistryTypeOK, BudgetBound
    <3>2. CASE t = s
      BY <2>1, <3>1, <3>2 DEF RegistryInv, RegistryTypeOK
    <3>3. CASE t # s
      BY <3>3 DEF RegistryInv, RegistryTypeOK, BudgetBound
    <3> QED BY <3>2, <3>3
  <2>4. Accounting'
    BY DEF RegistryInv, RegistryTypeOK, Accounting, Reserved, Unpublished
  <2>5. ReservationConsistent'
    BY DEF RegistryInv, RegistryTypeOK, ReservationConsistent, Reserved
  <2>6. IdentitiesConsumedOnce'
    BY DEF RegistryInv, RegistryTypeOK, IdentitiesConsumedOnce
  <2> QED BY <2>2, <2>3, <2>4, <2>5, <2>6 DEF RegistryInv
<1>4. CASE ReserveExpired(r) \/ MarkOutcomeUnknown(r)
  <2>1. {"expired", "outcome_unknown"} \subseteq Terminal
    BY DEF Terminal, Losses
  <2> QED BY <1>0, <1>4, <2>1, DropInv DEF ReserveExpired, MarkOutcomeUnknown, Terminal
<1>5. CASE CompleteReservation(r) \/ FinalizeSigning(r)
  <2>1. Drop(s, AfterSigning(s))
    BY <1>5 DEF CompleteReservation, FinalizeSigning
  <2> QED BY <1>0, <2>1, AfterSigningLive, DropInv
<1> QED BY <1>1, <1>2, <1>3, <1>4, <1>5

\* Ending many sessions at once keeps the invariant.
LEMMA InvalidateSetInv ==
  ASSUME RegistryInv, NEW S \in SUBSET Sessions, InvalidateSet(S)
  PROVE  RegistryInv'
<1> USE DEF RegistryInv, InvalidateSet
<1>1. /\ "revoked" \in Places \ (Reserved \cup Unpublished)
      /\ "absent" \in Places \ (Reserved \cup Unpublished)
      /\ Reserved \cap Unpublished = {}
      /\ Unpublished \cap EntryStates = {}
  BY DEF Places, EntryStates, Terminal, Losses, Reserved, Unpublished
\* Every session keeps its state, or is removed, or is revoked.
<1>2. \A s \in Sessions :
        \/ state'[s] = state[s] /\ resv'[s] = resv[s]
        \/ state[s] \in Unpublished /\ state'[s] = "absent" /\ resv'[s] = resv[s]
        \/ state'[s] = "revoked" /\ resv'[s] = NoRequest
  BY <1>1 DEF RegistryTypeOK, CanInvalidate, Published
<1>3. RegistryTypeOK'
  BY <1>1, RegistryAssumption DEF RegistryTypeOK
<1>4. BudgetBound'
  BY <1>2 DEF BudgetBound
<1>5. Accounting'
  BY <1>1, <1>2 DEF Accounting
<1>6. ReservationConsistent'
  BY <1>1, <1>2 DEF ReservationConsistent
<1>7. IdentitiesConsumedOnce'
  BY DEF IdentitiesConsumedOnce
<1> QED BY <1>3, <1>4, <1>5, <1>6, <1>7

\* Every step of the registry keeps the invariant.
LEMMA RegistryNextInv == RegistryInv /\ [RegistryNext]_registryVars => RegistryInv'
<1> SUFFICES ASSUME RegistryInv, [RegistryNext]_registryVars
             PROVE  RegistryInv'
  OBVIOUS
<1>1. CASE ActivationStep
  BY <1>1, ActivationInv
<1>2. CASE SessionStep
  BY <1>2, SessionInv
<1>3. CASE RequestStep
  BY <1>3, RequestInv
<1>4. ASSUME NEW c \in Connections, InvalidateOwned(c)
      PROVE  RegistryInv'
  BY <1>4, InvalidateSetInv DEF InvalidateOwned
<1>5. CASE InvalidateAll
  BY <1>5, InvalidateSetInv DEF InvalidateAll
<1>6. CASE UNCHANGED registryVars
  BY <1>6 DEF registryVars, RegistryInv, RegistryTypeOK, BudgetBound, Accounting,
              ReservationConsistent, IdentitiesConsumedOnce
<1> QED BY <1>1, <1>2, <1>3, <1>4, <1>5, <1>6 DEF RegistryNext

-----------------------------------------------------------------------------
(* The theorems.                                                           *)

\* Whatever its callers do, the registry keeps its inductive invariant.
THEOREM RegistryInvariance == RegistrySpec => []RegistryInv
<1>1. RegistryInit => RegistryInv
  BY RegistryInitInv
<1>2. RegistryInv /\ [RegistryNext]_registryVars => RegistryInv'
  BY RegistryNextInv
<1> QED BY <1>1, <1>2, PTL DEF RegistrySpec

\* The registry's variables keep their shape.
THEOREM RegistryTyping == RegistrySpec => []RegistryTypeOK
  BY RegistryInvariance, PTL DEF RegistryInv

\* No budget is overdrawn and no active entry has a spent one: refund, finalize
\* and publication never let a session sign more often than its lease says.
THEOREM RegistryBudget == RegistrySpec => []BudgetBound
  BY RegistryInvariance, PTL DEF RegistryInv

\* A reservation exists exactly in the reserved states, whatever ended it.
THEOREM RegistryReservation == RegistrySpec => []ReservationConsistent
  BY RegistryInvariance, PTL DEF RegistryInv

\* A capability or a nonce never buys two reservations of a session.
THEOREM RegistryReplay == RegistrySpec => []IdentitiesConsumedOnce
  BY RegistryInvariance, PTL DEF RegistryInv

-----------------------------------------------------------------------------
(* Terminal states.                                                        *)

\* What TerminalForever says of one step.
Steady ==
  \A s \in Sessions :
     Published(s) =>
       /\ state[s] \in Terminal => state'[s] = state[s]
       /\ Published(s)' /\ seen[s] \subseteq seen'[s]

\* A published entry that is not terminal moves to an entry state.
LEMMA EntrySteady ==
  ASSUME RegistryInv, NEW s \in Sessions, NEW st \in EntryStates,
         state[s] \notin Terminal,
         state' = [state EXCEPT ![s] = st],
         \A t \in Sessions : seen[t] \subseteq seen'[t]
  PROVE  Steady
  BY DEF RegistryInv, RegistryTypeOK, Steady, Published

\* A step that touches only what is not published.
LEMMA HiddenSteady ==
  ASSUME RegistryInv, NEW s \in Sessions, NEW gone \in SUBSET Prunable, NEW st,
         ~Published(s),
         state' = [Pruned(gone) EXCEPT ![s] = st],
         \A t \in Sessions \ {s} : seen[t] \subseteq seen'[t]
  PROVE  Steady
<1>1. Unpublished \cap EntryStates = {}
  BY DEF EntryStates, Terminal, Losses, Reserved, Unpublished
<1> QED BY <1>1 DEF RegistryInv, RegistryTypeOK, Steady, Published, Pruned, Prunable

\* No step of the registry moves a terminal entry, unpublishes an entry or
\* gives consumed identities back.
LEMMA RegistrySteady == RegistryInv /\ [RegistryNext]_registryVars => Steady
<1> SUFFICES ASSUME RegistryInv, [RegistryNext]_registryVars
             PROVE  Steady
  OBVIOUS
<1>0. /\ Unpublished \cap EntryStates = {} /\ "absent" \notin EntryStates
      /\ Terminal \subseteq EntryStates
      /\ Reserved \subseteq EntryStates /\ "active" \in EntryStates
      /\ ({"active"} \cup Reserved) \cap Terminal = {}
      /\ {"request_reserved", "signing_intent", "signed"} = Reserved
      /\ {"expired", "revoked", "closed", "outcome_unknown"} \subseteq Terminal
  BY DEF EntryStates, Terminal, Losses, Reserved, Unpublished
<1>1. ASSUME NEW s \in Sessions, NEW gone \in SUBSET Prunable,
             \/ ReserveActivation(s, gone)
             \/ CommitActivation(s, gone)
             \/ PublishActivation(s, gone)
             \/ PruneOnly(gone)
      PROVE  Steady
  <2>1. CASE ReserveActivation(s, gone)
    <3>1. ~Published(s)
      BY <1>0, <2>1 DEF ReserveActivation, Published, Pruned, Prunable
    <3>2. \A t \in Sessions \ {s} : seen[t] \subseteq seen'[t]
      BY <2>1 DEF ReserveActivation, RegistryInv, RegistryTypeOK
    <3> QED BY <2>1, <3>1, <3>2, HiddenSteady DEF ReserveActivation
  <2>2. CASE CommitActivation(s, gone)
    <3>1. ~Published(s)
      BY <1>0, <2>2 DEF CommitActivation, Published, Unpublished
    <3> QED BY <2>2, <3>1, HiddenSteady DEF CommitActivation
  <2>3. CASE PublishActivation(s, gone)
    <3>1. ~Published(s)
      BY <1>0, <2>3 DEF PublishActivation, Published, Unpublished
    <3> QED BY <2>3, <3>1, HiddenSteady DEF PublishActivation
  <2>4. CASE PruneOnly(gone)
    BY <1>0, <2>4 DEF PruneOnly, RegistryInv, RegistryTypeOK, Steady, Published,
                      Pruned, Prunable
  <2> QED BY <1>1, <2>1, <2>2, <2>3, <2>4
<1>2. ASSUME NEW s \in Sessions,
             \/ AbortActivation(s)
             \/ CancelActivation(s)
             \/ Invalidate(s)
             \/ Close(s)
             \/ \E check \in DeadlineResults : Status(s, check)
      PROVE  Steady
  <2>1. CASE AbortActivation(s) \/ CancelActivation(s)
    BY <1>0, <2>1 DEF CancelActivation, AbortActivation, RegistryInv, RegistryTypeOK,
                      Steady, Published
  <2>2. CASE Invalidate(s)
    <3>1. CASE AbortActivation(s)
      BY <1>0, <3>1 DEF AbortActivation, RegistryInv, RegistryTypeOK, Steady, Published
    <3>2. CASE CanInvalidate(s) /\ Drop(s, "revoked")
      <4>1. state[s] \notin Terminal
        BY <3>2 DEF CanInvalidate, Successors, Terminal, Losses
      <4> QED BY <1>0, <3>2, <4>1, EntrySteady DEF Drop
    <3> QED BY <2>2, <3>1, <3>2 DEF Invalidate
  <2>3. CASE Close(s)
    <3>1. state[s] \notin Terminal
      BY <2>3 DEF Close, CanClose, Successors, Terminal, Losses
    <3> QED BY <1>0, <2>3, <3>1, EntrySteady DEF Close, Drop
  <2>4. ASSUME NEW check \in DeadlineResults, Status(s, check)
        PROVE  Steady
    BY <1>0, <2>4, EntrySteady DEF Status, Drop, registryVars, Steady, Published
  <2> QED BY <1>2, <2>1, <2>2, <2>3, <2>4
<1>3. ASSUME NEW r \in Requests,
             \/ Reserve(r)
             \/ ReserveExpired(r)
             \/ BeginSigningIntent(r)
             \/ RecordSigned(r)
             \/ CompleteReservation(r)
             \/ FinalizeSigning(r)
             \/ ReleaseBeforeKey(r)
             \/ MarkOutcomeUnknown(r)
      PROVE  Steady
  <2> DEFINE s == SessionOf[r]
  <2>1. s \in Sessions
    BY RegistryAssumption
  <2>2. state[s] \notin Terminal
    BY <1>0, <1>3 DEF Reserve, CanReserve, ReserveExpired, BeginSigningIntent, RecordSigned,
       CompleteReservation, CanFinalize, FinalizeSigning, ReleaseBeforeKey,
       MarkOutcomeUnknown, Holds
  <2>3. \E st \in EntryStates : state' = [state EXCEPT ![s] = st]
    BY <1>0, <1>3 DEF Reserve, ReserveExpired, BeginSigningIntent, RecordSigned,
       CompleteReservation, FinalizeSigning, ReleaseBeforeKey,
       MarkOutcomeUnknown, Drop, AfterSigning
  <2>4. \A t \in Sessions : seen[t] \subseteq seen'[t]
    BY <1>3, <2>1 DEF Reserve, ReserveExpired, BeginSigningIntent, RecordSigned,
       CompleteReservation, FinalizeSigning, ReleaseBeforeKey,
       MarkOutcomeUnknown, Drop, RegistryInv, RegistryTypeOK
  <2> QED BY <2>1, <2>2, <2>3, <2>4, EntrySteady
<1>4. ASSUME NEW S \in SUBSET Sessions, InvalidateSet(S)
      PROVE  Steady
  <2>1. \A s \in Sessions : CanInvalidate(s) => state[s] \notin Terminal
    BY DEF CanInvalidate, Successors, Terminal, Losses
  <2> QED BY <1>0, <1>4, <2>1 DEF InvalidateSet, RegistryInv, RegistryTypeOK, Steady, Published
<1>5. CASE UNCHANGED registryVars
  BY <1>5 DEF registryVars, Steady, Published
<1> QED BY <1>1, <1>2, <1>3, <1>4, <1>5
     DEF RegistryNext, ActivationStep, SessionStep, RequestStep, InvalidateOwned, InvalidateAll

\* A terminal entry stays as it is for the life of the process, and no
\* identity that a session has consumed is ever fresh again.
THEOREM RegistryTerminal == RegistrySpec => TerminalForever
<1>1. RegistryInv /\ [RegistryNext]_registryVars => [Steady]_registryVars
  BY RegistrySteady
<1> QED BY <1>1, RegistryInvariance, PTL DEF RegistrySpec, TerminalForever, Steady

-----------------------------------------------------------------------------
(* Admission ceilings.                                                     *)

\* A set that only loses members stays under its ceiling.
LEMMA ShrinkBound ==
  ASSUME NEW S, IsFiniteSet(S), NEW T \in SUBSET S, NEW n \in Nat, Cardinality(S) <= n
  PROVE  Cardinality(T) <= n
  BY FS_Subset, FS_CardinalityType

\* A set with room for one more stays under its ceiling with one more.
LEMMA GrowBound ==
  ASSUME NEW S, IsFiniteSet(S), NEW x, NEW T \in SUBSET (S \cup {x}),
         NEW n \in Nat, Cardinality(S) < n
  PROVE  Cardinality(T) <= n
<1>0. Cardinality(S) \in Nat
  BY FS_CardinalityType
<1>1. IsFiniteSet(S \cup {x}) /\ Cardinality(S \cup {x}) <= Cardinality(S) + 1
  <2>1. /\ IsFiniteSet(S \cup {x})
        /\ Cardinality(S \cup {x}) = IF x \in S THEN Cardinality(S) ELSE Cardinality(S) + 1
    BY FS_AddElement
  <2> QED BY <1>0, <2>1
<1>2. IsFiniteSet(T) /\ Cardinality(T) <= Cardinality(S \cup {x})
  BY <1>1, FS_Subset
<1> QED BY <1>0, <1>1, <1>2, FS_CardinalityType

\* Only reserveActivation adds to what admission counts.
LEMMA CountedShrinks ==
  ASSUME RegistryInv, [RegistryNext]_registryVars,
         ~(\E s \in Sessions, gone \in SUBSET Prunable : ReserveActivation(s, gone))
  PROVE  Counted(Sessions)' \subseteq Counted(Sessions)
<1> USE DEF Counted
<1>0. /\ Unpublished \cap (Terminal \cup {"absent"}) = {}
      /\ ({"active"} \cup Reserved) \cap (Terminal \cup {"absent"}) = {}
      /\ {"request_reserved", "signing_intent", "signed"} = Reserved
      /\ {"pending", "committed"} = Unpublished
      /\ {"expired", "revoked", "closed", "outcome_unknown"} \subseteq Terminal
  BY DEF Terminal, Losses, Reserved, Unpublished
<1>1. ASSUME NEW s \in Sessions, NEW gone \in SUBSET Prunable,
             \/ CommitActivation(s, gone)
             \/ PublishActivation(s, gone)
             \/ PruneOnly(gone)
      PROVE  Counted(Sessions)' \subseteq Counted(Sessions)
  BY <1>0, <1>1 DEF CommitActivation, PublishActivation, PruneOnly, Pruned,
                    RegistryInv, RegistryTypeOK
<1>2. ASSUME NEW s \in Sessions, NEW st, state' = [state EXCEPT ![s] = st],
             state[s] \notin Terminal \cup {"absent"}
      PROVE  Counted(Sessions)' \subseteq Counted(Sessions)
  BY <1>2 DEF RegistryInv, RegistryTypeOK
<1>3. ASSUME NEW s \in Sessions, NEW st \in Terminal \cup {"absent"},
             state' = [state EXCEPT ![s] = st]
      PROVE  Counted(Sessions)' \subseteq Counted(Sessions)
  BY <1>3 DEF RegistryInv, RegistryTypeOK
<1>4. ASSUME NEW s \in Sessions,
             \/ AbortActivation(s)
             \/ CancelActivation(s)
             \/ Invalidate(s)
             \/ Close(s)
             \/ \E check \in DeadlineResults : Status(s, check)
      PROVE  Counted(Sessions)' \subseteq Counted(Sessions)
  <2>1. \/ UNCHANGED state
        \/ \E st \in Terminal \cup {"absent"} : state' = [state EXCEPT ![s] = st]
    BY <1>0, <1>4 DEF AbortActivation, CancelActivation, Invalidate, Close, Status, Drop,
                      registryVars
  <2> QED BY <1>3, <2>1
<1>5. ASSUME NEW r \in Requests,
             \/ Reserve(r)
             \/ ReserveExpired(r)
             \/ BeginSigningIntent(r)
             \/ RecordSigned(r)
             \/ CompleteReservation(r)
             \/ FinalizeSigning(r)
             \/ ReleaseBeforeKey(r)
             \/ MarkOutcomeUnknown(r)
      PROVE  Counted(Sessions)' \subseteq Counted(Sessions)
  <2> DEFINE s == SessionOf[r]
  <2>1. s \in Sessions
    BY RegistryAssumption
  <2>2. state[s] \notin Terminal \cup {"absent"}
    BY <1>0, <1>5 DEF Reserve, CanReserve, ReserveExpired, BeginSigningIntent, RecordSigned,
       CompleteReservation, CanFinalize, FinalizeSigning, ReleaseBeforeKey,
       MarkOutcomeUnknown, Holds
  <2>3. \E st : state' = [state EXCEPT ![s] = st]
    BY <1>5 DEF Reserve, ReserveExpired, BeginSigningIntent, RecordSigned,
       CompleteReservation, FinalizeSigning, ReleaseBeforeKey,
       MarkOutcomeUnknown, Drop
  <2> QED BY <1>2, <2>1, <2>2, <2>3
<1>6. ASSUME NEW S \in SUBSET Sessions, InvalidateSet(S)
      PROVE  Counted(Sessions)' \subseteq Counted(Sessions)
  BY <1>0, <1>6 DEF InvalidateSet
<1>7. CASE UNCHANGED registryVars
  BY <1>7 DEF registryVars
<1> QED BY <1>1, <1>4, <1>5, <1>6, <1>7
     DEF RegistryNext, ActivationStep, SessionStep, RequestStep, InvalidateOwned, InvalidateAll

\* Every step keeps the three ceilings.
LEMMA CapacityStep ==
  RegistryInv /\ CapacityBound /\ [RegistryNext]_registryVars => CapacityBound'
<1> SUFFICES ASSUME RegistryInv, CapacityBound, [RegistryNext]_registryVars
             PROVE  CapacityBound'
  OBVIOUS
<1> USE RegistryAssumption
<1> DEFINE held == Counted(Sessions)
           ofAgent(S, s) == {t \in S : AgentOf[t] = AgentOf[s]}
           ofTree(S, s) == {t \in S : WorktreeOf[t] = WorktreeOf[s]}
<1>0. IsFiniteSet(held)
  BY FS_Subset DEF Counted
<1>n. PerAgentLimit \in Nat /\ PerWorktreeLimit \in Nat
  OBVIOUS
<1>1. ASSUME held' \subseteq held
      PROVE  CapacityBound'
  <2>1. Cardinality(held') <= GlobalLimit
    BY <1>0, <1>1, ShrinkBound DEF CapacityBound
  <2>2. ASSUME NEW s \in Sessions
        PROVE  /\ Cardinality(ofAgent(held', s)) <= PerAgentLimit
               /\ Cardinality(ofTree(held', s)) <= PerWorktreeLimit
    <3>1. IsFiniteSet(ofAgent(held, s)) /\ IsFiniteSet(ofTree(held, s))
      BY <1>0, FS_Subset
    <3>2. /\ ofAgent(held', s) \in SUBSET ofAgent(held, s)
          /\ ofTree(held', s) \in SUBSET ofTree(held, s)
      BY <1>1
    <3>3. /\ Cardinality(ofAgent(held, s)) <= PerAgentLimit
          /\ Cardinality(ofTree(held, s)) <= PerWorktreeLimit
      BY DEF CapacityBound
    <3> HIDE DEF held, ofAgent, ofTree
    <3> QED BY <3>1, <3>2, <3>3, ShrinkBound
  <2> QED BY <2>1, <2>2 DEF CapacityBound
<1>2. ASSUME NEW s \in Sessions, NEW gone \in SUBSET Prunable, ReserveActivation(s, gone)
      PROVE  CapacityBound'
  <2> DEFINE rest == held \ gone
  <2>1. held' \subseteq rest \cup {s} /\ s \in held'
    BY <1>2 DEF ReserveActivation, Counted, Pruned, RegistryInv, RegistryTypeOK, Terminal, Losses
  <2>2. /\ IsFiniteSet(rest)
        /\ \A t \in Sessions : IsFiniteSet(ofAgent(rest, t)) /\ IsFiniteSet(ofTree(rest, t))
    BY <1>0, FS_Subset
  <2>3. /\ Cardinality(rest) < GlobalLimit
        /\ Cardinality(ofAgent(rest, s)) < PerAgentLimit
        /\ Cardinality(ofTree(rest, s)) < PerWorktreeLimit
    BY <1>2 DEF ReserveActivation, HasCapacity
  <2>4. Cardinality(held') <= GlobalLimit
    <3> HIDE DEF held, rest
    <3> QED BY <2>1, <2>2, <2>3, GrowBound
  <2>5. ASSUME NEW t \in Sessions
        PROVE  Cardinality(ofAgent(held', t)) <= PerAgentLimit
    <3>1. CASE AgentOf[t] = AgentOf[s]
      <4>1. ofAgent(held', t) \in SUBSET (ofAgent(rest, s) \cup {s})
        BY <2>1, <3>1
      <4> HIDE DEF held, rest, ofAgent
      <4>2. IsFiniteSet(ofAgent(rest, s)) /\ Cardinality(ofAgent(rest, s)) < PerAgentLimit
        BY <2>2, <2>3
      <4> QED BY <1>n, <4>1, <4>2, GrowBound
    <3>2. CASE AgentOf[t] # AgentOf[s]
      <4>1. ofAgent(held', t) \in SUBSET ofAgent(held, t) /\ IsFiniteSet(ofAgent(held, t))
        BY <1>0, <2>1, <3>2, FS_Subset
      <4>2. Cardinality(ofAgent(held, t)) <= PerAgentLimit
        BY DEF CapacityBound
      <4> HIDE DEF held, rest, ofAgent
      <4> QED BY <4>1, <4>2, ShrinkBound
    <3> QED BY <3>1, <3>2
  <2>6. ASSUME NEW t \in Sessions
        PROVE  Cardinality(ofTree(held', t)) <= PerWorktreeLimit
    <3>1. CASE WorktreeOf[t] = WorktreeOf[s]
      <4>1. ofTree(held', t) \in SUBSET (ofTree(rest, s) \cup {s})
        BY <2>1, <3>1
      <4> HIDE DEF held, rest, ofTree
      <4>2. IsFiniteSet(ofTree(rest, s)) /\ Cardinality(ofTree(rest, s)) < PerWorktreeLimit
        BY <2>2, <2>3
      <4> QED BY <1>n, <4>1, <4>2, GrowBound
    <3>2. CASE WorktreeOf[t] # WorktreeOf[s]
      <4>1. ofTree(held', t) \in SUBSET ofTree(held, t) /\ IsFiniteSet(ofTree(held, t))
        BY <1>0, <2>1, <3>2, FS_Subset
      <4>2. Cardinality(ofTree(held, t)) <= PerWorktreeLimit
        BY DEF CapacityBound
      <4> HIDE DEF held, rest, ofTree
      <4> QED BY <4>1, <4>2, ShrinkBound
    <3> QED BY <3>1, <3>2
  <2> QED BY <2>4, <2>5, <2>6 DEF CapacityBound
<1> QED BY <1>1, <1>2, CountedShrinks

\* The global, per-agent and per-worktree ceilings hold at all times, however
\* many activations are pending, hidden, published, expired or aborted.
THEOREM RegistryCapacity == RegistrySpec => []CapacityBound
<1>1. RegistryInit => CapacityBound
  <2> SUFFICES ASSUME RegistryInit PROVE CapacityBound
    OBVIOUS
  <2>1. Counted(Sessions) = {}
    BY DEF RegistryInit, Counted
  <2>2. \A s \in Sessions :
          /\ {t \in Counted(Sessions) : AgentOf[t] = AgentOf[s]} = {}
          /\ {t \in Counted(Sessions) : WorktreeOf[t] = WorktreeOf[s]} = {}
    BY <2>1
  <2> QED BY <2>1, <2>2, FS_EmptySet, RegistryAssumption DEF CapacityBound
<1>2. RegistryInv /\ CapacityBound /\ [RegistryNext]_registryVars => CapacityBound'
  BY CapacityStep
<1> QED BY <1>1, <1>2, RegistryInvariance, PTL DEF RegistrySpec

=============================================================================
