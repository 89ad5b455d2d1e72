--------------------- MODULE SigningCapabilityIssuance ----------------------
(***************************************************************************)
(* Issuance of one-use signing capabilities to an agent session in the     *)
(* cloud.  A handler (issue() of signing-capability-issuance-service.mjs)  *)
(* reserves a unit of the session's budget and a ledger row for the        *)
(* request, has the statement signed by the managed signer, and commits;   *)
(* each repository call is one database transaction.  Clients repeat       *)
(* requests, handlers die, answers of the database are lost, claims lapse, *)
(* and a maintenance worker recovers lapsed reservations.  The generation  *)
(* and the signer key can be withdrawn at any moment; the session, the     *)
(* device and the agent while no signing intent is open.                   *)
(*                                                                         *)
(* The model is about one session.  A claim token is the handler that drew *)
(* it: only the handler that inserted the row is given one.                *)
(***************************************************************************)
EXTENDS Naturals, FiniteSets

CONSTANTS
    Requests,       \* request identifiers of the client
    Handlers,       \* issue() calls in progress, in any service process
    MaxSignatures,  \* signature budget of the session
    MaxFaults,      \* lost database answers and dying handlers
    NoRequest

ASSUME IssuanceAssumption ==
    /\ IsFiniteSet(Requests)
    /\ NoRequest \notin Requests
    /\ MaxSignatures \in Nat \ {0}
    /\ MaxFaults \in Nat

VARIABLES
    session,    \* row of agent_sessions
    row,        \* rows of agent_session_signing_capability_reservations
    capabilities,   \* requests whose capability is in the capabilities table
    authority,  \* device, agent, grant, generation and signer key are all good
    keyUses,    \* for each request the times its statement was signed
    committed,  \* requests whose provider operation is committed
    call,       \* the handlers
    delivered,  \* requests whose capability a client has received
    faults

vars == <<session, row, capabilities, authority, keyUses, committed, call, delivered, faults>>
database == <<session, row, capabilities>>

OpenStatuses == {"active", "signing_intent", "signed"}
Statuses == OpenStatuses \cup {"outcome_unknown", "expired", "revoked"}
RowStates == {"none", "reserved", "completed", "outcome_unknown", "expired"}
NoRow == [state |-> "none", claim |-> {}, claimLive |-> FALSE, live |-> FALSE]
Idle == [step |-> "idle", request |-> NoRequest, remaining |-> 0]

Init ==
    /\ session = [status |-> "active", request |-> NoRequest, used |-> 0, reserved |-> 0, live |-> TRUE]
    /\ row = [r \in Requests |-> NoRow]
    /\ capabilities = {}
    /\ authority = TRUE
    /\ keyUses = [r \in Requests |-> 0]
    /\ committed = {}
    /\ call = [h \in Handlers |-> Idle]
    /\ delivered = {}
    /\ faults = 0

-----------------------------------------------------------------------------
(* The transactions of the reservation repository, by what they write *)

Remaining == MaxSignatures - session.used - session.reserved

\* The session still carries the reservation of r.
Carries(r) == session.status = "signing_intent" /\ session.request = r

\* The session is ready for another request; a signed one with budget left
\* becomes active first, also when the reservation is then refused.
Reopened ==
    IF session.status = "signed" /\ session.used + session.reserved < MaxSignatures
    THEN [session EXCEPT !.status = "active"]
    ELSE session

CanReserve ==
    /\ Reopened.status = "active"
    /\ session.used + session.reserved < MaxSignatures
    /\ session.live
    /\ authority

\* Claim h and one unit of the budget for r.
reserve(r, h) ==
    /\ row' = [row EXCEPT ![r] = [state |-> "reserved", claim |-> {h}, claimLive |-> TRUE, live |-> TRUE]]
    /\ session' = [Reopened EXCEPT !.status = "signing_intent", !.request = r, !.reserved = @ + 1]
    /\ UNCHANGED capabilities

\* Mutant: an unknown outcome gives the unit back.
Forget_Refunds(r) ==
    /\ row' = [row EXCEPT ![r].state = "outcome_unknown"]
    /\ session' = IF Carries(r)
                  THEN [session EXCEPT !.status = "active", !.request = NoRequest, !.reserved = @ - 1]
                  ELSE session
    /\ UNCHANGED capabilities

\* The outcome of r is unknown: the unit counts as used.
Forget(r) ==
    /\ row' = [row EXCEPT ![r].state = "outcome_unknown"]
    /\ session' = IF Carries(r)
                  THEN [session EXCEPT !.status = "outcome_unknown", !.request = NoRequest,
                                       !.used = @ + 1, !.reserved = @ - 1]
                  ELSE session
    /\ UNCHANGED capabilities

\* Every authority is checked again after the signature.
CanCommit(r, h) ==
    /\ row[r].state = "reserved"
    /\ row[r].claim = {h}
    /\ row[r].claimLive
    /\ Carries(r)
    /\ authority
    /\ r \in committed

commit(r) ==
    /\ row' = [row EXCEPT ![r].state = "completed"]
    /\ session' = [session EXCEPT !.status = "signed", !.request = NoRequest,
                                  !.used = @ + 1, !.reserved = @ - 1]
    /\ capabilities' = capabilities \cup {r}

\* Mutant: a completed row can be marked too.
CanMarkUncertain_AnyState(r, h) == row[r].claim = {h}

CanMarkUncertain(r, h) == row[r].state = "reserved" /\ row[r].claim = {h} /\ Carries(r)

\* A completed response is scrubbed once it has expired.
Scrub(r) == row' = [row EXCEPT ![r].state = "expired"] /\ UNCHANGED <<session, capabilities>>

-----------------------------------------------------------------------------
(* issue() *)

At(h, step) == call[h].step = step
Goto(h, step) == call' = [call EXCEPT ![h].step = step]
End(h) == call' = [call EXCEPT ![h] = Idle]
Fault == faults < MaxFaults /\ faults' = faults + 1

\* bindAgentSession lets the request through.
Issue(h, r) ==
    /\ At(h, "idle")
    /\ session.status \in OpenStatuses
    /\ session.live
    /\ authority
    /\ call' = [call EXCEPT ![h] = [Idle EXCEPT !.step = "reserve", !.request = r]]
    /\ UNCHANGED <<database, authority, keyUses, committed, delivered, faults>>

\* reserveCapability of a new request.
Reserve(h) ==
    LET r == call[h].request
    IN  /\ At(h, "reserve")
        /\ row[r].state = "none"
        /\ \/ /\ CanReserve
              /\ reserve(r, h)
              /\ \/ /\ call' = [call EXCEPT ![h].step = "sign", ![h].remaining = Remaining - 1]
                    /\ UNCHANGED faults
                 \/ Fault /\ End(h)     \* the answer is lost, and the claim with it
           \/ /\ ~CanReserve
              /\ session' = Reopened
              /\ UNCHANGED <<row, capabilities, faults>>
              /\ End(h)
        /\ UNCHANGED <<authority, keyUses, committed, delivered>>

\* reserveCapability of a request that has a row already.
Repeat(h) ==
    LET r == call[h].request
    IN  /\ At(h, "reserve")
        /\ row[r].state # "none"
        /\ IF row[r].state = "reserved" /\ ~row[r].claimLive
           THEN Forget(r)
           ELSE UNCHANGED database
        /\ delivered' = IF row[r].state = "completed" THEN delivered \cup {r} ELSE delivered
        /\ End(h)
        /\ UNCHANGED <<authority, keyUses, committed, faults>>

\* The managed signer returns the signature of a committed operation.
Sign(h) ==
    LET r == call[h].request
    IN  /\ At(h, "sign")
        /\ keyUses' = [keyUses EXCEPT ![r] = @ + 1]
        /\ committed' = committed \cup {r}
        /\ Goto(h, "commit")
        /\ UNCHANGED <<database, authority, delivered, faults>>

\* It fails, or its output is refused, and the key may have been used.
SignFails(h) ==
    LET r == call[h].request
    IN  /\ At(h, "sign")
        /\ \/ UNCHANGED <<keyUses, committed>>
           \/ /\ keyUses' = [keyUses EXCEPT ![r] = @ + 1]
              /\ committed' \in {committed, committed \cup {r}}
        /\ Goto(h, "mark")
        /\ UNCHANGED <<database, authority, delivered, faults>>

\* commitCapability; whatever it answers but the committed capability leads
\* to reconcileCommitLoss.
Commit(h) ==
    LET r == call[h].request
    IN  /\ At(h, "commit")
        /\ \/ /\ CanCommit(r, h)
              /\ commit(r)
              /\ \/ /\ MaxSignatures - session.used - 1 = call[h].remaining
                    /\ delivered' = delivered \cup {r}
                    /\ End(h)
                    /\ UNCHANGED faults
                 \/ Fault /\ Goto(h, "replay") /\ UNCHANGED delivered
           \/ /\ ~CanCommit(r, h)
              /\ Goto(h, "replay")
              /\ UNCHANGED <<database, delivered, faults>>
        /\ UNCHANGED <<authority, keyUses, committed>>

\* reconcileCommitLoss: the budget left may have moved on meanwhile.
Replay(h) ==
    LET r == call[h].request
    IN  /\ At(h, "replay")
        /\ CASE row[r].state = "completed" /\ row[r].live ->
                  /\ UNCHANGED database
                  /\ IF Remaining = call[h].remaining
                     THEN delivered' = delivered \cup {r} /\ End(h)
                     ELSE Goto(h, "mark") /\ UNCHANGED delivered
             [] row[r].state = "completed" /\ ~row[r].live ->
                  Scrub(r) /\ Goto(h, "mark") /\ UNCHANGED delivered
             [] row[r].state \in {"reserved", "outcome_unknown"} ->
                  End(h) /\ UNCHANGED <<database, delivered>>
             [] row[r].state = "expired" ->
                  Goto(h, "mark") /\ UNCHANGED <<database, delivered>>
        /\ UNCHANGED <<authority, keyUses, committed, faults>>

\* markUncertainBestEffort, after which the request fails.
Mark(h) ==
    LET r == call[h].request
    IN  /\ At(h, "mark")
        /\ IF CanMarkUncertain(r, h) THEN Forget(r) ELSE UNCHANGED database
        /\ End(h)
        /\ UNCHANGED <<authority, keyUses, committed, delivered, faults>>

\* A database call that does not take effect.
CallFails(h) ==
    /\ Fault
    /\ \/ call[h].step \in {"reserve", "mark"} /\ End(h)
       \/ At(h, "commit") /\ Goto(h, "replay")
       \/ At(h, "replay") /\ Goto(h, "mark")
    /\ UNCHANGED <<database, authority, keyUses, committed, delivered>>

\* The process of a handler dies.
Die(h) ==
    /\ ~At(h, "idle")
    /\ Fault
    /\ End(h)
    /\ UNCHANGED <<database, authority, keyUses, committed, delivered>>

-----------------------------------------------------------------------------
(* Time, maintenance and withdrawal *)

\* A claim lasts at most a minute and never longer than the capability, and
\* neither lasts longer than the session.
ClaimLapses(r) ==
    /\ row[r].claimLive
    /\ row' = [row EXCEPT ![r].claimLive = FALSE]
    /\ UNCHANGED <<session, capabilities, authority, keyUses, committed, call, delivered, faults>>

CapabilityExpires(r) ==
    /\ row[r].live
    /\ row' = [row EXCEPT ![r].live = FALSE, ![r].claimLive = FALSE]
    /\ UNCHANGED <<session, capabilities, authority, keyUses, committed, call, delivered, faults>>

SessionExpires ==
    /\ session.live
    /\ session' = [session EXCEPT !.live = FALSE]
    /\ row' = [r \in Requests |-> [row[r] EXCEPT !.live = FALSE, !.claimLive = FALSE]]
    /\ UNCHANGED <<capabilities, authority, keyUses, committed, call, delivered, faults>>

\* Mutant: the batch skips the rows of a session that is past its expiry.
RecoverExpired_LiveSessions(r) ==
    /\ \/ row[r].state = "reserved" /\ ~row[r].claimLive /\ session.live /\ Forget(r)
       \/ row[r].state = "completed" /\ ~row[r].live /\ Scrub(r)
    /\ UNCHANGED <<authority, keyUses, committed, call, delivered, faults>>

\* recoverExpiredReservations, one row of its batch.
RecoverExpired(r) ==
    /\ \/ row[r].state = "reserved" /\ ~row[r].claimLive /\ Forget(r)
       \/ row[r].state = "completed" /\ ~row[r].live /\ Scrub(r)
    /\ UNCHANGED <<authority, keyUses, committed, call, delivered, faults>>

\* The statuses a session can be ended from.  The lifecycle functions select
\* a session in signing_intent too, but the trigger refuses that update and
\* with it their whole transaction.
Endable == {"active", "signed"}

Ended == [session EXCEPT !.status = IF session.live THEN "revoked" ELSE "expired"]

\* revokeAuthority for the session or its grant, and expireDue once the
\* session is past its expiry.
EndSession ==
    /\ session.status \in Endable
    /\ session' = Ended
    /\ UNCHANGED <<row, capabilities, authority, keyUses, committed, call, delivered, faults>>

\* The revocation of the device, the agent or the organization, recorded in
\* one transaction with the end of the session, or not at all.
Revoke ==
    /\ authority
    /\ session.status # "signing_intent"
    /\ session' = IF session.status \in Endable THEN Ended ELSE session
    /\ authority' = FALSE
    /\ UNCHANGED <<row, capabilities, keyUses, committed, call, delivered, faults>>

\* The generation moves on or the signer key is retired: no session changes.
Withdraw ==
    /\ authority
    /\ authority' = FALSE
    /\ UNCHANGED <<database, keyUses, committed, call, delivered, faults>>

HandlerStep(h) ==
    \/ Reserve(h) \/ Repeat(h) \/ Sign(h) \/ SignFails(h)
    \/ Commit(h) \/ Replay(h) \/ Mark(h)

TimeStep(r) == ClaimLapses(r) \/ CapabilityExpires(r) \/ RecoverExpired(r)

Next ==
    \/ \E h \in Handlers, r \in Requests : Issue(h, r)
    \/ \E h \in Handlers : HandlerStep(h) \/ CallFails(h) \/ Die(h)
    \/ \E r \in Requests : TimeStep(r)
    \/ SessionExpires \/ EndSession \/ Revoke \/ Withdraw

Spec == Init /\ [][Next]_vars

(* Claims lapse as time passes, and the maintenance worker runs every hour *)
(* for as long as a service process is up.                                 *)
Fairness == \A r \in Requests : WF_vars(ClaimLapses(r)) /\ WF_vars(RecoverExpired(r))

FairSpec == Spec /\ Fairness

-----------------------------------------------------------------------------
(* What can be relied on *)

TypeOK ==
    /\ session \in [status : Statuses, request : Requests \cup {NoRequest}, used : 0 .. MaxSignatures,
                    reserved : 0 .. MaxSignatures, live : BOOLEAN]
    /\ row \in [Requests -> [state : RowStates, claim : SUBSET Handlers, claimLive : BOOLEAN, live : BOOLEAN]]
    /\ capabilities \subseteq Requests
    /\ authority \in BOOLEAN
    /\ keyUses \in [Requests -> Nat]
    /\ committed \subseteq Requests
    /\ call \in [Handlers -> [step : {"idle", "reserve", "sign", "commit", "replay", "mark"},
                              request : Requests \cup {NoRequest}, remaining : 0 .. MaxSignatures]]
    /\ delivered \subseteq Requests
    /\ faults \in 0 .. MaxFaults

(* However often a request is repeated, whoever dies and whatever answer   *)
(* is lost, its statement is signed at most once, and every use of the key *)
(* is covered by a unit the session has given up for good or still holds:  *)
(* the budget is never exceeded by signatures nobody heard of.             *)
BudgetCoversSignatures ==
    /\ \A r \in Requests : keyUses[r] <= 1
    /\ Cardinality({r \in Requests : keyUses[r] > 0}) <= session.used + session.reserved
    /\ session.used + session.reserved <= MaxSignatures

(* A capability that reached a client is the one on record for its         *)
(* request, and the ledger never calls its outcome unknown; a request      *)
(* whose outcome is unknown has no capability on record, so what was       *)
(* signed for it can never be used.                                        *)
OutcomeIsFinal ==
    /\ \A r \in delivered : r \in capabilities
    /\ \A r \in capabilities : row[r].state \in {"completed", "expired"} /\ keyUses[r] = 1

(* No reservation stays open: whatever became of its handler, the          *)
(* maintenance worker ends it once its claim has lapsed.  So a session is  *)
(* never left in signing_intent, where it can be neither expired nor       *)
(* revoked and makes every transaction fail that tries.                    *)
ReservationsRecovered ==
    /\ \A r \in Requests : row[r].state = "reserved" ~> row[r].state # "reserved"
    /\ []<>(session.status # "signing_intent")

=============================================================================
