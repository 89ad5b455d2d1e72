------------------- MODULE SigningCapabilityIssuanceProofs -------------------
(***************************************************************************)
(* What the issuance of signing capabilities promises for any number of    *)
(* requests, handlers and faults and any budget: the budget covers every   *)
(* signature, and an outcome is final.                                     *)
(***************************************************************************)
EXTENDS SigningCapabilityIssuance, FiniteSetTheorems, TLAPS

-----------------------------------------------------------------------------
(* The inductive invariant. *)

\* A handler in the middle of a request has a request, and past the reservation
\* the request has a row.
Working ==
  \A h \in Handlers :
    /\ call[h].step # "idle" => call[h].request \in Requests
    /\ call[h].step \notin {"idle", "reserve"} => row[call[h].request].state # "none"

\* A row is reserved exactly while the session is in signing_intent for it,
\* and the session holds its unit then and at no other time.
UnitHeld ==
  /\ \A r \in Requests : row[r].state = "reserved" <=> Carries(r)
  /\ session.reserved = IF session.status = "signing_intent" THEN 1 ELSE 0

\* The requests that ever reached the ledger.
Reserved == {r \in Requests : row[r].state # "none"}

\* Every row has taken exactly one unit, which was used or is still held.
UnitPerRow ==
  /\ Cardinality(Reserved) = session.used + session.reserved
  /\ session.used + session.reserved <= MaxSignatures

\* A handler about to sign is the one that inserted the row of its request,
\* and nothing was signed for that request before.
SignsFirst ==
  \A h \in Handlers :
    call[h].step = "sign" =>
      /\ row[call[h].request].claim = {h}
      /\ keyUses[call[h].request] = 0

\* A signature belongs to a row, and is the only one of its request.
SignedOnce ==
  \A r \in Requests : /\ keyUses[r] <= 1
                      /\ keyUses[r] > 0 => row[r].state # "none"
                      /\ r \in committed => keyUses[r] = 1

\* The capability of a completed row is on record, and no other.
OnRecord ==
  /\ delivered \subseteq capabilities
  /\ \A r \in Requests : row[r].state \in {"completed", "expired"} <=> r \in capabilities
  /\ \A r \in capabilities : keyUses[r] = 1

IssuanceInv ==
  TypeOK /\ Working /\ UnitHeld /\ UnitPerRow /\ SignsFirst /\ SignedOnce /\ OnRecord

-----------------------------------------------------------------------------
(* Parts of the invariant that the steps are measured by. *)

SessionRow == [status : Statuses, request : Requests \cup {NoRequest}, used : 0 .. MaxSignatures,
               reserved : 0 .. MaxSignatures, live : BOOLEAN]
LedgerRow == [state : RowStates, claim : SUBSET Handlers, claimLive : BOOLEAN, live : BOOLEAN]
CallState == [step : {"idle", "reserve", "sign", "commit", "replay", "mark"},
              request : Requests \cup {NoRequest}, remaining : 0 .. MaxSignatures]

\* What only the ledger and the budget decide.
LedgerOK ==
  /\ session \in SessionRow
  /\ row \in [Requests -> LedgerRow]
  /\ UnitHeld /\ UnitPerRow

\* Rows are never removed and keep the claim they were inserted with.
RowsKept ==
  \A r \in Requests : row[r].state # "none" => row'[r].state # "none" /\ row'[r].claim = row[r].claim

\* A row ends as completed exactly when its capability is recorded.
Recorded == \A r \in Requests : row[r].state \in {"completed", "expired"} <=> r \in capabilities

\* A transaction on rows that exist, which records no capability.
LedgerStep == LedgerOK' /\ RowsKept /\ Recorded' /\ capabilities' = capabilities

\* Handlers may end or move on, but none comes to sign.
NoNewSigner ==
  /\ call' \in [Handlers -> CallState]
  /\ \A h \in Handlers : \/ call'[h] = call[h]
                         \/ /\ call'[h].step # "sign"
                            /\ call'[h].step # "idle" => call'[h].request \in Requests
                            /\ call'[h].step \notin {"idle", "reserve"} =>
                                 row[call'[h].request].state # "none"

LEMMA Typed ==
  ASSUME IssuanceInv
  PROVE  /\ session \in SessionRow
         /\ row \in [Requests -> LedgerRow]
         /\ call \in [Handlers -> CallState]
         /\ keyUses \in [Requests -> Nat]
         /\ capabilities \subseteq Requests /\ committed \subseteq Requests
         /\ MaxSignatures \in Nat
BY IssuanceAssumption DEF IssuanceInv, TypeOK, SessionRow, LedgerRow, CallState

LEMMA SameRows ==
  ASSUME IssuanceInv, Reserved' = Reserved,
         session'.used + session'.reserved = session.used + session.reserved
  PROVE  UnitPerRow'
BY DEF IssuanceInv, UnitPerRow

-----------------------------------------------------------------------------
(* What the transactions do to the ledger. *)

\* The end of a reservation changes the state of its row and nothing else.
LEMMA RowEnds ==
  ASSUME IssuanceInv, NEW r \in Requests, row[r].state # "none",
         NEW state \in RowStates, state # "none",
         row' = [row EXCEPT ![r].state = state]
  PROVE  /\ row' \in [Requests -> LedgerRow]
         /\ RowsKept
         /\ Reserved' = Reserved
         /\ row'[r].state = state
         /\ \A q \in Requests : q # r => row'[q] = row[q]
<1>1. row' = [row EXCEPT ![r] = [row[r] EXCEPT !.state = state]]
  BY Typed
<1>2. [row[r] EXCEPT !.state = state] \in LedgerRow
  BY Typed DEF LedgerRow
<1>3. row' \in [Requests -> LedgerRow]
  BY <1>1, <1>2, Typed
<1>4. /\ row'[r].state = state /\ row'[r].claim = row[r].claim
      /\ \A q \in Requests : q # r => row'[q] = row[q]
  BY <1>1, Typed DEF LedgerRow
<1> QED BY <1>3, <1>4 DEF RowsKept, Reserved

\* A unit that is held by the session becomes a used one.
LEMMA UnitUsed ==
  ASSUME IssuanceInv, session.status = "signing_intent", NEW status \in Statuses,
         status # "signing_intent",
         session' = [session EXCEPT !.status = status, !.request = NoRequest,
                                    !.used = @ + 1, !.reserved = @ - 1]
  PROVE  /\ session' \in SessionRow
         /\ session'.status = status /\ session'.reserved = 0
         /\ session'.used + session'.reserved = session.used + session.reserved
<1>1. /\ session.reserved \in Nat /\ session.used \in Nat /\ MaxSignatures \in Nat
      /\ session.live \in BOOLEAN
  BY Typed DEF SessionRow
<1>2. session.reserved = 1 /\ session.used + session.reserved <= MaxSignatures
  BY DEF IssuanceInv, UnitHeld, UnitPerRow
<1>3. session' = [status |-> status, request |-> NoRequest, used |-> session.used + 1,
                  reserved |-> session.reserved - 1, live |-> session.live]
  BY Typed DEF SessionRow
<1>4. session.used + 1 \in 0 .. MaxSignatures /\ session.reserved - 1 \in 0 .. MaxSignatures
  BY <1>1, <1>2
<1>5. session' \in SessionRow
  BY <1>1, <1>3, <1>4 DEF SessionRow
<1>6. /\ session'.status = status /\ session'.used = session.used + 1
      /\ session'.reserved = session.reserved - 1
  BY <1>3
<1> QED BY <1>1, <1>2, <1>5, <1>6

\* The row the session carries ends with the reservation: none is left.
LEMMA NothingHeld ==
  ASSUME IssuanceInv, NEW r \in Requests, Carries(r), row'[r].state # "reserved",
         \A q \in Requests : q # r => row'[q] = row[q],
         session'.status # "signing_intent", session'.reserved = 0
  PROVE  UnitHeld'
BY DEF IssuanceInv, UnitHeld, Carries

\* An outcome that becomes unknown moves the unit from held to used.
LEMMA ForgetLedger ==
  ASSUME IssuanceInv, NEW r \in Requests, row[r].state = "reserved", Forget(r)
  PROVE  LedgerStep
<1>1. row' = [row EXCEPT ![r].state = "outcome_unknown"] /\ capabilities' = capabilities
  BY DEF Forget
<1>2. /\ row' \in [Requests -> LedgerRow] /\ RowsKept /\ Reserved' = Reserved
      /\ row'[r].state = "outcome_unknown"
      /\ \A q \in Requests : q # r => row'[q] = row[q]
  BY <1>1, RowEnds DEF RowStates
<1>3. Recorded'
  BY <1>1, <1>2 DEF IssuanceInv, OnRecord, Recorded
<1>4. /\ session' \in SessionRow /\ UnitHeld'
      /\ session'.used + session'.reserved = session.used + session.reserved
  <2>1. Carries(r)
    BY DEF IssuanceInv, UnitHeld
  <2>2. session' = [session EXCEPT !.status = "outcome_unknown", !.request = NoRequest,
                                   !.used = @ + 1, !.reserved = @ - 1]
    BY <2>1 DEF Forget
  <2>3. /\ session' \in SessionRow /\ session'.status = "outcome_unknown" /\ session'.reserved = 0
        /\ session'.used + session'.reserved = session.used + session.reserved
    BY <2>1, <2>2, UnitUsed DEF Carries, Statuses
  <2> QED BY <1>2, <2>1, <2>3, NothingHeld
<1> QED BY <1>1, <1>2, <1>3, <1>4, SameRows DEF LedgerStep, LedgerOK

\* Scrubbing an expired response keeps its row and its capability.
LEMMA ScrubLedger ==
  ASSUME IssuanceInv, NEW r \in Requests, row[r].state = "completed", Scrub(r)
  PROVE  LedgerStep
<1>1. /\ row' = [row EXCEPT ![r].state = "expired"]
      /\ session' = session /\ capabilities' = capabilities
  BY DEF Scrub
<1>2. /\ row' \in [Requests -> LedgerRow] /\ RowsKept /\ Reserved' = Reserved
      /\ row'[r].state = "expired"
      /\ \A q \in Requests : q # r => row'[q] = row[q]
  BY <1>1, RowEnds DEF RowStates
<1>3. Recorded'
  BY <1>1, <1>2 DEF IssuanceInv, OnRecord, Recorded
<1>4. UnitHeld'
  BY <1>1, <1>2 DEF IssuanceInv, UnitHeld, Carries
<1> QED BY <1>1, <1>2, <1>3, <1>4, SameRows, Typed DEF LedgerStep, LedgerOK

\* Nothing in the database moves.
LEMMA SameLedger ==
  ASSUME IssuanceInv, UNCHANGED database
  PROVE  LedgerStep
<1>1. session' = session /\ row' = row /\ capabilities' = capabilities
  BY DEF database
<1>2. Reserved' = Reserved /\ RowsKept /\ Recorded' /\ UnitHeld'
  BY <1>1 DEF Reserved, RowsKept, Recorded, IssuanceInv, OnRecord, UnitHeld, Carries
<1> QED BY <1>1, <1>2, SameRows, Typed DEF LedgerStep, LedgerOK

-----------------------------------------------------------------------------
(* The steps. *)

\* A step that uses no key and brings no handler to the signer.
LEMMA QuietStep ==
  ASSUME IssuanceInv, LedgerOK', RowsKept, Recorded', NoNewSigner,
         UNCHANGED <<keyUses, committed>>,
         capabilities' \subseteq Requests, \A r \in capabilities' : keyUses[r] = 1,
         delivered' \subseteq capabilities', authority' \in BOOLEAN, faults' \in 0 .. MaxFaults
  PROVE  IssuanceInv'
<1>1. TypeOK'
  BY DEF IssuanceInv, TypeOK, LedgerOK, NoNewSigner, SessionRow, LedgerRow, CallState
<1>2. Working' /\ SignsFirst'
  <2> SUFFICES ASSUME NEW h \in Handlers
               PROVE  /\ call'[h].step # "idle" => call'[h].request \in Requests
                      /\ call'[h].step \notin {"idle", "reserve"} => row'[call'[h].request].state # "none"
                      /\ call'[h].step = "sign" =>
                           /\ row'[call'[h].request].claim = {h}
                           /\ keyUses'[call'[h].request] = 0
    BY DEF Working, SignsFirst
  <2>1. CASE call'[h] = call[h]
    BY <2>1 DEF IssuanceInv, Working, SignsFirst, RowsKept
  <2>2. CASE call'[h] # call[h]
    BY <2>2 DEF NoNewSigner, RowsKept, Working
  <2> QED BY <2>1, <2>2
<1>3. SignedOnce'
  BY DEF IssuanceInv, SignedOnce, RowsKept
<1>4. OnRecord'
  BY DEF OnRecord, Recorded
<1> QED BY <1>1, <1>2, <1>3, <1>4 DEF IssuanceInv, LedgerOK

\* The same for a transaction that records no capability.
LEMMA QuietLedgerStep ==
  ASSUME IssuanceInv, LedgerStep, NoNewSigner, UNCHANGED <<keyUses, committed>>,
         delivered' \subseteq capabilities, authority' \in BOOLEAN, faults' \in 0 .. MaxFaults
  PROVE  IssuanceInv'
<1>1. capabilities' \subseteq Requests /\ (\A r \in capabilities' : keyUses[r] = 1)
  BY Typed DEF LedgerStep, IssuanceInv, OnRecord
<1> QED BY <1>1, QuietStep DEF LedgerStep

LEMMA EndsQuietly ==
  ASSUME IssuanceInv, NEW h \in Handlers, End(h)
  PROVE  NoNewSigner
<1>1. Idle \in CallState /\ Idle.step = "idle"
  BY IssuanceAssumption DEF Idle, CallState
<1> QED BY <1>1, Typed DEF End, NoNewSigner

LEMMA MovesOnQuietly ==
  ASSUME IssuanceInv, NEW h \in Handlers, call[h].step \notin {"idle", "reserve"},
         NEW step \in {"commit", "replay", "mark"}, Goto(h, step)
  PROVE  NoNewSigner /\ call'[h].step = step /\ \A g \in Handlers : g # h => call'[g] = call[g]
<1>1. call' = [call EXCEPT ![h] = [call[h] EXCEPT !.step = step]]
  BY Typed DEF Goto
<1>2. [call[h] EXCEPT !.step = step] \in CallState
  BY Typed DEF CallState
<1>3. call'[h].step = step /\ call'[h].request = call[h].request
  BY <1>1, Typed DEF CallState
<1> QED BY <1>1, <1>2, <1>3, Typed DEF NoNewSigner, IssuanceInv, Working

LEMMA FaultTyped ==
  ASSUME IssuanceInv, Fault
  PROVE  faults' \in 0 .. MaxFaults
BY IssuanceAssumption DEF IssuanceInv, TypeOK, Fault

\* A request is let through.
LEMMA IssueStep ==
  ASSUME IssuanceInv, NEW h \in Handlers, NEW r \in Requests, Issue(h, r)
  PROVE  IssuanceInv'
<1> DEFINE c == [Idle EXCEPT !.step = "reserve", !.request = r]
<1>1. call' = [call EXCEPT ![h] = c]
  BY DEF Issue
<1>2. Idle \in CallState
  BY IssuanceAssumption DEF Idle, CallState
<1>3. c \in CallState /\ c.step = "reserve" /\ c.request = r
  BY <1>2 DEF CallState
<1> HIDE DEF c
<1>4. NoNewSigner
  BY <1>1, <1>3, Typed DEF NoNewSigner
<1>5. /\ UNCHANGED database /\ UNCHANGED <<keyUses, committed>>
      /\ delivered' \subseteq capabilities /\ authority' \in BOOLEAN /\ faults' \in 0 .. MaxFaults
  BY DEF Issue, database, IssuanceInv, OnRecord, TypeOK
<1> QED BY <1>4, <1>5, SameLedger, QuietLedgerStep

\* A new row takes one more unit, and its handler is the only one that may
\* sign for it.
LEMMA ReserveLedger ==
  ASSUME IssuanceInv, NEW h \in Handlers, NEW r \in Requests, row[r].state = "none",
         CanReserve, reserve(r, h)
  PROVE  /\ LedgerStep
         /\ row'[r].state = "reserved" /\ row'[r].claim = {h}
         /\ keyUses[r] = 0
         /\ session.used + session.reserved < MaxSignatures
<1> DEFINE new == [state |-> "reserved", claim |-> {h}, claimLive |-> TRUE, live |-> TRUE]
<1>1. row' = [row EXCEPT ![r] = new] /\ capabilities' = capabilities
  BY DEF reserve
<1>2. row' \in [Requests -> LedgerRow]
  BY <1>1, Typed DEF LedgerRow, RowStates
<1>3. row'[r].state = "reserved" /\ row'[r].claim = {h} /\ \A q \in Requests : q # r => row'[q] = row[q]
  BY <1>1, Typed
<1>4. RowsKept /\ Recorded'
  BY <1>1, <1>3 DEF RowsKept, Recorded, IssuanceInv, OnRecord
<1>5. /\ session.used \in Nat /\ session.reserved \in Nat /\ session.live \in BOOLEAN
      /\ session.used + session.reserved < MaxSignatures
      /\ MaxSignatures \in Nat
  BY Typed DEF SessionRow, CanReserve
<1>6. session' = [session EXCEPT !.status = "signing_intent", !.request = r, !.reserved = @ + 1]
  <2>1. CASE Reopened = session
    BY <2>1 DEF reserve
  <2>2. CASE Reopened = [session EXCEPT !.status = "active"]
    <3>1. session' = [[session EXCEPT !.status = "active"]
                        EXCEPT !.status = "signing_intent", !.request = r,
                               !.reserved = [session EXCEPT !.status = "active"].reserved + 1]
      BY <2>2 DEF reserve
    <3> QED BY <3>1, Typed DEF SessionRow
  <2> QED BY <2>1, <2>2 DEF Reopened
<1>7. session' = [status |-> "signing_intent", request |-> r, used |-> session.used,
                  reserved |-> session.reserved + 1, live |-> session.live]
  BY <1>6, Typed DEF SessionRow
<1>8. session.used \in 0 .. MaxSignatures /\ session.reserved + 1 \in 0 .. MaxSignatures
  BY <1>5
<1>9. session' \in SessionRow
  BY <1>5, <1>7, <1>8 DEF SessionRow, Statuses, OpenStatuses
<1>10. /\ session'.reserved = session.reserved + 1 /\ session'.used = session.used
       /\ session'.status = "signing_intent" /\ session'.request = r
  BY <1>7
<1>11. UnitHeld'
  <2>1. session.status # "signing_intent"
    BY DEF CanReserve, Reopened
  <2>2. session.reserved = 0 /\ \A q \in Requests : row[q].state # "reserved"
    BY <2>1 DEF IssuanceInv, UnitHeld, Carries
  <2> QED BY <1>3, <1>10, <2>2 DEF UnitHeld, Carries
<1>12. UnitPerRow'
  <2>1. Reserved' = Reserved \cup {r} /\ r \notin Reserved
    BY <1>3 DEF Reserved
  <2>2. IsFiniteSet(Reserved)
    BY IssuanceAssumption, FS_Subset DEF Reserved
  <2>3. Cardinality(Reserved') = Cardinality(Reserved) + 1
    BY <2>1, <2>2, FS_AddElement
  <2> QED BY <1>5, <1>10, <2>3 DEF IssuanceInv, UnitPerRow
<1>13. keyUses[r] = 0
  BY Typed DEF IssuanceInv, SignedOnce
<1> QED BY <1>1, <1>2, <1>3, <1>4, <1>5, <1>9, <1>11, <1>12, <1>13 DEF LedgerStep, LedgerOK

LEMMA ReserveStep ==
  ASSUME IssuanceInv, NEW h \in Handlers, Reserve(h)
  PROVE  IssuanceInv'
<1> DEFINE r == call[h].request
<1>1. /\ r \in Requests /\ row[r].state = "none" /\ call[h].step = "reserve"
      /\ UNCHANGED <<keyUses, committed>>
      /\ delivered' \subseteq capabilities /\ authority' \in BOOLEAN
  BY DEF Reserve, At, IssuanceInv, Working, OnRecord, TypeOK
<1>2. CASE CanReserve /\ reserve(r, h) /\ Fault /\ End(h)
  <2>1. LedgerStep
    BY <1>1, <1>2, ReserveLedger
  <2> QED BY <1>1, <1>2, <2>1, EndsQuietly, FaultTyped, QuietLedgerStep
<1>3. CASE ~CanReserve /\ session' = Reopened /\ UNCHANGED <<row, capabilities, faults>> /\ End(h)
  <2>1. /\ session' \in SessionRow /\ UnitHeld'
        /\ session'.used = session.used /\ session'.reserved = session.reserved
    <3>1. CASE session' = session
      BY <1>3, <3>1, Typed DEF IssuanceInv, UnitHeld, Carries
    <3>2. CASE session' = [session EXCEPT !.status = "active"] /\ session.status = "signed"
      <4>1. /\ session' \in SessionRow /\ session'.status = "active"
            /\ session'.used = session.used /\ session'.reserved = session.reserved
        BY <3>2, Typed DEF SessionRow, Statuses, OpenStatuses
      <4>2. UnitHeld'
        BY <1>3, <3>2, <4>1 DEF IssuanceInv, UnitHeld, Carries
      <4> QED BY <4>1, <4>2
    <3> QED BY <1>3, <3>1, <3>2 DEF Reopened
  <2>2. Reserved' = Reserved /\ RowsKept /\ Recorded'
    BY <1>3 DEF Reserved, RowsKept, Recorded, IssuanceInv, OnRecord
  <2>3. LedgerStep
    BY <1>3, <2>1, <2>2, SameRows, Typed DEF LedgerStep, LedgerOK
  <2>4. faults' \in 0 .. MaxFaults
    BY <1>3 DEF IssuanceInv, TypeOK
  <2> QED BY <1>1, <1>3, <2>3, <2>4, EndsQuietly, QuietLedgerStep
<1>4. CASE /\ CanReserve /\ reserve(r, h) /\ UNCHANGED faults
           /\ call' = [call EXCEPT ![h].step = "sign", ![h].remaining = Remaining - 1]
  <2>1. /\ LedgerStep /\ row'[r].state = "reserved" /\ row'[r].claim = {h} /\ keyUses[r] = 0
        /\ session.used + session.reserved < MaxSignatures
    BY <1>1, <1>4, ReserveLedger
  <2>2. Remaining - 1 \in 0 .. MaxSignatures
    BY <2>1, Typed DEF Remaining, SessionRow
  <2> DEFINE c == [[call[h] EXCEPT !.step = "sign"] EXCEPT !.remaining = Remaining - 1]
  <2>3. call' = [call EXCEPT ![h] = c]
    BY <1>4, Typed
  <2>4. c \in CallState /\ c.step = "sign" /\ c.request = r
    BY <2>2, Typed DEF CallState
  <2> HIDE DEF c
  <2>5. /\ call' \in [Handlers -> CallState]
        /\ call'[h].step = "sign" /\ call'[h].request = r
        /\ \A g \in Handlers : g # h => call'[g] = call[g]
    BY <2>3, <2>4, Typed
  <2>6. TypeOK'
    BY <1>1, <1>4, <2>1, <2>5 DEF LedgerStep, LedgerOK, IssuanceInv, TypeOK, OnRecord, SessionRow, LedgerRow, CallState
  <2>7. Working' /\ SignsFirst'
    <3> SUFFICES ASSUME NEW g \in Handlers
                 PROVE  /\ call'[g].step # "idle" => call'[g].request \in Requests
                        /\ call'[g].step \notin {"idle", "reserve"} => row'[call'[g].request].state # "none"
                        /\ call'[g].step = "sign" =>
                             /\ row'[call'[g].request].claim = {g}
                             /\ keyUses'[call'[g].request] = 0
      BY DEF Working, SignsFirst
    <3>1. CASE g = h
      BY <1>1, <2>1, <2>5, <3>1
    <3>2. CASE g # h
      BY <1>1, <2>1, <2>5, <3>2 DEF IssuanceInv, Working, SignsFirst, LedgerStep, RowsKept
    <3> QED BY <3>1, <3>2
  <2>8. SignedOnce'
    BY <1>1, <2>1 DEF IssuanceInv, SignedOnce, LedgerStep, RowsKept
  <2>9. OnRecord'
    BY <1>1, <2>1 DEF IssuanceInv, OnRecord, LedgerStep, Recorded
  <2> QED BY <2>1, <2>6, <2>7, <2>8, <2>9 DEF IssuanceInv, LedgerStep, LedgerOK
<1> QED BY <1>2, <1>3, <1>4 DEF Reserve

LEMMA RepeatStep ==
  ASSUME IssuanceInv, NEW h \in Handlers, Repeat(h)
  PROVE  IssuanceInv'
<1> DEFINE r == call[h].request
<1>1. /\ r \in Requests /\ End(h) /\ UNCHANGED <<keyUses, committed>>
      /\ authority' \in BOOLEAN /\ faults' \in 0 .. MaxFaults
  BY DEF Repeat, At, IssuanceInv, Working, TypeOK
<1>2. LedgerStep
  <2>1. CASE row[r].state = "reserved" /\ Forget(r)
    BY <1>1, <2>1, ForgetLedger
  <2>2. CASE UNCHANGED database
    BY <2>2, SameLedger
  <2> QED BY <2>1, <2>2 DEF Repeat
<1>3. delivered' \subseteq capabilities
  BY <1>1 DEF Repeat, IssuanceInv, OnRecord
<1> QED BY <1>1, <1>2, <1>3, EndsQuietly, QuietLedgerStep

\* The managed signer used the key: it was the first use for the request.
LEMMA KeyUsed ==
  ASSUME IssuanceInv, NEW h \in Handlers, call[h].step = "sign",
         NEW step \in {"commit", "mark"}, Goto(h, step),
         keyUses' = [keyUses EXCEPT ![call[h].request] = @ + 1],
         committed' \in {committed, committed \cup {call[h].request}},
         UNCHANGED <<database, authority, delivered, faults>>
  PROVE  IssuanceInv'
<1> DEFINE r == call[h].request
<1>1. /\ r \in Requests /\ row[r].claim = {h} /\ row[r].state # "none" /\ keyUses[r] = 0
  BY DEF IssuanceInv, Working, SignsFirst
<1>2. /\ keyUses' \in [Requests -> Nat] /\ keyUses'[r] = 1
      /\ \A q \in Requests : q # r => keyUses'[q] = keyUses[q]
  BY <1>1, Typed
<1>3. LedgerStep
  BY SameLedger
<1>4. NoNewSigner /\ call'[h].step = step /\ \A g \in Handlers : g # h => call'[g] = call[g]
  BY MovesOnQuietly
<1>5. row' = row /\ capabilities' = capabilities /\ delivered' = delivered
  BY DEF database
<1>6. TypeOK'
  BY <1>1, <1>2, <1>3, <1>4 DEF IssuanceInv, TypeOK, LedgerStep, LedgerOK, NoNewSigner, SessionRow, LedgerRow, CallState
<1>7. Working' /\ SignsFirst'
  <2> SUFFICES ASSUME NEW g \in Handlers
               PROVE  /\ call'[g].step # "idle" => call'[g].request \in Requests
                      /\ call'[g].step \notin {"idle", "reserve"} => row'[call'[g].request].state # "none"
                      /\ call'[g].step = "sign" =>
                           /\ row'[call'[g].request].claim = {g}
                           /\ keyUses'[call'[g].request] = 0
    BY DEF Working, SignsFirst
  <2>1. CASE g = h
    BY <1>4, <1>5, <2>1 DEF NoNewSigner, IssuanceInv, Working
  <2>2. CASE g # h
    <3>1. call'[g] = call[g]
      BY <1>4, <2>2
    <3>2. call[g].step = "sign" => row[call[g].request].claim = {g}
      BY DEF IssuanceInv, SignsFirst
    <3>3. call[g].step = "sign" => call[g].request # r
      BY <1>1, <2>2, <3>2
    <3> QED BY <1>2, <1>5, <3>1, <3>3 DEF IssuanceInv, Working, SignsFirst
  <2> QED BY <2>1, <2>2
<1>8. SignedOnce'
  <2> SUFFICES ASSUME NEW q \in Requests
               PROVE  /\ keyUses'[q] <= 1
                      /\ keyUses'[q] > 0 => row'[q].state # "none"
                      /\ q \in committed' => keyUses'[q] = 1
    BY DEF SignedOnce
  <2> QED BY <1>1, <1>2, <1>5 DEF IssuanceInv, SignedOnce
<1>9. OnRecord'
  BY <1>1, <1>2, <1>5, Typed DEF IssuanceInv, OnRecord
<1> QED BY <1>3, <1>6, <1>7, <1>8, <1>9 DEF IssuanceInv, LedgerStep, LedgerOK

LEMMA SignStep ==
  ASSUME IssuanceInv, NEW h \in Handlers, Sign(h) \/ SignFails(h)
  PROVE  IssuanceInv'
<1>1. CASE Sign(h)
  BY <1>1, KeyUsed DEF Sign, At
<1>2. CASE SignFails(h) /\ ~UNCHANGED <<keyUses, committed>>
  BY <1>2, KeyUsed DEF SignFails, At
<1>3. CASE SignFails(h) /\ UNCHANGED <<keyUses, committed>>
  <2>1. /\ NoNewSigner /\ UNCHANGED database
        /\ delivered' \subseteq capabilities /\ authority' \in BOOLEAN /\ faults' \in 0 .. MaxFaults
    BY <1>3, MovesOnQuietly DEF SignFails, At, IssuanceInv, OnRecord, TypeOK
  <2> QED BY <1>3, <2>1, SameLedger, QuietLedgerStep
<1> QED BY <1>1, <1>2, <1>3

LEMMA CommitStep ==
  ASSUME IssuanceInv, NEW h \in Handlers, Commit(h)
  PROVE  IssuanceInv'
<1> DEFINE r == call[h].request
<1>1. /\ r \in Requests /\ call[h].step = "commit" /\ UNCHANGED <<keyUses, committed>>
      /\ authority' \in BOOLEAN
  BY DEF Commit, At, IssuanceInv, Working, TypeOK
<1>2. CASE CanCommit(r, h) /\ commit(r)
  <2>1. /\ row' = [row EXCEPT ![r].state = "completed"]
        /\ capabilities' = capabilities \cup {r}
        /\ session' = [session EXCEPT !.status = "signed", !.request = NoRequest,
                                      !.used = @ + 1, !.reserved = @ - 1]
    BY <1>2 DEF commit
  <2>2. row[r].state = "reserved" /\ session.status = "signing_intent" /\ r \in committed
    BY <1>2 DEF CanCommit, Carries
  <2>3. /\ row' \in [Requests -> LedgerRow] /\ RowsKept /\ Reserved' = Reserved
        /\ row'[r].state = "completed"
        /\ \A q \in Requests : q # r => row'[q] = row[q]
    BY <1>1, <2>1, <2>2, RowEnds DEF RowStates
  <2>4. /\ session' \in SessionRow /\ UnitHeld'
        /\ session'.used + session'.reserved = session.used + session.reserved
    <3>1. /\ session' \in SessionRow /\ session'.status = "signed" /\ session'.reserved = 0
          /\ session'.used + session'.reserved = session.used + session.reserved
      BY <2>1, <2>2, UnitUsed DEF Statuses, OpenStatuses
    <3>2. Carries(r)
      BY <1>2 DEF CanCommit
    <3> QED BY <1>1, <2>3, <3>1, <3>2, NothingHeld
  <2>5. LedgerOK'
    BY <2>3, <2>4, SameRows DEF LedgerOK
  <2>6. Recorded'
    BY <2>1, <2>3 DEF Recorded, IssuanceInv, OnRecord
  <2>7. capabilities' \subseteq Requests /\ \A q \in capabilities' : keyUses[q] = 1
    BY <1>1, <2>1, <2>2, Typed DEF IssuanceInv, OnRecord, SignedOnce
  <2>8. delivered' \subseteq capabilities' /\ faults' \in 0 .. MaxFaults /\ NoNewSigner
    <3>1. CASE delivered' = delivered \cup {r} /\ End(h) /\ UNCHANGED faults
      BY <2>1, <3>1, EndsQuietly DEF IssuanceInv, OnRecord, TypeOK
    <3>2. CASE Fault /\ Goto(h, "replay") /\ UNCHANGED delivered
      BY <1>1, <2>1, <3>2, MovesOnQuietly, FaultTyped DEF IssuanceInv, OnRecord
    <3> QED BY <1>2, <3>1, <3>2 DEF Commit
  <2> QED BY <1>1, <2>3, <2>5, <2>6, <2>7, <2>8, QuietStep
<1>3. CASE ~CanCommit(r, h)
  <2>1. UNCHANGED <<database, delivered, faults>> /\ Goto(h, "replay")
    BY <1>3 DEF Commit
  <2>2. NoNewSigner /\ LedgerStep
    BY <1>1, <2>1, MovesOnQuietly, SameLedger
  <2>3. delivered' \subseteq capabilities /\ faults' \in 0 .. MaxFaults
    BY <2>1 DEF IssuanceInv, OnRecord, TypeOK
  <2> QED BY <1>1, <2>2, <2>3, QuietLedgerStep
<1> QED BY <1>2, <1>3 DEF Commit

LEMMA ReplayStep ==
  ASSUME IssuanceInv, NEW h \in Handlers, Replay(h)
  PROVE  IssuanceInv'
<1> DEFINE r == call[h].request
<1>1. /\ r \in Requests /\ call[h].step = "replay" /\ UNCHANGED <<keyUses, committed>>
      /\ authority' \in BOOLEAN /\ faults' \in 0 .. MaxFaults
  BY DEF Replay, At, IssuanceInv, Working, TypeOK
<1>2. row[r].state \in {"completed", "reserved", "outcome_unknown", "expired"}
  BY <1>1, Typed DEF LedgerRow, RowStates, IssuanceInv, Working
<1>3. CASE row[r].state = "completed" /\ row[r].live
  <2>1. LedgerStep
    BY <1>3, SameLedger DEF Replay
  <2>2. NoNewSigner /\ delivered' \subseteq capabilities
    <3>1. CASE delivered' = delivered \cup {r} /\ End(h)
      BY <1>1, <1>3, <3>1, EndsQuietly DEF IssuanceInv, OnRecord
    <3>2. CASE Goto(h, "mark") /\ UNCHANGED delivered
      BY <1>1, <3>2, MovesOnQuietly DEF IssuanceInv, OnRecord
    <3> QED BY <1>3, <3>1, <3>2 DEF Replay
  <2> QED BY <1>1, <2>1, <2>2, QuietLedgerStep
<1>4. CASE row[r].state = "completed" /\ ~row[r].live
  <2>1. Scrub(r) /\ Goto(h, "mark") /\ UNCHANGED delivered
    BY <1>4 DEF Replay
  <2>2. LedgerStep /\ NoNewSigner
    BY <1>1, <1>4, <2>1, ScrubLedger, MovesOnQuietly
  <2> QED BY <1>1, <2>1, <2>2, QuietLedgerStep DEF IssuanceInv, OnRecord
<1>5. CASE row[r].state \in {"reserved", "outcome_unknown"}
  <2>1. End(h) /\ UNCHANGED <<database, delivered>>
    BY <1>5 DEF Replay
  <2> QED BY <1>1, <2>1, SameLedger, EndsQuietly, QuietLedgerStep DEF IssuanceInv, OnRecord
<1>6. CASE row[r].state = "expired"
  <2>1. Goto(h, "mark") /\ UNCHANGED <<database, delivered>>
    BY <1>6 DEF Replay
  <2> QED BY <1>1, <2>1, SameLedger, MovesOnQuietly, QuietLedgerStep DEF IssuanceInv, OnRecord
<1> QED BY <1>2, <1>3, <1>4, <1>5, <1>6

LEMMA MarkStep ==
  ASSUME IssuanceInv, NEW h \in Handlers, Mark(h)
  PROVE  IssuanceInv'
<1> DEFINE r == call[h].request
<1>1. /\ r \in Requests /\ End(h) /\ UNCHANGED <<keyUses, committed>>
      /\ delivered' \subseteq capabilities /\ authority' \in BOOLEAN /\ faults' \in 0 .. MaxFaults
  BY DEF Mark, At, IssuanceInv, Working, OnRecord, TypeOK
<1>2. LedgerStep
  <2>1. CASE CanMarkUncertain(r, h) /\ Forget(r)
    BY <1>1, <2>1, ForgetLedger DEF CanMarkUncertain
  <2>2. CASE UNCHANGED database
    BY <2>2, SameLedger
  <2> QED BY <2>1, <2>2 DEF Mark
<1> QED BY <1>1, <1>2, EndsQuietly, QuietLedgerStep

LEMMA FaultStep ==
  ASSUME IssuanceInv, NEW h \in Handlers, CallFails(h) \/ Die(h)
  PROVE  IssuanceInv'
<1>1. /\ UNCHANGED database /\ UNCHANGED <<keyUses, committed>> /\ Fault
      /\ delivered' \subseteq capabilities /\ authority' \in BOOLEAN
  BY DEF CallFails, Die, IssuanceInv, OnRecord, TypeOK
<1>2. NoNewSigner
  <2>1. CASE End(h)
    BY <2>1, EndsQuietly
  <2>2. CASE call[h].step \in {"commit", "replay"} /\ (Goto(h, "replay") \/ Goto(h, "mark"))
    BY <2>2, MovesOnQuietly
  <2> QED BY <2>1, <2>2 DEF CallFails, Die, At
<1> QED BY <1>1, <1>2, SameLedger, FaultTyped, QuietLedgerStep

\* Time moves the deadlines of rows, and nothing they are measured by.
LEMMA DeadlinesPass ==
  ASSUME IssuanceInv, row' \in [Requests -> LedgerRow],
         \A r \in Requests : row'[r].state = row[r].state /\ row'[r].claim = row[r].claim,
         session' \in SessionRow, session'.used = session.used, session'.reserved = session.reserved,
         \/ session'.status = session.status /\ session'.request = session.request
         \/ session.status # "signing_intent" /\ session'.status # "signing_intent",
         authority' \in BOOLEAN,
         UNCHANGED <<capabilities, keyUses, committed, call, delivered, faults>>
  PROVE  IssuanceInv'
<1>1. Reserved' = Reserved /\ RowsKept /\ Recorded' /\ UnitHeld'
  BY DEF Reserved, RowsKept, Recorded, IssuanceInv, OnRecord, UnitHeld, Carries
<1>2. LedgerStep
  BY <1>1, SameRows DEF LedgerStep, LedgerOK
<1>3. NoNewSigner
  BY Typed DEF NoNewSigner
<1> QED BY <1>2, <1>3, QuietLedgerStep DEF IssuanceInv, OnRecord, TypeOK

LEMMA TimeSteps ==
  ASSUME IssuanceInv, NEW r \in Requests, TimeStep(r)
  PROVE  IssuanceInv'
<1>1. CASE ClaimLapses(r)
  <2> DEFINE new == [row[r] EXCEPT !.claimLive = FALSE]
  <2>1. row' = [row EXCEPT ![r] = new]
    BY <1>1, Typed DEF ClaimLapses
  <2>2. new \in LedgerRow /\ new.state = row[r].state /\ new.claim = row[r].claim
    BY Typed DEF LedgerRow
  <2> HIDE DEF new
  <2>3. /\ row' \in [Requests -> LedgerRow]
        /\ \A q \in Requests : row'[q].state = row[q].state /\ row'[q].claim = row[q].claim
    BY <2>1, <2>2, Typed
  <2> QED BY <1>1, <2>3, DeadlinesPass, Typed DEF ClaimLapses, IssuanceInv, TypeOK
<1>2. CASE CapabilityExpires(r)
  <2> DEFINE new == [[row[r] EXCEPT !.live = FALSE] EXCEPT !.claimLive = FALSE]
  <2>1. row' = [row EXCEPT ![r] = new]
    BY <1>2, Typed DEF CapabilityExpires
  <2>2. new \in LedgerRow /\ new.state = row[r].state /\ new.claim = row[r].claim
    BY Typed DEF LedgerRow
  <2> HIDE DEF new
  <2>3. /\ row' \in [Requests -> LedgerRow]
        /\ \A q \in Requests : row'[q].state = row[q].state /\ row'[q].claim = row[q].claim
    BY <2>1, <2>2, Typed
  <2> QED BY <1>2, <2>3, DeadlinesPass, Typed DEF CapabilityExpires, IssuanceInv, TypeOK
<1>3. CASE RecoverExpired(r)
  <2>1. LedgerStep
    BY <1>3, ForgetLedger, ScrubLedger DEF RecoverExpired
  <2>2. NoNewSigner
    BY <1>3, Typed DEF RecoverExpired, NoNewSigner
  <2> QED BY <1>3, <2>1, <2>2, QuietLedgerStep DEF RecoverExpired, IssuanceInv, OnRecord, TypeOK
<1> QED BY <1>1, <1>2, <1>3 DEF TimeStep

\* A session that is ended holds no unit, so none is lost with it.
LEMMA SessionEnded ==
  ASSUME IssuanceInv, session.status \in Endable, session' = Ended
  PROVE  /\ session' \in SessionRow /\ session'.used = session.used
         /\ session'.reserved = session.reserved
         /\ session.status # "signing_intent" /\ session'.status # "signing_intent"
<1>1. PICK status \in {"revoked", "expired"} : session' = [session EXCEPT !.status = status]
  BY DEF Ended
<1> QED BY <1>1, Typed DEF SessionRow, Statuses, Endable

LEMMA WithdrawalSteps ==
  ASSUME IssuanceInv, SessionExpires \/ EndSession \/ Revoke \/ Withdraw
  PROVE  IssuanceInv'
<1>1. CASE SessionExpires
  <2>1. /\ row' = [r \in Requests |-> [row[r] EXCEPT !.live = FALSE, !.claimLive = FALSE]]
        /\ session' = [session EXCEPT !.live = FALSE]
    BY <1>1 DEF SessionExpires
  <2>2. ASSUME NEW r \in Requests
        PROVE  row'[r] \in LedgerRow /\ row'[r].state = row[r].state /\ row'[r].claim = row[r].claim
    BY <2>1, Typed DEF LedgerRow
  <2>3. row' \in [Requests -> LedgerRow]
    BY <2>1, <2>2
  <2>4. /\ session' \in SessionRow /\ session'.used = session.used /\ session'.reserved = session.reserved
        /\ session'.status = session.status /\ session'.request = session.request
    BY <2>1, Typed DEF SessionRow
  <2> QED BY <1>1, <2>2, <2>3, <2>4, DeadlinesPass DEF SessionExpires, IssuanceInv, TypeOK
<1>2. CASE EndSession
  <2>1. session.status \in Endable /\ session' = Ended /\ row' = row
    BY <1>2 DEF EndSession
  <2> QED BY <1>2, <2>1, SessionEnded, DeadlinesPass, Typed DEF EndSession, IssuanceInv, TypeOK
<1>3. CASE Revoke
  <2>1. /\ row' = row /\ session.status # "signing_intent" /\ authority' \in BOOLEAN
        /\ UNCHANGED <<capabilities, keyUses, committed, call, delivered, faults>>
    BY <1>3 DEF Revoke
  <2>2. CASE session.status \in Endable /\ session' = Ended
    BY <2>1, <2>2, SessionEnded, DeadlinesPass, Typed
  <2>3. CASE session' = session
    BY <2>1, <2>3, DeadlinesPass, Typed
  <2> QED BY <1>3, <2>2, <2>3 DEF Revoke
<1>4. CASE Withdraw
  <2>1. LedgerStep /\ NoNewSigner
    BY <1>4, SameLedger, Typed DEF Withdraw, NoNewSigner
  <2> QED BY <1>4, <2>1, QuietLedgerStep DEF Withdraw, IssuanceInv, OnRecord, TypeOK
<1> QED BY <1>1, <1>2, <1>3, <1>4

-----------------------------------------------------------------------------
(* The theorems. *)

LEMMA Initially == Init => IssuanceInv
<1> SUFFICES ASSUME Init PROVE IssuanceInv
  OBVIOUS
<1>1. Reserved = {}
  BY DEF Init, Reserved, NoRow
<1>2. Cardinality(Reserved) = 0
  BY <1>1, FS_EmptySet
<1>3. UnitPerRow /\ UnitHeld
  BY <1>2, IssuanceAssumption DEF Init, UnitPerRow, UnitHeld, Carries, NoRow
<1>4. TypeOK
  <2>1. session \in SessionRow
    BY IssuanceAssumption DEF Init, SessionRow, Statuses, OpenStatuses
  <2>2. row \in [Requests -> LedgerRow] /\ call \in [Handlers -> CallState]
    BY IssuanceAssumption DEF Init, LedgerRow, NoRow, RowStates, CallState, Idle
  <2> QED BY <2>1, <2>2, IssuanceAssumption DEF Init, TypeOK, SessionRow, LedgerRow, CallState
<1>5. Working /\ SignsFirst /\ SignedOnce /\ OnRecord
  BY DEF Init, Working, SignsFirst, SignedOnce, OnRecord, NoRow, Idle
<1> QED BY <1>3, <1>4, <1>5 DEF IssuanceInv

\* Every step of the issuance, of time and of a withdrawal keeps the invariant.
LEMMA Inductive == IssuanceInv /\ [Next]_vars => IssuanceInv'
<1> SUFFICES ASSUME IssuanceInv, [Next]_vars PROVE IssuanceInv'
  OBVIOUS
<1>1. CASE UNCHANGED vars
  <2>1. UNCHANGED <<database, authority, keyUses, committed, call, delivered, faults>>
    BY <1>1 DEF vars, database
  <2>2. LedgerStep /\ NoNewSigner
    BY <2>1, SameLedger, Typed DEF NoNewSigner
  <2> QED BY <2>1, <2>2, QuietLedgerStep DEF IssuanceInv, OnRecord, TypeOK
<1>2. ASSUME NEW h \in Handlers, NEW r \in Requests, Issue(h, r) PROVE IssuanceInv'
  BY <1>2, IssueStep
<1>3. ASSUME NEW h \in Handlers, HandlerStep(h) PROVE IssuanceInv'
  BY <1>3, ReserveStep, RepeatStep, SignStep, CommitStep, ReplayStep, MarkStep DEF HandlerStep
<1>4. ASSUME NEW h \in Handlers, CallFails(h) \/ Die(h) PROVE IssuanceInv'
  BY <1>4, FaultStep
<1>5. ASSUME NEW r \in Requests, TimeStep(r) PROVE IssuanceInv'
  BY <1>5, TimeSteps
<1>6. CASE SessionExpires \/ EndSession \/ Revoke \/ Withdraw
  BY <1>6, WithdrawalSteps
<1> QED BY <1>1, <1>2, <1>3, <1>4, <1>5, <1>6 DEF Next

\* The ledger rows, the counters of the session and the handlers of issue() stay
\* related by IssuanceInv through every repeat, lost answer, death, expiry and
\* recovery.
THEOREM IssuanceInvariance == Spec => []IssuanceInv
BY Initially, Inductive, PTL DEF Spec

\* The rows of the two tables, the handlers and the counters have their types:
\* no transaction of the reservation repository drives a counter of the session
\* below zero or above the budget.
THEOREM IssuanceTyping == Spec => []TypeOK
<1>1. IssuanceInv => TypeOK
  BY DEF IssuanceInv
<1> QED BY <1>1, IssuanceInvariance, PTL

\* A ledger row is reserved exactly while the session is in signing_intent for
\* its request, and the session holds one unit then and none otherwise: what
\* the trigger on agent_sessions demands of an ended session is never at risk,
\* and all that can keep a session from being ended is an open signing intent.
THEOREM IssuanceUnitHeld == Spec => []UnitHeld
<1>1. IssuanceInv => UnitHeld
  BY DEF IssuanceInv
<1> QED BY <1>1, IssuanceInvariance, PTL

\* However issue() is repeated, dies or loses answers, a statement is signed at
\* most once and the session's budget covers every use of the key.
THEOREM IssuanceBudget == Spec => []BudgetCoversSignatures
<1>1. IssuanceInv => BudgetCoversSignatures
  <2> SUFFICES ASSUME IssuanceInv PROVE BudgetCoversSignatures
    OBVIOUS
  <2> DEFINE Signed == {r \in Requests : keyUses[r] > 0}
  <2>1. Signed \subseteq Reserved
    BY DEF IssuanceInv, SignedOnce, Reserved
  <2>2. IsFiniteSet(Reserved)
    BY IssuanceAssumption, FS_Subset DEF Reserved
  <2>3. Cardinality(Signed) <= Cardinality(Reserved)
    BY <2>1, <2>2, FS_Subset
  <2> QED BY <2>3 DEF IssuanceInv, UnitPerRow, SignedOnce, BudgetCoversSignatures
<1> QED BY <1>1, IssuanceInvariance, PTL

\* A capability a client received is on record and was signed once, and its
\* ledger row never ends as an unknown outcome.
THEOREM IssuanceOutcome == Spec => []OutcomeIsFinal
<1>1. IssuanceInv => OutcomeIsFinal
  BY Typed DEF IssuanceInv, OnRecord, OutcomeIsFinal
<1> QED BY <1>1, IssuanceInvariance, PTL

=============================================================================
