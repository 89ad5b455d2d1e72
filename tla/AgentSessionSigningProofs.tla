---------------------- MODULE AgentSessionSigningProofs ----------------------
(***************************************************************************)
(* What signing for an agent session promises for any number of sessions,  *)
(* connections, requests and routes, any budgets and any ledger capacity:  *)
(* the adapter's threads implement the abstract specification SignOnce,    *)
(* and the ledger, the registry and the coordinator's leases stay in step. *)
(*                                                                         *)
(* The registry's own invariant is taken from its proofs.  What is added   *)
(* here ties every thread to the session it serves and to the ledger.      *)
(***************************************************************************)
EXTENDS AgentSessionSigning, AgentSessionRegistryProofs

-----------------------------------------------------------------------------
(* The inductive invariant. *)

\* Steps of a thread that holds a reservation, an intent or a signature of its
\* session, unless the session was ended under it.
ReservedSteps == {"admit", "begin", "release_admit", "fail_before", "release_before"}

IntentSteps == {"mark_intent", "mark_started", "provider", "record", "record_signing",
                "fail_after", "unknown"}

OwnSteps == ReservedSteps \cup IntentSteps \cup {"finalize"}

\* Steps at which a unit of the budget is held and the key not yet used, and
\* all steps before the key.
UnitSteps == ReservedSteps \cup {"mark_intent", "mark_started", "provider"}

BeforeSteps == {"handoff", "verify", "reserve"} \cup UnitSteps

SignedPhases == {"signed_verified", "completed"}

\* Sessions are started here, in one step, and once.
SessionsStarted ==
  /\ \A s \in Sessions : /\ state[s] \notin Unpublished
                         /\ state[s] # "absent" => s \in started
  /\ \A r \in Requests : calls[r] > 0 => SessionOf[r] \in started

\* A thread and its session agree on what the thread holds, or the session is
\* over; a thread that holds nothing is not the session's reservation.
ThreadHolds ==
  \A r \in Requests :
    LET over == state[SessionOf[r]] \in Terminal
    IN /\ pc[r] \in ReservedSteps => Holds(r, "request_reserved") \/ over
       /\ pc[r] \in IntentSteps => Holds(r, "signing_intent") \/ over
       /\ pc[r] = "finalize" => Holds(r, "signed") \/ over
       /\ pc[r] \notin OwnSteps => resv[SessionOf[r]] # r

\* One thread at a time owns a session, also after the session was ended under
\* it.
OneOwner ==
  \A q, r \in Requests :
    q # r /\ SessionOf[q] = SessionOf[r] /\ pc[q] \in OwnSteps => pc[r] \notin OwnSteps

\* The coordinator's lease counts the signatures before the reservation.
LeaseTracks ==
  \A s \in Sessions : lease[s] # NoLease =>
    /\ state[s] = "active" => lease[s] = used[s]
    /\ state[s] \in Reserved => lease[s] + 1 = used[s]

\* Requests that cost their session a unit: the key was used, or may yet be.
Charged(s) == {r \in Requests : SessionOf[r] = s /\ (calls[r] > 0 \/ pc[r] \in UnitSteps)}

UnitsCharged ==
  \A s \in Sessions : Published(s) => LeaseUsed[s] + Cardinality(Charged(s)) <= used[s]

\* What a thread knows of the key.
KeyKnown ==
  \A r \in Requests :
    /\ calls[r] \in {0, 1}
    /\ pc[r] \in BeforeSteps => calls[r] = 0
    /\ pc[r] = "record" => calls[r] = 1

\* A signature on record was made.
SignedWasCalled ==
  \A r \in Requests :
    /\ file[r].phase \in SignedPhases => calls[r] = 1
    /\ store = "open" /\ records[r].phase \in SignedPhases => calls[r] = 1

\* The memory never claims a completion the file does not hold.
CompletedOnDisk ==
  \A r \in Requests : store = "open" /\ records[r].phase = "completed" => file[r].phase = "completed"

SessionPart == RegistryInv /\ SessionsStarted /\ ThreadHolds /\ OneOwner /\ LeaseTracks /\ UnitsCharged

LedgerPart == KeyKnown /\ SignedWasCalled /\ CompletedOnDisk /\ ProviderDurable /\ ReplyDurable

SigningInv == TypeOK /\ SessionPart /\ LedgerPart

-----------------------------------------------------------------------------
(* Sessions. *)

LEMMA SessionTyped ==
  ASSUME NEW r \in Requests
  PROVE  SessionOf[r] \in Sessions /\ r # NoRequest
BY RegistryAssumption

\* A terminal session has no reservation.
LEMMA OverIsFree ==
  ASSUME SigningInv, NEW s \in Sessions, state[s] \in Terminal
  PROVE  resv[s] = NoRequest /\ state[s] \in EntryStates
BY DEF SigningInv, SessionPart, RegistryInv, ReservationConsistent, Terminal, Losses, Reserved, EntryStates

\* A thread that owns its session serves a published one.
LEMMA OwnerPublished ==
  ASSUME SigningInv, NEW r \in Requests, pc[r] \in OwnSteps
  PROVE  /\ SessionOf[r] \in Sessions /\ Published(SessionOf[r])
         /\ state[SessionOf[r]] \in {"request_reserved", "signing_intent", "signed"} \cup Terminal
<1>1. state[SessionOf[r]] \in {"request_reserved", "signing_intent", "signed"} \cup Terminal
  BY DEF SigningInv, SessionPart, ThreadHolds, OwnSteps, Holds
<1> QED BY <1>1, SessionTyped DEF Published, EntryStates, Reserved

LEMMA ChargedFinite ==
  ASSUME NEW s
  PROVE  /\ IsFiniteSet(Charged(s)) /\ Cardinality(Charged(s)) \in Nat
         /\ \A S : S \subseteq Charged(s) => IsFiniteSet(S) /\ Cardinality(S) \in Nat
                                            /\ Cardinality(S) <= Cardinality(Charged(s))
<1>1. Charged(s) \subseteq Requests /\ IsFiniteSet(Requests)
  BY SigningAssumption DEF Charged
<1>2. IsFiniteSet(Charged(s))
  BY <1>1, FS_Subset
<1> QED BY <1>2, FS_Subset, FS_CardinalityType

\* Units stay charged when no request is charged anew and no entry appears or
\* is refunded.
LEMMA UnitsKept ==
  ASSUME SigningInv, NEW s \in Sessions, Published(s)' => Published(s) /\ used[s] <= used'[s],
         used'[s] \in Nat,
         Charged(s)' \subseteq Charged(s)
  PROVE  Published(s)' => LeaseUsed[s] + Cardinality(Charged(s)') <= used'[s]
<1>1. Cardinality(Charged(s)) \in Nat /\ Cardinality(Charged(s)') \in Nat
      /\ Cardinality(Charged(s)') <= Cardinality(Charged(s))
  BY ChargedFinite
<1>2. LeaseUsed[s] \in Nat /\ used[s] \in Nat
  BY RegistryAssumption DEF SigningInv, SessionPart, RegistryInv, RegistryTypeOK
<1>3. Published(s) => LeaseUsed[s] + Cardinality(Charged(s)) <= used[s]
  BY DEF SigningInv, SessionPart, UnitsCharged
<1> QED BY <1>1, <1>2, <1>3

SameClass(a, b) ==
  /\ a \in ReservedSteps <=> b \in ReservedSteps
  /\ a \in IntentSteps <=> b \in IntentSteps
  /\ a = "finalize" <=> b = "finalize"

\* Entries stay as they are or end.
EntriesEnd ==
  /\ used' = used
  /\ \A s \in Sessions :
       \/ state'[s] = state[s] /\ resv'[s] = resv[s]
       \/ state[s] \in EntryStates /\ state'[s] \in Terminal /\ resv'[s] = NoRequest

LeasesShrink == \A s \in Sessions : lease'[s] \in {lease[s], NoLease}

\* No request is charged anew.
NoneCharged ==
  \A r \in Requests : calls'[r] > 0 \/ pc'[r] \in UnitSteps => calls[r] > 0 \/ pc[r] \in UnitSteps

\* Status, close, expiry, revocation and the steps of threads that neither
\* take nor give back anything of their session.
LEMMA SessionsKept ==
  ASSUME SigningInv, RegistryInv', EntriesEnd, LeasesShrink, NoneCharged, UNCHANGED started,
         \A r \in Requests : SameClass(pc[r], pc'[r]),
         \A r \in Requests : calls'[r] > 0 => SessionOf[r] \in started
  PROVE  SessionPart'
<1>1. SessionsStarted'
  BY DEF SigningInv, SessionPart, SessionsStarted, EntriesEnd, EntryStates, Reserved, Terminal, Losses, Unpublished
<1>2. ThreadHolds'
  <2> SUFFICES ASSUME NEW r \in Requests
               PROVE  /\ pc'[r] \in ReservedSteps =>
                           (state'[SessionOf[r]] = "request_reserved" /\ resv'[SessionOf[r]] = r) \/ state'[SessionOf[r]] \in Terminal
                      /\ pc'[r] \in IntentSteps =>
                           (state'[SessionOf[r]] = "signing_intent" /\ resv'[SessionOf[r]] = r) \/ state'[SessionOf[r]] \in Terminal
                      /\ pc'[r] = "finalize" =>
                           (state'[SessionOf[r]] = "signed" /\ resv'[SessionOf[r]] = r) \/ state'[SessionOf[r]] \in Terminal
                      /\ pc'[r] \notin OwnSteps => resv'[SessionOf[r]] # r
    BY DEF ThreadHolds, Holds
  <2>1. SessionOf[r] \in Sessions /\ r # NoRequest
    BY SessionTyped
  <2>2. SameClass(pc[r], pc'[r])
    OBVIOUS
  <2> QED BY <2>1, <2>2 DEF SigningInv, SessionPart, ThreadHolds, Holds, EntriesEnd, SameClass, OwnSteps
<1>3. OneOwner'
  BY DEF SigningInv, SessionPart, OneOwner, OwnSteps, SameClass
<1>4. LeaseTracks'
  BY DEF SigningInv, SessionPart, LeaseTracks, LeasesShrink, EntriesEnd, Terminal, Losses, Reserved
<1>5. UnitsCharged'
  <2> SUFFICES ASSUME NEW s \in Sessions
               PROVE  Published(s)' => LeaseUsed[s] + Cardinality(Charged(s)') <= used'[s]
    BY DEF UnitsCharged
  <2>1. Charged(s)' \subseteq Charged(s)
    BY DEF Charged, NoneCharged
  <2>2. Published(s)' => Published(s)
    BY DEF EntriesEnd, Published
  <2>3. used'[s] \in Nat /\ used[s] <= used'[s]
    BY DEF EntriesEnd, SigningInv, SessionPart, RegistryInv, RegistryTypeOK
  <2> QED BY <2>1, <2>2, <2>3, UnitsKept
<1> QED BY <1>1, <1>2, <1>3, <1>4, <1>5 DEF SessionPart

LEMMA RegistryKept ==
  ASSUME SigningInv, UNCHANGED registryVars
  PROVE  RegistryInv' /\ EntriesEnd
BY RegistryNextInv DEF SigningInv, SessionPart, EntriesEnd, registryVars

\* One thread moves.
LEMMA ThreadMoved ==
  ASSUME SigningInv, NEW r \in Requests, NEW step \in Steps, pc' = [pc EXCEPT ![r] = step]
  PROVE  /\ pc' \in [Requests -> Steps] /\ pc'[r] = step
         /\ \A q \in Requests : q # r => pc'[q] = pc[q]
BY DEF SigningInv, TypeOK

\* A thread that holds nothing any more leaves a session that is over.
LEMMA SessionsLeft ==
  ASSUME SigningInv, UNCHANGED <<registryVars, started, lease, calls>>,
         NEW r \in Requests, NEW step \in Steps, pc' = [pc EXCEPT ![r] = step],
         pc[r] \in OwnSteps, state[SessionOf[r]] \in Terminal, step \notin UnitSteps
  PROVE  SessionPart'
<1>1. /\ pc'[r] = step /\ \A q \in Requests : q # r => pc'[q] = pc[q]
  BY ThreadMoved
<1>2. RegistryInv'
  BY RegistryKept
<1>3. SessionsStarted' /\ LeaseTracks'
  BY DEF SigningInv, SessionPart, SessionsStarted, LeaseTracks, registryVars
<1>4. ThreadHolds'
  <2>1. SessionOf[r] \in Sessions /\ resv[SessionOf[r]] # r
    BY SessionTyped, OverIsFree
  <2> QED BY <1>1, <2>1 DEF SigningInv, SessionPart, ThreadHolds, Holds, registryVars
<1>5. OneOwner'
  BY <1>1 DEF SigningInv, SessionPart, OneOwner
<1>6. UnitsCharged'
  <2> SUFFICES ASSUME NEW s \in Sessions
               PROVE  Published(s)' => LeaseUsed[s] + Cardinality(Charged(s)') <= used'[s]
    BY DEF UnitsCharged
  <2>1. Charged(s)' \subseteq Charged(s)
    BY <1>1 DEF Charged
  <2>2. Published(s)' => Published(s)
    BY DEF Published, registryVars
  <2>3. used'[s] \in Nat /\ used[s] <= used'[s]
    BY DEF registryVars, SigningInv, SessionPart, RegistryInv, RegistryTypeOK
  <2> QED BY <2>1, <2>2, <2>3, UnitsKept
<1> QED BY <1>2, <1>3, <1>4, <1>5, <1>6 DEF SessionPart

-----------------------------------------------------------------------------
(* The ledger. *)

LEMMA NextRecordTyped ==
  ASSUME NEW old \in Records, old.phase # "absent", NEW phase \in Phases, NEW signature \in BOOLEAN
  PROVE  NextRecord(old, phase, signature) \in Records /\ NextRecord(old, phase, signature).phase = phase
BY DEF NextRecord, Records, Phases

LEMMA RecordTyped ==
  ASSUME SigningInv, NEW r \in Requests
  PROVE  /\ records[r] \in Records /\ file[r] \in Records
         /\ records[r].phase \in Phases \cup {"absent"} /\ records[r].signature \in BOOLEAN
BY DEF SigningInv, TypeOK, StoreTypeOK, Records

\* What a thread must not claim about the key without having been there.
ThreadsHonest ==
  \A r \in Requests :
    /\ pc'[r] \in BeforeSteps => pc[r] \in BeforeSteps \/ calls[r] = 0
    /\ pc'[r] = "record" => pc[r] = "record"
    /\ pc'[r] = "provider" => pc[r] = "provider"

\* A step that leaves the ledger alone.
LEMMA LedgerKept ==
  ASSUME SigningInv, UNCHANGED <<storeVars, calls, replied>>, ThreadsHonest
  PROVE  LedgerPart'
<1>1. KeyKnown'
  BY DEF SigningInv, LedgerPart, KeyKnown, ThreadsHonest
<1>2. SignedWasCalled' /\ CompletedOnDisk' /\ ReplyDurable'
  BY DEF SigningInv, LedgerPart, SignedWasCalled, CompletedOnDisk, ReplyDurable, storeVars
<1>3. ProviderDurable'
  BY DEF SigningInv, LedgerPart, ProviderDurable, ThreadsHonest, storeVars
<1> QED BY <1>1, <1>2, <1>3 DEF LedgerPart

\* A rewrite of the file with a record of r that moved forward. Every other
\* record of the file becomes what the memory holds, ahead or not.
LEMMA LedgerWrote ==
  ASSUME SigningInv, store = "open", NEW r \in Requests, NEW rec \in Records, NEW io \in WriteOutcomes,
         Persist([records EXCEPT ![r] = rec], io), UNCHANGED calls,
         records[r].phase # "completed",
         records[r].phase \in KeyPhases => rec.phase \in KeyPhases,
         rec.phase \in SignedPhases => calls[r] = 1,
         replied' = replied \/ (replied' = replied \cup {r} /\ io = "ok" /\ rec.phase = "completed"),
         \A q \in Requests :
            /\ pc'[q] \in BeforeSteps => pc[q] \in BeforeSteps \/ calls[q] = 0
            /\ pc'[q] = "record" => pc[q] = "record"
            /\ pc'[q] = "provider" => pc[q] = "provider" \/ (q = r /\ io = "ok" /\ rec.phase = "provider_started")
  PROVE  LedgerPart' /\ StoreTypeOK' /\ replied' \subseteq Requests
<1> DEFINE new == [records EXCEPT ![r] = rec]
<1>1. new \in [Requests -> Records] /\ new[r] = rec /\ \A q \in Requests : q # r => new[q] = records[q]
  BY DEF SigningInv, TypeOK, StoreTypeOK
<1> HIDE DEF new
<1>2. /\ records' = IF io = "ok" THEN new ELSE records
      /\ file' = IF io = "lost" THEN file ELSE new
      /\ store' = "open"
  BY DEF Persist, new
<1>3. StoreTypeOK'
  BY <1>1, <1>2 DEF SigningInv, TypeOK, StoreTypeOK
<1>4. KeyKnown'
  BY DEF SigningInv, LedgerPart, KeyKnown
<1>5. \A q \in Requests : q # r => records'[q] = records[q] /\ file'[q] \in {file[q], records[q]}
  BY <1>1, <1>2
<1>6. /\ io = "ok" => records'[r] = rec /\ file'[r] = rec
      /\ io = "lost" => records' = records /\ file' = file
      /\ io = "landed" => records' = records /\ file'[r] = rec
      /\ io \in {"ok", "lost", "landed"}
  BY <1>1, <1>2 DEF WriteOutcomes
<1>7. SignedWasCalled'
  <2> SUFFICES ASSUME NEW q \in Requests
               PROVE  /\ file'[q].phase \in SignedPhases => calls[q] = 1
                      /\ records'[q].phase \in SignedPhases => calls[q] = 1
    BY <1>2 DEF SignedWasCalled
  <2>1. /\ file[q].phase \in SignedPhases => calls[q] = 1
        /\ records[q].phase \in SignedPhases => calls[q] = 1
    BY DEF SigningInv, LedgerPart, SignedWasCalled
  <2> QED BY <1>5, <1>6, <2>1
<1>8. CompletedOnDisk'
  <2> SUFFICES ASSUME NEW q \in Requests, records'[q].phase = "completed"
               PROVE  file'[q].phase = "completed"
    BY <1>2 DEF CompletedOnDisk
  <2>1. records[q].phase = "completed" => file[q].phase = "completed"
    BY DEF SigningInv, LedgerPart, CompletedOnDisk
  <2> QED BY <1>5, <1>6, <2>1
<1>9. ProviderDurable'
  <2> SUFFICES ASSUME NEW q \in Requests, calls[q] > 0 \/ pc'[q] = "provider"
               PROVE  file'[q].phase \in KeyPhases /\ records'[q].phase \in KeyPhases
    BY <1>2 DEF ProviderDurable
  <2>1. CASE calls[q] > 0 \/ pc[q] = "provider"
    <3>1. file[q].phase \in KeyPhases /\ records[q].phase \in KeyPhases
      BY <2>1 DEF SigningInv, LedgerPart, ProviderDurable
    <3> QED BY <1>5, <1>6, <3>1
  <2>2. CASE q = r /\ io = "ok" /\ rec.phase = "provider_started"
    BY <1>6, <2>2 DEF KeyPhases
  <2> QED BY <2>1, <2>2
<1>10. ReplyDurable'
  <2> SUFFICES ASSUME NEW q \in replied'
               PROVE  file'[q].phase = "completed" /\ records'[q].phase = "completed"
    BY <1>2 DEF ReplyDurable
  <2>1. CASE q \in replied
    <3>1. q \in Requests /\ file[q].phase = "completed" /\ records[q].phase = "completed"
      BY <2>1 DEF SigningInv, TypeOK, LedgerPart, ReplyDurable
    <3> QED BY <1>5, <3>1
  <2>2. CASE q = r /\ io = "ok" /\ rec.phase = "completed"
    BY <1>6, <2>2
  <2> QED BY <2>1, <2>2
<1>11. replied' \subseteq Requests
  BY DEF SigningInv, TypeOK
<1> QED BY <1>3, <1>4, <1>7, <1>8, <1>9, <1>10, <1>11 DEF LedgerPart

\* The file was rewritten with a record of r in the given phase.
Wrote(r, from, phase, io) ==
  /\ store = "open" /\ records[r].phase \in from
  /\ \E rec \in Records : rec.phase = phase /\ Persist([records EXCEPT ![r] = rec], io)

\* A transition of the ledger writes the successor record.
LEMMA MoveWrites ==
  ASSUME SigningInv, NEW r \in Requests, NEW from, from \subseteq Phases, NEW phase \in Phases,
         NEW signature \in BOOLEAN, NEW io, Move(r, from, phase, signature, io)
  PROVE  Wrote(r, from, phase, io)
<1>1. /\ store = "open" /\ records[r].phase \in from
      /\ Persist([records EXCEPT ![r] = NextRecord(records[r], phase, signature \/ records[r].signature)], io)
  BY DEF Move, CanMove
<1>2. records[r] \in Records /\ records[r].phase # "absent" /\ (signature \/ records[r].signature) \in BOOLEAN
  BY <1>1, RecordTyped DEF Phases
<1>3. /\ NextRecord(records[r], phase, signature \/ records[r].signature) \in Records
      /\ NextRecord(records[r], phase, signature \/ records[r].signature).phase = phase
  BY <1>2, NextRecordTyped
<1> QED BY <1>1, <1>3 DEF Wrote

\* markUncertain() by a thread, as a compensation or for a replay elsewhere.
LEMMA UncertainWrote ==
  ASSUME SigningInv, NEW r \in Requests, NEW io \in WriteOutcomes, MarkUncertain(r, io),
         UNCHANGED <<calls, replied>>, ThreadsHonest
  PROVE  LedgerPart' /\ StoreTypeOK'
<1>1. /\ store = "open" /\ records[r].phase \in Unfinished
      /\ \E rec \in Records : rec.phase = "uncertain" /\ Persist([records EXCEPT ![r] = rec], io)
  <2>1. Move(r, Unfinished, "uncertain", FALSE, io)
    BY DEF MarkUncertain
  <2>2. Unfinished \subseteq Phases /\ "uncertain" \in Phases /\ FALSE \in BOOLEAN
    BY DEF Unfinished, Phases
  <2>3. Wrote(r, Unfinished, "uncertain", io)
    BY <2>1, <2>2, MoveWrites
  <2> QED BY <2>3 DEF Wrote
<1>2. PICK rec \in Records : rec.phase = "uncertain" /\ Persist([records EXCEPT ![r] = rec], io)
  BY <1>1
<1> QED BY <1>1, <1>2, LedgerWrote DEF ThreadsHonest, Unfinished, KeyPhases, SignedPhases

-----------------------------------------------------------------------------
(* Coordinator calls. *)

Leases == [Sessions -> Nat \cup {NoLease}]

\* A call that moves no thread and writes nothing.
LEMMA CoordinatorKept ==
  ASSUME SigningInv, RegistryInv', EntriesEnd, LeasesShrink, lease' \in Leases,
         live' \in [Connections -> {"live", "revoking", "gone"}],
         UNCHANGED <<storeVars, started, pc, handoff, calls, replied>>
  PROVE  SigningInv'
<1>1. SessionPart'
  <2>1. NoneCharged /\ \A r \in Requests : SameClass(pc[r], pc'[r])
    BY DEF NoneCharged, SameClass
  <2>2. \A r \in Requests : calls'[r] > 0 => SessionOf[r] \in started
    BY DEF SigningInv, SessionPart, SessionsStarted
  <2> QED BY <2>1, <2>2, SessionsKept
<1>2. LedgerPart'
  BY LedgerKept DEF ThreadsHonest
<1>3. TypeOK'
  BY <1>1 DEF SigningInv, TypeOK, SessionPart, RegistryInv, StoreTypeOK, storeVars, Leases
<1> QED BY <1>1, <1>2, <1>3 DEF SigningInv

LEMMA DropEnds ==
  ASSUME SigningInv, NEW s \in Sessions, NEW st \in Terminal, Published(s), Drop(s, st)
  PROVE  RegistryInv' /\ EntriesEnd
<1>1. RegistryInv'
  <2>1. st \in {"active"} \cup Terminal /\ st # "active"
    BY DEF Terminal, Losses
  <2> QED BY <2>1, DropInv DEF SigningInv, SessionPart
<1>2. EntriesEnd
  BY DEF EntriesEnd, Drop, Published, SigningInv, TypeOK, RegistryTypeOK
<1> QED BY <1>1, <1>2

LEMMA LeaseLost ==
  ASSUME SigningInv, NEW s \in Sessions, lease' = lease \/ lease' = [lease EXCEPT ![s] = NoLease]
  PROVE  LeasesShrink /\ lease' \in Leases
BY DEF SigningInv, TypeOK, LeasesShrink, Leases

\* The registry's status() leaves an entry or expires it.
LEMMA RegistryStatusEnds ==
  ASSUME SigningInv, NEW s \in Sessions, NEW check, Status(s, check)
  PROVE  RegistryInv' /\ EntriesEnd
<1>1. "expired" \in Terminal /\ Published(s)
  BY DEF Terminal, Losses, Status
<1>2. CASE Drop(s, "expired")
  BY <1>1, <1>2, DropEnds
<1>3. CASE UNCHANGED registryVars
  BY <1>3, RegistryKept
<1> QED BY <1>2, <1>3 DEF Status

LEMMA StatusEnds ==
  ASSUME SigningInv, NEW s \in Sessions, NEW check \in StatusChecks, CoordinatorStatus(s, check)
  PROVE  RegistryInv' /\ EntriesEnd /\ LeasesShrink /\ lease' \in Leases
<1>1. Published(s) /\ "revoked" \in Terminal
  BY DEF CoordinatorStatus, Terminal, Losses
<1>2. CASE check = "binding"
  <2>1. Drop(s, "revoked") \/ UNCHANGED registryVars
    BY <1>2 DEF CoordinatorStatus
  <2>2. RegistryInv' /\ EntriesEnd
    BY <1>1, <2>1, DropEnds, RegistryKept
  <2>3. lease' = [lease EXCEPT ![s] = NoLease]
    BY <1>2 DEF CoordinatorStatus, LoseLease
  <2> QED BY <2>2, <2>3, LeaseLost
<1>3. CASE check # "binding"
  <2>1. Status(s, check) /\ (lease' = lease \/ lease' = [lease EXCEPT ![s] = NoLease])
    BY <1>3 DEF CoordinatorStatus
  <2> QED BY <2>1, RegistryStatusEnds, LeaseLost
<1> QED BY <1>2, <1>3

LEMMA StatusCallStep == ASSUME SigningInv, NEW s \in Sessions, StatusCall(s) PROVE SigningInv'
<1>1. PICK check \in StatusChecks : CoordinatorStatus(s, check)
  BY DEF StatusCall
<1>2. RegistryInv' /\ EntriesEnd /\ LeasesShrink /\ lease' \in Leases
  BY <1>1, StatusEnds
<1>3. UNCHANGED <<storeVars, started, live, pc, handoff, calls, replied>>
  BY DEF StatusCall, threadVars
<1>4. live' \in [Connections -> {"live", "revoking", "gone"}]
  BY <1>3 DEF SigningInv, TypeOK
<1> QED BY <1>2, <1>3, <1>4, CoordinatorKept

LEMMA CloseCallStep == ASSUME SigningInv, NEW s \in Sessions, CloseCall(s) PROVE SigningInv'
<1>1. Close(s) \/ UNCHANGED registryVars
  BY DEF CloseCall
<1>2. RegistryInv' /\ EntriesEnd
  <2>1. CASE Close(s)
    <3>1. Published(s) /\ Drop(s, "closed") /\ "closed" \in Terminal
      BY <2>1 DEF Close, CanClose, Terminal
    <3> QED BY <3>1, DropEnds
  <2> QED BY <1>1, <2>1, RegistryKept
<1>3. LeasesShrink /\ lease' \in Leases
  <2>1. lease' = lease \/ lease' = [lease EXCEPT ![s] = NoLease]
    BY DEF CloseCall
  <2> QED BY <2>1, LeaseLost
<1>4. UNCHANGED <<storeVars, started, live, pc, handoff, calls, replied>>
  BY DEF CloseCall, threadVars
<1>5. live' \in [Connections -> {"live", "revoking", "gone"}]
  BY <1>4 DEF SigningInv, TypeOK
<1> QED BY <1>2, <1>3, <1>4, <1>5, CoordinatorKept

LEMMA InvalidateConnectionStep ==
  ASSUME SigningInv, NEW c \in Connections, InvalidateConnection(c)
  PROVE  SigningInv'
<1>1. RegistryInv' /\ EntriesEnd
  BY RegistryKept DEF InvalidateConnection
<1>2. LeasesShrink /\ lease' \in Leases
  BY DEF InvalidateConnection, LeasesShrink, Leases, SigningInv, TypeOK
<1>3. live' \in [Connections -> {"live", "revoking", "gone"}]
  BY DEF InvalidateConnection, SigningInv, TypeOK
<1> QED BY <1>1, <1>2, <1>3, CoordinatorKept DEF InvalidateConnection, threadVars

LEMMA SweepStep ==
  ASSUME SigningInv, NEW c \in Connections, SweepConnection(c) \/ SweepAgain(c)
  PROVE  SigningInv'
<1>1. /\ InvalidateOwned(c) /\ UNCHANGED <<storeVars, started, lease, pc, handoff, calls, replied>>
      /\ live' = live \/ live' = [live EXCEPT ![c] = "gone"]
  BY DEF SweepConnection, SweepAgain, threadVars, coordinatorVars
<1>2. RegistryInv'
  BY <1>1, InvalidateSetInv DEF InvalidateOwned, SigningInv, SessionPart
<1>3. EntriesEnd
  <2>1. \A s \in Sessions : state[s] \notin Unpublished
    BY DEF SigningInv, SessionPart, SessionsStarted
  <2>2. "revoked" \in Terminal
    BY DEF Terminal, Losses
  <2> QED BY <1>1, <2>1, <2>2 DEF InvalidateOwned, InvalidateSet, EntriesEnd, CanInvalidate, Published
<1>4. LeasesShrink /\ lease' \in Leases
  BY <1>1 DEF LeasesShrink, Leases, SigningInv, TypeOK
<1>5. live' \in [Connections -> {"live", "revoking", "gone"}]
  BY <1>1 DEF SigningInv, TypeOK
<1> QED BY <1>1, <1>2, <1>3, <1>4, <1>5, CoordinatorKept

\* A session starts: its requests have cost nothing yet.
LEMMA StartStep == ASSUME SigningInv, NEW s \in Sessions, Start(s) PROVE SigningInv'
<1>1. /\ s \notin started /\ LeaseUsed[s] < MaxSignatures[s] /\ started' = started \cup {s}
      /\ state' = [state EXCEPT ![s] = "active"]
      /\ used' = [used EXCEPT ![s] = LeaseUsed[s]]
      /\ lease' = [lease EXCEPT ![s] = LeaseUsed[s]]
      /\ UNCHANGED <<resv, seen, storeVars, live, pc, handoff, calls, replied>>
  BY DEF Start, threadVars
<1>2. state[s] = "absent"
  BY <1>1 DEF SigningInv, SessionPart, SessionsStarted
<1>3. /\ state \in [Sessions -> Places] /\ used \in [Sessions -> Nat] /\ lease \in Leases
      /\ LeaseUsed[s] \in Nat /\ MaxSignatures[s] \in Nat
  BY RegistryAssumption DEF SigningInv, TypeOK, RegistryTypeOK, Leases
<1>4. /\ state'[s] = "active" /\ used'[s] = LeaseUsed[s] /\ lease'[s] = LeaseUsed[s]
      /\ \A t \in Sessions : t # s => state'[t] = state[t] /\ used'[t] = used[t] /\ lease'[t] = lease[t]
      /\ state' \in [Sessions -> Places] /\ used' \in [Sessions -> Nat] /\ lease' \in Leases
  <2>1. "active" \in Places
    BY DEF Places, EntryStates
  <2> QED BY <1>1, <1>3, <2>1 DEF Leases
<1>5. "active" \notin Reserved /\ "active" \notin Unpublished /\ "absent" \notin Reserved /\ "absent" \notin Terminal
      /\ "active" \notin Terminal
  BY DEF Reserved, Unpublished, Terminal, Losses
<1>6. RegistryInv'
  <2>1. RegistryTypeOK'
    BY <1>1, <1>4 DEF SigningInv, TypeOK, RegistryTypeOK
  <2>2. BudgetBound'
    BY <1>1, <1>3, <1>4 DEF SigningInv, SessionPart, RegistryInv, BudgetBound
  <2>3. Accounting'
    BY <1>4, <1>5 DEF SigningInv, SessionPart, RegistryInv, Accounting
  <2>4. ReservationConsistent'
    BY <1>1, <1>2, <1>4, <1>5 DEF SigningInv, SessionPart, RegistryInv, ReservationConsistent
  <2>5. IdentitiesConsumedOnce'
    BY <1>1 DEF SigningInv, SessionPart, RegistryInv, IdentitiesConsumedOnce
  <2> QED BY <2>1, <2>2, <2>3, <2>4, <2>5 DEF RegistryInv
<1>7. SessionsStarted'
  BY <1>1, <1>4, <1>5 DEF SigningInv, SessionPart, SessionsStarted
<1>8. \A r \in Requests : SessionOf[r] = s => pc[r] \notin OwnSteps
  <2>1. "absent" \notin {"request_reserved", "signing_intent", "signed"} \cup Terminal
    BY DEF Terminal, Losses
  <2> QED BY <1>2, <2>1, OwnerPublished
<1>9. ThreadHolds'
  BY <1>1, <1>4, <1>8, SessionTyped DEF SigningInv, SessionPart, ThreadHolds, Holds, OwnSteps
<1>10. OneOwner'
  BY <1>1 DEF SigningInv, SessionPart, OneOwner
<1>11. LeaseTracks'
  BY <1>3, <1>4, <1>5 DEF SigningInv, SessionPart, LeaseTracks
<1>12. UnitsCharged'
  <2> SUFFICES ASSUME NEW t \in Sessions
               PROVE  Published(t)' => LeaseUsed[t] + Cardinality(Charged(t)') <= used'[t]
    BY DEF UnitsCharged
  <2>1. Charged(t)' = Charged(t)
    BY <1>1 DEF Charged
  <2>2. CASE t = s
    <3>1. \A r \in Requests : SessionOf[r] = s => pc[r] \notin UnitSteps
      BY <1>8 DEF UnitSteps, OwnSteps, IntentSteps
    <3>2. \A r \in Requests : SessionOf[r] = s => ~(calls[r] > 0)
      BY <1>1 DEF SigningInv, SessionPart, SessionsStarted
    <3>3. Charged(s) = {}
      BY <3>1, <3>2 DEF Charged
    <3>4. Cardinality(Charged(t)') = 0
      BY <2>1, <2>2, <3>3, FS_EmptySet
    <3> QED BY <1>3, <1>4, <2>2, <3>4
  <2>3. CASE t # s
    <3>1. used'[t] \in Nat /\ used[t] <= used'[t] /\ (Published(t)' => Published(t))
      BY <1>3, <1>4, <2>3 DEF Published
    <3> QED BY <2>1, <3>1, UnitsKept
  <2> QED BY <2>2, <2>3
<1>13. SessionPart'
  BY <1>6, <1>7, <1>9, <1>10, <1>11, <1>12 DEF SessionPart
<1>14. LedgerPart'
  BY <1>1, LedgerKept DEF ThreadsHonest
<1>15. TypeOK'
  BY <1>1, <1>4, <1>6 DEF SigningInv, TypeOK, RegistryInv, StoreTypeOK, storeVars, Leases
<1> QED BY <1>13, <1>14, <1>15 DEF SigningInv

-----------------------------------------------------------------------------
(* Steps of a thread that take nothing of its session and give nothing back. *)

Handoffs == [Requests -> Nat]

\* A coordinator whose sessions and connections are left as they are.
LEMMA CoordinatorSame ==
  ASSUME SigningInv, UNCHANGED <<registryVars, coordinatorVars>>
  PROVE  /\ RegistryInv' /\ EntriesEnd /\ LeasesShrink /\ lease' \in Leases
         /\ UNCHANGED <<started, live>>
<1>1. UNCHANGED <<started, live, lease>>
  BY DEF coordinatorVars
<1> QED BY <1>1, RegistryKept DEF LeasesShrink, Leases, SigningInv, TypeOK

LEMMA ThreadTyped ==
  ASSUME SigningInv, SessionPart', StoreTypeOK', pc' \in [Requests -> Steps], lease' \in Leases,
         handoff' \in Handoffs, calls' \in [Requests -> Nat], replied' \subseteq Requests,
         UNCHANGED <<started, live>>
  PROVE  TypeOK'
BY DEF SigningInv, TypeOK, SessionPart, RegistryInv, Leases, Handoffs

LEMMA ThreadKept ==
  ASSUME SigningInv, NEW r \in Requests, NEW step \in Steps, pc' = [pc EXCEPT ![r] = step],
         SameClass(pc[r], step), step \in UnitSteps => pc[r] \in UnitSteps,
         RegistryInv', EntriesEnd, LeasesShrink, UNCHANGED <<started, calls>>
  PROVE  SessionPart'
<1>1. /\ pc'[r] = step /\ \A q \in Requests : q # r => pc'[q] = pc[q]
  BY ThreadMoved
<1>2. \A q \in Requests : SameClass(pc[q], pc'[q])
  BY <1>1 DEF SameClass
<1>3. NoneCharged
  BY <1>1 DEF NoneCharged
<1>4. \A q \in Requests : calls'[q] > 0 => SessionOf[q] \in started
  BY DEF SigningInv, SessionPart, SessionsStarted
<1> QED BY <1>2, <1>3, <1>4, SessionsKept

\* What the step a thread goes to may claim about the key.
HonestStep(r, step) ==
  /\ step \in BeforeSteps => pc[r] \in BeforeSteps \/ calls[r] = 0
  /\ step # "record" /\ step # "provider"

LEMMA HonestThread ==
  ASSUME SigningInv, NEW r \in Requests, NEW step \in Steps, pc' = [pc EXCEPT ![r] = step],
         HonestStep(r, step)
  PROVE  ThreadsHonest
<1>1. /\ pc'[r] = step /\ \A q \in Requests : q # r => pc'[q] = pc[q]
  BY ThreadMoved
<1> QED BY <1>1 DEF ThreadsHonest, HonestStep

\* A step that leaves the ledger alone.
LEMMA ThreadQuiet ==
  ASSUME SigningInv, NEW r \in Requests, NEW step \in Steps, pc' = [pc EXCEPT ![r] = step],
         SameClass(pc[r], step), step \in UnitSteps => pc[r] \in UnitSteps,
         RegistryInv', EntriesEnd, LeasesShrink, lease' \in Leases, handoff' \in Handoffs,
         UNCHANGED <<started, live, storeVars, calls, replied>>,
         HonestStep(r, step)
  PROVE  SigningInv'
<1>1. SessionPart'
  BY ThreadKept
<1>2. LedgerPart'
  BY HonestThread, LedgerKept
<1>3. pc' \in [Requests -> Steps]
  BY ThreadMoved
<1>4. StoreTypeOK' /\ calls' \in [Requests -> Nat] /\ replied' \subseteq Requests
  BY DEF SigningInv, TypeOK, StoreTypeOK, storeVars
<1>5. TypeOK'
  BY <1>1, <1>3, <1>4, ThreadTyped
<1> QED BY <1>1, <1>2, <1>5 DEF SigningInv

\* The same, with a ledger write that was shown to keep the ledger's part.
LEMMA ThreadWrote ==
  ASSUME SigningInv, NEW r \in Requests, NEW step \in Steps, pc' = [pc EXCEPT ![r] = step],
         SameClass(pc[r], step), step \in UnitSteps => pc[r] \in UnitSteps,
         UNCHANGED <<registryVars, coordinatorVars, handoff, calls>>,
         LedgerPart', StoreTypeOK', replied' \subseteq Requests
  PROVE  SigningInv'
<1>1. RegistryInv' /\ EntriesEnd /\ LeasesShrink /\ lease' \in Leases /\ UNCHANGED <<started, live>>
  BY CoordinatorSame
<1>2. SessionPart'
  BY <1>1, ThreadKept
<1>3. pc' \in [Requests -> Steps]
  BY ThreadMoved
<1>4. handoff' \in Handoffs /\ calls' \in [Requests -> Nat]
  BY DEF SigningInv, TypeOK, Handoffs
<1>5. TypeOK'
  BY <1>1, <1>2, <1>3, <1>4, ThreadTyped
<1> QED BY <1>2, <1>5 DEF SigningInv

\* The steps outside a reservation.
FreeSteps == Steps \ OwnSteps

LEMMA FreeClass ==
  ASSUME NEW a \in FreeSteps, NEW b \in FreeSteps
  PROVE  SameClass(a, b) /\ b \in Steps /\ b \notin UnitSteps /\ b # "record" /\ b # "provider"
BY DEF FreeSteps, SameClass, OwnSteps, UnitSteps, IntentSteps

LEMMA FreeNames ==
  {"idle", "handoff", "verify", "reserve", "complete", "recover", "fail_final"} \subseteq FreeSteps
BY DEF FreeSteps, Steps, OwnSteps, ReservedSteps, IntentSteps

LEMMA FreeMove ==
  ASSUME SigningInv, NEW r \in Requests, NEW step \in FreeSteps, pc[r] \in FreeSteps, Goto(r, step),
         RegistryInv', EntriesEnd, LeasesShrink, lease' \in Leases, handoff' \in Handoffs,
         UNCHANGED <<started, live, storeVars, calls, replied>>,
         step \in BeforeSteps => pc[r] \in BeforeSteps \/ calls[r] = 0
  PROVE  SigningInv'
<1>1. SameClass(pc[r], step) /\ step \in Steps /\ step \notin UnitSteps /\ HonestStep(r, step)
  BY FreeClass DEF HonestStep
<1>2. pc' = [pc EXCEPT ![r] = step]
  BY DEF Goto
<1> QED BY <1>1, <1>2, ThreadQuiet

LEMMA SubmitStep == ASSUME SigningInv, NEW r \in Requests, Submit(r) PROVE SigningInv'
<1>1. /\ store = "open" /\ records[r] = Absent /\ pc[r] = "idle" /\ Goto(r, "handoff")
      /\ UNCHANGED <<registryVars, storeVars, coordinatorVars, handoff, calls, replied>>
  BY DEF Submit
<1>2. calls[r] = 0
  <2>1. records[r].phase \notin KeyPhases
    BY <1>1 DEF Absent, KeyPhases
  <2>2. ~(calls[r] > 0) /\ calls[r] \in Nat
    BY <1>1, <2>1 DEF SigningInv, TypeOK, LedgerPart, ProviderDurable
  <2> QED BY <2>2
<1>3. RegistryInv' /\ EntriesEnd /\ LeasesShrink /\ lease' \in Leases /\ UNCHANGED <<started, live>>
  BY <1>1, CoordinatorSame
<1>4. handoff' \in Handoffs
  BY <1>1 DEF SigningInv, TypeOK, Handoffs
<1> QED BY <1>1, <1>2, <1>3, <1>4, FreeNames, FreeMove

LEMMA MakeHandoffStep == ASSUME SigningInv, NEW r \in Requests, MakeHandoff(r) PROVE SigningInv'
<1> DEFINE s == SessionOf[r]
<1>1. /\ pc[r] = "handoff" /\ pc[r] \in BeforeSteps
      /\ UNCHANGED <<storeVars, started, live, calls, replied>>
  BY DEF MakeHandoff, BeforeSteps
<1>2. s \in Sessions
  BY SessionTyped
<1> HIDE DEF s
<1>3. CASE /\ lease[s] # NoLease /\ handoff' = [handoff EXCEPT ![r] = lease[s]]
           /\ Goto(r, "verify") /\ UNCHANGED <<registryVars, lease>>
  <2>1. handoff' \in Handoffs
    BY <1>2, <1>3 DEF SigningInv, TypeOK, Handoffs
  <2>2. RegistryInv' /\ EntriesEnd
    BY <1>3, RegistryKept
  <2>3. LeasesShrink /\ lease' \in Leases
    BY <1>2, <1>3, LeaseLost
  <2> QED BY <1>1, <1>3, <2>1, <2>2, <2>3, FreeNames, FreeMove
<1>4. CASE Goto(r, "idle") /\ UNCHANGED <<registryVars, lease, handoff>>
  <2>1. handoff' \in Handoffs
    BY <1>4 DEF SigningInv, TypeOK, Handoffs
  <2>2. RegistryInv' /\ EntriesEnd
    BY <1>4, RegistryKept
  <2>3. LeasesShrink /\ lease' \in Leases
    BY <1>2, <1>4, LeaseLost
  <2> QED BY <1>1, <1>4, <2>1, <2>2, <2>3, FreeNames, FreeMove
<1>5. CASE /\ \E check \in {"live", "expired"} : Status(s, check)
           /\ LoseLease(s) /\ Goto(r, "idle") /\ UNCHANGED handoff
  <2>1. handoff' \in Handoffs
    BY <1>5 DEF SigningInv, TypeOK, Handoffs
  <2>2. RegistryInv' /\ EntriesEnd
    BY <1>2, <1>5, RegistryStatusEnds
  <2>3. LeasesShrink /\ lease' \in Leases
    BY <1>2, <1>5, LeaseLost DEF LoseLease
  <2> QED BY <1>1, <1>5, <2>1, <2>2, <2>3, FreeNames, FreeMove
<1> QED BY <1>3, <1>4, <1>5 DEF MakeHandoff, s

LEMMA VerifyLiveStep == ASSUME SigningInv, NEW r \in Requests, VerifyLive(r) PROVE SigningInv'
<1> DEFINE s == SessionOf[r]
<1>1. /\ pc[r] = "verify" /\ pc[r] \in BeforeSteps
      /\ UNCHANGED <<storeVars, started, live, handoff, calls, replied>>
  BY DEF VerifyLive, BeforeSteps
<1>2. s \in Sessions /\ handoff' \in Handoffs
  BY <1>1, SessionTyped DEF SigningInv, TypeOK, Handoffs
<1>3. \E step \in {"reserve", "idle"} : Goto(r, step)
  BY DEF VerifyLive
<1>4. (\E check \in StatusChecks : CoordinatorStatus(s, check)) \/ UNCHANGED <<registryVars, lease>>
  BY DEF VerifyLive
<1> HIDE DEF s
<1>5. RegistryInv' /\ EntriesEnd /\ LeasesShrink /\ lease' \in Leases
  <2>1. CASE UNCHANGED <<registryVars, lease>>
    BY <1>2, <2>1, RegistryKept, LeaseLost
  <2> QED BY <1>2, <1>4, <2>1, StatusEnds
<1> QED BY <1>1, <1>2, <1>3, <1>5, FreeNames, FreeMove

LEMMA RecoverStep == ASSUME SigningInv, NEW r \in Requests, Recover(r) PROVE SigningInv'
<1>1. /\ pc[r] = "recover"
      /\ UNCHANGED <<registryVars, storeVars, coordinatorVars, handoff, calls, replied>>
      /\ Goto(r, "fail_final") \/ CanFinalize(r)
  BY DEF Recover
<1>2. ~CanFinalize(r)
  BY <1>1, FreeNames DEF SigningInv, SessionPart, ThreadHolds, CanFinalize, Holds, FreeSteps
<1>3. RegistryInv' /\ EntriesEnd /\ LeasesShrink /\ lease' \in Leases /\ UNCHANGED <<started, live>>
  BY <1>1, CoordinatorSame
<1>4. handoff' \in Handoffs /\ "fail_final" \notin BeforeSteps
  BY <1>1 DEF SigningInv, TypeOK, Handoffs, BeforeSteps, UnitSteps, ReservedSteps
<1> QED BY <1>1, <1>2, <1>3, <1>4, FreeNames, FreeMove

LEMMA ReplayVerifiedStep == ASSUME SigningInv, NEW r \in Requests, ReplayVerified(r) PROVE SigningInv'
<1>1. /\ pc[r] = "idle"
      /\ UNCHANGED <<storeVars, started, live, handoff, calls, replied>>
  BY DEF ReplayVerified
<1>2. SessionOf[r] \in Sessions /\ handoff' \in Handoffs
  BY <1>1, SessionTyped DEF SigningInv, TypeOK, Handoffs
<1>3. \E step \in {"fail_final", "recover"} : Goto(r, step)
  BY DEF ReplayVerified
<1>4. RegistryInv' /\ EntriesEnd /\ LeasesShrink /\ lease' \in Leases
  <2>1. PICK check \in StatusChecks : CoordinatorStatus(SessionOf[r], check)
    BY DEF ReplayVerified
  <2> QED BY <1>2, <2>1, StatusEnds
<1>5. "fail_final" \notin BeforeSteps /\ "recover" \notin BeforeSteps
  BY DEF BeforeSteps, UnitSteps, ReservedSteps
<1> QED BY <1>1, <1>2, <1>3, <1>4, <1>5, FreeNames, FreeMove

-----------------------------------------------------------------------------
(* Ledger calls. *)

\* A thread inside its reservation or its intent stays there.
LEMMA OwnClass ==
  /\ \A a, b \in ReservedSteps : SameClass(a, b) /\ b \in Steps /\ b # "record" /\ b # "provider"
  /\ \A a, b \in IntentSteps : SameClass(a, b) /\ b \in Steps
  /\ ReservedSteps \subseteq UnitSteps /\ UnitSteps \subseteq BeforeSteps
BY DEF SameClass, ReservedSteps, IntentSteps, UnitSteps, BeforeSteps, Steps

\* A compensating markUncertain(), written or refused.
LEMMA TryMarkUncertainStep ==
  ASSUME SigningInv, NEW r \in Requests, NEW at \in Steps, NEW next \in Steps,
         TryMarkUncertain(r, at, next), SameClass(at, next), next \in UnitSteps => at \in UnitSteps,
         next \in BeforeSteps => at \in BeforeSteps, next # "record", next # "provider"
  PROVE  SigningInv'
<1>1. /\ pc[r] = at /\ pc' = [pc EXCEPT ![r] = next]
      /\ UNCHANGED <<registryVars, coordinatorVars, handoff, calls, replied>>
      /\ (\E io \in WriteOutcomes : MarkUncertain(r, io)) \/ UNCHANGED storeVars
  BY DEF TryMarkUncertain, Goto
<1>2. ThreadsHonest
  <2>1. HonestStep(r, next)
    BY <1>1 DEF HonestStep
  <2> QED BY <1>1, <2>1, HonestThread
<1>3. LedgerPart' /\ StoreTypeOK'
  <2>1. CASE \E io \in WriteOutcomes : MarkUncertain(r, io)
    BY <1>1, <1>2, <2>1, UncertainWrote
  <2>2. CASE UNCHANGED storeVars
    <3>1. StoreTypeOK'
      BY <2>2 DEF SigningInv, TypeOK, StoreTypeOK, storeVars
    <3> QED BY <1>1, <1>2, <2>2, <3>1, LedgerKept
  <2> QED BY <1>1, <2>1, <2>2
<1>4. replied' \subseteq Requests
  BY <1>1 DEF SigningInv, TypeOK
<1> QED BY <1>1, <1>3, <1>4, ThreadWrote

LEMMA FailSteps ==
  ASSUME SigningInv, NEW r \in Requests, FailBefore(r) \/ FailAfter(r) \/ FailFinal(r)
  PROVE  SigningInv'
<1>1. CASE FailBefore(r)
  <2>1. "fail_before" \in ReservedSteps /\ "release_before" \in ReservedSteps /\ "fail_before" \in Steps
    BY DEF ReservedSteps, Steps
  <2>2. /\ SameClass("fail_before", "release_before") /\ "release_before" \in Steps
        /\ "fail_before" \in UnitSteps /\ "fail_before" \in BeforeSteps
    BY <2>1, OwnClass
  <2> QED BY <1>1, <2>1, <2>2, TryMarkUncertainStep DEF FailBefore
<1>2. CASE FailAfter(r)
  <2>1. /\ SameClass("fail_after", "unknown") /\ "unknown" \in Steps /\ "fail_after" \in Steps
        /\ "unknown" \notin BeforeSteps /\ "unknown" \notin UnitSteps
    BY DEF SameClass, ReservedSteps, IntentSteps, Steps, BeforeSteps, UnitSteps
  <2> QED BY <1>2, <2>1, TryMarkUncertainStep DEF FailAfter
<1>3. CASE FailFinal(r)
  <2>1. /\ SameClass("fail_final", "idle") /\ "idle" \in Steps /\ "fail_final" \in Steps
        /\ "idle" \notin BeforeSteps /\ "idle" \notin UnitSteps
    BY DEF SameClass, ReservedSteps, IntentSteps, Steps, BeforeSteps, UnitSteps
  <2> QED BY <1>3, <2>1, TryMarkUncertainStep DEF FailFinal
<1> QED BY <1>1, <1>2, <1>3

\* admit() writes the first record of a request whose key was not used.
LEMMA AdmitStep == ASSUME SigningInv, NEW r \in Requests, AdmitTransaction(r) PROVE SigningInv'
<1>1. /\ pc[r] = "admit" /\ pc[r] \in ReservedSteps
      /\ UNCHANGED <<registryVars, coordinatorVars, handoff, calls, replied>>
  BY DEF AdmitTransaction, ReservedSteps
<1>2. PICK step \in {"begin", "release_admit"} :
        /\ pc' = [pc EXCEPT ![r] = step]
        /\ (\E io \in WriteOutcomes : Admit(r, io)) \/ UNCHANGED storeVars
  BY DEF AdmitTransaction, Goto
<1>3. /\ step \in Steps /\ SameClass(pc[r], step) /\ pc[r] \in UnitSteps /\ pc[r] \in BeforeSteps
      /\ HonestStep(r, step)
  <2>1. step \in ReservedSteps
    BY DEF ReservedSteps
  <2> QED BY <1>1, <2>1, OwnClass DEF HonestStep
<1>4. ThreadsHonest
  BY <1>2, <1>3, HonestThread
<1>5. LedgerPart' /\ StoreTypeOK' /\ replied' \subseteq Requests
  <2>1. CASE \E io \in WriteOutcomes : Admit(r, io)
    <3>1. PICK io \in WriteOutcomes : Admit(r, io)
      BY <2>1
    <3> DEFINE rec == [phase |-> "admitted", sequence |-> 1, previous |-> "none",
                       signature |-> FALSE, authority |-> TRUE]
    <3>2. rec \in Records /\ rec.phase = "admitted"
      BY DEF Records, Phases
    <3>3. store = "open" /\ records[r] = Absent /\ Persist([records EXCEPT ![r] = rec], io)
      BY <3>1 DEF Admit, CanAdmit
    <3> HIDE DEF rec
    <3>4. records[r].phase \notin KeyPhases /\ records[r].phase # "completed" /\ rec.phase \notin SignedPhases
      BY <3>2, <3>3 DEF Absent, KeyPhases, SignedPhases
    <3> QED BY <1>1, <1>4, <3>2, <3>3, <3>4, LedgerWrote DEF ThreadsHonest
  <2>2. CASE UNCHANGED storeVars
    <3>1. StoreTypeOK' /\ replied' \subseteq Requests
      BY <1>1, <2>2 DEF SigningInv, TypeOK, StoreTypeOK, storeVars
    <3> QED BY <1>1, <1>4, <2>2, <3>1, LedgerKept
  <2> QED BY <1>2, <2>1, <2>2
<1> QED BY <1>1, <1>2, <1>3, <1>5, ThreadWrote

\* A write under the intent, then a step of the intent.  The provider step is
\* the only one that needs the write to have succeeded.
LEMMA IntentWrote ==
  ASSUME SigningInv, NEW r \in Requests, pc[r] \in IntentSteps,
         NEW from, from \subseteq Phases, "completed" \notin from,
         NEW phase \in Phases, NEW io \in WriteOutcomes, Wrote(r, from, phase, io),
         NEW step \in IntentSteps, Goto(r, step),
         UNCHANGED <<registryVars, coordinatorVars, handoff, calls, replied>>,
         step \in UnitSteps => pc[r] \in UnitSteps,
         from \cap KeyPhases # {} => phase \in KeyPhases,
         phase \in SignedPhases => calls[r] = 1,
         step # "record", step = "provider" => phase = "provider_started" /\ io = "ok"
  PROVE  SigningInv'
<1>1. /\ store = "open" /\ records[r].phase \in from
      /\ \E rec \in Records : rec.phase = phase /\ Persist([records EXCEPT ![r] = rec], io)
  BY DEF Wrote
<1>2. PICK rec \in Records : rec.phase = phase /\ Persist([records EXCEPT ![r] = rec], io)
  BY <1>1
<1>3. pc' = [pc EXCEPT ![r] = step]
  BY DEF Goto
<1>4. step \in Steps /\ SameClass(pc[r], step)
  BY OwnClass
<1>5. pc'[r] = step /\ \A q \in Requests : q # r => pc'[q] = pc[q]
  BY <1>3, <1>4, ThreadMoved
<1>6. step \in BeforeSteps => pc[r] \in BeforeSteps
  <2>1. step \in BeforeSteps => step \in UnitSteps
    BY DEF BeforeSteps, UnitSteps, IntentSteps, ReservedSteps
  <2> QED BY <2>1, OwnClass
<1>7. \A q \in Requests :
        /\ pc'[q] \in BeforeSteps => pc[q] \in BeforeSteps \/ calls[q] = 0
        /\ pc'[q] = "record" => pc[q] = "record"
        /\ pc'[q] = "provider" => pc[q] = "provider" \/ (q = r /\ io = "ok" /\ rec.phase = "provider_started")
  BY <1>2, <1>5, <1>6
<1>8. /\ records[r].phase # "completed" /\ (records[r].phase \in KeyPhases => rec.phase \in KeyPhases)
      /\ (rec.phase \in SignedPhases => calls[r] = 1)
  BY <1>1, <1>2
<1>9. LedgerPart' /\ StoreTypeOK' /\ replied' \subseteq Requests
  BY <1>1, <1>2, <1>7, <1>8, LedgerWrote
<1> QED BY <1>3, <1>4, <1>9, ThreadWrote

\* The three moves of the ledger under the intent.
LEMMA IntentMove ==
  ASSUME SigningInv, NEW r \in Requests, pc[r] \in IntentSteps,
         NEW from, from \subseteq Phases, "completed" \notin from,
         NEW phase \in Phases, NEW next \in IntentSteps,
         \/ \E io \in WriteOutcomes :
              Wrote(r, from, phase, io) /\ Goto(r, IF io = "ok" THEN next ELSE "fail_after")
         \/ Goto(r, "fail_after") /\ UNCHANGED storeVars,
         UNCHANGED <<registryVars, coordinatorVars, handoff, calls, replied>>,
         next \in UnitSteps => pc[r] \in UnitSteps,
         from \cap KeyPhases # {} => phase \in KeyPhases,
         phase \in SignedPhases => calls[r] = 1,
         next # "record", next = "provider" => phase = "provider_started"
  PROVE  SigningInv'
<1>1. "fail_after" \in IntentSteps /\ "fail_after" \notin BeforeSteps /\ "fail_after" \notin UnitSteps
  BY DEF IntentSteps, BeforeSteps, UnitSteps, ReservedSteps
<1>2. SameClass(pc[r], "fail_after") /\ "fail_after" \in Steps
  BY <1>1, OwnClass
<1>3. CASE Goto(r, "fail_after") /\ UNCHANGED storeVars
  <2>1. HonestStep(r, "fail_after")
    BY <1>1 DEF HonestStep
  <2>2. pc' = [pc EXCEPT ![r] = "fail_after"]
    BY <1>3 DEF Goto
  <2>3. LedgerPart'
    BY <1>2, <1>3, <2>1, <2>2, HonestThread, LedgerKept
  <2>4. StoreTypeOK' /\ replied' \subseteq Requests
    BY <1>3 DEF SigningInv, TypeOK, StoreTypeOK, storeVars
  <2> QED BY <1>1, <1>2, <2>2, <2>3, <2>4, ThreadWrote
<1>4. ASSUME NEW io \in WriteOutcomes, Wrote(r, from, phase, io),
             Goto(r, IF io = "ok" THEN next ELSE "fail_after")
      PROVE  SigningInv'
  <2>1. CASE io = "ok"
    <3>1. Goto(r, next)
      BY <1>4, <2>1
    <3> QED BY <1>4, <2>1, <3>1, IntentWrote
  <2>2. CASE io # "ok"
    <3>1. Goto(r, "fail_after")
      BY <1>4, <2>2
    <3> QED BY <1>1, <1>4, <3>1, IntentWrote
  <2> QED BY <2>1, <2>2
<1> QED BY <1>3, <1>4

LEMMA MarkIntentInv == ASSUME SigningInv, NEW r \in Requests, MarkIntentStep(r) PROVE SigningInv'
<1>1. /\ pc[r] = "mark_intent"
      /\ \/ \E io \in WriteOutcomes :
              Move(r, {"admitted"}, "intent", FALSE, io) /\ Goto(r, IF io = "ok" THEN "mark_started" ELSE "fail_after")
         \/ Goto(r, "fail_after") /\ UNCHANGED storeVars
      /\ UNCHANGED <<registryVars, coordinatorVars, handoff, calls, replied>>
  BY DEF MarkIntentStep, LedgerStep, MarkIntent
<1>2. /\ pc[r] \in IntentSteps /\ "mark_started" \in IntentSteps /\ pc[r] \in UnitSteps
      /\ {"admitted"} \subseteq Phases /\ "completed" \notin {"admitted"} /\ "intent" \in Phases /\ FALSE \in BOOLEAN
      /\ {"admitted"} \cap KeyPhases = {} /\ "intent" \notin SignedPhases
  BY <1>1 DEF IntentSteps, UnitSteps, Phases, KeyPhases, SignedPhases
<1>3. \A io \in WriteOutcomes : Move(r, {"admitted"}, "intent", FALSE, io) => Wrote(r, {"admitted"}, "intent", io)
  BY <1>2, MoveWrites
<1>4. \/ \E io \in WriteOutcomes :
           Wrote(r, {"admitted"}, "intent", io) /\ Goto(r, IF io = "ok" THEN "mark_started" ELSE "fail_after")
      \/ Goto(r, "fail_after") /\ UNCHANGED storeVars
  BY <1>1, <1>3
<1> QED BY <1>1, <1>2, <1>4, IntentMove

LEMMA MarkProviderStartedInv ==
  ASSUME SigningInv, NEW r \in Requests, MarkProviderStartedStep(r)
  PROVE  SigningInv'
<1>1. /\ pc[r] = "mark_started"
      /\ \/ \E io \in WriteOutcomes :
              Move(r, {"intent"}, "provider_started", FALSE, io) /\ Goto(r, IF io = "ok" THEN "provider" ELSE "fail_after")
         \/ Goto(r, "fail_after") /\ UNCHANGED storeVars
      /\ UNCHANGED <<registryVars, coordinatorVars, handoff, calls, replied>>
  BY DEF MarkProviderStartedStep, LedgerStep, MarkProviderStarted
<1>2. /\ pc[r] \in IntentSteps /\ "provider" \in IntentSteps /\ pc[r] \in UnitSteps
      /\ {"intent"} \subseteq Phases /\ "completed" \notin {"intent"} /\ "provider_started" \in Phases /\ FALSE \in BOOLEAN
      /\ {"intent"} \cap KeyPhases = {} /\ "provider_started" \notin SignedPhases
  BY <1>1 DEF IntentSteps, UnitSteps, Phases, KeyPhases, SignedPhases
<1>3. \A io \in WriteOutcomes : Move(r, {"intent"}, "provider_started", FALSE, io) => Wrote(r, {"intent"}, "provider_started", io)
  BY <1>2, MoveWrites
<1>4. \/ \E io \in WriteOutcomes :
           Wrote(r, {"intent"}, "provider_started", io) /\ Goto(r, IF io = "ok" THEN "provider" ELSE "fail_after")
      \/ Goto(r, "fail_after") /\ UNCHANGED storeVars
  BY <1>1, <1>3
<1> QED BY <1>1, <1>2, <1>4, IntentMove

LEMMA RecordVerifiedInv == ASSUME SigningInv, NEW r \in Requests, RecordVerifiedStep(r) PROVE SigningInv'
<1>1. /\ pc[r] = "record"
      /\ \/ \E io \in WriteOutcomes :
              Move(r, {"provider_started"}, "signed_verified", TRUE, io) /\ Goto(r, IF io = "ok" THEN "record_signing" ELSE "fail_after")
         \/ Goto(r, "fail_after") /\ UNCHANGED storeVars
      /\ UNCHANGED <<registryVars, coordinatorVars, handoff, calls, replied>>
  BY DEF RecordVerifiedStep, LedgerStep, RecordVerified
<1>2. /\ pc[r] \in IntentSteps /\ "record_signing" \in IntentSteps /\ "record_signing" \notin UnitSteps
      /\ {"provider_started"} \subseteq Phases /\ "completed" \notin {"provider_started"} /\ "signed_verified" \in Phases /\ TRUE \in BOOLEAN
      /\ "signed_verified" \in KeyPhases
  BY <1>1 DEF IntentSteps, UnitSteps, ReservedSteps, Phases, KeyPhases
<1>3. calls[r] = 1
  BY <1>1 DEF SigningInv, LedgerPart, KeyKnown
<1>4. \A io \in WriteOutcomes : Move(r, {"provider_started"}, "signed_verified", TRUE, io) => Wrote(r, {"provider_started"}, "signed_verified", io)
  BY <1>2, MoveWrites
<1>5. \/ \E io \in WriteOutcomes :
           Wrote(r, {"provider_started"}, "signed_verified", io) /\ Goto(r, IF io = "ok" THEN "record_signing" ELSE "fail_after")
      \/ Goto(r, "fail_after") /\ UNCHANGED storeVars
  BY <1>1, <1>4
<1> QED BY <1>1, <1>2, <1>3, <1>5, IntentMove

\* The provider is invoked, for a unit the request was charged with before.
LEMMA InvokeProviderInv == ASSUME SigningInv, NEW r \in Requests, InvokeProvider(r) PROVE SigningInv'
<1>1. /\ pc[r] = "provider" /\ calls' = [calls EXCEPT ![r] = @ + 1]
      /\ UNCHANGED <<registryVars, storeVars, coordinatorVars, handoff, replied>>
  BY DEF InvokeProvider
<1>2. PICK step \in {"record", "fail_after"} : pc' = [pc EXCEPT ![r] = step]
  BY DEF InvokeProvider, Goto
<1>3. /\ step \in IntentSteps /\ step \in Steps /\ step \notin UnitSteps /\ step \notin BeforeSteps
      /\ step # "provider" /\ pc[r] \in IntentSteps /\ pc[r] \in UnitSteps /\ pc[r] \in BeforeSteps
      /\ pc[r] \in OwnSteps
  BY <1>1 DEF IntentSteps, Steps, UnitSteps, BeforeSteps, ReservedSteps, OwnSteps
<1>4. calls[r] = 0
  BY <1>3 DEF SigningInv, LedgerPart, KeyKnown
<1>5. /\ calls' \in [Requests -> Nat] /\ calls'[r] = 1
      /\ \A q \in Requests : q # r => calls'[q] = calls[q]
  BY <1>1, <1>4 DEF SigningInv, TypeOK
<1>6. /\ pc' \in [Requests -> Steps] /\ pc'[r] = step
      /\ \A q \in Requests : q # r => pc'[q] = pc[q]
  BY <1>2, <1>3, ThreadMoved
<1>7. RegistryInv' /\ EntriesEnd /\ LeasesShrink /\ lease' \in Leases /\ UNCHANGED <<started, live>>
  BY <1>1, CoordinatorSame
<1>8. SessionPart'
  <2>1. \A q \in Requests : SameClass(pc[q], pc'[q])
    <3>1. SameClass(pc[r], pc'[r])
      BY <1>3, <1>6, OwnClass
    <3> QED BY <1>6, <3>1 DEF SameClass
  <2>2. NoneCharged
    BY <1>3, <1>5, <1>6 DEF NoneCharged
  <2>3. SessionOf[r] \in started
    BY <1>3, OwnerPublished DEF SigningInv, SessionPart, SessionsStarted, Published, EntryStates, Reserved, Terminal, Losses
  <2>4. \A q \in Requests : calls'[q] > 0 => SessionOf[q] \in started
    BY <1>5, <2>3 DEF SigningInv, SessionPart, SessionsStarted
  <2> QED BY <1>7, <2>1, <2>2, <2>4, SessionsKept
<1>9. LedgerPart'
  <2>1. KeyKnown'
    BY <1>3, <1>5, <1>6 DEF SigningInv, LedgerPart, KeyKnown
  <2>2. SignedWasCalled' /\ CompletedOnDisk' /\ ReplyDurable'
    BY <1>1, <1>5 DEF SigningInv, LedgerPart, SignedWasCalled, CompletedOnDisk, ReplyDurable, storeVars
  <2>3. ProviderDurable'
    BY <1>1, <1>3, <1>5, <1>6 DEF SigningInv, LedgerPart, ProviderDurable, storeVars
  <2> QED BY <2>1, <2>2, <2>3 DEF LedgerPart
<1>10. StoreTypeOK' /\ replied' \subseteq Requests /\ handoff' \in Handoffs
  BY <1>1 DEF SigningInv, TypeOK, StoreTypeOK, storeVars, Handoffs
<1>11. TypeOK'
  BY <1>5, <1>6, <1>7, <1>8, <1>10, ThreadTyped
<1> QED BY <1>8, <1>9, <1>11 DEF SigningInv

\* complete() returns the signature when the completed record is on disk.
LEMMA CompleteInv == ASSUME SigningInv, NEW r \in Requests, CompleteStep(r) PROVE SigningInv'
<1>1. /\ pc[r] = "complete"
      /\ UNCHANGED <<registryVars, coordinatorVars, handoff, calls>>
      /\ \/ \E io \in WriteOutcomes : Complete(r, io) /\ Goto(r, IF io = "ok" THEN "idle" ELSE "fail_final")
         \/ Goto(r, "fail_final") /\ UNCHANGED storeVars
  BY DEF CompleteStep, LedgerStep
<1>2. replied' = IF pc'[r] = "idle" THEN replied \cup {r} ELSE replied
  BY DEF CompleteStep
<1>3. {"complete", "idle", "fail_final"} \subseteq FreeSteps
  BY FreeNames
<1>4. ASSUME NEW step \in {"idle", "fail_final"}, Goto(r, step)
      PROVE  /\ step \in Steps /\ pc' = [pc EXCEPT ![r] = step] /\ SameClass(pc[r], step)
             /\ step \notin UnitSteps /\ ThreadsHonest /\ pc'[r] = step
  <2>1. SameClass(pc[r], step) /\ step \in Steps /\ step \notin UnitSteps /\ step # "record" /\ step # "provider"
    BY <1>1, <1>3, FreeClass
  <2>2. step \notin BeforeSteps
    BY DEF BeforeSteps, UnitSteps, ReservedSteps
  <2>3. pc' = [pc EXCEPT ![r] = step] /\ HonestStep(r, step)
    BY <1>4, <2>1, <2>2 DEF Goto, HonestStep
  <2> QED BY <2>1, <2>3, HonestThread, ThreadMoved
<1>5. ASSUME Goto(r, "fail_final"), UNCHANGED storeVars
      PROVE  SigningInv'
  <2>1. /\ "fail_final" \in Steps /\ pc' = [pc EXCEPT ![r] = "fail_final"] /\ SameClass(pc[r], "fail_final")
        /\ "fail_final" \notin UnitSteps /\ ThreadsHonest /\ replied' = replied
    BY <1>2, <1>4, <1>5
  <2>2. LedgerPart'
    BY <1>1, <1>5, <2>1, LedgerKept
  <2>3. StoreTypeOK' /\ replied' \subseteq Requests
    BY <1>5, <2>1 DEF SigningInv, TypeOK, StoreTypeOK, storeVars
  <2> QED BY <1>1, <2>1, <2>2, <2>3, ThreadWrote
<1>6. ASSUME NEW io \in WriteOutcomes, Complete(r, io), Goto(r, IF io = "ok" THEN "idle" ELSE "fail_final")
      PROVE  SigningInv'
  <2>1. PICK step \in {"idle", "fail_final"} : Goto(r, step) /\ (step = "idle" <=> io = "ok")
    BY <1>6
  <2>2. /\ step \in Steps /\ pc' = [pc EXCEPT ![r] = step] /\ SameClass(pc[r], step)
        /\ step \notin UnitSteps /\ ThreadsHonest
        /\ replied' = replied \/ (replied' = replied \cup {r} /\ io = "ok")
    BY <1>2, <1>4, <2>1
  <2>3. /\ store = "open" /\ records[r].phase \in {"signed_verified", "completed"}
    BY <1>6 DEF Complete, CanComplete
  <2>4. calls[r] = 1
    BY <2>3 DEF SigningInv, LedgerPart, SignedWasCalled, SignedPhases
  <2>5. LedgerPart' /\ StoreTypeOK' /\ replied' \subseteq Requests
    <3>1. CASE records[r].phase = "completed"
      <4>1. UNCHANGED storeVars
        BY <1>6, <3>1 DEF Complete
      <4>2. file[r].phase = "completed"
        BY <2>3, <3>1 DEF SigningInv, LedgerPart, CompletedOnDisk
      <4>3. KeyKnown' /\ SignedWasCalled' /\ CompletedOnDisk'
        BY <1>1, <2>2, <4>1 DEF SigningInv, LedgerPart, KeyKnown, SignedWasCalled, CompletedOnDisk, ThreadsHonest, storeVars
      <4>4. ProviderDurable'
        BY <1>1, <2>2, <4>1 DEF SigningInv, LedgerPart, ProviderDurable, ThreadsHonest, storeVars
      <4>5. ReplyDurable'
        BY <2>2, <3>1, <4>1, <4>2 DEF SigningInv, LedgerPart, ReplyDurable, storeVars
      <4>6. StoreTypeOK' /\ replied' \subseteq Requests
        BY <2>2, <4>1 DEF SigningInv, TypeOK, StoreTypeOK, storeVars
      <4> QED BY <4>3, <4>4, <4>5, <4>6 DEF LedgerPart
    <3>2. CASE records[r].phase # "completed"
      <4> DEFINE rec == NextRecord(records[r], "completed", records[r].signature)
      <4>1. Persist([records EXCEPT ![r] = rec], io)
        BY <1>6, <3>2 DEF Complete
      <4>2. rec \in Records /\ rec.phase = "completed"
        <5>1. records[r] \in Records /\ records[r].phase # "absent" /\ records[r].signature \in BOOLEAN
          BY <2>3, RecordTyped
        <5> QED BY <5>1, NextRecordTyped DEF Phases
      <4> HIDE DEF rec
      <4>3. rec.phase \in KeyPhases
        BY <4>2 DEF KeyPhases
      <4> QED BY <1>1, <2>2, <2>3, <2>4, <3>2, <4>1, <4>2, <4>3, LedgerWrote DEF ThreadsHonest
    <3> QED BY <3>1, <3>2
  <2> QED BY <1>1, <2>2, <2>5, ThreadWrote
<1> QED BY <1>1, <1>5, <1>6

\* A completed record answers a request again.
LEMMA ReplayCompletedStep == ASSUME SigningInv, NEW r \in Requests, ReplayCompleted(r) PROVE SigningInv'
<1>1. /\ store = "open" /\ records[r].phase = "completed"
      /\ UNCHANGED <<storeVars, started, live, pc, handoff, calls>>
      /\ replied' = replied \/ replied' = replied \cup {r}
  BY DEF ReplayCompleted
<1>2. RegistryInv' /\ EntriesEnd /\ LeasesShrink /\ lease' \in Leases
  <2>1. PICK check \in StatusChecks : CoordinatorStatus(SessionOf[r], check)
    BY DEF ReplayCompleted
  <2> QED BY <2>1, SessionTyped, StatusEnds
<1>3. SessionPart'
  <2>1. NoneCharged /\ \A q \in Requests : SameClass(pc[q], pc'[q])
    BY <1>1 DEF NoneCharged, SameClass
  <2>2. \A q \in Requests : calls'[q] > 0 => SessionOf[q] \in started
    BY <1>1 DEF SigningInv, SessionPart, SessionsStarted
  <2> QED BY <1>1, <1>2, <2>1, <2>2, SessionsKept
<1>4. LedgerPart'
  <2>1. file[r].phase = "completed"
    BY <1>1 DEF SigningInv, LedgerPart, CompletedOnDisk
  <2>2. KeyKnown' /\ SignedWasCalled' /\ CompletedOnDisk' /\ ProviderDurable'
    BY <1>1 DEF SigningInv, LedgerPart, KeyKnown, SignedWasCalled, CompletedOnDisk, ProviderDurable, storeVars
  <2>3. ReplyDurable'
    BY <1>1, <2>1 DEF SigningInv, LedgerPart, ReplyDurable, storeVars
  <2> QED BY <2>2, <2>3 DEF LedgerPart
<1>5. /\ StoreTypeOK' /\ replied' \subseteq Requests /\ handoff' \in Handoffs
      /\ pc' \in [Requests -> Steps] /\ calls' \in [Requests -> Nat]
  BY <1>1 DEF SigningInv, TypeOK, StoreTypeOK, storeVars, Handoffs
<1>6. TypeOK'
  BY <1>1, <1>2, <1>3, <1>5, ThreadTyped
<1> QED BY <1>3, <1>4, <1>6 DEF SigningInv

\* A step of the ledger alone: another connection's replay, or a restart.
LEMMA LedgerAlone ==
  ASSUME SigningInv, UNCHANGED <<registryVars, coordinatorVars, threadVars>>, LedgerPart', StoreTypeOK'
  PROVE  SigningInv'
<1>1. RegistryInv' /\ EntriesEnd /\ LeasesShrink /\ lease' \in Leases /\ UNCHANGED <<started, live>>
  BY CoordinatorSame
<1>2. UNCHANGED <<pc, handoff, calls, replied>>
  BY DEF threadVars
<1>3. SessionPart'
  <2>1. NoneCharged /\ \A q \in Requests : SameClass(pc[q], pc'[q])
    BY <1>2 DEF NoneCharged, SameClass
  <2>2. \A q \in Requests : calls'[q] > 0 => SessionOf[q] \in started
    BY <1>2 DEF SigningInv, SessionPart, SessionsStarted
  <2> QED BY <1>1, <2>1, <2>2, SessionsKept
<1>4. /\ replied' \subseteq Requests /\ handoff' \in Handoffs
      /\ pc' \in [Requests -> Steps] /\ calls' \in [Requests -> Nat]
  BY <1>2 DEF SigningInv, TypeOK, Handoffs
<1>5. TypeOK'
  BY <1>1, <1>3, <1>4, ThreadTyped
<1> QED BY <1>3, <1>5 DEF SigningInv

LEMMA ReplayElsewhereStep == ASSUME SigningInv, NEW r \in Requests, ReplayElsewhere(r) PROVE SigningInv'
<1>1. PICK io \in WriteOutcomes : MarkUncertain(r, io)
  BY DEF ReplayElsewhere
<1>2. UNCHANGED <<registryVars, coordinatorVars, threadVars>>
  BY DEF ReplayElsewhere
<1>3. UNCHANGED <<calls, replied>> /\ ThreadsHonest
  BY <1>2 DEF threadVars, ThreadsHonest
<1>4. LedgerPart' /\ StoreTypeOK'
  BY <1>1, <1>3, UncertainWrote
<1> QED BY <1>2, <1>4, LedgerAlone

-----------------------------------------------------------------------------
(* Steps of a thread that change what it holds. *)

OthersKept(s) ==
  \A t \in Sessions : t # s => /\ state'[t] = state[t] /\ resv'[t] = resv[t]
                               /\ lease'[t] = lease[t] /\ used'[t] = used[t]

\* The session agrees with the step its thread goes to, and its lease with
\* the budget.
Agrees(r, step, s) ==
  /\ state'[s] \in EntryStates /\ resv'[s] \in {r, NoRequest}
  /\ step \in ReservedSteps => state'[s] = "request_reserved" /\ resv'[s] = r
  /\ step \in IntentSteps => state'[s] = "signing_intent" /\ resv'[s] = r
  /\ step = "finalize" => state'[s] = "signed" /\ resv'[s] = r
  /\ step \notin OwnSteps => resv'[s] # r
  /\ lease'[s] # NoLease => /\ state'[s] = "active" => lease'[s] = used'[s]
                            /\ state'[s] \in Reserved => lease'[s] + 1 = used'[s]

\* No other thread owns the session.
Alone(r, s) == \A q \in Requests : q # r /\ SessionOf[q] = s => pc[q] \notin OwnSteps

\* The thread that owns its session, or the first to take it, moves it.
LEMMA OwnerMoved ==
  ASSUME SigningInv, RegistryInv', NEW r \in Requests, NEW step \in Steps, pc' = [pc EXCEPT ![r] = step],
         NEW s, s = SessionOf[r], Alone(r, s), state[s] # "absent", UNCHANGED <<started, calls>>,
         OthersKept(s), Agrees(r, step, s),
         LeaseUsed[s] + Cardinality(Charged(s)') <= used'[s]
  PROVE  SessionPart'
<1>1. /\ pc'[r] = step /\ \A q \in Requests : q # r => pc'[q] = pc[q]
  BY ThreadMoved
<1>2. s \in Sessions /\ r # NoRequest
  BY SessionTyped
<1> USE DEF OthersKept, Agrees, Alone
<1>3. SessionsStarted'
  <2>1. EntryStates \cap Unpublished = {}
    BY DEF EntryStates, Reserved, Terminal, Losses, Unpublished
  <2> QED BY <1>2, <2>1 DEF SigningInv, SessionPart, SessionsStarted
<1>4. ThreadHolds'
  <2> SUFFICES ASSUME NEW q \in Requests
               PROVE  /\ pc'[q] \in ReservedSteps =>
                           (state'[SessionOf[q]] = "request_reserved" /\ resv'[SessionOf[q]] = q) \/ state'[SessionOf[q]] \in Terminal
                      /\ pc'[q] \in IntentSteps =>
                           (state'[SessionOf[q]] = "signing_intent" /\ resv'[SessionOf[q]] = q) \/ state'[SessionOf[q]] \in Terminal
                      /\ pc'[q] = "finalize" =>
                           (state'[SessionOf[q]] = "signed" /\ resv'[SessionOf[q]] = q) \/ state'[SessionOf[q]] \in Terminal
                      /\ pc'[q] \notin OwnSteps => resv'[SessionOf[q]] # q
    BY DEF ThreadHolds, Holds
  <2>1. SessionOf[q] \in Sessions /\ q # NoRequest
    BY SessionTyped
  <2>2. CASE q = r
    BY <1>1, <2>2
  <2>3. CASE q # r /\ SessionOf[q] = s
    BY <1>1, <2>1, <2>3 DEF OwnSteps
  <2>4. CASE q # r /\ SessionOf[q] # s
    BY <1>1, <2>1, <2>4 DEF SigningInv, SessionPart, ThreadHolds, Holds
  <2> QED BY <2>2, <2>3, <2>4
<1>5. OneOwner'
  BY <1>1 DEF SigningInv, SessionPart, OneOwner
<1>6. LeaseTracks'
  BY DEF SigningInv, SessionPart, LeaseTracks
<1>7. UnitsCharged'
  <2> SUFFICES ASSUME NEW t \in Sessions
               PROVE  Published(t)' => LeaseUsed[t] + Cardinality(Charged(t)') <= used'[t]
    BY DEF UnitsCharged
  <2>1. CASE t = s
    BY <2>1
  <2>2. CASE t # s
    <3>1. Charged(t)' \subseteq Charged(t)
      BY <1>1, <2>2 DEF Charged
    <3>2. used'[t] \in Nat /\ used[t] <= used'[t] /\ (Published(t)' => Published(t))
      BY <2>2 DEF Published, SigningInv, SessionPart, RegistryInv, RegistryTypeOK
    <3> QED BY <3>1, <3>2, UnitsKept
  <2> QED BY <2>1, <2>2
<1> QED BY <1>3, <1>4, <1>5, <1>6, <1>7 DEF SessionPart

\* A thread at such a step is alone with its session.
LEMMA OwnerAlone ==
  ASSUME SigningInv, NEW r \in Requests, pc[r] \in OwnSteps
  PROVE  Alone(r, SessionOf[r]) /\ state[SessionOf[r]] # "absent"
<1>1. "absent" \notin EntryStates
  BY DEF EntryStates, Reserved, Terminal, Losses
<1> QED BY <1>1, OwnerPublished DEF SigningInv, SessionPart, OneOwner, Published, Alone

\* A step of the registry and of a thread, with the ledger left alone.
LEMMA OwnerQuiet ==
  ASSUME SigningInv, SessionPart', NEW r \in Requests, NEW step \in Steps, pc' = [pc EXCEPT ![r] = step],
         lease' \in Leases, UNCHANGED <<storeVars, started, live, handoff, calls, replied>>,
         HonestStep(r, step)
  PROVE  SigningInv'
<1>1. LedgerPart'
  BY HonestThread, LedgerKept
<1>2. /\ StoreTypeOK' /\ replied' \subseteq Requests /\ handoff' \in Handoffs
      /\ pc' \in [Requests -> Steps] /\ calls' \in [Requests -> Nat]
  BY ThreadMoved DEF SigningInv, TypeOK, StoreTypeOK, storeVars, Handoffs
<1>3. TypeOK'
  BY <1>2, ThreadTyped
<1> QED BY <1>1, <1>3 DEF SigningInv

\* A request of the registry keeps the registry's invariant.
LEMMA RequestKept ==
  ASSUME SigningInv, NEW r \in Requests,
         \/ Reserve(r) \/ ReserveExpired(r) \/ BeginSigningIntent(r) \/ RecordSigned(r)
         \/ FinalizeSigning(r) \/ ReleaseBeforeKey(r) \/ MarkOutcomeUnknown(r)
  PROVE  RegistryInv'
<1>1. RequestStep
  BY DEF RequestStep
<1> QED BY <1>1, RequestInv DEF SigningInv, SessionPart

\* What the registry's variables are, for one session.
LEMMA EntryTyped ==
  ASSUME SigningInv, NEW s \in Sessions
  PROVE  /\ state \in [Sessions -> Places] /\ used \in [Sessions -> Nat]
         /\ resv \in [Sessions -> Requests \cup {NoRequest}] /\ lease \in Leases
         /\ used[s] \in Nat /\ LeaseUsed[s] \in Nat /\ lease[s] \in Nat \cup {NoLease}
         /\ IsFiniteSet(Charged(s)) /\ Cardinality(Charged(s)) \in Nat
         /\ Published(s) => LeaseUsed[s] + Cardinality(Charged(s)) <= used[s]
<1>1. IsFiniteSet(Charged(s)) /\ Cardinality(Charged(s)) \in Nat
  BY ChargedFinite
<1>2. LeaseUsed[s] \in Nat
  BY RegistryAssumption
<1>3. Published(s) => LeaseUsed[s] + Cardinality(Charged(s)) <= used[s]
  BY DEF SigningInv, SessionPart, UnitsCharged
<1> QED BY <1>1, <1>2, <1>3 DEF SigningInv, TypeOK, RegistryTypeOK, Leases

LEMMA ReserveStep == ASSUME SigningInv, NEW r \in Requests, ReserveSigningRequest(r) PROVE SigningInv'
<1>0. PICK s : s = SessionOf[r]
  OBVIOUS
<1>1. /\ pc[r] = "reserve" /\ pc[r] \in BeforeSteps /\ UNCHANGED <<storeVars, coordinatorVars, handoff, calls, replied>>
      /\ UNCHANGED <<started, live, lease>>
  BY DEF ReserveSigningRequest, BeforeSteps, coordinatorVars
<1>2. s \in Sessions /\ lease' \in Leases /\ handoff' \in Handoffs /\ LeasesShrink
  BY <1>0, <1>1, SessionTyped DEF SigningInv, TypeOK, Leases, Handoffs, LeasesShrink
<1>3. CASE Reserve(r) /\ Goto(r, "admit")
  <2>1. /\ state[s] = "active" /\ state' = [state EXCEPT ![s] = "request_reserved"]
        /\ used' = [used EXCEPT ![s] = @ + 1] /\ resv' = [resv EXCEPT ![s] = r]
    BY <1>0, <1>3 DEF Reserve, CanReserve
  <2>2. RegistryInv'
    BY <1>3, RequestKept
  <2>3. "admit" \in Steps /\ "admit" \in ReservedSteps /\ "admit" \notin IntentSteps /\ "admit" \in OwnSteps
    BY DEF Steps, ReservedSteps, IntentSteps, OwnSteps
  <2>4. pc' = [pc EXCEPT ![r] = "admit"]
    BY <1>3 DEF Goto
  <2>5. pc'[r] = "admit" /\ \A q \in Requests : q # r => pc'[q] = pc[q]
    BY <2>3, <2>4, ThreadMoved
  <2>6. Alone(r, s)
    <3>1. "active" \notin {"request_reserved", "signing_intent", "signed"} \cup Terminal
      BY DEF Terminal, Losses
    <3> QED BY <1>0, <2>1, <3>1, OwnerPublished DEF Alone
  <2>7. /\ state'[s] = "request_reserved" /\ resv'[s] = r /\ used'[s] = used[s] + 1
        /\ OthersKept(s)
    BY <1>1, <1>2, <2>1, EntryTyped DEF OthersKept
  <2>8. lease'[s] # NoLease => /\ state'[s] = "active" => lease'[s] = used'[s]
                               /\ state'[s] \in Reserved => lease'[s] + 1 = used'[s]
    BY <1>1, <1>2, <2>1, <2>7 DEF SigningInv, SessionPart, LeaseTracks
  <2>9. LeaseUsed[s] + Cardinality(Charged(s)') <= used'[s]
    <3>1. Charged(s)' \subseteq Charged(s) \cup {r}
      BY <1>0, <1>1, <2>5 DEF Charged
    <3>2. /\ IsFiniteSet(Charged(s) \cup {r})
          /\ Cardinality(Charged(s) \cup {r}) \in Nat /\ Cardinality(Charged(s) \cup {r}) <= Cardinality(Charged(s)) + 1
      <4>1. IsFiniteSet(Charged(s)) /\ Cardinality(Charged(s)) \in Nat
        BY <1>2, EntryTyped
      <4>2. /\ IsFiniteSet(Charged(s) \cup {r})
            /\ Cardinality(Charged(s) \cup {r}) = IF r \in Charged(s) THEN Cardinality(Charged(s)) ELSE Cardinality(Charged(s)) + 1
        BY <4>1, FS_AddElement
      <4> QED BY <4>1, <4>2
    <3>3. Cardinality(Charged(s)') \in Nat /\ Cardinality(Charged(s)') <= Cardinality(Charged(s) \cup {r})
      BY <3>1, <3>2, FS_Subset, FS_CardinalityType
    <3>4. Published(s)
      BY <2>1 DEF Published, EntryStates
    <3> QED BY <1>2, <2>7, <3>2, <3>3, <3>4, EntryTyped
  <2>10. state'[s] \in EntryStates /\ state[s] # "absent"
    BY <2>1, <2>7 DEF EntryStates, Reserved
  <2>11. Agrees(r, "admit", s)
    BY <2>3, <2>7, <2>8, <2>10 DEF Agrees
  <2>12. SessionPart'
    BY <1>0, <1>1, <2>2, <2>3, <2>4, <2>6, <2>7, <2>9, <2>10, <2>11, OwnerMoved
  <2>13. HonestStep(r, "admit")
    BY <1>1 DEF HonestStep
  <2> QED BY <1>1, <1>2, <2>3, <2>4, <2>12, <2>13, OwnerQuiet
<1>4. CASE ReserveExpired(r) /\ Goto(r, "idle")
  <2>1. Drop(s, "expired") /\ Published(s) /\ "expired" \in Terminal
    BY <1>0, <1>4 DEF ReserveExpired, Published, EntryStates, Terminal, Losses
  <2>2. RegistryInv' /\ EntriesEnd
    BY <1>2, <2>1, DropEnds
  <2> QED BY <1>1, <1>2, <1>4, <2>2, FreeNames, FreeMove
<1>5. CASE Goto(r, "idle") /\ UNCHANGED registryVars
  <2>1. RegistryInv' /\ EntriesEnd
    BY <1>5, RegistryKept
  <2> QED BY <1>1, <1>2, <1>5, <2>1, FreeNames, FreeMove
<1> QED BY <1>3, <1>4, <1>5 DEF ReserveSigningRequest

\* A move of the session that costs nothing.
LEMMA OwnerMovedFree ==
  ASSUME SigningInv, RegistryInv', NEW r \in Requests, NEW step \in Steps, pc' = [pc EXCEPT ![r] = step],
         NEW s, s = SessionOf[r], pc[r] \in OwnSteps, UNCHANGED <<started, calls>>,
         OthersKept(s), Agrees(r, step, s), used' = used,
         step \in UnitSteps => pc[r] \in UnitSteps
  PROVE  SessionPart'
<1>1. /\ pc'[r] = step /\ \A q \in Requests : q # r => pc'[q] = pc[q]
  BY ThreadMoved
<1>2. s \in Sessions /\ Published(s) /\ Alone(r, s) /\ state[s] # "absent"
  BY OwnerPublished, OwnerAlone
<1>3. Charged(s)' \subseteq Charged(s)
  BY <1>1 DEF Charged
<1>4. used'[s] \in Nat /\ used[s] <= used'[s]
  BY <1>2, EntryTyped
<1>5. Published(s)'
  BY DEF Agrees, Published
<1>6. LeaseUsed[s] + Cardinality(Charged(s)') <= used'[s]
  BY <1>2, <1>3, <1>4, <1>5, UnitsKept
<1> QED BY <1>2, <1>6, OwnerMoved

LEMMA BeginIntentStep == ASSUME SigningInv, NEW r \in Requests, BeginIntent(r) PROVE SigningInv'
<1>0. PICK s : s = SessionOf[r]
  OBVIOUS
<1>1. /\ pc[r] = "begin" /\ UNCHANGED <<storeVars, coordinatorVars, handoff, calls, replied>>
      /\ UNCHANGED <<started, live, lease>>
  BY DEF BeginIntent, coordinatorVars
<1>2. /\ s \in Sessions /\ lease' \in Leases /\ handoff' \in Handoffs /\ LeasesShrink
      /\ pc[r] \in ReservedSteps /\ pc[r] \in UnitSteps /\ pc[r] \in BeforeSteps /\ pc[r] \in OwnSteps
  BY <1>0, <1>1, SessionTyped
  DEF SigningInv, TypeOK, Leases, Handoffs, LeasesShrink, ReservedSteps, UnitSteps, BeforeSteps, OwnSteps
<1>3. ASSUME BeginSigningIntent(r), NEW step \in {"mark_intent", "fail_after"}, Goto(r, step)
      PROVE  SigningInv'
  <2>1. /\ state[s] = "request_reserved" /\ resv[s] = r /\ state' = [state EXCEPT ![s] = "signing_intent"]
        /\ used' = used /\ resv' = resv
    BY <1>0, <1>3 DEF BeginSigningIntent, Holds
  <2>2. RegistryInv'
    BY <1>3, RequestKept
  <2>3. step \in Steps /\ step \in IntentSteps /\ step \notin ReservedSteps /\ step # "finalize" /\ step \in OwnSteps
    BY DEF Steps, ReservedSteps, IntentSteps, OwnSteps
  <2>4. pc' = [pc EXCEPT ![r] = step]
    BY <1>3 DEF Goto
  <2>5. state'[s] = "signing_intent" /\ OthersKept(s)
    BY <1>1, <1>2, <2>1, EntryTyped DEF OthersKept
  <2>6. lease[s] # NoLease => lease[s] + 1 = used[s]
    BY <1>2, <2>1 DEF SigningInv, SessionPart, LeaseTracks, Reserved
  <2>7. Agrees(r, step, s)
    BY <1>1, <2>1, <2>3, <2>5, <2>6 DEF Agrees, EntryStates, Reserved
  <2>8. SessionPart'
    BY <1>0, <1>1, <1>2, <2>1, <2>2, <2>3, <2>4, <2>5, <2>7, OwnerMovedFree
  <2>9. HonestStep(r, step)
    BY <1>2 DEF HonestStep
  <2> QED BY <1>1, <1>2, <2>3, <2>4, <2>8, <2>9, OwnerQuiet
<1>4. CASE Goto(r, "fail_before") /\ UNCHANGED registryVars
  <2>1. RegistryInv' /\ EntriesEnd
    BY <1>4, RegistryKept
  <2>2. "fail_before" \in ReservedSteps
    BY DEF ReservedSteps
  <2>3. /\ SameClass(pc[r], "fail_before") /\ "fail_before" \in Steps /\ HonestStep(r, "fail_before")
    BY <1>2, <2>2, OwnClass DEF HonestStep
  <2>4. pc' = [pc EXCEPT ![r] = "fail_before"]
    BY <1>4 DEF Goto
  <2> QED BY <1>1, <1>2, <2>1, <2>3, <2>4, ThreadQuiet
<1> QED BY <1>3, <1>4 DEF BeginIntent

LEMMA RecordSigningStep == ASSUME SigningInv, NEW r \in Requests, RecordSigning(r) PROVE SigningInv'
<1>0. PICK s : s = SessionOf[r]
  OBVIOUS
<1>1. /\ pc[r] = "record_signing" /\ UNCHANGED <<storeVars, coordinatorVars, handoff, calls, replied>>
      /\ UNCHANGED <<started, live, lease>>
  BY DEF RecordSigning, coordinatorVars
<1>2. /\ s \in Sessions /\ lease' \in Leases /\ handoff' \in Handoffs /\ LeasesShrink
      /\ pc[r] \in IntentSteps /\ pc[r] \in OwnSteps
  BY <1>0, <1>1, SessionTyped DEF SigningInv, TypeOK, Leases, Handoffs, LeasesShrink, IntentSteps, OwnSteps
<1>3. CASE RecordSigned(r) /\ Goto(r, "finalize")
  <2>1. /\ state[s] = "signing_intent" /\ resv[s] = r /\ state' = [state EXCEPT ![s] = "signed"]
        /\ used' = used /\ resv' = resv
    BY <1>0, <1>3 DEF RecordSigned, Holds
  <2>2. RegistryInv'
    BY <1>3, RequestKept
  <2>3. /\ "finalize" \in Steps /\ "finalize" \notin IntentSteps /\ "finalize" \notin ReservedSteps
        /\ "finalize" \in OwnSteps /\ "finalize" \notin UnitSteps /\ "finalize" \notin BeforeSteps
    BY DEF Steps, ReservedSteps, IntentSteps, OwnSteps, UnitSteps, BeforeSteps
  <2>4. pc' = [pc EXCEPT ![r] = "finalize"]
    BY <1>3 DEF Goto
  <2>5. state'[s] = "signed" /\ OthersKept(s)
    BY <1>1, <1>2, <2>1, EntryTyped DEF OthersKept
  <2>6. lease[s] # NoLease => lease[s] + 1 = used[s]
    BY <1>2, <2>1 DEF SigningInv, SessionPart, LeaseTracks, Reserved
  <2>7. Agrees(r, "finalize", s)
    BY <1>1, <2>1, <2>3, <2>5, <2>6 DEF Agrees, EntryStates, Reserved
  <2>8. SessionPart'
    BY <1>0, <1>1, <1>2, <2>1, <2>2, <2>3, <2>4, <2>5, <2>7, OwnerMovedFree
  <2>9. HonestStep(r, "finalize")
    BY <2>3 DEF HonestStep
  <2> QED BY <1>1, <1>2, <2>3, <2>4, <2>8, <2>9, OwnerQuiet
<1>4. CASE Goto(r, "fail_after") /\ UNCHANGED registryVars
  <2>1. RegistryInv' /\ EntriesEnd
    BY <1>4, RegistryKept
  <2>2. "fail_after" \in IntentSteps /\ "fail_after" \notin UnitSteps /\ "fail_after" \notin BeforeSteps
    BY DEF IntentSteps, UnitSteps, BeforeSteps, ReservedSteps
  <2>3. /\ SameClass(pc[r], "fail_after") /\ "fail_after" \in Steps /\ HonestStep(r, "fail_after")
    BY <1>2, <2>2, OwnClass DEF HonestStep
  <2>4. pc' = [pc EXCEPT ![r] = "fail_after"]
    BY <1>4 DEF Goto
  <2> QED BY <1>1, <1>2, <2>1, <2>2, <2>3, <2>4, ThreadQuiet
<1> QED BY <1>3, <1>4 DEF RecordSigning

\* A call the registry refuses: the session is over, and its thread leaves.
LEMMA RefusedStep ==
  ASSUME SigningInv, NEW r \in Requests, NEW step \in Steps, Goto(r, step),
         pc[r] \in OwnSteps, state[SessionOf[r]] \in Terminal, step \notin BeforeSteps,
         step # "record", UNCHANGED <<registryVars, lease, storeVars, started, live, handoff, calls, replied>>
  PROVE  SigningInv'
<1>1. pc' = [pc EXCEPT ![r] = step]
  BY DEF Goto
<1>2. step \notin UnitSteps /\ step # "provider"
  BY OwnClass DEF BeforeSteps, UnitSteps
<1>3. SessionPart'
  BY <1>1, <1>2, SessionsLeft
<1>4. HonestStep(r, step)
  BY <1>2 DEF HonestStep
<1>5. lease' \in Leases
  BY DEF SigningInv, TypeOK, Leases
<1> QED BY <1>1, <1>3, <1>4, <1>5, OwnerQuiet

\* finalizeSigning() and updateActiveLease().
LEMMA FinalizeStep == ASSUME SigningInv, NEW r \in Requests, Finalize(r) PROVE SigningInv'
<1>0. PICK s : s = SessionOf[r]
  OBVIOUS
<1>1. pc[r] = "finalize" /\ UNCHANGED <<storeVars, started, live, handoff, calls, replied>>
  BY DEF Finalize
<1>2. s \in Sessions /\ pc[r] \in OwnSteps /\ r # NoRequest
  BY <1>0, <1>1, SessionTyped DEF OwnSteps
<1>3. /\ "complete" \in Steps /\ "fail_final" \in Steps
      /\ "complete" \notin OwnSteps /\ "complete" \notin BeforeSteps /\ "fail_final" \notin BeforeSteps
      /\ "complete" \notin IntentSteps /\ "complete" \notin ReservedSteps /\ "complete" \notin UnitSteps
  BY DEF Steps, OwnSteps, BeforeSteps, UnitSteps, ReservedSteps, IntentSteps
<1>4. CASE /\ FinalizeSigning(r) /\ Goto(r, "complete")
           /\ lease' = [lease EXCEPT ![s] = IF @ = NoLease \/ state'[s] # "active" THEN NoLease ELSE used[s]]
  <2>1. /\ state' = [state EXCEPT ![s] = AfterSigning(s)] /\ resv' = [resv EXCEPT ![s] = NoRequest]
        /\ used' = used
    BY <1>0, <1>4 DEF FinalizeSigning, Drop
  <2>2. RegistryInv'
    BY <1>4, RequestKept
  <2>3. AfterSigning(s) \in {"active"} \cup Terminal
    BY <1>2, AfterSigningLive DEF SigningInv, SessionPart
  <2>4. /\ state'[s] = AfterSigning(s) /\ resv'[s] = NoRequest
        /\ lease'[s] = IF lease[s] = NoLease \/ state'[s] # "active" THEN NoLease ELSE used[s]
        /\ OthersKept(s) /\ lease' \in Leases
    <3>1. used[s] \in Nat
      BY <1>2, EntryTyped
    <3> QED BY <1>2, <1>4, <2>1, <3>1, EntryTyped DEF OthersKept, Leases
  <2>5. state'[s] \in EntryStates /\ state'[s] \notin Reserved
    BY <2>3, <2>4 DEF EntryStates, Reserved, Terminal, Losses
  <2>6. Agrees(r, "complete", s)
    BY <1>2, <1>3, <2>1, <2>4, <2>5 DEF Agrees
  <2>7. pc' = [pc EXCEPT ![r] = "complete"]
    BY <1>4 DEF Goto
  <2>8. SessionPart'
    BY <1>0, <1>1, <1>2, <1>3, <2>1, <2>2, <2>4, <2>6, <2>7, OwnerMovedFree
  <2>9. HonestStep(r, "complete")
    BY <1>3 DEF HonestStep
  <2> QED BY <1>1, <1>3, <2>4, <2>7, <2>8, <2>9, OwnerQuiet
<1>5. CASE ~CanFinalize(r) /\ Goto(r, "fail_final") /\ UNCHANGED <<registryVars, lease>>
  <2>1. state[SessionOf[r]] \in Terminal
    BY <1>1, <1>5 DEF CanFinalize, SigningInv, SessionPart, ThreadHolds
  <2> QED BY <1>1, <1>2, <1>3, <1>5, <2>1, RefusedStep
<1> QED BY <1>0, <1>4, <1>5 DEF Finalize

\* releaseSigningBeforeKey(): the unit of a request whose key was never used.
LEMMA ReleaseStep == ASSUME SigningInv, NEW r \in Requests, Release(r) PROVE SigningInv'
<1>0. PICK s : s = SessionOf[r]
  OBVIOUS
<1>1. /\ pc[r] \in {"release_admit", "release_before"}
      /\ UNCHANGED <<storeVars, coordinatorVars, handoff, calls, replied>>
      /\ UNCHANGED <<started, live, lease>>
  BY DEF Release, coordinatorVars
<1>2. /\ s \in Sessions /\ r # NoRequest
      /\ pc[r] \in ReservedSteps /\ pc[r] \in UnitSteps /\ pc[r] \in BeforeSteps /\ pc[r] \in OwnSteps
  BY <1>0, <1>1, SessionTyped DEF ReservedSteps, UnitSteps, BeforeSteps, OwnSteps
<1>3. /\ "idle" \in Steps /\ "unknown" \in Steps /\ "idle" \notin OwnSteps
      /\ "idle" \notin BeforeSteps /\ "unknown" \notin BeforeSteps
      /\ "idle" \notin IntentSteps /\ "idle" \notin ReservedSteps /\ "idle" \notin UnitSteps
  BY DEF Steps, OwnSteps, BeforeSteps, UnitSteps, ReservedSteps, IntentSteps
<1>4. CASE ReleaseBeforeKey(r) /\ Goto(r, "idle")
  <2>1. /\ state[s] = "request_reserved" /\ state' = [state EXCEPT ![s] = "active"]
        /\ used' = [used EXCEPT ![s] = @ - 1] /\ resv' = [resv EXCEPT ![s] = NoRequest]
    BY <1>0, <1>4 DEF ReleaseBeforeKey, Holds
  <2>2. RegistryInv'
    BY <1>4, RequestKept
  <2>3. /\ state'[s] = "active" /\ resv'[s] = NoRequest /\ used'[s] = used[s] - 1
        /\ OthersKept(s) /\ lease' \in Leases
    BY <1>1, <1>2, <2>1, EntryTyped DEF OthersKept
  <2>4. lease[s] # NoLease => lease[s] + 1 = used[s]
    BY <1>2, <2>1 DEF SigningInv, SessionPart, LeaseTracks, Reserved
  <2>5. lease[s] # NoLease => lease[s] = used'[s]
    BY <1>2, <2>3, <2>4, EntryTyped
  <2>6. Agrees(r, "idle", s)
    BY <1>1, <1>2, <1>3, <2>3, <2>5 DEF Agrees, EntryStates, Reserved
  <2>7. pc' = [pc EXCEPT ![r] = "idle"]
    BY <1>4 DEF Goto
  <2>8. pc'[r] = "idle" /\ \A q \in Requests : q # r => pc'[q] = pc[q]
    BY <1>3, <2>7, ThreadMoved
  <2>9. LeaseUsed[s] + Cardinality(Charged(s)') <= used'[s]
    <3>1. calls[r] = 0
      BY <1>2 DEF SigningInv, LedgerPart, KeyKnown
    <3>2. r \in Charged(s) /\ Charged(s)' = Charged(s) \ {r}
      BY <1>0, <1>1, <1>2, <1>3, <2>8, <3>1 DEF Charged
    <3>3. IsFiniteSet(Charged(s)) /\ Cardinality(Charged(s)) \in Nat
      BY <1>2, EntryTyped
    <3>4. Cardinality(Charged(s) \ {r}) = Cardinality(Charged(s)) - 1
      BY <3>2, <3>3, FS_RemoveElement
    <3>5. Published(s)
      BY <2>1 DEF Published, EntryStates, Reserved
    <3>6. /\ LeaseUsed[s] \in Nat /\ used[s] \in Nat
          /\ LeaseUsed[s] + Cardinality(Charged(s)) <= used[s]
      BY <1>2, <3>5, EntryTyped
    <3> QED BY <2>3, <3>2, <3>3, <3>4, <3>6
  <2>10. Alone(r, s) /\ state[s] # "absent"
    BY <1>0, <1>2, OwnerAlone
  <2>11. SessionPart'
    BY <1>0, <1>1, <1>3, <2>2, <2>3, <2>6, <2>7, <2>9, <2>10, OwnerMoved
  <2>12. HonestStep(r, "idle")
    BY <1>3 DEF HonestStep
  <2> QED BY <1>1, <1>3, <2>3, <2>7, <2>11, <2>12, OwnerQuiet
<1>5. ASSUME ~Holds(r, "request_reserved"), NEW step \in {"idle", "unknown"}, Goto(r, step), UNCHANGED registryVars
      PROVE  SigningInv'
  <2>1. state[SessionOf[r]] \in Terminal
    BY <1>2, <1>5 DEF SigningInv, SessionPart, ThreadHolds
  <2>2. step \in Steps /\ step \notin BeforeSteps /\ step # "record"
    BY <1>3
  <2> QED BY <1>1, <1>2, <1>5, <2>1, <2>2, RefusedStep
<1> QED BY <1>4, <1>5 DEF Release

\* markOutcomeUnknown() ends the session.
LEMMA UnknownStep == ASSUME SigningInv, NEW r \in Requests, Unknown(r) PROVE SigningInv'
<1>0. PICK s : s = SessionOf[r]
  OBVIOUS
<1>1. /\ pc[r] = "unknown" /\ Goto(r, "idle")
      /\ UNCHANGED <<storeVars, started, live, handoff, calls, replied>>
  BY DEF Unknown
<1>2. s \in Sessions /\ pc[r] \in IntentSteps /\ pc[r] \in OwnSteps /\ r # NoRequest
  BY <1>0, <1>1, SessionTyped DEF IntentSteps, OwnSteps
<1>3. /\ "idle" \in Steps /\ "idle" \notin OwnSteps /\ "idle" \notin BeforeSteps
      /\ "idle" \notin IntentSteps /\ "idle" \notin ReservedSteps /\ "idle" \notin UnitSteps
  BY DEF Steps, OwnSteps, BeforeSteps, UnitSteps, ReservedSteps, IntentSteps
<1>4. CASE MarkOutcomeUnknown(r) /\ LoseLease(s)
  <2>1. /\ state' = [state EXCEPT ![s] = "outcome_unknown"] /\ resv' = [resv EXCEPT ![s] = NoRequest]
        /\ used' = used /\ lease' = [lease EXCEPT ![s] = NoLease]
    BY <1>0, <1>4 DEF MarkOutcomeUnknown, Drop, LoseLease
  <2>2. RegistryInv'
    BY <1>4, RequestKept
  <2>3. /\ state'[s] = "outcome_unknown" /\ resv'[s] = NoRequest /\ lease'[s] = NoLease
        /\ OthersKept(s) /\ lease' \in Leases
    BY <1>2, <2>1, EntryTyped DEF OthersKept, Leases
  <2>4. Agrees(r, "idle", s)
    BY <1>2, <1>3, <2>3 DEF Agrees, EntryStates, Terminal
  <2>5. pc' = [pc EXCEPT ![r] = "idle"]
    BY <1>1 DEF Goto
  <2>6. SessionPart'
    BY <1>0, <1>1, <1>2, <1>3, <2>1, <2>2, <2>3, <2>4, <2>5, OwnerMovedFree
  <2>7. HonestStep(r, "idle")
    BY <1>3 DEF HonestStep
  <2> QED BY <1>1, <1>3, <2>3, <2>5, <2>6, <2>7, OwnerQuiet
<1>5. CASE ~Holds(r, "signing_intent") /\ UNCHANGED <<registryVars, lease>>
  <2>1. state[SessionOf[r]] \in Terminal
    BY <1>2, <1>5 DEF SigningInv, SessionPart, ThreadHolds
  <2> QED BY <1>1, <1>2, <1>3, <1>5, <2>1, RefusedStep
<1> QED BY <1>0, <1>4, <1>5 DEF Unknown

-----------------------------------------------------------------------------
(* The process. *)

\* What init makes of the file keeps every record's place.
LEMMA RecoveredPhase ==
  ASSUME StoreTypeOK
  PROVE  /\ Recovered \in [Requests -> Records]
         /\ \A r \in Requests :
              \/ Recovered[r] = file[r]
              \/ file[r].phase = "provider_started" /\ Recovered[r].phase = "uncertain"
<1> DEFINE Rec(r) == IF file[r].phase = "provider_started" THEN NextRecord(file[r], "uncertain", FALSE) ELSE file[r]
<1>1. ASSUME NEW r \in Requests
      PROVE  /\ Rec(r) \in Records
             /\ \/ Rec(r) = file[r]
                \/ file[r].phase = "provider_started" /\ Rec(r).phase = "uncertain"
  <2>1. file[r] \in Records
    BY DEF StoreTypeOK
  <2>2. CASE file[r].phase = "provider_started"
    BY <2>1, <2>2, NextRecordTyped DEF Phases
  <2> QED BY <2>1, <2>2
<1>2. Recovered = [r \in Requests |-> Rec(r)]
  BY DEF Recovered
<1> HIDE DEF Rec
<1> QED BY <1>1, <1>2

\* Opening the file again: everything on disk keeps what it says of the key.
LEMMA RestartStep == ASSUME SigningInv, Restart PROVE SigningInv'
<1>1. UNCHANGED <<registryVars, coordinatorVars, threadVars>> /\ UNCHANGED <<pc, calls, replied>>
  BY DEF Restart, threadVars
<1>2. StoreTypeOK
  BY DEF SigningInv, TypeOK
<1>3. NoRecords \in [Requests -> Records]
  BY DEF NoRecords, Absent, Records, Phases
<1>4. /\ Recovered \in [Requests -> Records]
      /\ \A r \in Requests :
           \/ Recovered[r] = file[r]
           \/ file[r].phase = "provider_started" /\ Recovered[r].phase = "uncertain"
  BY <1>2, RecoveredPhase
<1>5. /\ records' \in [Requests -> Records] /\ file' \in {file, Recovered}
      /\ store' \in {"open", "refused"}
      /\ store' = "open" => records' = Recovered /\ file' = Recovered
  BY <1>2, <1>3, <1>4 DEF Restart, Open, OpenRefused, StoreTypeOK
<1>6. StoreTypeOK'
  BY <1>2, <1>4, <1>5 DEF StoreTypeOK
<1>7. ASSUME NEW r \in Requests
      PROVE  /\ file'[r].phase \in SignedPhases => file[r].phase \in SignedPhases
             /\ file[r].phase \in KeyPhases => file'[r].phase \in KeyPhases
             /\ file[r].phase = "completed" => file'[r].phase = "completed"
             /\ store' = "open" => records'[r] = file'[r]
  BY <1>4, <1>5 DEF SignedPhases, KeyPhases
<1>8. KeyKnown' /\ SignedWasCalled' /\ CompletedOnDisk'
  BY <1>1, <1>7 DEF SigningInv, LedgerPart, KeyKnown, SignedWasCalled, CompletedOnDisk
<1>9. ProviderDurable' /\ ReplyDurable'
  BY <1>1, <1>7 DEF SigningInv, TypeOK, LedgerPart, ProviderDurable, ReplyDurable
<1>10. LedgerPart'
  BY <1>8, <1>9 DEF LedgerPart
<1> QED BY <1>1, <1>6, <1>10, LedgerAlone

\* A crash loses sessions, leases and threads, and what the file says stays.
LEMMA CrashStep == ASSUME SigningInv, Crash PROVE SigningInv'
<1>1. /\ store' = "closed" /\ records' = NoRecords /\ file' = file
      /\ UNCHANGED <<started, handoff, calls, replied>>
      /\ pc' = [r \in Requests |-> "idle"] /\ lease' = [s \in Sessions |-> NoLease]
      /\ state' = [s \in Sessions |-> "absent"] /\ used' = [s \in Sessions |-> 0]
      /\ resv' = [s \in Sessions |-> NoRequest] /\ seen' = [s \in Sessions |-> {}]
  BY DEF Crash, StoreCrash, RegistryEmpty
<1>2. "idle" \in Steps /\ "idle" \notin OwnSteps /\ "idle" \notin BeforeSteps
  BY DEF Steps, OwnSteps, ReservedSteps, IntentSteps, BeforeSteps, UnitSteps
<1>3. RegistryInv'
  BY <1>1, RegistryAssumption
  DEF RegistryInv, RegistryTypeOK, BudgetBound, Accounting, ReservationConsistent, IdentitiesConsumedOnce,
      Reserved, Unpublished, Places, EntryStates, Terminal, Losses
<1>4. SessionPart'
  <2>1. SessionsStarted'
    BY <1>1 DEF SigningInv, SessionPart, SessionsStarted, Unpublished
  <2>2. ThreadHolds' /\ OneOwner'
    BY <1>1, <1>2, SessionTyped DEF ThreadHolds, OneOwner, OwnSteps, Holds
  <2>3. LeaseTracks'
    BY <1>1 DEF LeaseTracks
  <2>4. UnitsCharged'
    BY <1>1 DEF UnitsCharged, Published, EntryStates, Reserved, Terminal, Losses
  <2> QED BY <1>3, <2>1, <2>2, <2>3, <2>4 DEF SessionPart
<1>5. LedgerPart'
  <2>1. KeyKnown'
    BY <1>1, <1>2 DEF SigningInv, LedgerPart, KeyKnown
  <2>2. SignedWasCalled' /\ CompletedOnDisk' /\ ReplyDurable' /\ ProviderDurable'
    BY <1>1 DEF SigningInv, LedgerPart, SignedWasCalled, CompletedOnDisk, ReplyDurable, ProviderDurable
  <2> QED BY <2>1, <2>2 DEF LedgerPart
<1>6. TypeOK'
  <2>1. NoRecords \in [Requests -> Records]
    BY DEF NoRecords, Absent, Records, Phases
  <2>2. live' \in [Connections -> {"live", "revoking", "gone"}]
    BY DEF Crash, SigningInv, TypeOK
  <2>3. StoreTypeOK'
    BY <1>1, <2>1 DEF SigningInv, TypeOK, StoreTypeOK
  <2> QED BY <1>1, <1>2, <1>3, <2>2, <2>3 DEF SigningInv, TypeOK, RegistryInv
<1> QED BY <1>4, <1>5, <1>6 DEF SigningInv

LEMMA SigningInitially == Init => SigningInv
<1> SUFFICES ASSUME Init PROVE SigningInv
  OBVIOUS
<1>1. "idle" \in Steps /\ "idle" \notin OwnSteps /\ "idle" \notin BeforeSteps
  BY DEF Steps, OwnSteps, ReservedSteps, IntentSteps, BeforeSteps, UnitSteps
<1>2. RegistryInv
  BY RegistryInitInv DEF Init
<1>3. NoRecords \in [Requests -> Records] /\ \A r \in Requests : NoRecords[r].phase = "absent"
  BY DEF NoRecords, Absent, Records, Phases
<1>4. TypeOK
  BY <1>1, <1>2, <1>3 DEF Init, StoreInit, TypeOK, StoreTypeOK, RegistryInv
<1>5. SessionPart
  <2>1. SessionsStarted /\ LeaseTracks
    BY DEF Init, RegistryInit, SessionsStarted, LeaseTracks, Unpublished
  <2>2. ThreadHolds /\ OneOwner
    BY <1>1, SessionTyped DEF Init, RegistryInit, ThreadHolds, OneOwner, OwnSteps, Holds
  <2>3. UnitsCharged
    BY DEF Init, RegistryInit, UnitsCharged, Published, EntryStates, Reserved, Terminal, Losses
  <2> QED BY <1>2, <2>1, <2>2, <2>3 DEF SessionPart
<1>6. LedgerPart
  <2>1. KeyKnown
    BY <1>1 DEF Init, KeyKnown
  <2>2. SignedWasCalled /\ CompletedOnDisk /\ ReplyDurable /\ ProviderDurable
    BY <1>3 DEF Init, StoreInit, SignedWasCalled, SignedPhases, CompletedOnDisk, ReplyDurable, ProviderDurable
  <2> QED BY <2>1, <2>2 DEF LedgerPart
<1> QED BY <1>4, <1>5, <1>6 DEF SigningInv

-----------------------------------------------------------------------------
(* The theorems. *)

LEMMA ThreadStepInv == ASSUME SigningInv, NEW r \in Requests, ThreadStep(r) PROVE SigningInv'
<1>1. CASE MakeHandoff(r) \/ VerifyLive(r) \/ ReserveSigningRequest(r) \/ AdmitTransaction(r)
  BY <1>1, MakeHandoffStep, VerifyLiveStep, ReserveStep, AdmitStep
<1>2. CASE BeginIntent(r) \/ MarkIntentStep(r) \/ MarkProviderStartedStep(r) \/ InvokeProvider(r)
  BY <1>2, BeginIntentStep, MarkIntentInv, MarkProviderStartedInv, InvokeProviderInv
<1>3. CASE RecordVerifiedStep(r) \/ RecordSigning(r) \/ Finalize(r) \/ CompleteStep(r) \/ Recover(r)
  BY <1>3, RecordVerifiedInv, RecordSigningStep, FinalizeStep, CompleteInv, RecoverStep
<1>4. CASE FailBefore(r) \/ FailAfter(r) \/ FailFinal(r) \/ Release(r) \/ Unknown(r)
  BY <1>4, FailSteps, ReleaseStep, UnknownStep
<1> QED BY <1>1, <1>2, <1>3, <1>4 DEF ThreadStep

LEMMA SigningInductive == SigningInv /\ [Next]_vars => SigningInv'
<1> SUFFICES ASSUME SigningInv, [Next]_vars PROVE SigningInv'
  OBVIOUS
<1>1. CASE \E r \in Requests : ThreadStep(r)
  BY <1>1, ThreadStepInv
<1>2. CASE \E r \in Requests : Arrival(r)
  BY <1>2, SubmitStep, ReplayCompletedStep, ReplayVerifiedStep, ReplayElsewhereStep DEF Arrival
<1>3. CASE \E s \in Sessions : Start(s) \/ StatusCall(s) \/ CloseCall(s)
  BY <1>3, StartStep, StatusCallStep, CloseCallStep
<1>4. CASE \E c \in Connections : InvalidateConnection(c) \/ SweepConnection(c) \/ SweepAgain(c)
  BY <1>4, InvalidateConnectionStep, SweepStep
<1>5. CASE Crash
  BY <1>5, CrashStep
<1>6. CASE Restart
  BY <1>6, RestartStep
<1>7. CASE UNCHANGED vars
  <2>1. UNCHANGED <<registryVars, coordinatorVars, threadVars>> /\ UNCHANGED storeVars
    BY <1>7 DEF vars
  <2>2. UNCHANGED <<calls, replied>> /\ ThreadsHonest
    BY <2>1 DEF threadVars, ThreadsHonest
  <2>3. LedgerPart'
    BY <2>1, <2>2, LedgerKept
  <2>4. StoreTypeOK'
    BY <2>1 DEF SigningInv, TypeOK, StoreTypeOK, storeVars
  <2> QED BY <2>1, <2>3, <2>4, LedgerAlone
<1> QED BY <1>1, <1>2, <1>3, <1>4, <1>5, <1>6, <1>7 DEF Next

\* The inductive invariant holds through every interleaving of adapters,
\* status, close, invalidation, failed writes, crashes and restarts.
THEOREM SigningInvariance == Spec => []SigningInv
<1>1. Init => SigningInv
  BY SigningInitially
<1>2. SigningInv /\ [Next]_vars => SigningInv'
  BY SigningInductive
<1> QED BY <1>1, <1>2, PTL DEF Spec

\* Every variable of the adapter, the coordinator, the registry and the ledger
\* keeps its shape.
THEOREM SigningTyping == Spec => []TypeOK
<1>1. SigningInv => TypeOK
  BY DEF SigningInv
<1> QED BY <1>1, SigningInvariance, PTL

\* markProviderStarted() is durable before the provider runs, and stays so:
\* memory and disk say of every used key that it may have been used, through
\* failed writes, other requests' rewrites, crashes and restarts.
THEOREM SigningProviderDurable == Spec => []ProviderDurable
<1>1. SigningInv => ProviderDurable
  BY DEF SigningInv, LedgerPart
<1> QED BY <1>1, SigningInvariance, PTL

\* A signature that complete() or a replay returned is on disk as completed.
THEOREM SigningReplyDurable == Spec => []ReplyDurable
<1>1. SigningInv => ReplyDurable
  BY DEF SigningInv, LedgerPart
<1> QED BY <1>1, SigningInvariance, PTL

\* Two adapters of one session are never at the key together, also when
\* status, close, expiry or revocation took the session from the first.
THEOREM SigningKeyExclusive == Spec => []KeyExclusive
<1>1. SigningInv => KeyExclusive
  <2>1. KeySteps \subseteq OwnSteps
    BY DEF KeySteps, OwnSteps, IntentSteps
  <2> QED BY <2>1 DEF SigningInv, SessionPart, OneOwner, KeyExclusive
<1> QED BY <1>1, SigningInvariance, PTL

\* releaseSigningBeforeKey() never refunds a unit whose key use has begun.
THEOREM SigningBudget == Spec => []BudgetCoversKeyUse
<1>1. SigningInv => BudgetCoversKeyUse
  <2> SUFFICES ASSUME SigningInv, NEW s \in Sessions, Published(s)
               PROVE  LeaseUsed[s] + Cardinality({r \in Requests : SessionOf[r] = s /\ calls[r] > 0}) <= used[s]
    BY DEF BudgetCoversKeyUse
  <2> DEFINE keyed == {r \in Requests : SessionOf[r] = s /\ calls[r] > 0}
  <2>1. keyed \subseteq Charged(s)
    BY DEF Charged
  <2> HIDE DEF keyed
  <2>2. Cardinality(keyed) \in Nat /\ Cardinality(keyed) <= Cardinality(Charged(s))
    BY <2>1, ChargedFinite
  <2>3. /\ LeaseUsed[s] \in Nat /\ used[s] \in Nat /\ Cardinality(Charged(s)) \in Nat
        /\ LeaseUsed[s] + Cardinality(Charged(s)) <= used[s]
    BY EntryTyped
  <2>4. LeaseUsed[s] + Cardinality(keyed) <= used[s]
    BY <2>2, <2>3
  <2> QED BY <2>4 DEF keyed
<1> QED BY <1>1, SigningInvariance, PTL

\* The coordinator never issues a handoff from a lease that disagrees with the
\* budget of an active entry (updateActiveLease, releaseSigningBeforeKey).
THEOREM SigningLease == Spec => []LeaseMirrorsBudget
<1>1. SigningInv => LeaseMirrorsBudget
  BY DEF SigningInv, SessionPart, LeaseTracks, LeaseMirrorsBudget
<1> QED BY <1>1, SigningInvariance, PTL

-----------------------------------------------------------------------------
(* The refinement. *)

\* A key use of the adapter is one the abstract specification allows: the first
\* of its request, within the budget of its session.
LEMMA InvokeIsUseKey ==
  ASSUME SigningInv, NEW r \in Requests, InvokeProvider(r)
  PROVE  Abstract!UseKey(r)
<1>0. PICK s : s = SessionOf[r]
  OBVIOUS
<1>1. /\ pc[r] = "provider" /\ calls' = [calls EXCEPT ![r] = @ + 1] /\ replied' = replied
  BY DEF InvokeProvider
<1>2. pc[r] \in UnitSteps /\ pc[r] \in BeforeSteps /\ pc[r] \in OwnSteps
  BY <1>1 DEF UnitSteps, BeforeSteps, OwnSteps, IntentSteps
<1>3. calls[r] = 0 /\ calls' = [calls EXCEPT ![r] = 1]
  <2>1. calls[r] = 0
    BY <1>2 DEF SigningInv, LedgerPart, KeyKnown
  <2> QED BY <1>1, <2>1 DEF SigningInv, TypeOK
<1>4. s \in Sessions /\ Published(s)
  BY <1>0, <1>2, OwnerPublished
<1> DEFINE keyed == {q \in Requests : SessionOf[q] = s /\ calls[q] > 0}
<1>5. keyed \cup {r} \subseteq Charged(s) /\ r \notin keyed /\ keyed \subseteq Charged(s)
  BY <1>0, <1>2, <1>3 DEF Charged
<1>6. LeaseUsed[s] + Cardinality(keyed) < MaxSignatures[s]
  <2> HIDE DEF keyed
  <2>1. IsFiniteSet(keyed) /\ Cardinality(keyed) \in Nat /\ Cardinality(keyed \cup {r}) <= Cardinality(Charged(s))
    BY <1>5, ChargedFinite
  <2>2. Cardinality(keyed \cup {r}) = Cardinality(keyed) + 1
    BY <1>5, <2>1, FS_AddElement
  <2>3. /\ LeaseUsed[s] \in Nat /\ used[s] \in Nat /\ Cardinality(Charged(s)) \in Nat
        /\ LeaseUsed[s] + Cardinality(Charged(s)) <= used[s]
    BY <1>4, EntryTyped
  <2>4. used[s] <= MaxSignatures[s] /\ MaxSignatures[s] \in Nat
    BY <1>4, RegistryAssumption DEF SigningInv, SessionPart, RegistryInv, BudgetBound
  <2> QED BY <2>1, <2>2, <2>3, <2>4
<1>7. Abstract!Cardinality(Abstract!Keyed(s)) = Cardinality(keyed)
  BY DEF Abstract!Keyed, Abstract!Cardinality, Cardinality
<1> HIDE DEF keyed
<1> QED BY <1>0, <1>1, <1>3, <1>6, <1>7 DEF Abstract!UseKey

\* A signature is handed out, or the abstract state stutters.
LEMMA ReplyIsHandOut ==
  ASSUME SigningInv, NEW r \in Requests, CompleteStep(r) \/ ReplayCompleted(r)
  PROVE  Abstract!HandOut(r) \/ UNCHANGED <<calls, replied>>
<1>1. calls' = calls /\ (replied' = replied \/ replied' = replied \cup {r})
  BY DEF CompleteStep, LedgerStep, ReplayCompleted
<1>2. ASSUME replied' # replied PROVE calls[r] = 1
  <2>1. CASE ReplayCompleted(r)
    BY <2>1 DEF ReplayCompleted, SigningInv, LedgerPart, SignedWasCalled, SignedPhases
  <2>2. CASE CompleteStep(r)
    <3>1. pc'[r] = "idle"
      BY <1>2, <2>2 DEF CompleteStep
    <3>2. \/ \E io \in WriteOutcomes : Complete(r, io)
          \/ pc' = [pc EXCEPT ![r] = "fail_final"]
      BY <2>2 DEF CompleteStep, LedgerStep, Goto
    <3>3. \E io \in WriteOutcomes : Complete(r, io)
      BY <3>1, <3>2 DEF SigningInv, TypeOK
    <3>4. store = "open" /\ records[r].phase \in SignedPhases
      BY <3>3 DEF Complete, CanComplete, SignedPhases
    <3> QED BY <3>4 DEF SigningInv, LedgerPart, SignedWasCalled
  <2> QED BY <2>1, <2>2
<1> QED BY <1>1, <1>2 DEF Abstract!HandOut

\* Every other step of a thread, of the coordinator and of the process leaves
\* what the callers were promised alone.
LEMMA OthersStutter ==
  ASSUME NEW r \in Requests, ThreadStep(r) \/ Arrival(r),
         ~InvokeProvider(r), ~CompleteStep(r), ~ReplayCompleted(r)
  PROVE  UNCHANGED <<calls, replied>>
<1>1. CASE MakeHandoff(r) \/ VerifyLive(r) \/ ReserveSigningRequest(r) \/ AdmitTransaction(r) \/ BeginIntent(r)
  BY <1>1 DEF MakeHandoff, VerifyLive, ReserveSigningRequest, AdmitTransaction, BeginIntent
<1>2. CASE MarkIntentStep(r) \/ MarkProviderStartedStep(r) \/ RecordVerifiedStep(r)
  BY <1>2 DEF MarkIntentStep, MarkProviderStartedStep, RecordVerifiedStep, LedgerStep
<1>3. CASE RecordSigning(r) \/ Finalize(r) \/ Recover(r) \/ Release(r) \/ Unknown(r)
  BY <1>3 DEF RecordSigning, Finalize, Recover, Release, Unknown
<1>4. CASE FailBefore(r) \/ FailAfter(r) \/ FailFinal(r)
  BY <1>4 DEF FailBefore, FailAfter, FailFinal, TryMarkUncertain
<1>5. CASE Submit(r) \/ ReplayVerified(r) \/ ReplayElsewhere(r)
  BY <1>5 DEF Submit, ReplayVerified, ReplayElsewhere, threadVars
<1> QED BY <1>1, <1>2, <1>3, <1>4, <1>5 DEF ThreadStep, Arrival

LEMMA SigningStepMaps ==
  SigningInv /\ [Next]_vars => [Abstract!SignOnceNext]_<<calls, replied>>
<1> SUFFICES ASSUME SigningInv, [Next]_vars
             PROVE  Abstract!SignOnceNext \/ UNCHANGED <<calls, replied>>
  OBVIOUS
<1>1. ASSUME NEW r \in Requests, ThreadStep(r) \/ Arrival(r)
      PROVE  Abstract!SignOnceNext \/ UNCHANGED <<calls, replied>>
  <2>1. CASE InvokeProvider(r)
    BY <2>1, InvokeIsUseKey DEF Abstract!SignOnceNext
  <2>2. CASE CompleteStep(r) \/ ReplayCompleted(r)
    BY <2>2, ReplyIsHandOut DEF Abstract!SignOnceNext
  <2> QED BY <1>1, <2>1, <2>2, OthersStutter
<1>2. CASE \E s \in Sessions : Start(s) \/ StatusCall(s) \/ CloseCall(s)
  BY <1>2 DEF Start, StatusCall, CloseCall, threadVars
<1>3. CASE \E c \in Connections : InvalidateConnection(c) \/ SweepConnection(c) \/ SweepAgain(c)
  BY <1>3 DEF InvalidateConnection, SweepConnection, SweepAgain, threadVars
<1>4. CASE Crash \/ Restart \/ UNCHANGED vars
  BY <1>4 DEF Crash, Restart, vars, threadVars
<1> QED BY <1>1, <1>2, <1>3, <1>4 DEF Next

\* The adapter, the coordinator, the registry and the ledger together implement
\* SignOnce: one key use per request, no more per session than its lease
\* allows, and a signature only for a request the key was used for.
THEOREM SigningImplementsSignOnce == Spec => SignOnceSpec
<1>1. Init => Abstract!SignOnceInit
  BY DEF Init, Abstract!SignOnceInit
<1>2. SigningInv /\ [Next]_vars => [Abstract!SignOnceNext]_<<calls, replied>>
  BY SigningStepMaps
<1> QED BY <1>1, <1>2, SigningInvariance, PTL DEF Spec, SignOnceSpec, Abstract!SignOnceSpec

=============================================================================
