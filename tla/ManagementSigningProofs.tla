----------------------- MODULE ManagementSigningProofs -----------------------
(***************************************************************************)
(* What the management endpoint's sign() promises for any set of requests, *)
(* any capacity of the ledger and any number of failing writes: the key is *)
(* used once and after its audit record, a reply is audited and durable, a *)
(* process that could not audit a key use fails closed, and a recorded     *)
(* signature is not contradicted after a single failure.                   *)
(***************************************************************************)
EXTENDS ManagementSigning, TLAPS

-----------------------------------------------------------------------------
(* The inductive invariant. *)

\* Phases a record can have once the key was used, and those with a signature.
Keyed == {"provider_started", "signed_verified", "completed", "uncertain"}

Signed == {"signed_verified", "completed"}

\* Between processes no call is in progress.
NoCallWhenClosed == store # "open" => pc = "idle" /\ keyed = {}

\* The ledger remembers a key use in the file and in the memory, whichever of
\* the two is ahead, so that no later call takes the request for a new one.
KeyRemembered ==
  \A r \in Requests : calls[r] > 0 =>
    /\ calls[r] = 1 /\ <<r, "intent">> \in audit
    /\ file[r].phase \in Keyed
    /\ store = "open" => records[r].phase \in Keyed

\* A completed record was audited, and the memory never claims a completion
\* or hides a signature that the file does not, respectively does, hold.
CompletionRemembered ==
  \A r \in Requests :
    /\ file[r].phase = "completed" => <<r, "allow">> \in audit
    /\ store = "open" /\ records[r].phase = "completed" => file[r].phase = "completed"
    /\ store = "open" /\ records[r].phase \in {"absent", "intent"} => file[r].phase \notin Signed
    /\ r \in replied => /\ file[r].phase = "completed"
                        /\ store = "open" => records[r].phase = "completed"

\* What the call in progress has already made durable.
CallProgress ==
  /\ pc \in {"authorize", "begin"} => Phase = "absent"
  /\ pc \in {"audit_intent", "revalidate", "mark_started"} => Phase = "intent"
  /\ pc \in {"revalidate", "mark_started", "provider"} => <<cur, "intent">> \in audit
  /\ pc = "provider" => Phase = "provider_started" /\ file[cur].phase = "provider_started" /\ calls[cur] = 0
  /\ pc = "record" => Phase = "provider_started"
  /\ pc \in {"audit_allow", "complete", "replay_audit", "replay_complete"} => Phase = "signed_verified"
  /\ pc \in {"complete", "replay_complete"} => <<cur, "allow">> \in audit

\* A file that holds a signature the memory does not know of took one failing
\* write, and two once the attempt to mark the record has failed as well.
FaultsCounted ==
  /\ pc = "catch" => /\ Phase \in {"absent", "intent", "provider_started", "signed_verified"}
                     /\ Phase # "signed_verified" /\ file[cur].phase \in Signed => faults >= 1
  /\ pc = "mark_unknown" => /\ Phase \in {"intent", "provider_started"}
                            /\ file[cur].phase \in Signed => faults >= 1
  /\ pc = "audit_error" /\ file[cur].phase \in Signed => faults >= 2

\* A key use without its result on the audit log belongs to the call in
\* progress, or authorization is shut and no call is past it.
ClosedOrResolved ==
  \A q \in keyed :
    \/ Resolved(q)
    \/ q = cur /\ pc \in {"record", "audit_allow", "catch", "mark_unknown", "audit_error"}
    \/ ~control /\ pc \in {"idle", "authorize", "replay_audit", "replay_complete", "replay_unknown"}

ManagementInv ==
  /\ TypeOK /\ NoCallWhenClosed /\ KeyRemembered /\ CompletionRemembered
  /\ CallProgress /\ FaultsCounted /\ ClosedOrResolved

-----------------------------------------------------------------------------
(* Writes. *)

LEMMA DiskFaults ==
  ASSUME faults \in Nat, NEW io, Disk(io)
  PROVE  /\ faults' \in Nat /\ faults' >= faults
         /\ io = "ok" => faults' = faults
         /\ io # "ok" => faults' = faults + 1
BY DEF Disk

\* What the call in progress is about.
LEMMA CallTyped ==
  ASSUME ManagementInv, pc # "idle"
  PROVE  /\ cur \in Requests /\ store = "open"
         /\ records[cur] \in Records /\ file[cur] \in Records
         /\ records[cur].phase \in Phases \cup {"absent"}
BY DEF ManagementInv, TypeOK, StoreTypeOK, NoCallWhenClosed, Records

LEMMA NextRecordTyped ==
  ASSUME NEW old \in Records, old.phase # "absent", NEW phase \in Phases, NEW signature \in BOOLEAN
  PROVE  NextRecord(old, phase, signature) \in Records /\ NextRecord(old, phase, signature).phase = phase
BY DEF NextRecord, Records, Phases

\* A rewrite of the file with one new record: the memory follows only a
\* successful write, and the file is as the memory, as it was, or ahead.
LEMMA Written ==
  ASSUME StoreTypeOK, NEW r \in Requests, NEW rec \in Records, NEW io \in WriteOutcomes,
         Persist([records EXCEPT ![r] = rec], io)
  PROVE  /\ StoreTypeOK' /\ store' = store
         /\ \A q \in Requests : q # r => records'[q] = records[q] /\ file'[q] \in {file[q], records[q]}
         /\ io = "ok" => records'[r] = rec /\ file'[r] = rec
         /\ io = "lost" => records' = records /\ file' = file
         /\ io = "landed" => records' = records /\ file'[r] = rec
<1> DEFINE new == [records EXCEPT ![r] = rec]
<1>1. new \in [Requests -> Records] /\ new[r] = rec /\ \A q \in Requests : q # r => new[q] = records[q]
  BY DEF StoreTypeOK
<1> HIDE DEF new
<1>2. /\ records' = IF io = "ok" THEN new ELSE records
      /\ file' = IF io = "lost" THEN file ELSE new
      /\ store' = store
  BY DEF Persist, new
<1> QED BY <1>1, <1>2 DEF StoreTypeOK, WriteOutcomes

\* The memory of the ledger survives a write that moves a record forward.
LEMMA LedgerWrite ==
  ASSUME ManagementInv, store = "open", NEW r \in Requests, NEW rec \in Records, NEW io \in WriteOutcomes,
         Persist([records EXCEPT ![r] = rec], io),
         UNCHANGED <<audit, calls>>,
         records[r].phase # "completed",
         records[r].phase \in Keyed => rec.phase \in Keyed,
         rec.phase = "completed" => <<r, "allow">> \in audit,
         records[r].phase \in {"absent", "intent"} => rec.phase \notin Signed,
         replied' = replied \/ (replied' = replied \cup {r} /\ io = "ok" /\ rec.phase = "completed")
  PROVE  /\ StoreTypeOK' /\ store' = store /\ KeyRemembered' /\ CompletionRemembered'
         /\ io = "ok" => records'[r] = rec /\ file'[r] = rec
         /\ io = "lost" => records' = records /\ file' = file
         /\ io = "landed" => records' = records /\ file'[r] = rec
         /\ replied' \subseteq Requests
<1>1. StoreTypeOK
  BY DEF ManagementInv, TypeOK
<1>2. /\ StoreTypeOK' /\ store' = store
      /\ \A q \in Requests : q # r => records'[q] = records[q] /\ file'[q] \in {file[q], records[q]}
      /\ io = "ok" => records'[r] = rec /\ file'[r] = rec
      /\ io = "lost" => records' = records /\ file' = file
      /\ io = "landed" => records' = records /\ file'[r] = rec
  BY <1>1, Written
<1>3. io \in {"ok", "lost", "landed"}
  BY DEF WriteOutcomes
<1>4. KeyRemembered'
  <2> SUFFICES ASSUME NEW q \in Requests, calls[q] > 0
               PROVE  file'[q].phase \in Keyed /\ records'[q].phase \in Keyed
    BY DEF ManagementInv, KeyRemembered
  <2>1. file[q].phase \in Keyed /\ records[q].phase \in Keyed
    BY DEF ManagementInv, KeyRemembered
  <2> QED BY <1>2, <1>3, <2>1
<1>5. CompletionRemembered'
  <2> SUFFICES ASSUME NEW q \in Requests
               PROVE  /\ file'[q].phase = "completed" => <<q, "allow">> \in audit
                      /\ records'[q].phase = "completed" => file'[q].phase = "completed"
                      /\ records'[q].phase \in {"absent", "intent"} => file'[q].phase \notin Signed
                      /\ q \in replied' => file'[q].phase = "completed" /\ records'[q].phase = "completed"
    BY <1>2 DEF CompletionRemembered
  <2>1. /\ file[q].phase = "completed" => <<q, "allow">> \in audit
        /\ records[q].phase = "completed" => file[q].phase = "completed"
        /\ records[q].phase \in {"absent", "intent"} => file[q].phase \notin Signed
        /\ q \in replied => file[q].phase = "completed" /\ records[q].phase = "completed"
    BY DEF ManagementInv, CompletionRemembered
  <2>2. CASE q # r
    BY <1>2, <2>1, <2>2 DEF Signed
  <2>3. CASE q = r
    BY <1>2, <1>3, <2>1, <2>3 DEF Signed
  <2> QED BY <2>2, <2>3
<1> QED BY <1>2, <1>4, <1>5 DEF ManagementInv, TypeOK

\* A step that leaves the ledger alone and only adds audit records.
LEMMA LedgerKept ==
  ASSUME ManagementInv, UNCHANGED <<storeVars, calls, replied>>,
         audit \subseteq audit', audit' \subseteq Requests \X Decisions
  PROVE  StoreTypeOK' /\ KeyRemembered' /\ CompletionRemembered'
BY DEF ManagementInv, TypeOK, StoreTypeOK, storeVars, KeyRemembered, CompletionRemembered

\* appendAudit.
LEMMA Appended ==
  ASSUME ManagementInv, pc # "idle", NEW decision \in Decisions, NEW io \in WriteOutcomes, Append(decision, io)
  PROVE  /\ audit \subseteq audit' /\ audit' \subseteq Requests \X Decisions
         /\ io # "lost" => <<cur, decision>> \in audit'
         /\ audit' \subseteq audit \cup {<<cur, decision>>}
         /\ faults' \in Nat /\ faults' >= faults
<1>1. cur \in Requests /\ faults \in Nat
  BY CallTyped DEF ManagementInv, TypeOK
<1>2. faults' \in Nat /\ faults' >= faults
  BY <1>1, DiskFaults DEF Append
<1> QED BY <1>1, <1>2 DEF Append, ManagementInv, TypeOK

-----------------------------------------------------------------------------
(* A request arrives. *)

LEMMA SignStep == ASSUME ManagementInv, NEW r \in Requests, Sign(r) PROVE ManagementInv'
<1>1. /\ pc = "idle" /\ store = "open" /\ cur = NoRequest
      /\ UNCHANGED <<storeVars, audit, control, faults, calls, keyed>>
      /\ r # NoRequest
  BY ManagementAssumption DEF Sign, ManagementInv, TypeOK
<1>2. CASE records[r].phase = "completed" /\ replied' = replied \cup {r} /\ UNCHANGED <<pc, cur>>
  <2>1. file[r].phase = "completed"
    BY <1>1, <1>2 DEF ManagementInv, CompletionRemembered
  <2>2. TypeOK'
    BY <1>1, <1>2 DEF ManagementInv, TypeOK, StoreTypeOK, storeVars
  <2>3. KeyRemembered' /\ CompletionRemembered'
    BY <1>1, <1>2, <2>1 DEF ManagementInv, storeVars, KeyRemembered, CompletionRemembered
  <2>4. NoCallWhenClosed' /\ CallProgress' /\ FaultsCounted'
    BY <1>1, <1>2 DEF ManagementInv, NoCallWhenClosed, CallProgress, FaultsCounted, storeVars
  <2>5. ClosedOrResolved'
    BY <1>1, <1>2 DEF ManagementInv, ClosedOrResolved, Resolved
  <2> QED BY <2>2, <2>3, <2>4, <2>5 DEF ManagementInv
<1>3. CASE /\ records[r].phase \in {"absent"} \cup Unfinished /\ cur' = r /\ UNCHANGED replied
           /\ pc' = CASE records[r].phase = "absent" -> "authorize"
                      [] records[r].phase = "signed_verified" -> "replay_audit"
                      [] OTHER -> "replay_unknown"
  <2>1. /\ pc' \in {"authorize", "replay_audit", "replay_unknown"}
        /\ pc' = "authorize" => records[r].phase = "absent"
        /\ pc' = "replay_audit" => records[r].phase = "signed_verified"
    BY <1>3 DEF Unfinished
  <2>2. TypeOK'
    BY <1>1, <1>3, <2>1 DEF ManagementInv, TypeOK, StoreTypeOK, storeVars, Steps
  <2>3. KeyRemembered' /\ CompletionRemembered'
    BY <1>1, <1>3, LedgerKept DEF ManagementInv, TypeOK
  <2>4. NoCallWhenClosed' /\ CallProgress' /\ FaultsCounted'
    BY <1>1, <1>3, <2>1 DEF NoCallWhenClosed, CallProgress, FaultsCounted, storeVars, Phase
  <2>5. ClosedOrResolved'
    BY <1>1, <1>3, <2>1 DEF ManagementInv, ClosedOrResolved, Resolved
  <2> QED BY <2>2, <2>3, <2>4, <2>5 DEF ManagementInv
<1> QED BY <1>2, <1>3 DEF Sign

\* A step of a call that leaves the ledger alone: the type invariant and what
\* the ledger remembers.
LEMMA CallKept ==
  ASSUME ManagementInv, pc # "idle", UNCHANGED <<storeVars, calls, keyed, replied>>,
         audit \subseteq audit', audit' \subseteq Requests \X Decisions,
         faults' \in Nat, control' \in BOOLEAN, pc' \in Steps,
         \/ pc' # "idle" /\ cur' = cur
         \/ pc' = "idle" /\ cur' = NoRequest
  PROVE  TypeOK' /\ NoCallWhenClosed' /\ KeyRemembered' /\ CompletionRemembered'
<1>1. StoreTypeOK' /\ KeyRemembered' /\ CompletionRemembered'
  BY LedgerKept
<1>2. TypeOK' /\ NoCallWhenClosed'
  BY <1>1, CallTyped, ManagementAssumption DEF ManagementInv, TypeOK, NoCallWhenClosed, storeVars
<1> QED BY <1>1, <1>2

\* A step of a call that writes the ledger, likewise.
LEMMA CallWrote ==
  ASSUME ManagementInv, pc # "idle", NEW io \in WriteOutcomes, Disk(io), NEW rec \in Records,
         Persist([records EXCEPT ![cur] = rec], io),
         UNCHANGED <<audit, calls, keyed, control>>,
         records[cur].phase # "completed",
         records[cur].phase \in Keyed => rec.phase \in Keyed,
         rec.phase = "completed" => <<cur, "allow">> \in audit,
         records[cur].phase \in {"absent", "intent"} => rec.phase \notin Signed,
         replied' = replied \/ (replied' = replied \cup {cur} /\ io = "ok" /\ rec.phase = "completed"),
         pc' \in Steps,
         \/ pc' # "idle" /\ cur' = cur
         \/ pc' = "idle" /\ cur' = NoRequest
  PROVE  /\ TypeOK' /\ NoCallWhenClosed' /\ KeyRemembered' /\ CompletionRemembered'
         /\ io = "ok" => records'[cur] = rec /\ file'[cur] = rec /\ faults' = faults
         /\ io = "lost" => records' = records /\ file' = file /\ faults' = faults + 1
         /\ io = "landed" => records' = records /\ file'[cur] = rec /\ faults' = faults + 1
         /\ faults \in Nat /\ io \in {"ok", "lost", "landed"}
<1>1. cur \in Requests /\ store = "open" /\ faults \in Nat
  BY CallTyped DEF ManagementInv, TypeOK
<1>2. /\ StoreTypeOK' /\ store' = store /\ KeyRemembered' /\ CompletionRemembered'
      /\ io = "ok" => records'[cur] = rec /\ file'[cur] = rec
      /\ io = "lost" => records' = records /\ file' = file
      /\ io = "landed" => records' = records /\ file'[cur] = rec
      /\ replied' \subseteq Requests
  BY <1>1, LedgerWrite
<1>3. /\ faults' \in Nat
      /\ io = "ok" => faults' = faults
      /\ io # "ok" => faults' = faults + 1
  BY <1>1, DiskFaults
<1>4. TypeOK' /\ NoCallWhenClosed'
  BY <1>1, <1>2, <1>3, ManagementAssumption DEF ManagementInv, TypeOK, NoCallWhenClosed
<1> QED BY <1>1, <1>2, <1>3, <1>4 DEF WriteOutcomes

-----------------------------------------------------------------------------
(* Replays. *)

LEMMA ReplayAuditStep == ASSUME ManagementInv, ReplayAudit PROVE ManagementInv'
<1>1. PICK io \in WriteOutcomes :
        Append("allow", io) /\ (IF io = "ok" THEN Goto("replay_complete") ELSE Leave)
  BY DEF ReplayAudit
<1>2. pc = "replay_audit" /\ UNCHANGED <<storeVars, control, calls, keyed, replied>>
  BY DEF ReplayAudit
<1>3. /\ audit \subseteq audit' /\ audit' \subseteq Requests \X Decisions
      /\ io # "lost" => <<cur, "allow">> \in audit'
      /\ faults' \in Nat
  BY <1>1, <1>2, Appended DEF Decisions
<1>4. \/ pc' = "replay_complete" /\ cur' = cur /\ <<cur, "allow">> \in audit'
      \/ pc' = "idle" /\ cur' = NoRequest
  BY <1>1, <1>3 DEF Goto, Leave
<1>5. TypeOK' /\ NoCallWhenClosed' /\ KeyRemembered' /\ CompletionRemembered'
  <2>1. pc' \in Steps /\ control' \in BOOLEAN
    BY <1>2, <1>4 DEF Steps, ManagementInv, TypeOK
  <2> QED BY <1>2, <1>3, <1>4, <2>1, CallKept
<1>6. CallProgress' /\ FaultsCounted'
  BY <1>2, <1>4 DEF ManagementInv, CallProgress, FaultsCounted, storeVars, Phase
<1>7. ClosedOrResolved'
  BY <1>2, <1>3, <1>4 DEF ManagementInv, ClosedOrResolved, Resolved
<1> QED BY <1>5, <1>6, <1>7 DEF ManagementInv

\* complete() of a verified record.
LEMMA CompleteWrites ==
  ASSUME ManagementInv, pc \in {"complete", "replay_complete"}, NEW io, Complete(cur, io)
  PROVE  /\ cur \in Requests /\ records[cur] \in Records /\ records[cur].phase = "signed_verified"
         /\ NextRecord(records[cur], "completed", records[cur].signature) \in Records
         /\ NextRecord(records[cur], "completed", records[cur].signature).phase = "completed"
         /\ Persist([records EXCEPT ![cur] = NextRecord(records[cur], "completed", records[cur].signature)], io)
<1>1. cur \in Requests /\ records[cur] \in Records /\ records[cur].phase = "signed_verified"
  BY CallTyped DEF ManagementInv, CallProgress, Phase
<1>2. records[cur].signature \in BOOLEAN
  BY <1>1 DEF Records
<1>3. /\ NextRecord(records[cur], "completed", records[cur].signature) \in Records
      /\ NextRecord(records[cur], "completed", records[cur].signature).phase = "completed"
  BY <1>1, <1>2, NextRecordTyped DEF Phases
<1> QED BY <1>1, <1>3 DEF Complete

LEMMA ReplayCompleteStep == ASSUME ManagementInv, ReplayComplete PROVE ManagementInv'
<1>1. PICK io \in WriteOutcomes :
        /\ Disk(io)
        /\ Complete(cur, io)
        /\ replied' = IF io = "ok" THEN replied \cup {cur} ELSE replied
  BY DEF ReplayComplete
<1>2. /\ pc = "replay_complete" /\ pc' = "idle" /\ cur' = NoRequest
      /\ UNCHANGED <<audit, control, calls, keyed>>
  BY DEF ReplayComplete, Leave
<1> DEFINE rec == NextRecord(records[cur], "completed", records[cur].signature)
<1>3. /\ cur \in Requests /\ records[cur].phase = "signed_verified"
      /\ rec \in Records /\ rec.phase = "completed"
      /\ Persist([records EXCEPT ![cur] = rec], io)
  BY <1>1, <1>2, CompleteWrites
<1> HIDE DEF rec
<1>4. <<cur, "allow">> \in audit
  BY <1>2 DEF ManagementInv, CallProgress
<1>5. TypeOK' /\ NoCallWhenClosed' /\ KeyRemembered' /\ CompletionRemembered'
  BY <1>1, <1>2, <1>3, <1>4, CallWrote DEF Keyed, Steps
<1>6. CallProgress' /\ FaultsCounted'
  BY <1>2 DEF CallProgress, FaultsCounted
<1>7. ClosedOrResolved'
  BY <1>2 DEF ManagementInv, ClosedOrResolved, Resolved
<1> QED BY <1>5, <1>6, <1>7 DEF ManagementInv

\* markUncertain() writes the record of the call.
LEMMA UncertainWrites ==
  ASSUME ManagementInv, pc # "idle", NEW io, MarkUncertain(cur, io)
  PROVE  \E rec \in Records : /\ rec.phase = "uncertain"
                              /\ records[cur].phase \in Unfinished
                              /\ Persist([records EXCEPT ![cur] = rec], io)
<1>1. /\ records[cur] \in Records /\ records[cur].phase \in Unfinished
      /\ Persist([records EXCEPT ![cur] =
            NextRecord(records[cur], "uncertain", FALSE \/ records[cur].signature)], io)
  BY CallTyped DEF MarkUncertain, Move, CanMove
<1>2. /\ NextRecord(records[cur], "uncertain", FALSE \/ records[cur].signature) \in Records
      /\ NextRecord(records[cur], "uncertain", FALSE \/ records[cur].signature).phase = "uncertain"
  BY <1>1, NextRecordTyped DEF Phases, Unfinished
<1> QED BY <1>1, <1>2

LEMMA ReplayUnknownStep == ASSUME ManagementInv, ReplayUnknown PROVE ManagementInv'
<1>1. PICK io \in WriteOutcomes : Disk(io) /\ MarkUncertain(cur, io)
  BY DEF ReplayUnknown
<1>2. /\ pc = "replay_unknown" /\ pc' = "idle" /\ cur' = NoRequest
      /\ UNCHANGED <<audit, control, calls, keyed, replied>>
  BY DEF ReplayUnknown, Leave
<1>3. PICK rec \in Records : /\ rec.phase = "uncertain" /\ records[cur].phase \in Unfinished
                             /\ Persist([records EXCEPT ![cur] = rec], io)
  BY <1>1, <1>2, UncertainWrites
<1>4. TypeOK' /\ NoCallWhenClosed' /\ KeyRemembered' /\ CompletionRemembered'
  BY <1>1, <1>2, <1>3, CallWrote DEF Keyed, Signed, Unfinished, Steps
<1>5. CallProgress' /\ FaultsCounted'
  BY <1>2 DEF CallProgress, FaultsCounted
<1>6. ClosedOrResolved'
  BY <1>2 DEF ManagementInv, ClosedOrResolved, Resolved
<1> QED BY <1>4, <1>5, <1>6 DEF ManagementInv

-----------------------------------------------------------------------------
(* A new request. *)

LEMMA AuthorizeStep == ASSUME ManagementInv, Authorize PROVE ManagementInv'
<1>1. pc = "authorize" /\ UNCHANGED <<storeVars, audit, calls, keyed, replied>>
  BY DEF Authorize
<1>2. CASE control /\ pc' = "begin" /\ cur' = cur /\ UNCHANGED <<control, faults>>
  <2>1. TypeOK' /\ NoCallWhenClosed' /\ KeyRemembered' /\ CompletionRemembered'
    <3>1. pc' \in Steps /\ control' \in BOOLEAN /\ faults' \in Nat /\ audit' \subseteq Requests \X Decisions
      BY <1>1, <1>2 DEF Steps, ManagementInv, TypeOK
    <3> QED BY <1>1, <1>2, <3>1, CallKept
  <2>2. CallProgress' /\ FaultsCounted'
    BY <1>1, <1>2 DEF ManagementInv, CallProgress, FaultsCounted, storeVars, Phase
  <2>3. ClosedOrResolved'
    BY <1>1, <1>2 DEF ManagementInv, ClosedOrResolved, Resolved
  <2> QED BY <2>1, <2>2, <2>3 DEF ManagementInv
<1>3. CASE /\ \E io \in WriteOutcomes : Disk(io) /\ control' = (control /\ io = "ok")
           /\ pc' = "idle" /\ cur' = NoRequest
  <2>1. faults' \in Nat /\ control' \in BOOLEAN /\ (~control => ~control')
    BY <1>3, DiskFaults DEF ManagementInv, TypeOK
  <2>2. TypeOK' /\ NoCallWhenClosed' /\ KeyRemembered' /\ CompletionRemembered'
    <3>1. pc' \in Steps /\ audit' \subseteq Requests \X Decisions
      BY <1>1, <1>3 DEF Steps, ManagementInv, TypeOK
    <3> QED BY <1>1, <1>3, <2>1, <3>1, CallKept
  <2>3. CallProgress' /\ FaultsCounted'
    BY <1>3 DEF CallProgress, FaultsCounted
  <2>4. ClosedOrResolved'
    BY <1>1, <1>3, <2>1 DEF ManagementInv, ClosedOrResolved, Resolved
  <2> QED BY <2>2, <2>3, <2>4 DEF ManagementInv
<1> QED BY <1>2, <1>3 DEF Authorize, Goto, Leave

\* begin(): the first durable record of a request, or the catch block.
LEMMA BeginStep == ASSUME ManagementInv, BeginTransaction PROVE ManagementInv'
<1>1. /\ pc = "begin" /\ cur \in Requests /\ cur' = cur /\ Phase = "absent" /\ file[cur].phase \notin Signed
      /\ UNCHANGED <<audit, control, calls, keyed, replied>>
  <2>1. pc = "begin" /\ cur' = cur /\ UNCHANGED <<audit, control, calls, keyed, replied>>
    BY DEF BeginTransaction, LedgerStep, Goto
  <2> QED BY <2>1, CallTyped DEF ManagementInv, CallProgress, CompletionRemembered, Phase
<1>2. CASE pc' = "catch" /\ UNCHANGED <<storeVars, faults>>
  <2>1. TypeOK' /\ NoCallWhenClosed' /\ KeyRemembered' /\ CompletionRemembered'
    <3>1. pc' \in Steps /\ control' \in BOOLEAN /\ faults' \in Nat /\ audit' \subseteq Requests \X Decisions
      BY <1>1, <1>2 DEF Steps, ManagementInv, TypeOK
    <3> QED BY <1>1, <1>2, <3>1, CallKept
  <2>2. CallProgress' /\ FaultsCounted'
    BY <1>1, <1>2 DEF CallProgress, FaultsCounted, storeVars, Phase
  <2>3. ClosedOrResolved'
    BY <1>1, <1>2 DEF ManagementInv, ClosedOrResolved, Resolved
  <2> QED BY <2>1, <2>2, <2>3 DEF ManagementInv
<1>3. CASE LedgerStep("begin", LegacyBegin, "audit_intent")
  <2>1. PICK io \in WriteOutcomes :
          Disk(io) /\ LegacyBegin(cur, io) /\ pc' = IF io = "ok" THEN "audit_intent" ELSE "catch"
    BY <1>3 DEF LedgerStep, Goto
  <2> DEFINE rec == [phase |-> "intent", sequence |-> 1, previous |-> "none", signature |-> FALSE, authority |-> FALSE]
  <2>2. rec \in Records /\ rec.phase = "intent" /\ Persist([records EXCEPT ![cur] = rec], io)
    BY <2>1 DEF LegacyBegin, Records, Phases
  <2> HIDE DEF rec
  <2>3. /\ TypeOK' /\ NoCallWhenClosed' /\ KeyRemembered' /\ CompletionRemembered'
        /\ io = "ok" => records'[cur] = rec
        /\ io = "lost" => records' = records /\ file' = file
        /\ io = "landed" => records' = records /\ file'[cur] = rec
        /\ io \in {"ok", "lost", "landed"}
    <3>1. pc' \in Steps /\ pc' # "idle"
      BY <2>1 DEF Steps
    <3>2. records[cur].phase = "absent"
      BY <1>1 DEF Phase
    <3> QED BY <1>1, <2>1, <2>2, <3>1, <3>2, CallWrote DEF Keyed, Signed
  <2>4. CallProgress' /\ FaultsCounted'
    BY <1>1, <2>1, <2>2, <2>3 DEF CallProgress, FaultsCounted, Phase, Signed
  <2>5. ClosedOrResolved'
    BY <1>1, <2>1 DEF ManagementInv, ClosedOrResolved, Resolved
  <2> QED BY <2>3, <2>4, <2>5 DEF ManagementInv
<1> QED BY <1>2, <1>3 DEF BeginTransaction, Goto

LEMMA AuditIntentStep == ASSUME ManagementInv, AuditIntent PROVE ManagementInv'
<1>1. PICK io \in WriteOutcomes : Append("intent", io) /\ pc' = IF io = "ok" THEN "revalidate" ELSE "catch"
  BY DEF AuditIntent, AuditStep, Goto
<1>2. /\ pc = "audit_intent" /\ cur' = cur /\ cur \in Requests
      /\ UNCHANGED <<storeVars, control, calls, keyed, replied>>
      /\ Phase = "intent" /\ file[cur].phase \notin Signed
  <2>1. pc = "audit_intent" /\ cur' = cur /\ UNCHANGED <<storeVars, control, calls, keyed, replied>>
    BY DEF AuditIntent, AuditStep, Goto
  <2> QED BY <2>1, CallTyped DEF ManagementInv, CallProgress, CompletionRemembered, Phase
<1>3. /\ audit \subseteq audit' /\ audit' \subseteq Requests \X Decisions
      /\ io # "lost" => <<cur, "intent">> \in audit'
      /\ faults' \in Nat
  BY <1>1, <1>2, Appended DEF Decisions
<1>4. TypeOK' /\ NoCallWhenClosed' /\ KeyRemembered' /\ CompletionRemembered'
  <2>1. pc' \in Steps /\ pc' # "idle" /\ control' \in BOOLEAN
    BY <1>1, <1>2 DEF Steps, ManagementInv, TypeOK
  <2> QED BY <1>2, <1>3, <2>1, CallKept
<1>5. CallProgress' /\ FaultsCounted'
  BY <1>1, <1>2, <1>3 DEF CallProgress, FaultsCounted, storeVars, Phase
<1>6. ClosedOrResolved'
  BY <1>1, <1>2, <1>3 DEF ManagementInv, ClosedOrResolved, Resolved
<1> QED BY <1>4, <1>5, <1>6 DEF ManagementInv

LEMMA RevalidateStep == ASSUME ManagementInv, Revalidate PROVE ManagementInv'
<1>1. /\ pc = "revalidate" /\ cur' = cur /\ pc' \in {"mark_started", "catch"}
      /\ UNCHANGED <<storeVars, audit, control, faults, calls, keyed, replied>>
  BY DEF Revalidate, Goto
<1>2. /\ cur \in Requests /\ Phase = "intent" /\ file[cur].phase \notin Signed /\ <<cur, "intent">> \in audit
  BY <1>1, CallTyped DEF ManagementInv, CallProgress, CompletionRemembered, Phase
<1>3. TypeOK' /\ NoCallWhenClosed' /\ KeyRemembered' /\ CompletionRemembered'
  <2>1. /\ pc' \in Steps /\ pc' # "idle" /\ control' \in BOOLEAN /\ faults' \in Nat
        /\ audit' \subseteq Requests \X Decisions
    BY <1>1 DEF Steps, ManagementInv, TypeOK
  <2> QED BY <1>1, <2>1, CallKept
<1>4. CallProgress' /\ FaultsCounted'
  BY <1>1, <1>2 DEF CallProgress, FaultsCounted, storeVars, Phase
<1>5. ClosedOrResolved'
  BY <1>1 DEF ManagementInv, ClosedOrResolved, Resolved
<1> QED BY <1>3, <1>4, <1>5 DEF ManagementInv

\* markProviderStarted(): nothing was signed for a record at intent.
LEMMA MarkStartedStep == ASSUME ManagementInv, MarkStarted PROVE ManagementInv'
<1>1. PICK io \in WriteOutcomes :
        Disk(io) /\ MarkProviderStarted(cur, io) /\ pc' = IF io = "ok" THEN "provider" ELSE "catch"
  BY DEF MarkStarted, LedgerStep, Goto
<1>2. /\ pc = "mark_started" /\ cur' = cur /\ UNCHANGED <<audit, control, calls, keyed, replied>>
  BY DEF MarkStarted, LedgerStep, Goto
<1>3. /\ cur \in Requests /\ records[cur] \in Records /\ records[cur].phase = "intent"
      /\ file[cur].phase \notin Signed /\ <<cur, "intent">> \in audit
      /\ ~(calls[cur] > 0) /\ calls[cur] \in Nat
  BY <1>2, CallTyped DEF ManagementInv, TypeOK, CallProgress, CompletionRemembered, KeyRemembered, Keyed, Phase
<1>4. PICK rec \in Records : rec.phase = "provider_started" /\ Persist([records EXCEPT ![cur] = rec], io)
  <2>1. /\ NextRecord(records[cur], "provider_started", FALSE \/ records[cur].signature) \in Records
        /\ NextRecord(records[cur], "provider_started", FALSE \/ records[cur].signature).phase = "provider_started"
    BY <1>3, NextRecordTyped DEF Phases
  <2> QED BY <1>1, <2>1 DEF MarkProviderStarted, Move
<1>5. /\ TypeOK' /\ NoCallWhenClosed' /\ KeyRemembered' /\ CompletionRemembered'
      /\ io = "ok" => records'[cur] = rec /\ file'[cur] = rec
      /\ io = "lost" => records' = records /\ file' = file
      /\ io = "landed" => records' = records /\ file'[cur] = rec
      /\ io \in {"ok", "lost", "landed"}
  <2>1. pc' \in Steps /\ pc' # "idle"
    BY <1>1 DEF Steps
  <2> QED BY <1>1, <1>2, <1>3, <1>4, <2>1, CallWrote DEF Keyed, Signed
<1>6. CallProgress' /\ FaultsCounted'
  BY <1>1, <1>2, <1>3, <1>4, <1>5 DEF CallProgress, FaultsCounted, Phase, Signed
<1>7. ClosedOrResolved'
  BY <1>1, <1>2 DEF ManagementInv, ClosedOrResolved, Resolved
<1> QED BY <1>5, <1>6, <1>7 DEF ManagementInv

\* The key is used: only here, after the durable intent and its audit record,
\* and with no earlier key use of the process left open.
LEMMA KeyStep ==
  ASSUME ManagementInv, UseKey
  PROVE  /\ cur \in Requests /\ calls[cur] = 0 /\ <<cur, "intent">> \in audit
         /\ records[cur].phase = "provider_started" /\ file[cur].phase = "provider_started"
         /\ \A q \in keyed : Resolved(q)
         /\ pc = "provider" /\ cur' = cur /\ pc' \in {"record", "catch"}
         /\ calls' = [calls EXCEPT ![cur] = 1]
         /\ keyed' = keyed \cup {cur}
         /\ UNCHANGED <<storeVars, audit, control, faults, replied>>
<1>1. /\ pc = "provider" /\ cur' = cur /\ pc' \in {"record", "catch"}
      /\ calls' = [calls EXCEPT ![cur] = calls[cur] + 1]
      /\ keyed' = keyed \cup {cur}
      /\ UNCHANGED <<storeVars, audit, control, faults, replied>>
  BY DEF UseKey, Goto
<1>2. /\ cur \in Requests /\ calls[cur] = 0 /\ <<cur, "intent">> \in audit
      /\ records[cur].phase = "provider_started" /\ file[cur].phase = "provider_started"
  BY <1>1, CallTyped DEF ManagementInv, CallProgress, Phase
<1>3. \A q \in keyed : Resolved(q)
  BY <1>1 DEF ManagementInv, ClosedOrResolved
<1> QED BY <1>1, <1>2, <1>3

LEMMA UseKeyStep == ASSUME ManagementInv, UseKey PROVE ManagementInv'
<1>1. /\ cur \in Requests /\ calls[cur] = 0 /\ <<cur, "intent">> \in audit
      /\ records[cur].phase = "provider_started" /\ file[cur].phase = "provider_started"
      /\ \A q \in keyed : Resolved(q)
      /\ pc = "provider" /\ cur' = cur /\ pc' \in {"record", "catch"}
      /\ calls' = [calls EXCEPT ![cur] = 1]
      /\ keyed' = keyed \cup {cur}
      /\ UNCHANGED <<storeVars, audit, control, faults, replied>>
  BY KeyStep
<1>2. calls \in [Requests -> Nat]
  BY DEF ManagementInv, TypeOK
<1>3. /\ calls' \in [Requests -> Nat] /\ calls'[cur] = 1
      /\ \A q \in Requests : q # cur => calls'[q] = calls[q]
  BY <1>1, <1>2
<1>4. TypeOK' /\ NoCallWhenClosed'
  BY <1>1, <1>3, CallTyped DEF ManagementInv, TypeOK, StoreTypeOK, NoCallWhenClosed, storeVars, Steps
<1>5. KeyRemembered'
  BY <1>1, <1>3 DEF ManagementInv, KeyRemembered, Keyed, storeVars
<1>6. CompletionRemembered'
  BY <1>1 DEF ManagementInv, CompletionRemembered, storeVars
<1>7. CallProgress' /\ FaultsCounted'
  BY <1>1 DEF CallProgress, FaultsCounted, storeVars, Phase, Signed
<1>8. ClosedOrResolved'
  BY <1>1 DEF ClosedOrResolved, Resolved
<1> QED BY <1>4, <1>5, <1>6, <1>7, <1>8 DEF ManagementInv

\* recordSigned(): a write that failed after the rename leaves a signature in
\* the file that the memory does not know of, and was counted.
LEMMA RecordSignedStep == ASSUME ManagementInv, RecordSigned PROVE ManagementInv'
<1>1. PICK io \in WriteOutcomes :
        Disk(io) /\ LegacyRecordSigned(cur, io) /\ pc' = IF io = "ok" THEN "audit_allow" ELSE "catch"
  BY DEF RecordSigned, LedgerStep, Goto
<1>2. /\ pc = "record" /\ cur' = cur /\ UNCHANGED <<audit, control, calls, keyed, replied>>
  BY DEF RecordSigned, LedgerStep, Goto
<1>3. cur \in Requests /\ records[cur] \in Records /\ records[cur].phase = "provider_started"
  BY <1>2, CallTyped DEF ManagementInv, CallProgress, Phase
<1>4. PICK rec \in Records : rec.phase = "signed_verified" /\ Persist([records EXCEPT ![cur] = rec], io)
  <2>1. /\ NextRecord(records[cur], "signed_verified", TRUE \/ records[cur].signature) \in Records
        /\ NextRecord(records[cur], "signed_verified", TRUE \/ records[cur].signature).phase = "signed_verified"
    BY <1>3, NextRecordTyped DEF Phases
  <2> QED BY <1>1, <2>1 DEF LegacyRecordSigned, Move
<1>5. /\ TypeOK' /\ NoCallWhenClosed' /\ KeyRemembered' /\ CompletionRemembered'
      /\ io = "ok" => records'[cur] = rec
      /\ io # "ok" => records' = records /\ faults' = faults + 1
      /\ faults \in Nat
  <2>1. pc' \in Steps /\ pc' # "idle"
    BY <1>1 DEF Steps
  <2> QED BY <1>1, <1>2, <1>3, <1>4, <2>1, CallWrote DEF Keyed, Signed
<1>6. CallProgress' /\ FaultsCounted'
  BY <1>1, <1>2, <1>3, <1>4, <1>5 DEF CallProgress, FaultsCounted, Phase
<1>7. ClosedOrResolved'
  BY <1>1, <1>2 DEF ManagementInv, ClosedOrResolved, Resolved
<1> QED BY <1>5, <1>6, <1>7 DEF ManagementInv

LEMMA AuditAllowStep == ASSUME ManagementInv, AuditAllow PROVE ManagementInv'
<1>1. PICK io \in WriteOutcomes : Append("allow", io) /\ pc' = IF io = "ok" THEN "complete" ELSE "catch"
  BY DEF AuditAllow, AuditStep, Goto
<1>2. /\ pc = "audit_allow" /\ cur' = cur
      /\ UNCHANGED <<storeVars, control, calls, keyed, replied>>
      /\ Phase = "signed_verified"
  BY DEF AuditAllow, AuditStep, Goto, ManagementInv, CallProgress
<1>3. /\ audit \subseteq audit' /\ audit' \subseteq Requests \X Decisions
      /\ io # "lost" => <<cur, "allow">> \in audit'
      /\ faults' \in Nat
  BY <1>1, <1>2, Appended DEF Decisions
<1>4. TypeOK' /\ NoCallWhenClosed' /\ KeyRemembered' /\ CompletionRemembered'
  <2>1. pc' \in Steps /\ pc' # "idle" /\ control' \in BOOLEAN
    BY <1>1, <1>2 DEF Steps, ManagementInv, TypeOK
  <2> QED BY <1>2, <1>3, <2>1, CallKept
<1>5. CallProgress' /\ FaultsCounted'
  BY <1>1, <1>2, <1>3 DEF CallProgress, FaultsCounted, storeVars, Phase
<1>6. ClosedOrResolved'
  <2> SUFFICES ASSUME NEW q \in keyed PROVE Resolved(q)' \/ (q = cur' /\ pc' = "catch")
    BY <1>2 DEF ClosedOrResolved
  <2>1. Resolved(q) => Resolved(q)'
    BY <1>3 DEF Resolved
  <2>2. Resolved(q) \/ q = cur
    BY <1>2 DEF ManagementInv, ClosedOrResolved
  <2>3. io = "ok" => Resolved(cur)'
    BY <1>2, <1>3 DEF Resolved
  <2> QED BY <1>1, <1>2, <2>1, <2>2, <2>3 DEF Resolved
<1> QED BY <1>4, <1>5, <1>6 DEF ManagementInv

LEMMA CompleteStep == ASSUME ManagementInv, CompleteTransaction PROVE ManagementInv'
<1>1. PICK io \in WriteOutcomes :
        /\ Disk(io)
        /\ Complete(cur, io)
        /\ replied' = IF io = "ok" THEN replied \cup {cur} ELSE replied
        /\ IF io = "ok" THEN pc' = "idle" /\ cur' = NoRequest ELSE pc' = "catch" /\ cur' = cur
  BY DEF CompleteTransaction, Leave, Goto
<1>2. pc = "complete" /\ UNCHANGED <<audit, control, calls, keyed>>
  BY DEF CompleteTransaction
<1> DEFINE rec == NextRecord(records[cur], "completed", records[cur].signature)
<1>3. /\ cur \in Requests /\ records[cur].phase = "signed_verified"
      /\ rec \in Records /\ rec.phase = "completed"
      /\ Persist([records EXCEPT ![cur] = rec], io)
  BY <1>1, <1>2, CompleteWrites
<1> HIDE DEF rec
<1>4. <<cur, "allow">> \in audit
  BY <1>2 DEF ManagementInv, CallProgress
<1>5. /\ TypeOK' /\ NoCallWhenClosed' /\ KeyRemembered' /\ CompletionRemembered'
      /\ io # "ok" => records' = records
  <2>1. pc' \in Steps
    BY <1>1 DEF Steps
  <2>2. (pc' # "idle" /\ cur' = cur) \/ (pc' = "idle" /\ cur' = NoRequest)
    BY <1>1
  <2>3. replied' = replied \/ (replied' = replied \cup {cur} /\ io = "ok" /\ rec.phase = "completed")
    BY <1>1, <1>3
  <2> QED BY <1>1, <1>2, <1>3, <1>4, <2>1, <2>2, <2>3, CallWrote DEF Keyed
<1>6. CallProgress' /\ FaultsCounted'
  BY <1>1, <1>2, <1>3, <1>5 DEF CallProgress, FaultsCounted, Phase
<1>7. ClosedOrResolved'
  <2> SUFFICES ASSUME NEW q \in keyed PROVE Resolved(q)'
    BY <1>2 DEF ClosedOrResolved
  <2>1. Resolved(q)
    BY <1>2 DEF ManagementInv, ClosedOrResolved
  <2> QED BY <1>2, <2>1 DEF Resolved
<1> QED BY <1>5, <1>6, <1>7 DEF ManagementInv

-----------------------------------------------------------------------------
(* The catch block. *)

LEMMA CatchStep == ASSUME ManagementInv, Catch PROVE ManagementInv'
<1>1. pc = "catch" /\ UNCHANGED <<storeVars, audit, faults, calls, keyed, replied>>
  BY DEF Catch
<1>2. /\ Phase \in {"absent", "intent", "provider_started", "signed_verified"}
      /\ Phase # "signed_verified" /\ file[cur].phase \in Signed => faults >= 1
      /\ Phase = "absent" => file[cur].phase \notin Signed
  BY <1>1, CallTyped DEF ManagementInv, FaultsCounted, CompletionRemembered, Phase
<1>3. CASE Phase = "signed_verified" /\ control' = FALSE /\ pc' = "idle" /\ cur' = NoRequest
  <2>1. TypeOK' /\ NoCallWhenClosed' /\ KeyRemembered' /\ CompletionRemembered'
    <3>1. pc' \in Steps /\ control' \in BOOLEAN /\ faults' \in Nat /\ audit' \subseteq Requests \X Decisions
      BY <1>1, <1>3 DEF Steps, ManagementInv, TypeOK
    <3> QED BY <1>1, <1>3, <3>1, CallKept
  <2>2. CallProgress' /\ FaultsCounted' /\ ClosedOrResolved'
    BY <1>3 DEF CallProgress, FaultsCounted, ClosedOrResolved
  <2> QED BY <2>1, <2>2 DEF ManagementInv
<1>4. CASE /\ Phase # "signed_verified" /\ cur' = cur /\ UNCHANGED control
           /\ pc' = IF Phase \in {"intent", "provider_started"} THEN "mark_unknown" ELSE "audit_error"
  <2>1. TypeOK' /\ NoCallWhenClosed' /\ KeyRemembered' /\ CompletionRemembered'
    <3>1. /\ pc' \in Steps /\ pc' # "idle" /\ control' \in BOOLEAN /\ faults' \in Nat
          /\ audit' \subseteq Requests \X Decisions
      BY <1>1, <1>4 DEF Steps, ManagementInv, TypeOK
    <3> QED BY <1>1, <1>4, <3>1, CallKept
  <2>2. CallProgress' /\ FaultsCounted'
    BY <1>1, <1>2, <1>4 DEF CallProgress, FaultsCounted, storeVars, Phase
  <2>3. ClosedOrResolved'
    BY <1>1, <1>4 DEF ManagementInv, ClosedOrResolved, Resolved
  <2> QED BY <2>1, <2>2, <2>3 DEF ManagementInv
<1> QED BY <1>3, <1>4 DEF Catch, Goto, Leave

LEMMA MarkUnknownStep == ASSUME ManagementInv, MarkUnknown PROVE ManagementInv'
<1>1. PICK io \in WriteOutcomes : Disk(io) /\ MarkUncertain(cur, io)
  BY DEF MarkUnknown
<1>2. /\ pc = "mark_unknown" /\ pc' = "audit_error" /\ cur' = cur
      /\ UNCHANGED <<audit, control, calls, keyed, replied>>
  BY DEF MarkUnknown, Goto
<1>3. PICK rec \in Records : /\ rec.phase = "uncertain" /\ records[cur].phase \in Unfinished
                             /\ Persist([records EXCEPT ![cur] = rec], io)
  BY <1>1, <1>2, UncertainWrites
<1>4. file[cur].phase \in Signed => faults >= 1
  BY <1>2 DEF ManagementInv, FaultsCounted
<1>5. /\ TypeOK' /\ NoCallWhenClosed' /\ KeyRemembered' /\ CompletionRemembered'
      /\ io # "lost" => file'[cur] = rec
      /\ io = "lost" => file' = file /\ faults' = faults + 1
      /\ faults \in Nat
  BY <1>1, <1>2, <1>3, CallWrote DEF Keyed, Signed, Unfinished, Steps
<1>6. CallProgress' /\ FaultsCounted'
  BY <1>2, <1>3, <1>4, <1>5 DEF CallProgress, FaultsCounted, Signed
<1>7. ClosedOrResolved'
  BY <1>2 DEF ManagementInv, ClosedOrResolved, Resolved
<1> QED BY <1>5, <1>6, <1>7 DEF ManagementInv

LEMMA AuditErrorStep == ASSUME ManagementInv, AuditError PROVE ManagementInv'
<1>1. PICK io \in WriteOutcomes : Append("error", io) /\ control' = (control /\ io = "ok")
  BY DEF AuditError
<1>2. /\ pc = "audit_error" /\ pc' = "idle" /\ cur' = NoRequest
      /\ UNCHANGED <<storeVars, calls, keyed, replied>>
  BY DEF AuditError, Leave
<1>3. /\ audit \subseteq audit' /\ audit' \subseteq Requests \X Decisions
      /\ io # "lost" => <<cur, "error">> \in audit'
      /\ faults' \in Nat
  BY <1>1, <1>2, Appended DEF Decisions
<1>4. TypeOK' /\ NoCallWhenClosed' /\ KeyRemembered' /\ CompletionRemembered'
  <2>1. pc' \in Steps /\ control' \in BOOLEAN
    BY <1>1, <1>2 DEF Steps, ManagementInv, TypeOK
  <2> QED BY <1>2, <1>3, <2>1, CallKept
<1>5. CallProgress' /\ FaultsCounted'
  BY <1>2 DEF CallProgress, FaultsCounted
<1>6. ClosedOrResolved'
  <2> SUFFICES ASSUME NEW q \in keyed PROVE Resolved(q)' \/ ~control'
    BY <1>2 DEF ClosedOrResolved
  <2>1. Resolved(q) \/ q = cur
    BY <1>2 DEF ManagementInv, ClosedOrResolved
  <2>2. io # "ok" => ~control'
    BY <1>1
  <2> QED BY <1>3, <2>1, <2>2 DEF Resolved
<1> QED BY <1>4, <1>5, <1>6 DEF ManagementInv

-----------------------------------------------------------------------------
(* The process. *)

LEMMA CrashStep == ASSUME ManagementInv, Crash PROVE ManagementInv'
<1>1. /\ store = "open" /\ store' = "closed" /\ records' = NoRecords /\ file' = file
      /\ pc' = "idle" /\ cur' = NoRequest /\ keyed' = {}
      /\ UNCHANGED <<audit, control, faults, calls, replied>>
  BY DEF Crash, StoreCrash, Leave
<1>2. NoRecords \in [Requests -> Records]
  BY DEF NoRecords, Absent, Records, Phases
<1>3. TypeOK' /\ NoCallWhenClosed'
  BY <1>1, <1>2 DEF ManagementInv, TypeOK, StoreTypeOK, NoCallWhenClosed, Steps
<1>4. KeyRemembered' /\ CompletionRemembered'
  BY <1>1 DEF ManagementInv, KeyRemembered, CompletionRemembered
<1>5. CallProgress' /\ FaultsCounted' /\ ClosedOrResolved'
  BY <1>1 DEF CallProgress, FaultsCounted, ClosedOrResolved
<1> QED BY <1>3, <1>4, <1>5 DEF ManagementInv

\* What init makes of the file keeps every record's place.
LEMMA RecoveredPhase ==
  ASSUME StoreTypeOK
  PROVE  /\ Recovered \in [Requests -> Records]
         /\ \A r \in Requests :
              \/ Recovered[r] = file[r]
              \/ file[r].phase = "provider_started" /\ Recovered[r].phase = "uncertain"
<1> DEFINE Rec(r) == IF file[r].phase = "provider_started" THEN NextRecord(file[r], "uncertain", FALSE) ELSE file[r]
<1>1. ASSUME NEW r \in Requests
      PROVE  /\ Rec(r) \in Records
             /\ \/ Rec(r) = file[r]
                \/ file[r].phase = "provider_started" /\ Rec(r).phase = "uncertain"
  <2>1. file[r] \in Records
    BY DEF StoreTypeOK
  <2>2. CASE file[r].phase = "provider_started"
    BY <2>1, <2>2, NextRecordTyped DEF Phases
  <2> QED BY <2>1, <2>2
<1>2. Recovered = [r \in Requests |-> Rec(r)]
  BY DEF Recovered
<1> HIDE DEF Rec
<1> QED BY <1>1, <1>2

LEMMA RestartStep == ASSUME ManagementInv, Restart PROVE ManagementInv'
<1>1. /\ UNCHANGED <<pc, cur, audit, calls, keyed, replied>> /\ control' \in {control, TRUE}
      /\ store # "open" /\ pc = "idle" /\ keyed = {}
  BY DEF Restart, Open, OpenRefused, ManagementInv, NoCallWhenClosed
<1>2. StoreTypeOK /\ faults \in Nat
  BY DEF ManagementInv, TypeOK
<1>3. faults' \in Nat
  BY <1>2, DiskFaults DEF Restart
<1>4. NoRecords \in [Requests -> Records]
  BY DEF NoRecords, Absent, Records, Phases
<1>5. /\ records' \in [Requests -> Records] /\ file' \in {file, Recovered}
      /\ store' \in {"open", "refused"}
      /\ store' = "open" => records' = Recovered /\ file' = Recovered
  BY <1>2, <1>4, RecoveredPhase DEF Restart, Open, OpenRefused, StoreTypeOK
<1>6. /\ Recovered \in [Requests -> Records]
      /\ \A r \in Requests :
           \/ Recovered[r] = file[r]
           \/ file[r].phase = "provider_started" /\ Recovered[r].phase = "uncertain"
  BY <1>2, RecoveredPhase
<1>7. TypeOK' /\ NoCallWhenClosed'
  BY <1>1, <1>3, <1>5, <1>6 DEF ManagementInv, TypeOK, StoreTypeOK, NoCallWhenClosed
<1>8. KeyRemembered'
  BY <1>1, <1>5, <1>6 DEF ManagementInv, KeyRemembered, Keyed
<1>9. CompletionRemembered'
  BY <1>1, <1>5, <1>6 DEF ManagementInv, CompletionRemembered, Signed
<1>10. CallProgress' /\ FaultsCounted' /\ ClosedOrResolved'
  BY <1>1 DEF CallProgress, FaultsCounted, ClosedOrResolved
<1> QED BY <1>7, <1>8, <1>9, <1>10 DEF ManagementInv

-----------------------------------------------------------------------------
(* The theorems. *)

LEMMA ManagementInitially == Init => ManagementInv
<1> SUFFICES ASSUME Init PROVE ManagementInv
  OBVIOUS
<1>1. NoRecords \in [Requests -> Records] /\ \A r \in Requests : NoRecords[r].phase = "absent"
  BY DEF NoRecords, Absent, Records, Phases
<1>2. /\ records = NoRecords /\ file = NoRecords /\ store = "open" /\ pc = "idle" /\ cur = NoRequest
      /\ audit = {} /\ control = TRUE /\ faults = 0
      /\ calls = [r \in Requests |-> 0] /\ keyed = {} /\ replied = {}
  BY DEF Init, StoreInit
<1>3. TypeOK
  BY <1>1, <1>2 DEF TypeOK, StoreTypeOK, Steps
<1>4. KeyRemembered /\ CompletionRemembered
  BY <1>1, <1>2 DEF KeyRemembered, CompletionRemembered, Signed
<1>5. NoCallWhenClosed /\ CallProgress /\ FaultsCounted /\ ClosedOrResolved
  BY <1>2 DEF NoCallWhenClosed, CallProgress, FaultsCounted, ClosedOrResolved
<1> QED BY <1>3, <1>4, <1>5 DEF ManagementInv

LEMMA ManagementInductive == ManagementInv /\ [Next]_vars => ManagementInv'
<1> SUFFICES ASSUME ManagementInv, [Next]_vars PROVE ManagementInv'
  OBVIOUS
<1>1. CASE UNCHANGED vars
  BY <1>1 DEF vars, storeVars, ManagementInv, TypeOK, StoreTypeOK, NoCallWhenClosed, KeyRemembered,
      CompletionRemembered, CallProgress, FaultsCounted, ClosedOrResolved, Resolved, Phase
<1>2. CASE \E r \in Requests : Sign(r)
  BY <1>2, SignStep
<1>3. CASE CallStep
  BY <1>3, ReplayAuditStep, ReplayCompleteStep, ReplayUnknownStep, AuthorizeStep, BeginStep, AuditIntentStep,
     RevalidateStep, MarkStartedStep, UseKeyStep, RecordSignedStep, AuditAllowStep, CompleteStep, CatchStep,
     MarkUnknownStep, AuditErrorStep DEF CallStep
<1>4. CASE Crash \/ Restart
  BY <1>4, CrashStep, RestartStep
<1> QED BY <1>1, <1>2, <1>3, <1>4 DEF Next

\* The invariant of sign(): what the ledger in memory and the file may hold at
\* every step of a call, also while a failed write has put one ahead of the
\* other.
THEOREM ManagementInvariance == Spec => []ManagementInv
<1> QED BY ManagementInitially, ManagementInductive, PTL DEF Spec

\* Every variable of sign() and of its ledger keeps its shape, and a step runs
\* exactly for a request.
THEOREM ManagementTyping == Spec => []TypeOK
<1>1. ManagementInv => TypeOK
  BY DEF ManagementInv
<1> QED BY <1>1, ManagementInvariance, PTL

\* sign() uses the hardware key at most once for a request, and only after the
\* audit record of the intent is durable.
THEOREM ManagementKeyUse == Spec => []KeyUsedOnceAudited
<1>1. ManagementInv => KeyUsedOnceAudited
  BY DEF ManagementInv, KeyRemembered, KeyUsedOnceAudited
<1> QED BY <1>1, ManagementInvariance, PTL

\* sign() returns a signature only after its allow record and its completed
\* ledger record are durable.
THEOREM ManagementReply == Spec => []ReplyAudited
<1>1. ManagementInv => ReplyAudited
  BY DEF ManagementInv, TypeOK, CompletionRemembered, ReplyAudited
<1> QED BY <1>1, ManagementInvariance, PTL

LEMMA KeyUsedByUseKey == ASSUME [Next]_vars PROVE calls' = calls \/ UseKey
<1>1. CASE CallStep
  BY <1>1 DEF CallStep, ReplayAudit, ReplayComplete, ReplayUnknown, Authorize, BeginTransaction, AuditIntent,
     Revalidate, MarkStarted, RecordSigned, AuditAllow, CompleteTransaction, Catch, MarkUnknown, AuditError,
     LedgerStep, AuditStep
<1>2. CASE (\E r \in Requests : Sign(r)) \/ Crash \/ Restart \/ UNCHANGED vars
  BY <1>2 DEF Sign, Crash, Restart, vars
<1> QED BY <1>1, <1>2 DEF Next

\* A process of the management endpoint that could not audit the result of a
\* key use never touches the key again: the catch block has shut authorization.
THEOREM ManagementFailsClosed == Spec => FailsClosed
<1> DEFINE A == \A r \in Requests : calls'[r] > calls[r] => \A q \in keyed : Resolved(q)
<1>1. ManagementInv /\ [Next]_vars => [A]_vars
  <2> SUFFICES ASSUME ManagementInv, [Next]_vars PROVE A
    OBVIOUS
  <2>1. CASE calls' = calls
    BY <2>1 DEF ManagementInv, TypeOK
  <2>2. CASE UseKey
    BY <2>2, KeyStep
  <2> QED BY <2>1, <2>2, KeyUsedByUseKey
<1>2. FailsClosed <=> [][A]_vars
  BY DEF FailsClosed
<1> HIDE DEF A
<1> QED BY <1>1, <1>2, ManagementInvariance, PTL DEF Spec

\* Only the catch block appends an error.
LEMMA ErrorByAuditError ==
  ASSUME ManagementInv, [Next]_vars, ~AuditError, NEW r \in Requests, <<r, "error">> \in audit'
  PROVE  <<r, "error">> \in audit
<1>1. CASE UNCHANGED audit
  BY <1>1
<1>2. CASE \E decision \in {"intent", "allow"}, io \in WriteOutcomes : Append(decision, io)
  BY <1>2 DEF Append
<1>3. CASE ReplayAudit \/ AuditIntent \/ AuditAllow
  BY <1>2, <1>3 DEF ReplayAudit, AuditIntent, AuditAllow, AuditStep
<1>4. CASE CallStep
  BY <1>1, <1>3, <1>4 DEF CallStep, ReplayComplete, ReplayUnknown, Authorize, BeginTransaction, Revalidate,
     MarkStarted, UseKey, RecordSigned, CompleteTransaction, Catch, MarkUnknown, LedgerStep
<1>5. CASE (\E q \in Requests : Sign(q)) \/ Crash \/ Restart \/ UNCHANGED vars
  BY <1>1, <1>5 DEF Sign, Crash, Restart, vars
<1> QED BY <1>4, <1>5 DEF Next

\* The catch block appends no terminal error for a request whose signature the
\* ledger file holds, unless two writes have failed.
THEOREM ManagementNoContradiction == Spec => NoContradiction
<1> DEFINE A == \A r \in Requests :
                  faults' <= 1 /\ <<r, "error">> \in audit' \ audit =>
                    file[r].phase \notin {"signed_verified", "completed"}
<1>1. ManagementInv /\ [Next]_vars => [A]_vars
  <2> SUFFICES ASSUME ManagementInv, [Next]_vars, NEW r \in Requests,
                      faults' <= 1, <<r, "error">> \in audit', <<r, "error">> \notin audit
               PROVE  file[r].phase \notin Signed
    BY DEF Signed
  <2>1. AuditError
    BY ErrorByAuditError
  <2>2. PICK io \in WriteOutcomes : Append("error", io)
    BY <2>1 DEF AuditError
  <2>3. pc = "audit_error" /\ audit' \subseteq audit \cup {<<cur, "error">>} /\ faults' >= faults /\ faults' \in Nat
    BY <2>1, <2>2, Appended DEF AuditError, Decisions
  <2>4. r = cur
    BY <2>3
  <2>5. faults \in Nat /\ ~(faults >= 2)
    BY <2>3 DEF ManagementInv, TypeOK
  <2> QED BY <2>3, <2>4, <2>5 DEF ManagementInv, FaultsCounted
<1>2. NoContradiction <=> [][A]_vars
  BY DEF NoContradiction
<1> HIDE DEF A
<1> QED BY <1>1, <1>2, ManagementInvariance, PTL DEF Spec

=============================================================================
