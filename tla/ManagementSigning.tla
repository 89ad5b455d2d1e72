------------------------- MODULE ManagementSigning -------------------------
(***************************************************************************)
(* The management endpoint's sign(): authorize a request, write the intent *)
(* to the ledger and to the audit log, use the hardware key, write the     *)
(* result to both, answer.  The service-wide authorization lock serialises *)
(* whole calls, so one request is served at a time and the other actors    *)
(* are the disk, whose writes may fail, and a crash between any two steps. *)
(* The ledger is a file of its own, not the Agent endpoint's.              *)
(*                                                                         *)
(* Abstracted: the audit log is the set of durable (request, decision)     *)
(* pairs (a denial names no request); authorization and the last look at   *)
(* the repository are inputs that may refuse; the checks before the lookup *)
(* (control refresh, lifecycle trust, audit checkpoint) only refuse.       *)
(* Remote control is configured, so invalidating it denies every further   *)
(* authorization of the process.                                           *)
(***************************************************************************)
EXTENDS SigningTransactionStore

CONSTANTS
  NoRequest,         \* no request is being served
  MaxDiskFaults      \* bound on failing writes

ASSUME ManagementAssumption ==
  NoRequest \notin Requests /\ MaxDiskFaults \in Nat

VARIABLES
  pc,        \* next step of the call that holds the authorization lock
  cur,       \* the request it serves, or NoRequest
  audit,     \* durable audit records: <<request, decision>>
  control,   \* the control managers are operational
  faults,    \* failing writes so far
  calls,     \* request -> number of key uses (history)
  keyed,     \* requests this process used the key for (history)
  replied    \* requests a signature was returned for (history)

vars == <<storeVars, pc, cur, audit, control, faults, calls, keyed, replied>>

Steps == {"idle", "authorize", "begin", "audit_intent", "revalidate",
          "mark_started", "provider", "record", "audit_allow", "complete",
          "catch", "mark_unknown", "audit_error",
          "replay_audit", "replay_complete", "replay_unknown"}

Decisions == {"intent", "allow", "error"}

Phase == records[cur].phase

Goto(step) == pc' = step /\ UNCHANGED cur

Leave == pc' = "idle" /\ cur' = NoRequest

\* A write ends with io; only failing writes are counted.
Disk(io) ==
  \/ io = "ok" /\ UNCHANGED faults
  \/ io # "ok" /\ faults < MaxDiskFaults /\ faults' = faults + 1

\* appendAudit: the record may be durable although the call throws (the
\* evidence rotation and the upload outbox come after the append).
Append(decision, io) ==
  /\ Disk(io)
  /\ audit' = IF io = "lost" THEN audit ELSE audit \cup {<<cur, decision>>}

-----------------------------------------------------------------------------
(* A request arrives: the ledger decides between a replay and a new one.   *)

Sign(r) ==
  /\ pc = "idle" /\ store = "open"
  /\ LET phase == records[r].phase
     IN \/ /\ phase = "completed"
           /\ replied' = replied \cup {r}
           /\ UNCHANGED <<pc, cur>>
        \/ /\ phase \in {"absent"} \cup Unfinished
           /\ cur' = r
           /\ pc' = CASE phase = "absent" -> "authorize"
                      [] phase = "signed_verified" -> "replay_audit"
                      [] OTHER -> "replay_unknown"
           /\ UNCHANGED replied
  /\ UNCHANGED <<storeVars, audit, control, faults, calls, keyed>>

\* A verified signature lacks only its final audit record.
ReplayAudit ==
  /\ pc = "replay_audit"
  /\ \E io \in WriteOutcomes :
       Append("allow", io) /\ (IF io = "ok" THEN Goto("replay_complete") ELSE Leave)
  /\ UNCHANGED <<storeVars, control, calls, keyed, replied>>

ReplayComplete ==
  /\ pc = "replay_complete"
  /\ \E io \in WriteOutcomes :
       /\ Disk(io)
       /\ Complete(cur, io)
       /\ replied' = IF io = "ok" THEN replied \cup {cur} ELSE replied
  /\ Leave
  /\ UNCHANGED <<audit, control, calls, keyed>>

\* Any other unfinished record has an unknown outcome.
ReplayUnknown ==
  /\ pc = "replay_unknown"
  /\ \E io \in WriteOutcomes : Disk(io) /\ MarkUncertain(cur, io)
  /\ Leave
  /\ UNCHANGED <<audit, control, calls, keyed, replied>>

-----------------------------------------------------------------------------
(* A new request.                                                          *)

\* A denial that cannot be audited invalidates remote control.
Authorize ==
  /\ pc = "authorize"
  /\ \/ control /\ Goto("begin") /\ UNCHANGED <<control, faults>>
     \/ /\ \E io \in WriteOutcomes : Disk(io) /\ control' = (control /\ io = "ok")
        /\ Leave
  /\ UNCHANGED <<storeVars, audit, calls, keyed, replied>>

\* A ledger write: on to next, or to the catch block.
LedgerStep(at, Call(_, _), next) ==
  /\ pc = at
  /\ \E io \in WriteOutcomes :
       /\ Disk(io)
       /\ Call(cur, io)
       /\ Goto(IF io = "ok" THEN next ELSE "catch")
  /\ UNCHANGED <<audit, control, calls, keyed, replied>>

\* An audit append: likewise.
AuditStep(at, decision, next) ==
  /\ pc = at
  /\ \E io \in WriteOutcomes :
       Append(decision, io) /\ Goto(IF io = "ok" THEN next ELSE "catch")
  /\ UNCHANGED <<storeVars, control, calls, keyed, replied>>

\* begin() throws on a full ledger.
BeginTransaction ==
  \/ LedgerStep("begin", LegacyBegin, "audit_intent")
  \/ /\ pc = "begin" /\ ~CanAdmit(cur)
     /\ Goto("catch")
     /\ UNCHANGED <<storeVars, audit, control, faults, calls, keyed, replied>>

\* Mutant: the intent is audited on a best-effort basis.
AuditIntent_BestEffort ==
  /\ pc = "audit_intent"
  /\ \E io \in WriteOutcomes : Append("intent", io)
  /\ Goto("revalidate")
  /\ UNCHANGED <<storeVars, control, calls, keyed, replied>>

AuditIntent == AuditStep("audit_intent", "intent", "revalidate")

\* The repository may have changed since the decision.
Revalidate ==
  /\ pc = "revalidate"
  /\ \E step \in {"mark_started", "catch"} : Goto(step)
  /\ UNCHANGED <<storeVars, audit, control, faults, calls, keyed, replied>>

MarkStarted == LedgerStep("mark_started", MarkProviderStarted, "provider")

\* The key is used; the provider returns a signature or throws.
UseKey ==
  /\ pc = "provider"
  /\ calls' = [calls EXCEPT ![cur] = @ + 1]
  /\ keyed' = keyed \cup {cur}
  /\ \E step \in {"record", "catch"} : Goto(step)
  /\ UNCHANGED <<storeVars, audit, control, faults, replied>>

RecordSigned == LedgerStep("record", LegacyRecordSigned, "audit_allow")

\* Mutant: the result is audited on a best-effort basis.
AuditAllow_BestEffort ==
  /\ pc = "audit_allow"
  /\ \E io \in WriteOutcomes : Append("allow", io)
  /\ Goto("complete")
  /\ UNCHANGED <<storeVars, control, calls, keyed, replied>>

AuditAllow == AuditStep("audit_allow", "allow", "complete")

CompleteTransaction ==
  /\ pc = "complete"
  /\ \E io \in WriteOutcomes :
       /\ Disk(io)
       /\ Complete(cur, io)
       /\ replied' = IF io = "ok" THEN replied \cup {cur} ELSE replied
       /\ IF io = "ok" THEN Leave ELSE Goto("catch")
  /\ UNCHANGED <<audit, control, calls, keyed>>

-----------------------------------------------------------------------------
(* The catch block.                                                        *)

\* Mutant: a recorded signature leaves remote control operational.
Catch_KeepsControl ==
  /\ pc = "catch"
  /\ IF Phase = "signed_verified" THEN Leave
     ELSE Goto(IF Phase \in {"intent", "provider_started"}
               THEN "mark_unknown" ELSE "audit_error")
  /\ UNCHANGED <<storeVars, audit, control, faults, calls, keyed, replied>>

\* Mutant: a recorded signature is treated like any other failure.
Catch_IgnoresSignature ==
  /\ pc = "catch"
  /\ Goto(IF Phase \in {"intent", "provider_started"}
          THEN "mark_unknown" ELSE "audit_error")
  /\ UNCHANGED <<storeVars, audit, control, faults, calls, keyed, replied>>

\* A recorded signature keeps its record for the replay; an intent without
\* one is ambiguous.
Catch ==
  /\ pc = "catch"
  /\ \/ Phase = "signed_verified" /\ control' = FALSE /\ Leave
     \/ /\ Phase # "signed_verified"
        /\ Goto(IF Phase \in {"intent", "provider_started"}
                THEN "mark_unknown" ELSE "audit_error")
        /\ UNCHANGED control
  /\ UNCHANGED <<storeVars, audit, faults, calls, keyed, replied>>

MarkUnknown ==
  /\ pc = "mark_unknown"
  /\ \E io \in WriteOutcomes : Disk(io) /\ MarkUncertain(cur, io)
  /\ Goto("audit_error")
  /\ UNCHANGED <<audit, control, calls, keyed, replied>>

AuditError ==
  /\ pc = "audit_error"
  /\ \E io \in WriteOutcomes :
       Append("error", io) /\ control' = (control /\ io = "ok")
  /\ Leave
  /\ UNCHANGED <<storeVars, calls, keyed, replied>>

-----------------------------------------------------------------------------
(* The process.                                                            *)

Crash ==
  /\ StoreCrash
  /\ Leave
  /\ keyed' = {}
  /\ UNCHANGED <<audit, control, faults, calls, replied>>

\* An invalidated V2 control state is operational again after a restart; the
\* V1 manager may have left its marker.
Restart ==
  /\ \/ \E io \in WriteOutcomes : Disk(io) /\ Open(io)
     \/ OpenRefused /\ UNCHANGED faults
  /\ control' \in {control, TRUE}
  /\ UNCHANGED <<pc, cur, audit, calls, keyed, replied>>

Init ==
  /\ StoreInit
  /\ pc = "idle" /\ cur = NoRequest
  /\ audit = {} /\ control = TRUE /\ faults = 0
  /\ calls = [r \in Requests |-> 0] /\ keyed = {} /\ replied = {}

CallStep ==
  \/ ReplayAudit \/ ReplayComplete \/ ReplayUnknown
  \/ Authorize \/ BeginTransaction \/ AuditIntent \/ Revalidate
  \/ MarkStarted \/ UseKey \/ RecordSigned \/ AuditAllow
  \/ CompleteTransaction \/ Catch \/ MarkUnknown \/ AuditError

Next == (\E r \in Requests : Sign(r)) \/ CallStep \/ Crash \/ Restart

Spec == Init /\ [][Next]_vars

-----------------------------------------------------------------------------
(* Properties.                                                             *)

\* Every variable has its shape, and a step runs exactly for a request.
TypeOK ==
  /\ StoreTypeOK
  /\ pc \in Steps
  /\ cur \in Requests \cup {NoRequest}
  /\ pc = "idle" <=> cur = NoRequest
  /\ audit \subseteq Requests \X Decisions
  /\ control \in BOOLEAN
  /\ faults \in Nat
  /\ calls \in [Requests -> Nat]
  /\ keyed \subseteq Requests
  /\ replied \subseteq Requests

\* The hardware key is used at most once per request, through retries, failed
\* writes, crashes and restarts, and never without the durable audit record
\* of the intent ("appended before the hardware key is touched").
KeyUsedOnceAudited ==
  \A r \in Requests :
     calls[r] > 0 => calls[r] = 1 /\ <<r, "intent">> \in audit

\* "Return the signature only after the allow result is durable": also for a
\* replay, and the ledger on disk holds the signature for every later one.
ReplyAudited ==
  \A r \in replied : <<r, "allow">> \in audit /\ file[r].phase = "completed"

\* The result of a key use is on the audit log.
Resolved(r) == <<r, "allow">> \in audit \/ <<r, "error">> \in audit

\* A process that could not audit the result of a key use never uses the key
\* again: whichever write failed, the catch block has shut authorization.
FailsClosed ==
  [][\A r \in Requests :
        calls'[r] > calls[r] => \A q \in keyed : Resolved(q)]_vars

\* "Once a signature is durably recorded, never append a contradictory
\* terminal error": true while at most one write has failed.
NoContradiction ==
  [][\A r \in Requests :
        faults' <= 1 /\ <<r, "error">> \in audit' \ audit =>
          file[r].phase \notin {"signed_verified", "completed"}]_vars

=============================================================================
