----------------------- MODULE SigningTransactionStore -----------------------
(***************************************************************************)
(* The durable sign-once ledger of the native service                      *)
(* (NativeSigningTransactionStore).  One JSON file holds one record per    *)
(* signing request.  Every mutation changes the in-memory map, rewrites    *)
(* the WHOLE file with an atomic rename and, when the write throws, puts   *)
(* the old in-memory record back.  The write can throw after the rename    *)
(* (the parent directory could not be opened or synced): the file is then  *)
(* ahead of the memory until the next write.                               *)
(*                                                                         *)
(* Abstracted: hashes, payloads, repository, branch and remote texts; the  *)
(* authority of a record is only "present" or "absent" (the adapter passes *)
(* the authority of one handoff to every call about a request, so the      *)
(* equality checks on it succeed), and a signature is "present" or not.    *)
(***************************************************************************)
EXTENDS SigningRequests, Naturals, FiniteSets

CONSTANT
  MaximumRecords     \* capacity of the ledger (10_000 in the code)

ASSUME StoreAssumption == MaximumRecords \in Nat \ {0}

VARIABLES
  records,   \* the in-memory map: request -> record (Absent when missing)
  file,      \* the contents of the file, as load() would read it
  store      \* "closed" (no process), "open", or "refused" (init threw)

storeVars == <<records, file, store>>

Phases == {"admitted", "intent", "provider_started", "signed_verified",
           "completed", "uncertain"}

Absent == [phase |-> "absent", sequence |-> 0, previous |-> "none",
           signature |-> FALSE, authority |-> FALSE]

Records == [phase : Phases \cup {"absent"}, sequence : Nat,
            previous : Phases \cup {"none"}, signature : BOOLEAN,
            authority : BOOLEAN]

NoRecords == [r \in Requests |-> Absent]

\* What one persistLocked() call may do: succeed, fail before the rename, or
\* fail after it.
WriteOutcomes == {"ok", "lost", "landed"}

-----------------------------------------------------------------------------
(* Building records.                                                       *)

\* The successor record of old: one step further, remembering its phase.
NextRecord(old, phase, signature) ==
  [phase |-> phase, sequence |-> old.sequence + 1, previous |-> old.phase,
   signature |-> signature, authority |-> old.authority]

\* Rewrite the file with new; the memory keeps new only when the write
\* succeeded.
Persist(new, io) ==
  /\ records' = IF io = "ok" THEN new ELSE records
  /\ file' = IF io = "lost" THEN file ELSE new
  /\ UNCHANGED store

HasRoom == Cardinality({r \in Requests : records[r] # Absent}) < MaximumRecords

CanMove(r, from) == store = "open" /\ records[r].phase \in from

\* transition(): `signature ?? old.signature` keeps a signature once there.
Move(r, from, phase, signature, io) ==
  /\ CanMove(r, from)
  /\ Persist([records EXCEPT ![r] =
        NextRecord(records[r], phase, signature \/ records[r].signature)], io)

-----------------------------------------------------------------------------
(* The operations.  io is the outcome of the write.                        *)

CanAdmit(r) == store = "open" /\ records[r] = Absent /\ HasRoom

Admit(r, io) ==
  /\ CanAdmit(r)
  /\ Persist([records EXCEPT ![r] =
        [phase |-> "admitted", sequence |-> 1, previous |-> "none",
         signature |-> FALSE, authority |-> TRUE]], io)

MarkIntent(r, io) == Move(r, {"admitted"}, "intent", FALSE, io)

\* Mutant: the record is changed in memory only.
MarkProviderStarted_InMemory(r, io) ==
  /\ CanMove(r, {"intent"})
  /\ records' = [records EXCEPT ![r] =
        NextRecord(records[r], "provider_started", FALSE)]
  /\ UNCHANGED <<file, store>>

MarkProviderStarted(r, io) == Move(r, {"intent"}, "provider_started", FALSE, io)

RecordVerified(r, io) ==
  Move(r, {"provider_started"}, "signed_verified", TRUE, io)

\* A completed record is returned as it is; only a verified one is rewritten.
CanComplete(r) ==
  /\ store = "open"
  /\ records[r].phase \in {"signed_verified", "completed"}

\* Mutant: completion is recorded in memory only.
Complete_InMemory(r, io) ==
  /\ CanComplete(r)
  /\ records' = [records EXCEPT ![r] = NextRecord(records[r], "completed", TRUE)]
  /\ UNCHANGED <<file, store>>

Complete(r, io) ==
  /\ CanComplete(r)
  /\ IF records[r].phase = "completed"
     THEN UNCHANGED storeVars
     ELSE Persist([records EXCEPT ![r] =
            NextRecord(records[r], "completed", records[r].signature)], io)

Unfinished == {"admitted", "intent", "provider_started", "signed_verified"}

MarkUncertain(r, io) == Move(r, Unfinished, "uncertain", FALSE, io)

\* The management endpoint starts at intent, without an authority.
LegacyBegin(r, io) ==
  /\ CanAdmit(r)
  /\ Persist([records EXCEPT ![r] =
        [phase |-> "intent", sequence |-> 1, previous |-> "none",
         signature |-> FALSE, authority |-> FALSE]], io)

LegacyRecordSigned(r, io) ==
  Move(r, {"intent", "provider_started"}, "signed_verified", TRUE, io)

-----------------------------------------------------------------------------
(* Opening the file.                                                       *)

\* The evidence decodeV2 demands of one record.
ValidEvidence(rec) ==
  LET at(n, previous, signed) ==
        rec.sequence = n /\ rec.previous = previous /\ rec.signature = signed
  IN IF ~rec.authority
     THEN rec.phase \in {"uncertain", "signed_verified", "completed"}
     ELSE CASE rec.phase = "admitted" -> at(1, "none", FALSE)
            [] rec.phase = "intent" -> at(2, "admitted", FALSE)
            [] rec.phase = "provider_started" -> at(3, "intent", FALSE)
            [] rec.phase = "signed_verified" -> at(4, "provider_started", TRUE)
            [] rec.phase = "completed" -> at(5, "signed_verified", TRUE)
            [] rec.phase = "uncertain" ->
                 \/ at(3, "intent", FALSE)
                 \/ at(4, "provider_started", FALSE)
                 \/ at(5, "signed_verified", FALSE)

Loadable == \A r \in Requests : file[r] # Absent => ValidEvidence(file[r])

\* What init makes of the file: an invocation without a durable result is
\* uncertain.
Recovered ==
  [r \in Requests |-> IF file[r].phase = "provider_started"
                      THEN NextRecord(file[r], "uncertain", FALSE)
                      ELSE file[r]]

\* init: load, then persist only when a record was converted.
Open(io) ==
  /\ store # "open"
  /\ Loadable
  /\ LET opened == Recovered = file \/ io = "ok"
     IN /\ records' = IF opened THEN Recovered ELSE NoRecords
        /\ file' = IF io = "lost" THEN file ELSE Recovered
        /\ store' = IF opened THEN "open" ELSE "refused"

\* init throws on a file it cannot validate, and the service does not start.
OpenRefused ==
  /\ store # "open"
  /\ ~Loadable
  /\ store' = "refused"
  /\ UNCHANGED <<records, file>>

StoreCrash ==
  /\ store = "open"
  /\ store' = "closed"
  /\ records' = NoRecords
  /\ UNCHANGED file

StoreInit == records = NoRecords /\ file = NoRecords /\ store = "open"

StoreTypeOK ==
  /\ records \in [Requests -> Records]
  /\ file \in [Requests -> Records]
  /\ store \in {"closed", "open", "refused"}

\* A reader's statement of the ledger's documentation: a crash at any moment
\* leaves a file that the next start opens ("Restart converts that state to
\* terminal uncertain").  The code violates it: it writes records whose
\* evidence its own load() rejects.
OpensOwnFile == Loadable

=============================================================================
