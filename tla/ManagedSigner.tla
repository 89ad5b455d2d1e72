--------------------------- MODULE ManagedSigner ---------------------------
(***************************************************************************)
(* The durable managed signer of the cloud API: several server processes   *)
(* sign the same request with one key of a key-management provider.        *)
(*                                                                         *)
(* A call (executeSign, signReserved and reconcileUncertain of             *)
(* durable-managed-signer-provider.mjs, and the adapter of                 *)
(* provider-operation-reconciliation-adapter.mjs below it) is a sequence   *)
(* of database calls and one provider call.  Each is a step of its own, so *)
(* that other processes, lease expiry, a drain, a crash and the lifecycle  *)
(* fall between any two of them.  The operation identifier is the digest   *)
(* of request and key, and rows of different operations do not touch each  *)
(* other: one operation is modelled.  Signatures are Ed25519 and so equal, *)
(* byte for byte, whenever they are made; what is kept is whether one is   *)
(* stored.  A call of the database may fail without effect, or take effect *)
(* and lose its answer.                                                    *)
(***************************************************************************)
EXTENDS ManagedSignerKeyLifecycle, ProviderOperations

CONSTANTS SigningKey,           \* the key the processes are configured with
          MaxRecoveryAttempts   \* maxRecoveryAttempts of the adapter

ASSUME SignerAssumption == MaxRecoveryAttempts \in Nat

VARIABLES
  signing,   \* the row of managed_signer_signing_idempotency
  pc,        \* the next call of each process, or how its last call ended
  mode,      \* "sign" in signReserved, "lookup" in reconcileUncertain
  attempt,   \* recovery attempts of the adapter's loop
  draining,  \* processes whose operation gate no longer accepts
  calls      \* provider signatures requested since the rows were created

rows == <<signing, op>>
procs == <<pc, mode, attempt, draining>>
vars == <<lifecycle, signing, op, pc, mode, attempt, draining, calls>>

NoSigning == [status |-> "absent", claim |-> NoClaim, started |-> FALSE, reserved |-> 1]
SigningRows == [status : {"absent", "pending", "uncertain", "committed"},
                claim : Claims, started : BOOLEAN, reserved : 1..MaxVersion]
Steps == {"idle", "ok", "reserve", "start", "fence", "op_reserve", "op_start",
          "provider", "op_accept", "op_commit", "op_mark", "op_wait", "op_claim",
          "op_quarantine", "op_reconcile", "commit", "lookup", "reconcile", "mark"}

TypeOK ==
  /\ lifecycle \in Snapshots
  /\ signing \in SigningRows
  /\ op \in OperationRows
  /\ pc \in [Procs -> Steps]
  /\ mode \in [Procs -> {"sign", "lookup"}]
  /\ attempt \in [Procs -> 0..MaxRecoveryAttempts]
  /\ draining \in [Procs -> BOOLEAN]
  /\ calls \in Nat

Init ==
  /\ LifecycleInit
  /\ SigningKey = Len(lifecycle.keys)
  /\ signing = NoSigning
  /\ op = NoOperation
  /\ pc = [p \in Procs |-> "idle"]
  /\ mode = [p \in Procs |-> "sign"]
  /\ attempt = [p \in Procs |-> 0]
  /\ draining = [p \in Procs |-> FALSE]
  /\ calls = 0

-----------------------------------------------------------------------------
(* The signing rows (managed-signer-key-lifecycle-repository.mjs over the  *)
(* functions of migration 0051).  The repository runs each function inside *)
(* withTransaction and throws on every outcome but success, so the row of  *)
(* a refusal is the row before the call, whatever the function wrote.      *)

Authorised == MaySign(SigningKey) /\ signing.reserved = lifecycle.version

(* Mutant: a reservation in doubt is taken over like an aborted one.       *)
reserveSignature_TakesOver(p) ==
  IF /\ signing.status # "committed" /\ ~signing.claim.live
     /\ MaySign(SigningKey)
    THEN Answer([status |-> "pending", claim |-> Claim(p), started |-> FALSE,
                 reserved |-> lifecycle.version], "pending")
    ELSE Answer(signing, IF signing.status = "committed" THEN "committed" ELSE "error")

reserveSignature(p) ==
  LET fresh == [status |-> "pending", claim |-> Claim(p), started |-> FALSE,
                reserved |-> lifecycle.version]
      lapsed == signing.status = "pending" /\ ~signing.claim.live
  IN CASE signing.status = "committed" -> Answer(signing, "committed")
       [] signing.status = "uncertain" \/ (lapsed /\ signing.started) ->
            Answer(signing, "uncertain")
       [] signing.status = "absent" /\ MaySign(SigningKey) -> Answer(fresh, "pending")
       [] lapsed /\ ~signing.started /\ Authorised -> Answer(fresh, "pending")
       [] OTHER -> Refused(signing)

startSignature(p) ==
  IF signing.status = "committed" THEN Answer(signing, "committed")
  ELSE IF signing.status = "pending" /\ Holds(signing, p) /\ Authorised
    THEN Answer([signing EXCEPT !.started = TRUE], "pending")
    ELSE Refused(signing)

commitSignature(p) ==
  IF signing.status = "committed" THEN Answer(signing, "committed")
  ELSE IF signing.status = "pending" /\ Holds(signing, p) /\ Authorised
    THEN Answer([signing EXCEPT !.status = "committed", !.claim = NoClaim, !.started = TRUE],
                "committed")
    ELSE Refused(signing)

markSignatureUncertain(p) ==
  IF /\ signing.status = "pending"
     /\ p \in signing.claim.holder
     /\ signing.started \/ signing.claim.live
    THEN [signing EXCEPT !.status = "uncertain", !.claim = NoClaim, !.started = TRUE]
    ELSE signing

(* Mutant: the reconciliation trusts the receipt and not the lifecycle.    *)
reconcileSignature_AnyVersion ==
  IF signing.status \in {"committed", "uncertain"}
    THEN Answer([signing EXCEPT !.status = "committed"], "committed")
    ELSE Refused(signing)

reconcileSignature ==
  IF signing.status = "committed" THEN Answer(signing, "committed")
  ELSE IF signing.status = "uncertain" /\ signing.started /\ Authorised
    THEN Answer([signing EXCEPT !.status = "committed"], "committed")
    ELSE Refused(signing)

-----------------------------------------------------------------------------
(* One process.                                                            *)

Accepting(p) == ~draining[p]
Goto(p, step) == pc' = [pc EXCEPT ![p] = step]
SameCall == UNCHANGED <<mode, attempt>>
(* How a failed call of the adapter ends: signReserved quarantines its     *)
(* reservation, reconcileUncertain only reports.                           *)
AdapterFails(p) == IF mode[p] = "sign" THEN "mark" ELSE "idle"
AdapterReturns(p) == IF mode[p] = "sign" THEN "commit" ELSE "reconcile"

Sign(p) ==
  /\ pc[p] \in {"idle", "ok"}
  /\ Accepting(p)
  /\ Goto(p, "reserve")
  /\ mode' = [mode EXCEPT ![p] = "sign"]
  /\ attempt' = [attempt EXCEPT ![p] = 0]
  /\ UNCHANGED <<lifecycle, rows, draining, calls>>

(* A call on the signing row that answers r: the row it leaves and next,   *)
(* the step that follows, or a fault that loses the answer.                *)
OnSigning(p, r, next, fault) ==
  /\ \/ signing' = r.row /\ Goto(p, next)
     \/ signing' \in {signing, r.row} /\ Goto(p, fault)
  /\ UNCHANGED <<lifecycle, op, draining, calls>>

Reserve(p) ==
  /\ pc[p] = "reserve"
  /\ LET r == reserveSignature(p)
         next == CASE r.out = "committed" -> "ok"
                   [] r.out = "pending"   -> "start"
                   [] r.out = "uncertain" -> "lookup"
                   [] OTHER               -> "idle"
     IN /\ OnSigning(p, r, next, "idle")
        /\ mode' = [mode EXCEPT ![p] = IF pc'[p] = "lookup" THEN "lookup" ELSE "sign"]
        /\ UNCHANGED attempt

(* fenceBeforeProviderBoundary: a drain that began during the last call    *)
(* quarantines the reservation instead of going on.                        *)
Fenced(p) ==
  /\ pc[p] \in {"start", "fence", "op_reserve"}
  /\ ~Accepting(p)
  /\ Goto(p, "mark")
  /\ SameCall
  /\ UNCHANGED <<lifecycle, rows, draining, calls>>

Start(p) ==
  /\ pc[p] = "start" /\ Accepting(p)
  /\ LET r == startSignature(p)
     IN OnSigning(p, r, IF r.out = "pending" THEN "fence" ELSE "idle", "idle")
  /\ SameCall

Fence(p) ==
  /\ pc[p] = "fence" /\ Accepting(p)
  /\ LET r == startSignature(p)
         next == CASE r.out = "pending"   -> "op_reserve"
                   [] r.out = "committed" -> "ok"
                   [] OTHER               -> "mark"
     IN OnSigning(p, r, next, "mark")
  /\ SameCall

Commit(p) ==
  /\ pc[p] = "commit"
  /\ LET r == commitSignature(p)
     IN OnSigning(p, r, IF r.out = "committed" THEN "ok" ELSE "mark", "mark")
  /\ SameCall

Mark(p) ==
  /\ pc[p] = "mark"
  /\ Goto(p, "idle")
  /\ signing' \in {signing, markSignatureUncertain(p)}
  /\ SameCall
  /\ UNCHANGED <<lifecycle, op, draining, calls>>

Reconcile(p) ==
  /\ pc[p] = "reconcile"
  /\ LET r == reconcileSignature
     IN OnSigning(p, r, IF r.out = "committed" THEN "ok" ELSE "idle", "idle")
  /\ SameCall

-----------------------------------------------------------------------------
(* The adapter, called by signOnce (after Fence) and by lookup.            *)

OnOperation(p, r, next, fault) ==
  /\ \/ op' = r.row /\ Goto(p, next)
     \/ op' \in {op, r.row} /\ Goto(p, fault)
  /\ UNCHANGED <<lifecycle, signing, mode, draining, calls>>

(* The body of the loop in executeSign and executeLookup: what a record    *)
(* without a claim of one's own leads to.                                  *)
Dispatch(p, out, n) ==
  CASE out = "committed"                -> AdapterReturns(p)
    [] out = "result"                   -> "op_reconcile"
    [] out \in {"started", "uncertain"} -> "op_claim"
    [] out = "pending" /\ mode[p] = "sign" /\ n < MaxRecoveryAttempts -> "op_wait"
    [] OTHER                            -> AdapterFails(p)

OpReserve(p) ==
  /\ pc[p] = "op_reserve" /\ Accepting(p)
  /\ LET r == reserveOperation(p)
     IN OnOperation(p, r, IF r.out = "claimed" THEN "op_start" ELSE Dispatch(p, r.out, attempt[p]),
                    AdapterFails(p))
  /\ UNCHANGED attempt

Lookup(p) ==
  /\ pc[p] = "lookup"
  /\ \/ Accepting(p) /\ OnOperation(p, getOperation, Dispatch(p, getOperation.out, attempt[p]), "idle")
     \/ ~Accepting(p) /\ Goto(p, "idle") /\ UNCHANGED <<lifecycle, rows, mode, draining, calls>>
  /\ UNCHANGED attempt

OpStart(p) ==
  /\ pc[p] = "op_start"
  /\ \/ Accepting(p) /\ LET r == startOperation(p)
                        IN OnOperation(p, r, IF r.out = "ok" THEN "provider" ELSE AdapterFails(p),
                                       AdapterFails(p))
     \/ ~Accepting(p) /\ Goto(p, AdapterFails(p)) /\ UNCHANGED <<lifecycle, rows, mode, draining, calls>>
  /\ UNCHANGED attempt

(* callProvider: no request once the gate is closed; otherwise the request *)
(* is made and its answer may be lost, or it is never made.                *)
CallProvider(p) ==
  /\ pc[p] = "provider"
  /\ \/ Accepting(p) /\ calls' = calls + 1 /\ \E step \in {"op_accept", "op_mark"} : Goto(p, step)
     \/ Goto(p, "op_mark") /\ UNCHANGED calls
  /\ SameCall
  /\ UNCHANGED <<lifecycle, rows, draining>>

OpAccept(p) ==
  /\ pc[p] = "op_accept"
  /\ LET r == recordAccepted(p)
     IN OnOperation(p, r, IF r.out = "ok" THEN "op_commit" ELSE "op_mark", "op_mark")
  /\ UNCHANGED attempt

OpCommit(p) ==
  /\ pc[p] = "op_commit"
  /\ LET r == commitOperation(p)
     IN OnOperation(p, r, IF r.out = "ok" THEN AdapterReturns(p) ELSE "op_mark", "op_mark")
  /\ UNCHANGED attempt

(* markUncertainBestEffort after a failed initial sign.                    *)
OpMark(p) ==
  /\ pc[p] = "op_mark"
  /\ OnOperation(p, markUncertain(p), AdapterFails(p), AdapterFails(p))
  /\ UNCHANGED attempt

OpWait(p) ==
  /\ pc[p] = "op_wait"
  /\ attempt' = [attempt EXCEPT ![p] = @ + 1]
  /\ Goto(p, Dispatch(p, getOperation.out, attempt[p] + 1))
  /\ UNCHANGED <<lifecycle, rows, mode, draining, calls>>

(* Mutant: a claim on an operation in doubt is a licence to sign again.    *)
OpClaim_SignsAgain(p) ==
  /\ pc[p] = "op_claim" /\ Accepting(p)
  /\ LET r == claimOperation(p)
     IN OnOperation(p, r, IF r.out = "claimed" THEN "op_start" ELSE AdapterFails(p),
                    AdapterFails(p))
  /\ UNCHANGED attempt

(* claimAndRecover: a claim never leads back to the provider.              *)
OpClaim(p) ==
  /\ pc[p] = "op_claim"
  /\ \/ /\ Accepting(p)
        /\ LET r == claimOperation(p)
               next == CASE r.out = "committed" -> AdapterReturns(p)
                         [] r.out = "result"    -> "op_reconcile"
                         [] r.out = "claimed"   -> "op_quarantine"
                         [] r.out = "busy" /\ attempt[p] < MaxRecoveryAttempts -> "op_wait"
                         [] OTHER               -> AdapterFails(p)
           IN OnOperation(p, r, next, AdapterFails(p))
     \/ ~Accepting(p) /\ Goto(p, AdapterFails(p)) /\ UNCHANGED <<lifecycle, rows, mode, draining, calls>>
  /\ UNCHANGED attempt

OpQuarantine(p) ==
  /\ pc[p] = "op_quarantine"
  /\ LET r == markUncertain(p)
         next == CASE r.out = "committed" -> AdapterReturns(p)
                   [] r.out = "result"    -> "op_reconcile"
                   [] OTHER               -> AdapterFails(p)
     IN OnOperation(p, r, next, AdapterFails(p))
  /\ UNCHANGED attempt

OpReconcile(p) ==
  /\ pc[p] = "op_reconcile"
  /\ LET r == reconcileOperation
     IN OnOperation(p, r, IF r.out = "ok" THEN AdapterReturns(p) ELSE AdapterFails(p),
                    AdapterFails(p))
  /\ UNCHANGED attempt

Step(p) ==
  \/ Reserve(p) \/ Fenced(p) \/ Start(p) \/ Fence(p) \/ Commit(p) \/ Mark(p)
  \/ Reconcile(p) \/ OpReserve(p) \/ Lookup(p) \/ OpStart(p) \/ CallProvider(p)
  \/ OpAccept(p) \/ OpCommit(p) \/ OpMark(p) \/ OpWait(p) \/ OpClaim(p)
  \/ OpQuarantine(p) \/ OpReconcile(p)
-----------------------------------------------------------------------------
(* The world around the processes.                                         *)

(* A process crashes, or is replaced after its drain.                      *)
Restart(p) ==
  /\ Goto(p, "idle")
  /\ draining' = [draining EXCEPT ![p] = FALSE]
  /\ SameCall
  /\ UNCHANGED <<lifecycle, rows, calls>>

beginDrain(p) ==
  /\ Accepting(p)
  /\ draining' = [draining EXCEPT ![p] = TRUE]
  /\ UNCHANGED <<lifecycle, rows, pc, mode, attempt, calls>>

(* The database clock passes the end of a lease.                           *)
Expire ==
  /\ \/ signing.claim.live /\ signing' = [signing EXCEPT !.claim.live = FALSE] /\ UNCHANGED op
     \/ op.claim.live /\ op' = [op EXCEPT !.claim.live = FALSE] /\ UNCHANGED signing
  /\ UNCHANGED <<lifecycle, procs, calls>>

(* agentpass_maintain_managed_signer_provider_operations.                  *)
Maintain ==
  /\ \/ /\ op.state = "started" /\ ~op.claim.live
        /\ op' = [op EXCEPT !.state = "uncertain", !.claim = NoClaim]
     \/ /\ op.state \in {"accepted", "uncertain"} /\ op.result
        /\ signing.status = "committed"
        /\ op' = [op EXCEPT !.state = "committed", !.claim = NoClaim]
  /\ UNCHANGED <<lifecycle, signing, procs, calls>>

(* pruneSigningRecords, pruneOperations and the joint prune of the         *)
(* maintenance, after the retention time, which is taken to outlast every  *)
(* call (thirty days by default, against leases of at most five minutes).   *)
Prune ==
  /\ \A p \in Procs : pc[p] \in {"idle", "ok"}
  /\ signing.status = "committed"
  /\ \/ signing' = NoSigning /\ UNCHANGED op
     \/ op.state = "committed" /\ op' = NoOperation /\ signing' \in {signing, NoSigning}
  /\ calls' = IF signing' = NoSigning /\ op' = NoOperation THEN 0 ELSE calls
  /\ UNCHANGED <<lifecycle, procs>>

ChangeLifecycle ==
  /\ LifecycleNext
  /\ UNCHANGED <<rows, procs, calls>>

Next ==
  \/ \E p \in Procs : Sign(p) \/ Step(p) \/ Restart(p) \/ beginDrain(p)
  \/ Expire
  \/ Maintain
  \/ Prune
  \/ ChangeLifecycle

Spec == Init /\ [][Next]_vars

-----------------------------------------------------------------------------
(* The provider signs an operation at most once while its records are      *)
(* kept, whichever processes crash, lose a lease, lose an answer or retry. *)
ProviderCalledOnce == calls <= 1

(* The provider is never called ahead of the durable evidence of it: a     *)
(* crash after the call finds an operation that crossed the boundary.      *)
BoundaryDurable ==
  calls > 0 => \/ op.state \notin {"absent", "pending"}
               \/ signing.status = "committed"

(* A committed signing response is backed by the result the provider       *)
(* record stores, as long as that record is kept.                          *)
CommittedBacked ==
  signing.status = "committed" /\ op.state # "absent" => op.result

(* A signing response in doubt is not reopened, a committed one is final   *)
(* until it is pruned, and the start of the provider call is not erased.   *)
NeverReopened ==
  [][/\ signing.status = "uncertain" => signing'.status \in {"uncertain", "committed"}
     /\ signing.status = "committed" => signing'.status \in {"committed", "absent"}
     /\ signing.started /\ signing'.status # "absent" => signing'.started]_vars

(* Reducing the authority of a key stops its reservations for good: what   *)
(* was reserved under an older snapshot never becomes committed.           *)
LifecycleFences ==
  [][signing.status # "absent" /\ signing.reserved # lifecycle.version
       => (signing'.status = "committed" => signing.status = "committed")]_vars

(* A lease that lapses after the provider boundary is in doubt from then   *)
(* on: whoever is told so finds a durable row to reconcile.                *)
ExpiryIsUncertain == \A p \in Procs : pc[p] = "lookup" => signing.status # "pending"
=============================================================================
