------------------------ MODULE ProviderOperations ------------------------
(***************************************************************************)
(* The durable record of one call to the key-management provider           *)
(* (postgres/provider-operation-repository.mjs over the functions of       *)
(* migration 0049 and the maintenance of 0050).  The table is keyed by the *)
(* operation and rows do not touch each other, so one row is modelled.     *)
(* Every operation below is one database call: it gives the row it leaves  *)
(* and the answer the caller reads.  A claim is held under a token by a    *)
(* process and lapses when the database clock passes claim_expires_at.     *)
(***************************************************************************)
CONSTANT Procs

VARIABLE op     \* the row of managed_signer_provider_operations

NoClaim == [holder |-> {}, live |-> FALSE]
Claim(p) == [holder |-> {p}, live |-> TRUE]
Claims == {NoClaim} \cup [holder : {{p} : p \in Procs}, live : BOOLEAN]

(* The states the adapter's own calls reach (rejected and failed are set   *)
(* by adjudication only), whether a signature and receipt are stored, and  *)
(* the claim.                                                              *)
NoOperation == [state |-> "absent", result |-> FALSE, claim |-> NoClaim]
OperationRows ==
  [state : {"absent", "pending", "started", "accepted", "uncertain", "committed"},
   result : BOOLEAN, claim : Claims]

Holds(row, p) == row.claim.live /\ p \in row.claim.holder
Answer(row, out) == [row |-> row, out |-> out]
Refused(row) == Answer(row, "error")

(* What the caller makes of a row it is given without a claim.             *)
Read(row) == Answer(row, IF row.result /\ row.state \in {"accepted", "uncertain"}
                           THEN "result" ELSE row.state)

reserveOperation(p) ==
  IF op.state = "absent" \/ (op.state = "pending" /\ ~op.claim.live)
    THEN Answer([state |-> "pending", result |-> FALSE, claim |-> Claim(p)], "claimed")
    ELSE Read(op)

claimOperation(p) ==
  LET row == IF op.state = "committed" \/ op.claim.live
               THEN op ELSE [op EXCEPT !.claim = Claim(p)]
  IN IF op.state = "absent" THEN Refused(op)
     ELSE Answer(row, IF Read(op).out \in {"committed", "result"} THEN Read(op).out
                      ELSE IF row = op THEN "busy" ELSE "claimed")

(* Mutant: the boundary is only announced to the caller.                   *)
startOperation_NotStored(p) == Answer(op, IF Holds(op, p) THEN "ok" ELSE "error")

startOperation(p) ==
  IF op.state \in {"pending", "started"} /\ Holds(op, p)
    THEN Answer([op EXCEPT !.state = "started"], "ok")
    ELSE Refused(op)

(* Mutant: the accepted output is acknowledged without being stored.       *)
recordAccepted_NotStored(p) ==
  IF Holds(op, p) THEN Answer([op EXCEPT !.state = "accepted"], "ok") ELSE Refused(op)

recordAccepted(p) ==
  IF op.state \in {"started", "uncertain", "accepted"} /\ Holds(op, p)
    THEN Answer([op EXCEPT !.state = "accepted", !.result = TRUE], "ok")
    ELSE Refused(op)

commitOperation(p) ==
  IF op.state = "committed" THEN Answer(op, "ok")
  ELSE IF op.state = "accepted" /\ Holds(op, p)
    THEN Answer([op EXCEPT !.state = "committed", !.claim = NoClaim], "ok")
    ELSE Refused(op)

reconcileOperation ==
  IF op.state = "committed" THEN Answer(op, "ok")
  ELSE IF op.state \in {"accepted", "uncertain"} /\ op.result
    THEN Answer([op EXCEPT !.state = "committed", !.claim = NoClaim], "ok")
    ELSE Refused(op)

markUncertain(p) ==
  IF op.state = "committed" THEN Read(op)
  ELSE IF op.state # "absent" /\ Holds(op, p)
    THEN Read([op EXCEPT !.state = "uncertain", !.claim = NoClaim])
    ELSE Refused(op)

getOperation == Read(op)
=============================================================================
