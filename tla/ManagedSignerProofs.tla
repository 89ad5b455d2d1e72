------------------------ MODULE ManagedSignerProofs ------------------------
(***************************************************************************)
(* What the durable managed signer promises for any number of processes,   *)
(* keys, snapshots and recovery attempts: the provider signs an operation  *)
(* at most once, never ahead of durable evidence, a committed response is  *)
(* backed by a stored result, nothing in doubt is reopened and a reduced   *)
(* authority fences what was reserved before.                              *)
(***************************************************************************)
EXTENDS ManagedSigner, SequenceTheorems, TLAPS

-----------------------------------------------------------------------------
(* The inductive invariant of the rows and the processes. *)

\* An absent row is the empty one.
AbsentRows ==
  /\ signing.status = "absent" => ~signing.started
  /\ op.state = "absent" => op = NoOperation

\* A provider record that was accepted or committed stores its result.
ResultStored == op.state \in {"accepted", "committed"} => op.result

\* The response is committed only behind a committed provider record, and
\* that record goes before the response does.
RecordFirst ==
  /\ \A p \in Procs : pc[p] \in {"commit", "reconcile"} => op.state = "committed"
  /\ signing.status = "committed" => op.state \in {"absent", "committed"}

\* Once the record of a committed response is pruned, no process is past the
\* reservation, where it will read the response.
PrunedIsOver ==
  signing.status = "committed" /\ op.state = "absent" =>
    \A p \in Procs : pc[p] \in {"idle", "ok", "reserve"}

\* A process about to cross the boundary either lost its claim or finds the
\* operation as it reserved it.
ClaimPending ==
  \A p \in Procs : pc[p] = "op_start" /\ p \in op.claim.holder => op.state = "pending"

\* Only one process is at the boundary, and the provider was not called yet.
OneAtBoundary ==
  \A p \in Procs : pc[p] = "provider" =>
    /\ calls = 0
    /\ op.state \notin {"absent", "pending"}
    /\ \A q \in Procs : pc[q] = "provider" => q = p

\* A call to the provider leaves a record that crossed the boundary, until a
\* committed response has taken its place.
CallRecorded ==
  calls > 0 => \/ op.state \notin {"absent", "pending"}
               \/ op.state = "absent" /\ signing.status = "committed"

\* A process that waits for the record has an attempt left.
AttemptsLeft == \A p \in Procs : pc[p] = "op_wait" => attempt[p] < MaxRecoveryAttempts

SignerInv ==
  /\ TypeOK /\ AttemptsLeft /\ AbsentRows /\ ResultStored /\ RecordFirst /\ PrunedIsOver
  /\ ClaimPending /\ OneAtBoundary /\ CallRecorded /\ calls <= 1

-----------------------------------------------------------------------------
(* Steps that do not cross the provider boundary. *)

\* What such a step may do to the rows; X is the set of processes that move.
RowsStep(X) ==
  /\ op.state = "absent" <=> op'.state = "absent"
  /\ op.state = "committed" => op'.state = "committed"
  /\ op'.state = "pending" => op.state = "pending"
  /\ AbsentRows' /\ ResultStored'
  /\ signing.status = "committed" => signing'.status = "committed"
  /\ signing'.status = "committed" => signing.status = "committed" \/ op.state = "committed"
  /\ \A q \in Procs \ X : q \in op'.claim.holder => q \in op.claim.holder /\ op'.state = op.state
  /\ calls' = calls

\* What it may do to the processes.
ProcsStep(X) ==
  /\ \A q \in Procs \ X : pc'[q] = pc[q] /\ attempt'[q] = attempt[q]
  /\ \A q \in X :
       /\ pc'[q] \notin {"op_start", "provider"}
       /\ pc'[q] \in {"commit", "reconcile"} => op'.state = "committed"
       /\ pc'[q] = "op_wait" => attempt'[q] < MaxRecoveryAttempts
       /\ signing.status = "committed" /\ op.state = "absent" => pc'[q] \in {"idle", "ok", "reserve"}

LEMMA AwayFromBoundary ==
  ASSUME SignerInv, TypeOK', NEW X \in SUBSET Procs, RowsStep(X), ProcsStep(X)
  PROVE  SignerInv'
<1> USE DEF SignerInv, RowsStep, ProcsStep
<1>1. AttemptsLeft'
  BY DEF AttemptsLeft
<1>2. RecordFirst'
  BY DEF RecordFirst
<1>3. PrunedIsOver'
  BY DEF PrunedIsOver
<1>4. ClaimPending'
  BY DEF ClaimPending
<1>5. OneAtBoundary'
  BY DEF OneAtBoundary
<1>6. CallRecorded'
  BY DEF CallRecorded
<1> QED BY <1>1, <1>2, <1>3, <1>4, <1>5, <1>6

-----------------------------------------------------------------------------
(* What the calls of the provider repository do to the row. *)

\* A call by p on a record that exists: the record stays, a committed one is
\* final, and what p does not hold it does not touch.
KeepsOperation(p, new) ==
  /\ new \in OperationRows
  /\ op.state = "absent" <=> new.state = "absent"
  /\ op.state \in {"absent", "committed"} => new = op
  /\ new.state = "pending" => op.state = "pending"
  /\ new.state \in {"accepted", "committed"} => new.result
  /\ \A q \in Procs \ {p} : q \in new.claim.holder => q \in op.claim.holder /\ new.state = op.state

LEMMA ClaimTypes ==
  /\ NoClaim \in Claims /\ NoClaim.holder = {} /\ NoClaim.live = FALSE
  /\ \A p \in Procs : Claim(p) \in Claims /\ Claim(p).holder = {p}
  /\ \A c \in Claims : \A p, q \in Procs : p \in c.holder /\ q \in c.holder => p = q
<1>1. NoClaim \in Claims /\ NoClaim.holder = {} /\ NoClaim.live = FALSE
  BY DEF Claims, NoClaim
<1>2. \A p \in Procs : Claim(p) \in Claims /\ Claim(p).holder = {p}
  <2> TAKE p \in Procs
  <2>1. {p} \in {{q} : q \in Procs}
    OBVIOUS
  <2> QED BY <2>1 DEF Claims, Claim
<1>3. ASSUME NEW c \in Claims, NEW p \in Procs, NEW q \in Procs, p \in c.holder, q \in c.holder
      PROVE  p = q
  <2>1. CASE c = NoClaim
    BY <1>1, <1>3, <2>1
  <2>2. CASE c \in [holder : {{r} : r \in Procs}, live : BOOLEAN]
    <3>1. c.holder \in {{r} : r \in Procs}
      BY <2>2
    <3>2. PICK r \in Procs : c.holder = {r}
      BY <3>1
    <3> QED BY <1>3, <3>2
  <2> QED BY <2>1, <2>2 DEF Claims
<1> QED BY <1>1, <1>2, <1>3

\* A lease that lapses leaves the claim to its holder.
LEMMA LapsedClaim ==
  ASSUME NEW c \in Claims, c.live
  PROVE  [c EXCEPT !.live = FALSE] \in Claims /\ [c EXCEPT !.live = FALSE].holder = c.holder
<1>1. CASE c = NoClaim
  BY <1>1, ClaimTypes
<1>2. CASE c \in [holder : {{r} : r \in Procs}, live : BOOLEAN]
  BY <1>2 DEF Claims
<1> QED BY <1>1, <1>2 DEF Claims

LEMMA UntouchedKeeps ==
  ASSUME SignerInv, NEW p \in Procs
  PROVE  KeepsOperation(p, op)
BY DEF SignerInv, TypeOK, KeepsOperation, ResultStored

LEMMA StartKeeps ==
  ASSUME SignerInv, NEW p \in Procs
  PROVE  KeepsOperation(p, startOperation(p).row)
<1>1. CASE startOperation(p) = Refused(op)
  BY <1>1, UntouchedKeeps DEF Refused, Answer
<1>2. CASE op.state \in {"pending", "started"} /\ Holds(op, p)
  <2> DEFINE new == [op EXCEPT !.state = "started"]
  <2>1. startOperation(p).row = new
    BY <1>2 DEF startOperation, Answer
  <2>2. op \in OperationRows /\ op.claim \in Claims
    BY DEF SignerInv, TypeOK, OperationRows
  <2>3. new \in OperationRows /\ new.state = "started" /\ new.claim = op.claim
    BY <2>2 DEF OperationRows
  <2>4. \A q \in Procs \ {p} : q \notin op.claim.holder
    BY <1>2, <2>2, ClaimTypes DEF Holds
  <2> QED BY <1>2, <2>1, <2>3, <2>4 DEF KeepsOperation
<1> QED BY <1>1, <1>2 DEF startOperation

LEMMA AcceptKeeps ==
  ASSUME SignerInv, NEW p \in Procs
  PROVE  KeepsOperation(p, recordAccepted(p).row)
<1>1. CASE recordAccepted(p) = Refused(op)
  BY <1>1, UntouchedKeeps DEF Refused, Answer
<1>2. CASE op.state \in {"started", "uncertain", "accepted"} /\ Holds(op, p)
  <2> DEFINE new == [op EXCEPT !.state = "accepted", !.result = TRUE]
  <2>1. recordAccepted(p).row = new
    BY <1>2 DEF recordAccepted, Answer
  <2>2. op \in OperationRows /\ op.claim \in Claims
    BY DEF SignerInv, TypeOK, OperationRows
  <2>3. new \in OperationRows /\ new.state = "accepted" /\ new.claim = op.claim /\ new.result = TRUE
    BY <2>2 DEF OperationRows
  <2>4. \A q \in Procs \ {p} : q \notin op.claim.holder
    BY <1>2, <2>2, ClaimTypes DEF Holds
  <2> QED BY <1>2, <2>1, <2>3, <2>4 DEF KeepsOperation
<1> QED BY <1>1, <1>2 DEF recordAccepted

\* The record is given another state and its claim is released.
LEMMA ReleaseKeeps ==
  ASSUME SignerInv, NEW p \in Procs, NEW state \in {"uncertain", "committed"},
         op.state \notin {"absent", "committed"}, state = "committed" => op.result
  PROVE  KeepsOperation(p, [op EXCEPT !.state = state, !.claim = NoClaim])
<1> DEFINE new == [op EXCEPT !.state = state, !.claim = NoClaim]
<1>1. op \in OperationRows
  BY DEF SignerInv, TypeOK
<1>2. new \in OperationRows /\ new.state = state /\ new.claim = NoClaim /\ new.result = op.result
  BY <1>1, ClaimTypes DEF OperationRows
<1> HIDE DEF new
<1>3. KeepsOperation(p, new)
  BY <1>2, ClaimTypes DEF KeepsOperation
<1> QED BY <1>3 DEF new

LEMMA CommitKeeps ==
  ASSUME SignerInv, NEW p \in Procs
  PROVE  /\ KeepsOperation(p, commitOperation(p).row)
         /\ commitOperation(p).out = "ok" => commitOperation(p).row.state = "committed"
<1>1. CASE op.state = "committed"
  BY <1>1, UntouchedKeeps DEF commitOperation, Answer
<1>2. CASE op.state # "committed" /\ op.state = "accepted" /\ Holds(op, p)
  <2>1. commitOperation(p).row = [op EXCEPT !.state = "committed", !.claim = NoClaim]
    BY <1>2 DEF commitOperation, Answer
  <2>2. op.result /\ op \in OperationRows
    BY <1>2 DEF SignerInv, ResultStored, TypeOK
  <2>3. [op EXCEPT !.state = "committed", !.claim = NoClaim].state = "committed"
    BY <2>2 DEF OperationRows
  <2> QED BY <1>2, <2>1, <2>2, <2>3, ReleaseKeeps
<1>3. CASE op.state # "committed" /\ ~(op.state = "accepted" /\ Holds(op, p))
  BY <1>3, UntouchedKeeps DEF commitOperation, Answer, Refused
<1> QED BY <1>1, <1>2, <1>3

LEMMA ReconcileKeeps ==
  ASSUME SignerInv, NEW p \in Procs
  PROVE  /\ KeepsOperation(p, reconcileOperation.row)
         /\ reconcileOperation.out = "ok" => reconcileOperation.row.state = "committed"
<1>1. CASE op.state = "committed"
  BY <1>1, UntouchedKeeps DEF reconcileOperation, Answer
<1>2. CASE op.state \in {"accepted", "uncertain"} /\ op.result
  <2>1. reconcileOperation.row = [op EXCEPT !.state = "committed", !.claim = NoClaim]
    BY <1>2 DEF reconcileOperation, Answer
  <2>2. [op EXCEPT !.state = "committed", !.claim = NoClaim].state = "committed"
    BY DEF SignerInv, TypeOK, OperationRows
  <2> QED BY <1>2, <2>1, <2>2, ReleaseKeeps
<1>3. CASE op.state # "committed" /\ ~(op.state \in {"accepted", "uncertain"} /\ op.result)
  BY <1>3, UntouchedKeeps DEF reconcileOperation, Answer, Refused
<1> QED BY <1>1, <1>2, <1>3

LEMMA MarkKeeps ==
  ASSUME SignerInv, NEW p \in Procs
  PROVE  /\ KeepsOperation(p, markUncertain(p).row)
         /\ markUncertain(p).out = "committed" => markUncertain(p).row.state = "committed"
<1>1. CASE op.state = "committed"
  BY <1>1, UntouchedKeeps DEF markUncertain, Read, Answer
<1>2. CASE op.state # "committed" /\ op.state # "absent" /\ Holds(op, p)
  <2> DEFINE new == [op EXCEPT !.state = "uncertain", !.claim = NoClaim]
  <2>1. markUncertain(p) = Read(new)
    BY <1>2 DEF markUncertain
  <2>2. KeepsOperation(p, new)
    BY <1>2, ReleaseKeeps
  <2> HIDE DEF new
  <2> QED BY <2>1, <2>2 DEF Read, Answer
<1>3. CASE op.state # "committed" /\ ~(op.state # "absent" /\ Holds(op, p))
  BY <1>3, UntouchedKeeps DEF markUncertain, Answer, Refused
<1> QED BY <1>1, <1>2, <1>3

LEMMA ClaimKeeps ==
  ASSUME SignerInv, NEW p \in Procs
  PROVE  /\ KeepsOperation(p, claimOperation(p).row)
         /\ claimOperation(p).out = "committed" => claimOperation(p).row.state = "committed"
<1>1. CASE op.state = "absent"
  BY <1>1, UntouchedKeeps DEF claimOperation, Answer, Refused
<1>2. CASE op.state # "absent" /\ (op.state = "committed" \/ op.claim.live)
  BY <1>2, UntouchedKeeps DEF claimOperation, Answer, Read
<1>3. CASE op.state # "absent" /\ ~(op.state = "committed" \/ op.claim.live)
  <2> DEFINE new == [op EXCEPT !.claim = Claim(p)]
  <2>1. claimOperation(p).row = new /\ claimOperation(p).out # "committed"
    BY <1>3 DEF claimOperation, Answer, Read
  <2>2. op \in OperationRows /\ Claim(p) \in Claims /\ Claim(p).holder = {p}
    BY ClaimTypes DEF SignerInv, TypeOK
  <2>3. new \in OperationRows /\ new.state = op.state /\ new.claim = Claim(p) /\ new.result = op.result
    BY <2>2 DEF OperationRows
  <2> HIDE DEF new
  <2>4. KeepsOperation(p, new)
    BY <1>3, <2>2, <2>3 DEF KeepsOperation, SignerInv, ResultStored
  <2> QED BY <2>1, <2>4
<1> QED BY <1>1, <1>2, <1>3

-----------------------------------------------------------------------------
(* The calls of a process. *)

LEMMA AdapterSteps ==
  ASSUME SignerInv, NEW p \in Procs
  PROVE  AdapterFails(p) \in {"mark", "idle"} /\ AdapterReturns(p) \in {"commit", "reconcile"}
BY DEF AdapterFails, AdapterReturns

LEMMA DispatchSteps ==
  ASSUME SignerInv, NEW p \in Procs, NEW out, NEW n
  PROVE  /\ Dispatch(p, out, n) \in Steps \ {"op_start", "provider"}
         /\ Dispatch(p, out, n) \in {"commit", "reconcile"} => out = "committed"
         /\ Dispatch(p, out, n) = "op_wait" => n < MaxRecoveryAttempts
<1>1. CASE out = "committed"
  BY <1>1, AdapterSteps DEF Dispatch, Steps
<1>2. CASE out = "result"
  BY <1>2 DEF Dispatch, Steps
<1>3. CASE out \in {"started", "uncertain"}
  BY <1>3 DEF Dispatch, Steps
<1>4. CASE out = "pending" /\ mode[p] = "sign" /\ n < MaxRecoveryAttempts
  BY <1>4 DEF Dispatch, Steps
<1>5. CASE /\ out \notin {"committed", "result", "started", "uncertain"}
           /\ ~(out = "pending" /\ mode[p] = "sign" /\ n < MaxRecoveryAttempts)
  BY <1>5, AdapterSteps DEF Dispatch, Steps
<1> QED BY <1>1, <1>2, <1>3, <1>4, <1>5

LEMMA PcTyped ==
  ASSUME SignerInv, NEW p \in Procs, NEW step \in Steps, Goto(p, step)
  PROVE  /\ pc' \in [Procs -> Steps] /\ pc'[p] = step
         /\ \A q \in Procs \ {p} : pc'[q] = pc[q]
BY DEF SignerInv, TypeOK, Goto

\* A call of the adapter that leaves the boundary alone.
LEMMA OperationCall ==
  ASSUME SignerInv, NEW p \in Procs, pc[p] \notin {"idle", "ok", "reserve"},
         KeepsOperation(p, op'),
         NEW step \in Steps \ {"op_start", "provider"}, Goto(p, step),
         step \in {"commit", "reconcile"} => op'.state = "committed",
         attempt' \in [Procs -> 0 .. MaxRecoveryAttempts],
         \A q \in Procs \ {p} : attempt'[q] = attempt[q],
         step = "op_wait" => attempt'[p] < MaxRecoveryAttempts,
         UNCHANGED <<lifecycle, signing, mode, draining, calls>>
  PROVE  SignerInv'
<1>1. /\ pc' \in [Procs -> Steps] /\ pc'[p] = step
      /\ \A q \in Procs \ {p} : pc'[q] = pc[q]
  BY PcTyped
<1>2. TypeOK'
  BY <1>1 DEF SignerInv, TypeOK, KeepsOperation
<1>3. AbsentRows' /\ ResultStored'
  BY DEF SignerInv, AbsentRows, ResultStored, KeepsOperation
<1>4. ~(signing.status = "committed" /\ op.state = "absent")
  BY DEF SignerInv, PrunedIsOver
<1>5. RowsStep({p})
  BY <1>3 DEF RowsStep, KeepsOperation
<1>6. ProcsStep({p})
  BY <1>1, <1>4 DEF ProcsStep
<1> QED BY <1>2, <1>5, <1>6, AwayFromBoundary

\* A call on the signing row.
LEMMA SigningCall ==
  ASSUME SignerInv, NEW p \in Procs, signing' \in SigningRows,
         signing'.status = "absent" => ~signing'.started,
         signing.status = "committed" => signing'.status = "committed",
         signing'.status = "committed" => signing.status = "committed" \/ op.state = "committed",
         NEW step \in Steps \ {"op_start", "provider", "commit", "reconcile", "op_wait"}, Goto(p, step),
         signing.status = "committed" /\ op.state = "absent" => step \in {"idle", "ok", "reserve"},
         mode' \in [Procs -> {"sign", "lookup"}], attempt' \in [Procs -> 0 .. MaxRecoveryAttempts],
         \A q \in Procs \ {p} : attempt'[q] = attempt[q],
         draining' \in [Procs -> BOOLEAN],
         UNCHANGED <<lifecycle, op, calls>>
  PROVE  SignerInv'
<1>1. /\ pc' \in [Procs -> Steps] /\ pc'[p] = step
      /\ \A q \in Procs \ {p} : pc'[q] = pc[q]
  BY PcTyped
<1>2. TypeOK'
  BY <1>1 DEF SignerInv, TypeOK
<1>3. AbsentRows' /\ ResultStored'
  BY DEF SignerInv, AbsentRows, ResultStored
<1>4. RowsStep({p})
  BY <1>3 DEF RowsStep
<1>5. ProcsStep({p})
  BY <1>1 DEF ProcsStep
<1> QED BY <1>2, <1>4, <1>5, AwayFromBoundary

\* A step between two calls, or one whose call had no effect.
LEMMA StopStep ==
  ASSUME SignerInv, NEW p \in Procs,
         NEW step \in {"idle", "mark"}, Goto(p, step),
         pc[p] \in {"idle", "ok", "reserve"} => step = "idle",
         draining' \in [Procs -> BOOLEAN],
         UNCHANGED <<lifecycle, signing, op, mode, attempt, calls>>
  PROVE  SignerInv'
<1>1. signing \in SigningRows /\ attempt \in [Procs -> 0 .. MaxRecoveryAttempts]
      /\ mode \in [Procs -> {"sign", "lookup"}] /\ (signing.status = "absent" => ~signing.started)
  BY DEF SignerInv, TypeOK, AbsentRows
<1>2. signing.status = "committed" /\ op.state = "absent" => step = "idle"
  BY DEF SignerInv, PrunedIsOver
<1> QED BY <1>1, <1>2, SigningCall DEF Steps

LEMMA OpAcceptStep == ASSUME SignerInv, NEW p \in Procs, OpAccept(p) PROVE SignerInv'
<1> DEFINE r == recordAccepted(p)
<1>1. PICK step \in {"op_commit", "op_mark"} : Goto(p, step)
  BY DEF OpAccept, OnOperation
<1>2. op' \in {op, r.row}
  BY DEF OpAccept, OnOperation
<1>3. KeepsOperation(p, op')
  BY <1>2, UntouchedKeeps, AcceptKeeps
<1>4. pc[p] = "op_accept" /\ UNCHANGED <<lifecycle, signing, mode, attempt, draining, calls>>
  BY DEF OpAccept, OnOperation
<1> QED BY <1>1, <1>3, <1>4, OperationCall DEF Steps, SignerInv, TypeOK

LEMMA OpCommitStep == ASSUME SignerInv, NEW p \in Procs, OpCommit(p) PROVE SignerInv'
<1> DEFINE r == commitOperation(p)
<1>1. PICK step : /\ Goto(p, step)
                  /\ \/ step = "op_mark"
                     \/ step = AdapterReturns(p) /\ op' = r.row /\ r.out = "ok"
  BY DEF OpCommit, OnOperation
<1>2. op' \in {op, r.row}
  BY DEF OpCommit, OnOperation
<1>3. KeepsOperation(p, op')
  BY <1>2, UntouchedKeeps, CommitKeeps
<1>4. step \in Steps \ {"op_start", "provider", "op_wait"}
  BY <1>1, AdapterSteps DEF Steps
<1>5. step \in {"commit", "reconcile"} => op'.state = "committed"
  BY <1>1, CommitKeeps
<1>6. pc[p] = "op_commit" /\ UNCHANGED <<lifecycle, signing, mode, attempt, draining, calls>>
  BY DEF OpCommit, OnOperation
<1> QED BY <1>1, <1>3, <1>4, <1>5, <1>6, OperationCall DEF SignerInv, TypeOK

LEMMA OpMarkStep == ASSUME SignerInv, NEW p \in Procs, OpMark(p) PROVE SignerInv'
<1>1. Goto(p, AdapterFails(p)) /\ AdapterFails(p) \in Steps \ {"op_start", "provider", "op_wait", "commit", "reconcile"}
  BY AdapterSteps DEF OpMark, OnOperation, Steps
<1>2. op' \in {op, markUncertain(p).row}
  BY DEF OpMark, OnOperation
<1>3. KeepsOperation(p, op')
  BY <1>2, UntouchedKeeps, MarkKeeps
<1>4. pc[p] = "op_mark" /\ UNCHANGED <<lifecycle, signing, mode, attempt, draining, calls>>
  BY DEF OpMark, OnOperation
<1> QED BY <1>1, <1>3, <1>4, OperationCall DEF SignerInv, TypeOK

LEMMA OpQuarantineStep == ASSUME SignerInv, NEW p \in Procs, OpQuarantine(p) PROVE SignerInv'
<1> DEFINE r == markUncertain(p)
<1>1. PICK step : /\ Goto(p, step)
                  /\ \/ step \in {AdapterFails(p), "op_reconcile"}
                     \/ step = AdapterReturns(p) /\ op' = r.row /\ r.out = "committed"
  BY DEF OpQuarantine, OnOperation
<1>2. op' \in {op, r.row}
  BY DEF OpQuarantine, OnOperation
<1>3. KeepsOperation(p, op')
  BY <1>2, UntouchedKeeps, MarkKeeps
<1>4. step \in Steps \ {"op_start", "provider", "op_wait"}
  BY <1>1, AdapterSteps DEF Steps
<1>5. step \in {"commit", "reconcile"} => op'.state = "committed"
  BY <1>1, MarkKeeps, AdapterSteps
<1>6. pc[p] = "op_quarantine" /\ UNCHANGED <<lifecycle, signing, mode, attempt, draining, calls>>
  BY DEF OpQuarantine, OnOperation
<1> QED BY <1>1, <1>3, <1>4, <1>5, <1>6, OperationCall DEF SignerInv, TypeOK

LEMMA OpReconcileStep == ASSUME SignerInv, NEW p \in Procs, OpReconcile(p) PROVE SignerInv'
<1> DEFINE r == reconcileOperation
<1>1. PICK step : /\ Goto(p, step)
                  /\ \/ step = AdapterFails(p)
                     \/ step = AdapterReturns(p) /\ op' = r.row /\ r.out = "ok"
  BY DEF OpReconcile, OnOperation
<1>2. op' \in {op, r.row}
  BY DEF OpReconcile, OnOperation
<1>3. KeepsOperation(p, op')
  BY <1>2, UntouchedKeeps, ReconcileKeeps
<1>4. step \in Steps \ {"op_start", "provider", "op_wait"}
  BY <1>1, AdapterSteps DEF Steps
<1>5. step \in {"commit", "reconcile"} => op'.state = "committed"
  BY <1>1, ReconcileKeeps, AdapterSteps
<1>6. pc[p] = "op_reconcile" /\ UNCHANGED <<lifecycle, signing, mode, attempt, draining, calls>>
  BY DEF OpReconcile, OnOperation
<1> QED BY <1>1, <1>3, <1>4, <1>5, <1>6, OperationCall DEF SignerInv, TypeOK

LEMMA OpClaimStep == ASSUME SignerInv, NEW p \in Procs, OpClaim(p) PROVE SignerInv'
<1> DEFINE r == claimOperation(p)
<1>1. pc[p] = "op_claim" /\ UNCHANGED <<lifecycle, signing, mode, attempt, draining, calls>>
  BY DEF OpClaim, OnOperation, rows
<1>2. CASE ~Accepting(p)
  <2>1. Goto(p, AdapterFails(p)) /\ UNCHANGED op
    BY <1>2 DEF OpClaim, rows
  <2> QED BY <1>1, <2>1, AdapterSteps, StopStep DEF SignerInv, TypeOK
<1>3. CASE Accepting(p)
  <2>1. PICK step : /\ Goto(p, step)
                    /\ \/ step \in {AdapterFails(p), "op_reconcile", "op_quarantine"}
                       \/ step = "op_wait" /\ attempt[p] < MaxRecoveryAttempts
                       \/ step = AdapterReturns(p) /\ op' = r.row /\ r.out = "committed"
    BY <1>3 DEF OpClaim, OnOperation
  <2>2. op' \in {op, r.row}
    BY <1>3 DEF OpClaim, OnOperation
  <2>3. KeepsOperation(p, op')
    BY <2>2, UntouchedKeeps, ClaimKeeps
  <2>4. step \in Steps \ {"op_start", "provider"} /\ (step = "op_wait" => attempt[p] < MaxRecoveryAttempts)
    BY <2>1, AdapterSteps DEF Steps
  <2>5. step \in {"commit", "reconcile"} => op'.state = "committed"
    BY <2>1, ClaimKeeps, AdapterSteps
  <2> QED BY <1>1, <2>1, <2>3, <2>4, <2>5, OperationCall DEF SignerInv, TypeOK
<1> QED BY <1>2, <1>3

\* Reading the record without a claim.
LEMMA DispatchOnRead ==
  ASSUME SignerInv, NEW p \in Procs, NEW n, Dispatch(p, getOperation.out, n) \in {"commit", "reconcile"}
  PROVE  op.state = "committed"
<1>1. getOperation.out = "committed"
  BY DispatchSteps
<1> QED BY <1>1 DEF getOperation, Read, Answer

LEMMA LookupStep == ASSUME SignerInv, NEW p \in Procs, Lookup(p) PROVE SignerInv'
<1> DEFINE next == Dispatch(p, getOperation.out, attempt[p])
<1>1. getOperation.row = op
  BY DEF getOperation, Read, Answer
<1>2. pc[p] = "lookup" /\ UNCHANGED <<lifecycle, signing, op, mode, attempt, draining, calls>>
  BY <1>1 DEF Lookup, OnOperation, rows
<1>3. CASE Goto(p, "idle")
  BY <1>2, <1>3, StopStep DEF SignerInv, TypeOK
<1>4. CASE Goto(p, next)
  <2>1. /\ next \in Steps \ {"op_start", "provider"}
        /\ next \in {"commit", "reconcile"} => op'.state = "committed"
        /\ next = "op_wait" => attempt[p] < MaxRecoveryAttempts
    BY <1>2, DispatchSteps, DispatchOnRead
  <2>2. KeepsOperation(p, op')
    BY <1>2, UntouchedKeeps
  <2> QED BY <1>2, <1>4, <2>1, <2>2, OperationCall DEF SignerInv, TypeOK
<1> QED BY <1>3, <1>4 DEF Lookup, OnOperation

LEMMA OpWaitStep == ASSUME SignerInv, NEW p \in Procs, OpWait(p) PROVE SignerInv'
<1> DEFINE next == Dispatch(p, getOperation.out, attempt[p] + 1)
<1>1. /\ pc[p] = "op_wait" /\ attempt' = [attempt EXCEPT ![p] = attempt[p] + 1] /\ Goto(p, next)
      /\ UNCHANGED <<lifecycle, signing, op, mode, draining, calls>>
  BY DEF OpWait, rows
<1>2. attempt \in [Procs -> 0 .. MaxRecoveryAttempts] /\ attempt[p] < MaxRecoveryAttempts
  BY <1>1 DEF SignerInv, TypeOK, AttemptsLeft
<1>3. attempt[p] + 1 \in 0 .. MaxRecoveryAttempts
  BY <1>2, SignerAssumption
<1>4. /\ attempt' \in [Procs -> 0 .. MaxRecoveryAttempts] /\ attempt'[p] = attempt[p] + 1
      /\ \A q \in Procs \ {p} : attempt'[q] = attempt[q]
  BY <1>1, <1>2, <1>3
<1>5. /\ next \in Steps \ {"op_start", "provider"}
      /\ next \in {"commit", "reconcile"} => op'.state = "committed"
      /\ next = "op_wait" => attempt'[p] < MaxRecoveryAttempts
  BY <1>1, <1>4, DispatchSteps, DispatchOnRead
<1>6. KeepsOperation(p, op')
  BY <1>1, UntouchedKeeps
<1> HIDE DEF next
<1> QED BY <1>1, <1>4, <1>5, <1>6, OperationCall

-----------------------------------------------------------------------------
(* The steps that lead up to the provider. *)

\* p reserves the operation, and whoever reserved it before lost it.
LEMMA NewReservation ==
  ASSUME SignerInv, NEW p \in Procs, pc[p] = "op_reserve",
         op.state = "absent" \/ (op.state = "pending" /\ ~op.claim.live),
         op' = [state |-> "pending", result |-> FALSE, claim |-> Claim(p)],
         NEW step \in {"op_start", "mark", "idle"}, Goto(p, step),
         UNCHANGED <<lifecycle, signing, mode, attempt, draining, calls>>
  PROVE  SignerInv'
<1>1. /\ pc' \in [Procs -> Steps] /\ pc'[p] = step
      /\ \A q \in Procs \ {p} : pc'[q] = pc[q]
  BY PcTyped DEF Steps
<1>2. op' \in OperationRows /\ op'.state = "pending" /\ op'.claim.holder = {p}
  BY ClaimTypes DEF OperationRows
<1>3. TypeOK'
  BY <1>1, <1>2 DEF SignerInv, TypeOK
<1>4. signing.status # "committed" /\ calls = 0
  BY DEF SignerInv, PrunedIsOver, RecordFirst, CallRecorded, TypeOK
<1>5. AttemptsLeft' /\ AbsentRows' /\ ResultStored'
  BY <1>1, <1>2 DEF SignerInv, AttemptsLeft, AbsentRows, ResultStored
<1>6. RecordFirst' /\ PrunedIsOver' /\ CallRecorded' /\ calls' <= 1
  BY <1>1, <1>2, <1>4 DEF SignerInv, RecordFirst, PrunedIsOver, CallRecorded
<1>7. ClaimPending' /\ OneAtBoundary'
  BY <1>1, <1>2 DEF SignerInv, ClaimPending, OneAtBoundary
<1> QED BY <1>3, <1>5, <1>6, <1>7 DEF SignerInv

LEMMA OpReserveStep == ASSUME SignerInv, NEW p \in Procs, OpReserve(p) PROVE SignerInv'
<1> DEFINE r == reserveOperation(p)
           free == op.state = "absent" \/ (op.state = "pending" /\ ~op.claim.live)
           next == IF r.out = "claimed" THEN "op_start" ELSE Dispatch(p, r.out, attempt[p])
<1>1. /\ pc[p] = "op_reserve" /\ UNCHANGED <<lifecycle, signing, mode, attempt, draining, calls>>
      /\ \/ op' = r.row /\ Goto(p, next)
         \/ op' \in {op, r.row} /\ Goto(p, AdapterFails(p))
  BY DEF OpReserve, OnOperation
<1>2. CASE op' = op /\ Goto(p, AdapterFails(p))
  BY <1>1, <1>2, AdapterSteps, StopStep DEF SignerInv, TypeOK
<1>3. CASE free /\ ~(op' = op /\ Goto(p, AdapterFails(p)))
  <2>1. r.out = "claimed" /\ r.row = [state |-> "pending", result |-> FALSE, claim |-> Claim(p)]
    BY <1>3 DEF reserveOperation, Answer
  <2> HIDE DEF r
  <2> QED BY <1>1, <1>3, <2>1, AdapterSteps, NewReservation
<1>4. CASE ~free
  <2>1. r = getOperation /\ r.row = op
    BY <1>4 DEF reserveOperation, getOperation, Read, Answer
  <2>2. r.out # "claimed"
    BY <1>4 DEF reserveOperation, Read, Answer, SignerInv, TypeOK, OperationRows
  <2>3. CASE Goto(p, next)
    <3>1. next = Dispatch(p, getOperation.out, attempt[p])
      BY <2>1, <2>2
    <3>2. /\ next \in Steps \ {"op_start", "provider"}
          /\ next \in {"commit", "reconcile"} => op'.state = "committed"
          /\ next = "op_wait" => attempt[p] < MaxRecoveryAttempts
      BY <1>1, <2>1, <3>1, DispatchSteps, DispatchOnRead
    <3>3. KeepsOperation(p, op')
      BY <1>1, <2>1, UntouchedKeeps
    <3> QED BY <1>1, <2>3, <3>2, <3>3, OperationCall DEF SignerInv, TypeOK
  <2> QED BY <1>1, <1>2, <2>1, <2>3
<1> QED BY <1>2, <1>3, <1>4

\* The boundary is crossed by the process that reserved the operation, once.
LEMMA OpStartStep == ASSUME SignerInv, NEW p \in Procs, OpStart(p) PROVE SignerInv'
<1> DEFINE r == startOperation(p)
<1>1. pc[p] = "op_start" /\ UNCHANGED <<lifecycle, signing, mode, attempt, draining, calls>>
  BY DEF OpStart, OnOperation, rows
<1>2. CASE Goto(p, AdapterFails(p))
  <2>1. op' \in {op, r.row}
    BY <1>2 DEF OpStart, OnOperation, rows
  <2>2. KeepsOperation(p, op')
    BY <2>1, UntouchedKeeps, StartKeeps
  <2>3. AdapterFails(p) \in Steps \ {"op_start", "provider", "commit", "reconcile", "op_wait"}
    BY AdapterSteps DEF Steps
  <2> QED BY <1>1, <1>2, <2>2, <2>3, OperationCall DEF SignerInv, TypeOK
<1>3. CASE op' = r.row /\ r.out = "ok" /\ Goto(p, "provider")
  <2>1. op.state \in {"pending", "started"} /\ Holds(op, p) /\ op' = [op EXCEPT !.state = "started"]
    BY <1>3 DEF startOperation, Answer, Refused
  <2>2. op.state = "pending"
    BY <1>1, <2>1 DEF Holds, SignerInv, ClaimPending
  <2>3. KeepsOperation(p, op') /\ op' \in OperationRows
    BY <1>3, StartKeeps DEF KeepsOperation
  <2>4. op'.state = "started" /\ op'.claim = op.claim
    BY <2>1 DEF SignerInv, TypeOK, OperationRows
  <2>5. /\ pc' \in [Procs -> Steps] /\ pc'[p] = "provider"
        /\ \A q \in Procs \ {p} : pc'[q] = pc[q]
    BY <1>3, PcTyped DEF Steps
  <2>6. TypeOK'
    BY <1>1, <2>3, <2>5 DEF SignerInv, TypeOK
  <2>7. signing.status # "committed" /\ calls = 0 /\ \A q \in Procs : pc[q] # "provider"
    BY <2>2 DEF SignerInv, RecordFirst, CallRecorded, OneAtBoundary, TypeOK
  <2>8. AttemptsLeft' /\ AbsentRows' /\ ResultStored' /\ CallRecorded' /\ calls' <= 1
    BY <1>1, <2>4, <2>5, <2>7 DEF SignerInv, AttemptsLeft, AbsentRows, ResultStored, CallRecorded
  <2>9. RecordFirst' /\ PrunedIsOver' /\ OneAtBoundary'
    BY <1>1, <2>2, <2>4, <2>5, <2>7 DEF SignerInv, RecordFirst, PrunedIsOver, OneAtBoundary
  <2>10. ClaimPending'
    BY <2>1, <2>3, <2>4, <2>5 DEF ClaimPending, SignerInv, KeepsOperation
  <2> QED BY <2>6, <2>8, <2>9, <2>10 DEF SignerInv
<1> QED BY <1>2, <1>3 DEF OpStart, OnOperation

LEMMA CallProviderStep == ASSUME SignerInv, NEW p \in Procs, CallProvider(p) PROVE SignerInv'
<1>1. pc[p] = "provider" /\ UNCHANGED <<lifecycle, signing, op, mode, attempt, draining>>
  BY DEF CallProvider, SameCall, rows
<1>2. PICK step \in {"op_accept", "op_mark"} : Goto(p, step)
  BY DEF CallProvider
<1>3. calls = 0 /\ op.state \notin {"absent", "pending"} /\ \A q \in Procs : pc[q] = "provider" => q = p
  BY <1>1 DEF SignerInv, OneAtBoundary
<1>4. calls' \in {0, 1}
  BY <1>3 DEF CallProvider
<1>5. /\ pc' \in [Procs -> Steps] /\ pc'[p] = step
      /\ \A q \in Procs \ {p} : pc'[q] = pc[q]
  BY <1>2, PcTyped DEF Steps
<1>6. TypeOK'
  BY <1>1, <1>4, <1>5 DEF SignerInv, TypeOK
<1>7. AttemptsLeft' /\ AbsentRows' /\ ResultStored' /\ CallRecorded' /\ calls' <= 1
  BY <1>1, <1>3, <1>4, <1>5 DEF SignerInv, AttemptsLeft, AbsentRows, ResultStored, CallRecorded
<1>8. RecordFirst' /\ PrunedIsOver' /\ ClaimPending'
  BY <1>1, <1>3, <1>5 DEF SignerInv, RecordFirst, PrunedIsOver, ClaimPending
<1>9. OneAtBoundary'
  BY <1>3, <1>5 DEF OneAtBoundary
<1> QED BY <1>6, <1>7, <1>8, <1>9 DEF SignerInv

-----------------------------------------------------------------------------
(* What the calls on the signing row do to it. *)

\* A row in doubt or committed is not reopened, a start is not erased, and a
\* row is committed only under the snapshot it was reserved under.
KeepsSigning(new) ==
  /\ new \in SigningRows
  /\ new.status = "absent" => ~new.started
  /\ signing.status = "committed" => new.status = "committed"
  /\ signing.status = "uncertain" => new.status \in {"uncertain", "committed"}
  /\ signing.started => new.started
  /\ new.status = "committed" =>
       signing.status = "committed" \/ signing.reserved = lifecycle.version

LEMMA SameSigning == ASSUME SignerInv PROVE KeepsSigning(signing)
BY DEF SignerInv, TypeOK, AbsentRows, KeepsSigning

LEMMA VersionTyped == ASSUME SignerInv PROVE lifecycle.version \in 1 .. MaxVersion
BY DEF SignerInv, TypeOK, Snapshots

LEMMA ReserveKeeps ==
  ASSUME SignerInv, NEW p \in Procs
  PROVE  /\ KeepsSigning(reserveSignature(p).row)
         /\ reserveSignature(p).row.status = "committed" => signing.status = "committed"
         /\ signing.status = "committed" => reserveSignature(p).out = "committed"
<1> DEFINE fresh == [status |-> "pending", claim |-> Claim(p), started |-> FALSE,
                     reserved |-> lifecycle.version]
<1>1. CASE reserveSignature(p).row = signing
  BY <1>1, SameSigning DEF reserveSignature, Answer
<1>2. CASE /\ reserveSignature(p).row = fresh
           /\ signing.status = "absent" \/ (signing.status = "pending" /\ ~signing.started)
  <2>1. fresh \in SigningRows
    BY ClaimTypes, VersionTyped DEF SigningRows
  <2>2. ~signing.started /\ signing.status \notin {"committed", "uncertain"}
    BY <1>2 DEF SignerInv, AbsentRows
  <2>3. fresh.status = "pending"
    OBVIOUS
  <2> QED BY <1>2, <2>1, <2>2, <2>3 DEF KeepsSigning
<1>3. \/ reserveSignature(p).row = signing
      \/ /\ reserveSignature(p).row = fresh
         /\ signing.status = "absent" \/ (signing.status = "pending" /\ ~signing.started)
  BY DEF reserveSignature, Answer, Refused
<1> QED BY <1>1, <1>2, <1>3

LEMMA StartSignatureKeeps ==
  ASSUME SignerInv, NEW p \in Procs
  PROVE  /\ KeepsSigning(startSignature(p).row)
         /\ startSignature(p).row.status = "committed" => signing.status = "committed"
<1>1. CASE startSignature(p).row = signing
  BY <1>1, SameSigning
<1>2. CASE signing.status = "pending" /\ startSignature(p).row = [signing EXCEPT !.started = TRUE]
  <2> DEFINE new == [signing EXCEPT !.started = TRUE]
  <2>1. new \in SigningRows /\ new.status = signing.status /\ new.started = TRUE
    BY DEF SignerInv, TypeOK, SigningRows
  <2> HIDE DEF new
  <2>2. KeepsSigning(new)
    BY <1>2, <2>1 DEF KeepsSigning
  <2> QED BY <1>2, <2>1, <2>2 DEF new
<1> QED BY <1>1, <1>2 DEF startSignature, Answer, Refused

LEMMA CommitSignatureKeeps ==
  ASSUME SignerInv, NEW p \in Procs
  PROVE  KeepsSigning(commitSignature(p).row)
<1>1. CASE commitSignature(p).row = signing
  BY <1>1, SameSigning
<1>2. CASE /\ signing.status = "pending" /\ Authorised
           /\ commitSignature(p).row =
                [signing EXCEPT !.status = "committed", !.claim = NoClaim, !.started = TRUE]
  <2> DEFINE new == [signing EXCEPT !.status = "committed", !.claim = NoClaim, !.started = TRUE]
  <2>1. signing \in SigningRows /\ NoClaim \in Claims
    BY ClaimTypes DEF SignerInv, TypeOK
  <2>2. new \in SigningRows /\ new.status = "committed" /\ new.started = TRUE
    BY <2>1 DEF SigningRows
  <2> HIDE DEF new
  <2>3. KeepsSigning(new)
    BY <1>2, <2>2 DEF KeepsSigning, Authorised
  <2> QED BY <1>2, <2>3 DEF new
<1> QED BY <1>1, <1>2 DEF commitSignature, Answer, Refused

LEMMA MarkSignatureKeeps ==
  ASSUME SignerInv, NEW p \in Procs
  PROVE  /\ KeepsSigning(markSignatureUncertain(p))
         /\ markSignatureUncertain(p).status = "committed" => signing.status = "committed"
<1>1. CASE markSignatureUncertain(p) = signing
  BY <1>1, SameSigning
<1>2. CASE /\ signing.status = "pending"
           /\ markSignatureUncertain(p) =
                [signing EXCEPT !.status = "uncertain", !.claim = NoClaim, !.started = TRUE]
  <2> DEFINE new == [signing EXCEPT !.status = "uncertain", !.claim = NoClaim, !.started = TRUE]
  <2>1. signing \in SigningRows /\ NoClaim \in Claims
    BY ClaimTypes DEF SignerInv, TypeOK
  <2>2. new \in SigningRows /\ new.status = "uncertain" /\ new.started = TRUE
    BY <2>1 DEF SigningRows
  <2> HIDE DEF new
  <2>3. KeepsSigning(new)
    BY <1>2, <2>2 DEF KeepsSigning
  <2> QED BY <1>2, <2>2, <2>3 DEF new
<1> QED BY <1>1, <1>2 DEF markSignatureUncertain

LEMMA ReconcileSignatureKeeps ==
  ASSUME SignerInv
  PROVE  KeepsSigning(reconcileSignature.row)
<1>1. CASE reconcileSignature.row = signing
  BY <1>1, SameSigning
<1>2. CASE /\ signing.status = "uncertain" /\ Authorised
           /\ reconcileSignature.row = [signing EXCEPT !.status = "committed"]
  <2> DEFINE new == [signing EXCEPT !.status = "committed"]
  <2>1. new \in SigningRows /\ new.status = "committed" /\ new.started = signing.started
    BY DEF SignerInv, TypeOK, SigningRows
  <2> HIDE DEF new
  <2>2. KeepsSigning(new)
    BY <1>2, <2>1 DEF KeepsSigning, Authorised
  <2> QED BY <1>2, <2>2 DEF new
<1> QED BY <1>1, <1>2 DEF reconcileSignature, Answer, Refused

\* Everything Next does to the signing row: one of those calls, the end of a
\* lease, or a prune of a committed row.
LEMMA SigningMoves ==
  ASSUME SignerInv, [Next]_vars
  PROVE  KeepsSigning(signing') \/ (signing.status = "committed" /\ signing' = NoSigning)
<1>1. CASE signing' = signing
  BY <1>1, SameSigning
<1>2. ASSUME NEW p \in Procs, Reserve(p) PROVE KeepsSigning(signing')
  BY <1>2, SameSigning, ReserveKeeps DEF Reserve, OnSigning
<1>3. ASSUME NEW p \in Procs, Start(p) \/ Fence(p) PROVE KeepsSigning(signing')
  BY <1>3, SameSigning, StartSignatureKeeps DEF Start, Fence, OnSigning
<1>4. ASSUME NEW p \in Procs, Commit(p) PROVE KeepsSigning(signing')
  BY <1>4, SameSigning, CommitSignatureKeeps DEF Commit, OnSigning
<1>5. ASSUME NEW p \in Procs, Mark(p) PROVE KeepsSigning(signing')
  BY <1>5, SameSigning, MarkSignatureKeeps DEF Mark
<1>6. ASSUME NEW p \in Procs, Reconcile(p) PROVE KeepsSigning(signing')
  BY <1>6, SameSigning, ReconcileSignatureKeeps DEF Reconcile, OnSigning
<1>7. CASE Expire
  <2>1. CASE signing.claim.live /\ signing' = [signing EXCEPT !.claim.live = FALSE]
    <3>1. signing \in SigningRows /\ signing.claim \in Claims
      BY DEF SignerInv, TypeOK, SigningRows
    <3>2. signing' = [signing EXCEPT !.claim = [signing.claim EXCEPT !.live = FALSE]]
      BY <2>1, <3>1
    <3>3. [signing.claim EXCEPT !.live = FALSE] \in Claims
      BY <2>1, <3>1, LapsedClaim
    <3>4. signing' \in SigningRows /\ signing'.status = signing.status /\ signing'.started = signing.started
      BY <3>1, <3>2, <3>3 DEF SigningRows
    <3> QED BY <3>4, SameSigning DEF KeepsSigning
  <2> QED BY <1>1, <1>7, <2>1 DEF Expire
<1>8. CASE Prune
  BY <1>1, <1>8 DEF Prune
<1>9. \/ signing' = signing \/ Expire \/ Prune
      \/ \E p \in Procs : Reserve(p) \/ Start(p) \/ Fence(p) \/ Commit(p) \/ Mark(p) \/ Reconcile(p)
  BY DEF Next, Step, Sign, Restart, beginDrain, Maintain, ChangeLifecycle, Fenced, OpReserve, Lookup,
         OpStart, CallProvider, OpAccept, OpCommit, OpMark, OpWait, OpClaim, OpQuarantine, OpReconcile,
         OnOperation, rows, vars
<1> QED BY <1>1, <1>2, <1>3, <1>4, <1>5, <1>6, <1>7, <1>8, <1>9

-----------------------------------------------------------------------------
(* The steps on the signing row. *)

LEMMA SignStep == ASSUME SignerInv, NEW p \in Procs, Sign(p) PROVE SignerInv'
<1>1. /\ pc[p] \in {"idle", "ok"} /\ Goto(p, "reserve") /\ UNCHANGED <<lifecycle, signing, op, draining, calls>>
      /\ mode' = [mode EXCEPT ![p] = "sign"] /\ attempt' = [attempt EXCEPT ![p] = 0]
  BY DEF Sign, rows
<1>2. /\ mode' \in [Procs -> {"sign", "lookup"}] /\ attempt' \in [Procs -> 0 .. MaxRecoveryAttempts]
      /\ \A q \in Procs \ {p} : attempt'[q] = attempt[q]
  BY <1>1, SignerAssumption DEF SignerInv, TypeOK
<1> QED BY <1>1, <1>2, SigningCall DEF Steps, SignerInv, TypeOK, AbsentRows

\* The common part of the calls on the signing row.
LEMMA SigningAnswer ==
  ASSUME SignerInv, NEW p \in Procs, KeepsSigning(signing'),
         signing'.status = "committed" => signing.status = "committed" \/ op.state = "committed",
         NEW step \in {"idle", "ok", "start", "lookup", "fence", "op_reserve", "mark"}, Goto(p, step),
         pc[p] = "reserve" /\ signing.status = "committed" => step \in {"idle", "ok"},
         pc[p] \notin {"idle", "ok"},
         mode' \in [Procs -> {"sign", "lookup"}],
         UNCHANGED <<lifecycle, op, attempt, draining, calls>>
  PROVE  SignerInv'
<1>1. signing.status = "committed" /\ op.state = "absent" => step \in {"idle", "ok", "reserve"}
  BY DEF SignerInv, PrunedIsOver
<1>2. step \in Steps \ {"op_start", "provider", "commit", "reconcile", "op_wait"}
  BY DEF Steps
<1>3. attempt \in [Procs -> 0 .. MaxRecoveryAttempts] /\ draining \in [Procs -> BOOLEAN]
  BY DEF SignerInv, TypeOK
<1> QED BY <1>1, <1>2, <1>3, SigningCall DEF KeepsSigning

LEMMA ReserveStep == ASSUME SignerInv, NEW p \in Procs, Reserve(p) PROVE SignerInv'
<1> DEFINE r == reserveSignature(p)
<1>1. /\ pc[p] = "reserve" /\ signing' \in {signing, r.row}
      /\ UNCHANGED <<lifecycle, op, attempt, draining, calls>>
  BY DEF Reserve, OnSigning
<1>2. PICK step \in {"idle", "ok", "start", "lookup"} :
        Goto(p, step) /\ (r.out = "committed" => step \in {"idle", "ok"})
  BY DEF Reserve, OnSigning
<1>3. KeepsSigning(signing') /\ (signing'.status = "committed" => signing.status = "committed")
  BY <1>1, SameSigning, ReserveKeeps
<1>4. mode' \in [Procs -> {"sign", "lookup"}]
  BY DEF Reserve, SignerInv, TypeOK
<1>5. signing.status = "committed" => step \in {"idle", "ok"}
  BY <1>2, ReserveKeeps
<1> QED BY <1>1, <1>2, <1>3, <1>4, <1>5, SigningAnswer

LEMMA StartStep == ASSUME SignerInv, NEW p \in Procs, Start(p) \/ Fence(p) PROVE SignerInv'
<1>1. /\ pc[p] \in {"start", "fence"} /\ signing' \in {signing, startSignature(p).row}
      /\ UNCHANGED <<lifecycle, op, mode, attempt, draining, calls>>
  BY DEF Start, Fence, OnSigning, SameCall
<1>2. PICK step \in {"idle", "ok", "fence", "op_reserve", "mark"} : Goto(p, step)
  BY DEF Start, Fence, OnSigning
<1>3. KeepsSigning(signing') /\ (signing'.status = "committed" => signing.status = "committed")
  BY <1>1, SameSigning, StartSignatureKeeps
<1> QED BY <1>1, <1>2, <1>3, SigningAnswer DEF SignerInv, TypeOK

LEMMA CommitStep == ASSUME SignerInv, NEW p \in Procs, Commit(p) \/ Reconcile(p) PROVE SignerInv'
<1>1. /\ pc[p] \in {"commit", "reconcile"}
      /\ signing' \in {signing, commitSignature(p).row, reconcileSignature.row}
      /\ UNCHANGED <<lifecycle, op, mode, attempt, draining, calls>>
  BY DEF Commit, Reconcile, OnSigning, SameCall
<1>2. PICK step \in {"idle", "ok", "mark"} : Goto(p, step)
  BY DEF Commit, Reconcile, OnSigning
<1>3. KeepsSigning(signing')
  BY <1>1, SameSigning, CommitSignatureKeeps, ReconcileSignatureKeeps
<1>4. op.state = "committed"
  BY <1>1 DEF SignerInv, RecordFirst
<1> QED BY <1>1, <1>2, <1>3, <1>4, SigningAnswer DEF SignerInv, TypeOK

LEMMA MarkStep == ASSUME SignerInv, NEW p \in Procs, Mark(p) PROVE SignerInv'
<1>1. /\ pc[p] = "mark" /\ Goto(p, "idle") /\ signing' \in {signing, markSignatureUncertain(p)}
      /\ UNCHANGED <<lifecycle, op, mode, attempt, draining, calls>>
  BY DEF Mark, SameCall
<1>2. KeepsSigning(signing') /\ (signing'.status = "committed" => signing.status = "committed")
  BY <1>1, SameSigning, MarkSignatureKeeps
<1> QED BY <1>1, <1>2, SigningAnswer DEF SignerInv, TypeOK

LEMMA FencedStep == ASSUME SignerInv, NEW p \in Procs, Fenced(p) PROVE SignerInv'
BY StopStep DEF Fenced, SameCall, rows, SignerInv, TypeOK

LEMMA RestartStep == ASSUME SignerInv, NEW p \in Procs, Restart(p) PROVE SignerInv'
<1>1. draining' \in [Procs -> BOOLEAN]
  BY DEF Restart, SignerInv, TypeOK
<1> QED BY <1>1, StopStep DEF Restart, SameCall, rows

-----------------------------------------------------------------------------
(* The world around the processes. *)

\* A step that moves no process.
LEMMA WorldStep ==
  ASSUME SignerInv, TypeOK', UNCHANGED <<pc, attempt>>, RowsStep({})
  PROVE  SignerInv'
<1>1. ProcsStep({})
  BY DEF ProcsStep
<1> QED BY <1>1, AwayFromBoundary

LEMMA DrainStep == ASSUME SignerInv, NEW p \in Procs, beginDrain(p) PROVE SignerInv'
<1>1. UNCHANGED <<lifecycle, signing, op, pc, mode, attempt, calls>> /\ draining' \in [Procs -> BOOLEAN]
  BY DEF beginDrain, rows, SignerInv, TypeOK
<1>2. TypeOK'
  BY <1>1 DEF SignerInv, TypeOK
<1>3. RowsStep({})
  BY <1>1 DEF RowsStep, SignerInv, AbsentRows, ResultStored
<1> QED BY <1>1, <1>2, <1>3, WorldStep

LEMMA ExpireStep == ASSUME SignerInv, Expire PROVE SignerInv'
<1>1. UNCHANGED <<lifecycle, pc, mode, attempt, draining, calls>>
  BY DEF Expire, procs
<1>2. CASE signing.claim.live /\ signing' = [signing EXCEPT !.claim.live = FALSE] /\ UNCHANGED op
  <2>1. signing \in SigningRows /\ signing.claim \in Claims
    BY DEF SignerInv, TypeOK, SigningRows
  <2>2. signing' = [signing EXCEPT !.claim = [signing.claim EXCEPT !.live = FALSE]]
    BY <1>2, <2>1
  <2>3. [signing.claim EXCEPT !.live = FALSE] \in Claims
    BY <1>2, <2>1, LapsedClaim
  <2>4. signing' \in SigningRows /\ signing'.status = signing.status /\ signing'.started = signing.started
    BY <2>1, <2>2, <2>3 DEF SigningRows
  <2>5. TypeOK'
    BY <1>1, <1>2, <2>4 DEF SignerInv, TypeOK
  <2>6. RowsStep({})
    BY <1>1, <1>2, <2>4 DEF RowsStep, SignerInv, AbsentRows, ResultStored
  <2> QED BY <1>1, <2>5, <2>6, WorldStep
<1>3. CASE op.claim.live /\ op' = [op EXCEPT !.claim.live = FALSE] /\ UNCHANGED signing
  <2>1. op \in OperationRows /\ op.claim \in Claims
    BY DEF SignerInv, TypeOK, OperationRows
  <2>2. op' = [op EXCEPT !.claim = [op.claim EXCEPT !.live = FALSE]]
    BY <1>3, <2>1
  <2>3. [op.claim EXCEPT !.live = FALSE] \in Claims /\ [op.claim EXCEPT !.live = FALSE].holder = op.claim.holder
    BY <1>3, <2>1, LapsedClaim
  <2>4. /\ op' \in OperationRows /\ op'.state = op.state /\ op'.result = op.result
        /\ op'.claim.holder = op.claim.holder
    BY <2>1, <2>2, <2>3 DEF OperationRows
  <2>5. TypeOK'
    BY <1>1, <1>3, <2>4 DEF SignerInv, TypeOK
  <2>6. op.state # "absent"
    BY <1>3, ClaimTypes DEF SignerInv, AbsentRows, NoOperation
  <2>7. RowsStep({})
    BY <1>1, <1>3, <2>4, <2>6 DEF RowsStep, SignerInv, AbsentRows, ResultStored
  <2> QED BY <1>1, <2>5, <2>7, WorldStep
<1> QED BY <1>2, <1>3 DEF Expire

LEMMA MaintainStep == ASSUME SignerInv, Maintain PROVE SignerInv'
<1>1. UNCHANGED <<lifecycle, signing, pc, mode, attempt, draining, calls>>
  BY DEF Maintain, procs
<1>2. PICK state \in {"uncertain", "committed"} :
        /\ op.state \notin {"absent", "pending", "committed"}
        /\ state = "committed" => op.result
        /\ op' = [op EXCEPT !.state = state, !.claim = NoClaim]
  BY DEF Maintain
<1>3. op \in OperationRows /\ NoClaim \in Claims /\ NoClaim.holder = {}
  BY ClaimTypes DEF SignerInv, TypeOK
<1>4. op' \in OperationRows /\ op'.state = state /\ op'.claim = NoClaim /\ op'.result = op.result
  BY <1>2, <1>3 DEF OperationRows
<1>5. TypeOK'
  BY <1>1, <1>4 DEF SignerInv, TypeOK
<1>6. RowsStep({})
  BY <1>1, <1>2, <1>3, <1>4 DEF RowsStep, SignerInv, AbsentRows, ResultStored
<1> QED BY <1>1, <1>5, <1>6, WorldStep

\* A prune takes the evidence of the call only with the call's response, or
\* while a committed response stands for it.
LEMMA PruneStep == ASSUME SignerInv, Prune PROVE SignerInv'
<1>1. /\ UNCHANGED <<lifecycle, pc, mode, attempt, draining>>
      /\ \A p \in Procs : pc[p] \in {"idle", "ok"}
      /\ signing.status = "committed"
  BY DEF Prune, procs
<1>2. NoSigning \in SigningRows /\ NoSigning.status = "absent" /\ ~NoSigning.started
  BY ClaimTypes, LifecycleAssumption DEF NoSigning, SigningRows
<1>3. NoOperation \in OperationRows /\ NoOperation.state = "absent" /\ NoOperation.claim.holder = {}
  BY ClaimTypes DEF NoOperation, OperationRows
<1>4. /\ signing' \in {signing, NoSigning} /\ op' \in {op, NoOperation}
      /\ calls' = IF signing' = NoSigning /\ op' = NoOperation THEN 0 ELSE calls
      /\ op' = op \/ op.state = "committed"
  BY DEF Prune
<1>5. TypeOK'
  BY <1>1, <1>2, <1>3, <1>4 DEF SignerInv, TypeOK
<1>6. AttemptsLeft' /\ AbsentRows' /\ ResultStored' /\ calls' <= 1
  BY <1>1, <1>2, <1>3, <1>4 DEF SignerInv, AttemptsLeft, AbsentRows, ResultStored
<1>7. RecordFirst' /\ PrunedIsOver' /\ ClaimPending' /\ OneAtBoundary'
  BY <1>1, <1>2, <1>3, <1>4 DEF SignerInv, RecordFirst, PrunedIsOver, ClaimPending, OneAtBoundary
<1>8. CallRecorded'
  BY <1>1, <1>2, <1>3, <1>4 DEF SignerInv, CallRecorded, AbsentRows, RecordFirst
<1> QED BY <1>5, <1>6, <1>7, <1>8 DEF SignerInv

-----------------------------------------------------------------------------
(* The key lifecycle. *)

\* The keys of a snapshot, as a function.
LEMMA SnapshotKeys ==
  ASSUME lifecycle \in Snapshots
  PROVE  /\ lifecycle.version \in 1 .. MaxVersion
         /\ \E n \in 1 .. MaxKeys : lifecycle.keys \in [1 .. n -> KeyRecords]
         /\ \A i \in DOMAIN lifecycle.keys : lifecycle.keys[i].stateVersion <= lifecycle.version
         /\ \A i, j \in DOMAIN lifecycle.keys :
              lifecycle.keys[i].state = "active" /\ lifecycle.keys[j].state = "active" => i = j
BY DEF Snapshots

LEMMA CommitSnapshot ==
  ASSUME lifecycle \in Snapshots, NEW n \in 1 .. MaxKeys, NEW keys \in [1 .. n -> KeyRecords],
         commit(keys),
         \A i \in 1 .. n : keys[i].stateVersion <= lifecycle.version + 1,
         \A i, j \in 1 .. n : keys[i].state = "active" /\ keys[j].state = "active" => i = j
  PROVE  lifecycle' \in Snapshots
<1>1. lifecycle.version + 1 \in 1 .. MaxVersion
  BY SnapshotKeys, LifecycleAssumption DEF commit
<1>2. lifecycle' = [version |-> lifecycle.version + 1, keys |-> keys]
  BY DEF commit
<1>3. keys \in UNION {[1 .. m -> KeyRecords] : m \in 1 .. MaxKeys}
  OBVIOUS
<1>4. lifecycle' \in [version : 1 .. MaxVersion,
                      keys : UNION {[1 .. m -> KeyRecords] : m \in 1 .. MaxKeys}]
  BY <1>1, <1>2, <1>3
<1>5. lifecycle'.keys = keys /\ lifecycle'.version = lifecycle.version + 1 /\ DOMAIN keys = 1 .. n
  BY <1>2
<1> QED BY <1>4, <1>5 DEF Snapshots

LEMMA NewRecord ==
  ASSUME lifecycle \in Snapshots, lifecycle.version < MaxVersion, NEW state \in KeyStates
  PROVE  /\ AtNextVersion(state) \in KeyRecords
         /\ AtNextVersion(state).state = state
         /\ AtNextVersion(state).stateVersion = lifecycle.version + 1
<1>1. lifecycle.version + 1 \in 1 .. MaxVersion
  BY SnapshotKeys, LifecycleAssumption
<1> QED BY <1>1 DEF AtNextVersion, KeyRecords

LEMMA AppendedKeys ==
  ASSUME NEW n \in Nat, NEW ks \in [1 .. n -> KeyRecords], NEW k \in KeyRecords
  PROVE  /\ Append(ks, k) \in [1 .. n + 1 -> KeyRecords]
         /\ Append(ks, k)[n + 1] = k
         /\ \A i \in 1 .. n : Append(ks, k)[i] = ks[i]
<1>1. ks \in Seq(KeyRecords) /\ Len(ks) = n
  OBVIOUS
<1>2. /\ Append(ks, k) \in Seq(KeyRecords) /\ Len(Append(ks, k)) = n + 1
      /\ Append(ks, k)[n + 1] = k
      /\ \A i \in 1 .. n : Append(ks, k)[i] = ks[i]
  BY <1>1, AppendProperties
<1> QED BY <1>2, LenProperties

\* Every mutation of the controller leaves a snapshot normalizeSnapshot
\* accepts, with at most one active key.
LEMMA LifecycleStep ==
  ASSUME lifecycle \in Snapshots, LifecycleNext
  PROVE  lifecycle' \in Snapshots
<1> DEFINE ks == lifecycle.keys
<1>1. PICK n \in 1 .. MaxKeys : ks \in [1 .. n -> KeyRecords]
  BY SnapshotKeys
<1>2. /\ DOMAIN ks = 1 .. n /\ n \in Nat
      /\ \A i \in 1 .. n : ks[i].stateVersion <= lifecycle.version
      /\ \A i \in 1 .. n : ks[i].stateVersion \in Nat
      /\ \A i, j \in 1 .. n : ks[i].state = "active" /\ ks[j].state = "active" => i = j
      /\ lifecycle.version \in Nat
  BY <1>1, SnapshotKeys, LifecycleAssumption DEF KeyRecords
<1>3. Len(ks) = n
  BY <1>1, <1>2
<1>4. lifecycle.version < MaxVersion
  BY DEF LifecycleNext, transitionKey, rotate, emergencyDisable, restore, commit
<1>5. ASSUME NEW k \in 1 .. MaxKeys, NEW to \in KeyStates, transitionKey(k, to)
      PROVE  lifecycle' \in Snapshots
  <2> DEFINE keys == [ks EXCEPT ![k] = AtNextVersion(to)]
  <2>1. k \in 1 .. n /\ commit(keys) /\ to # "active"
    BY <1>2, <1>5 DEF transitionKey, assertTransition, KeyStates
  <2>2. /\ keys \in [1 .. n -> KeyRecords]
        /\ keys[k] = AtNextVersion(to)
        /\ \A i \in 1 .. n : i # k => keys[i] = ks[i]
    BY <1>1, <1>4, <2>1, NewRecord
  <2>3. keys[k].state = to /\ keys[k].stateVersion = lifecycle.version + 1
    BY <1>4, <2>2, NewRecord
  <2> HIDE DEF keys
  <2>4. \A i \in 1 .. n : keys[i].stateVersion <= lifecycle.version + 1
    BY <1>2, <2>2, <2>3
  <2>5. \A i, j \in 1 .. n : keys[i].state = "active" /\ keys[j].state = "active" => i = j
    BY <1>2, <2>1, <2>2, <2>3
  <2> QED BY <2>1, <2>2, <2>4, <2>5, CommitSnapshot
<1>6. CASE rotate
  <2> DEFINE aged == [i \in DOMAIN ks |-> IF ks[i].state = "active" THEN AtNextVersion("retiring") ELSE ks[i]]
             keys == Append(aged, AtNextVersion("active"))
  <2>1. commit(keys) /\ n + 1 \in 1 .. MaxKeys
    BY <1>2, <1>3, <1>6, LifecycleAssumption DEF rotate
  <2>2. /\ AtNextVersion("retiring") \in KeyRecords /\ AtNextVersion("active") \in KeyRecords
        /\ AtNextVersion("retiring").state = "retiring"
        /\ AtNextVersion("retiring").stateVersion = lifecycle.version + 1
        /\ AtNextVersion("active").state = "active"
        /\ AtNextVersion("active").stateVersion = lifecycle.version + 1
    BY <1>4, NewRecord DEF KeyStates
  <2>3. aged \in [1 .. n -> KeyRecords]
    BY <1>1, <1>2, <2>2
  <2>4. \A i \in 1 .. n : aged[i].state # "active" /\ aged[i].stateVersion <= lifecycle.version + 1
    BY <1>2, <2>2
  <2> HIDE DEF aged
  <2>5. /\ keys \in [1 .. n + 1 -> KeyRecords]
        /\ keys[n + 1] = AtNextVersion("active") /\ \A i \in 1 .. n : keys[i] = aged[i]
    BY <1>2, <2>2, <2>3, AppendedKeys
  <2> HIDE DEF keys
  <2>6. \A i \in 1 .. n + 1 : i = n + 1 \/ i \in 1 .. n
    BY <1>2
  <2>7. \A i \in 1 .. n + 1 : keys[i].stateVersion <= lifecycle.version + 1
    BY <1>2, <2>2, <2>4, <2>5, <2>6
  <2>8. \A i, j \in 1 .. n + 1 : keys[i].state = "active" /\ keys[j].state = "active" => i = j
    BY <2>4, <2>5, <2>6
  <2> QED BY <2>1, <2>5, <2>7, <2>8, CommitSnapshot
<1>7. CASE emergencyDisable
  <2> DEFINE keys == [i \in DOMAIN ks |-> AtNextVersion("emergency-disabled")]
  <2>1. commit(keys)
    BY <1>7 DEF emergencyDisable
  <2>2. /\ AtNextVersion("emergency-disabled") \in KeyRecords
        /\ AtNextVersion("emergency-disabled").state = "emergency-disabled"
        /\ AtNextVersion("emergency-disabled").stateVersion = lifecycle.version + 1
    BY <1>4, NewRecord DEF KeyStates
  <2>3. /\ keys \in [1 .. n -> KeyRecords]
        /\ \A i \in 1 .. n : keys[i] = AtNextVersion("emergency-disabled")
    BY <1>2, <2>2
  <2> HIDE DEF keys
  <2>4. \A i \in 1 .. n : keys[i].stateVersion <= lifecycle.version + 1 /\ keys[i].state # "active"
    BY <1>2, <2>2, <2>3
  <2> QED BY <2>1, <2>3, <2>4, CommitSnapshot
<1>8. CASE restore
  <2> DEFINE keys == Append(ks, AtNextVersion("active"))
  <2>1. commit(keys) /\ n + 1 \in 1 .. MaxKeys /\ \A i \in 1 .. n : ks[i].state # "active"
    BY <1>2, <1>3, <1>8, LifecycleAssumption DEF restore, HasActive
  <2>2. /\ AtNextVersion("active") \in KeyRecords /\ AtNextVersion("active").state = "active"
        /\ AtNextVersion("active").stateVersion = lifecycle.version + 1
    BY <1>4, NewRecord DEF KeyStates
  <2>3. /\ keys \in [1 .. n + 1 -> KeyRecords]
        /\ keys[n + 1] = AtNextVersion("active") /\ \A i \in 1 .. n : keys[i] = ks[i]
    BY <1>1, <1>2, <2>2, AppendedKeys
  <2> HIDE DEF keys
  <2>4. \A i \in 1 .. n + 1 : i = n + 1 \/ i \in 1 .. n
    BY <1>2
  <2>5. \A i \in 1 .. n + 1 : keys[i].stateVersion <= lifecycle.version + 1
    BY <1>2, <2>2, <2>3, <2>4
  <2>6. \A i, j \in 1 .. n + 1 : keys[i].state = "active" /\ keys[j].state = "active" => i = j
    BY <2>1, <2>3, <2>4
  <2> QED BY <2>1, <2>3, <2>5, <2>6, CommitSnapshot
<1> QED BY <1>5, <1>6, <1>7, <1>8 DEF LifecycleNext

LEMMA ChangeLifecycleStep == ASSUME SignerInv, ChangeLifecycle PROVE SignerInv'
<1>1. UNCHANGED <<signing, op, pc, mode, attempt, draining, calls>> /\ LifecycleNext
  BY DEF ChangeLifecycle, rows, procs
<1>2. TypeOK'
  BY <1>1, LifecycleStep DEF SignerInv, TypeOK
<1>3. RowsStep({})
  BY <1>1 DEF RowsStep, SignerInv, AbsentRows, ResultStored
<1> QED BY <1>1, <1>2, <1>3, WorldStep

-----------------------------------------------------------------------------
(* The theorems. *)

LEMMA Initially == Init => SignerInv
<1> SUFFICES ASSUME Init PROVE SignerInv
  OBVIOUS
<1>1. NoSigning \in SigningRows /\ NoSigning.status = "absent" /\ ~NoSigning.started
  BY ClaimTypes, LifecycleAssumption DEF NoSigning, SigningRows
<1>2. NoOperation \in OperationRows /\ NoOperation.state = "absent"
  BY ClaimTypes DEF NoOperation, OperationRows
<1>3. TypeOK
  BY <1>1, <1>2, SignerAssumption DEF Init, LifecycleInit, TypeOK, Steps
<1>4. AttemptsLeft /\ AbsentRows /\ ResultStored /\ RecordFirst /\ PrunedIsOver
  BY <1>1, <1>2 DEF Init, AttemptsLeft, AbsentRows, ResultStored, RecordFirst, PrunedIsOver
<1>5. ClaimPending /\ OneAtBoundary /\ CallRecorded /\ calls <= 1
  BY DEF Init, ClaimPending, OneAtBoundary, CallRecorded
<1> QED BY <1>3, <1>4, <1>5 DEF SignerInv

\* Every step of a process, of the database clock, of the maintenance and of
\* the lifecycle keeps the invariant.
LEMMA Inductive == SignerInv /\ [Next]_vars => SignerInv'
<1> SUFFICES ASSUME SignerInv, [Next]_vars PROVE SignerInv'
  OBVIOUS
<1>1. ASSUME NEW p \in Procs, Step(p) PROVE SignerInv'
  BY <1>1, ReserveStep, FencedStep, StartStep, CommitStep, MarkStep, OpReserveStep, LookupStep,
     OpStartStep, CallProviderStep, OpAcceptStep, OpCommitStep, OpMarkStep, OpWaitStep, OpClaimStep,
     OpQuarantineStep, OpReconcileStep DEF Step
<1>2. ASSUME NEW p \in Procs, Sign(p) \/ Restart(p) \/ beginDrain(p) PROVE SignerInv'
  BY <1>2, SignStep, RestartStep, DrainStep
<1>3. CASE Expire \/ Maintain \/ Prune \/ ChangeLifecycle
  BY <1>3, ExpireStep, MaintainStep, PruneStep, ChangeLifecycleStep
<1>4. CASE UNCHANGED vars
  <2>1. UNCHANGED <<lifecycle, signing, op, pc, mode, attempt, draining, calls>>
    BY <1>4 DEF vars
  <2>2. TypeOK' /\ RowsStep({})
    BY <2>1 DEF SignerInv, TypeOK, RowsStep, AbsentRows, ResultStored
  <2> QED BY <2>1, <2>2, WorldStep
<1> QED BY <1>1, <1>2, <1>3, <1>4 DEF Next

\* The signing row, the provider operation row and the processes of the durable
\* provider stay related by SignerInv through every call, lost answer, lapsed
\* lease, restart, maintenance and prune.
THEOREM SignerInvariance == Spec => []SignerInv
BY Initially, Inductive, PTL DEF Spec

\* The rows, the processes and the snapshot have their types; in particular a
\* purpose never has two active keys, and the adapter's loop stays within its
\* recovery attempts.
THEOREM SignerTyping == Spec => []TypeOK
<1>1. SignerInv => TypeOK
  BY DEF SignerInv
<1> QED BY <1>1, SignerInvariance, PTL

\* executeSign, the recovery and every retry together call the provider at
\* most once for an operation while its records are kept.
THEOREM SignerCallsOnce == Spec => []ProviderCalledOnce
<1>1. SignerInv => ProviderCalledOnce
  BY DEF SignerInv, ProviderCalledOnce
<1> QED BY <1>1, SignerInvariance, PTL

\* The provider is only called behind a durable start of the operation.
THEOREM SignerBoundary == Spec => []BoundaryDurable
<1>1. SignerInv => BoundaryDurable
  BY DEF SignerInv, BoundaryDurable, CallRecorded
<1> QED BY <1>1, SignerInvariance, PTL

\* A committed response is backed by the result of its provider record.
THEOREM SignerBacked == Spec => []CommittedBacked
<1>1. SignerInv => CommittedBacked
  BY DEF SignerInv, CommittedBacked, RecordFirst, ResultStored
<1> QED BY <1>1, SignerInvariance, PTL

\* No function of migration 0051 reopens a response in doubt, takes back a
\* committed one or erases that the provider call was started.
THEOREM SignerNeverReopens == Spec => NeverReopened
<1> DEFINE A == /\ signing.status = "uncertain" => signing'.status \in {"uncertain", "committed"}
                /\ signing.status = "committed" => signing'.status \in {"committed", "absent"}
                /\ signing.started /\ signing'.status # "absent" => signing'.started
<1>1. ASSUME SignerInv, [Next]_vars PROVE A
  <2>1. CASE KeepsSigning(signing')
    BY <2>1 DEF KeepsSigning
  <2>2. CASE signing.status = "committed" /\ signing' = NoSigning
    BY <2>2 DEF NoSigning
  <2> QED BY <1>1, <2>1, <2>2, SigningMoves
<1>2. SignerInv /\ [Next]_vars => [A]_vars
  BY <1>1
<1>3. NeverReopened <=> [][A]_vars
  BY DEF NeverReopened
<1> HIDE DEF A
<1> QED BY <1>2, <1>3, SignerInvariance, PTL DEF Spec

\* A response reserved under an older lifecycle snapshot is never committed.
THEOREM SignerLifecycleFences == Spec => LifecycleFences
<1> DEFINE A == signing.status # "absent" /\ signing.reserved # lifecycle.version
                  => (signing'.status = "committed" => signing.status = "committed")
<1>1. ASSUME SignerInv, [Next]_vars PROVE A
  BY <1>1, SigningMoves DEF KeepsSigning
<1>2. SignerInv /\ [Next]_vars => [A]_vars
  BY <1>1
<1>3. LifecycleFences <=> [][A]_vars
  BY DEF LifecycleFences
<1> HIDE DEF A
<1> QED BY <1>2, <1>3, SignerInvariance, PTL DEF Spec

=============================================================================
