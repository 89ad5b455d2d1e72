------------------------ MODULE OwnerRecoveryOutbox ------------------------
(***************************************************************************)
(* Delivery of owner-recovery notifications: rows of the outbox table are  *)
(* claimed in batches under a lease by the workers of several replicas,    *)
(* sent to an external provider, settled, looked up again when the outcome *)
(* is unknown, decided on by operators, and pruned.                        *)
(*                                                                         *)
(* Every repository call is one statement or one transaction. It may fail  *)
(* without an effect, and it may commit and lose its answer. A claim token *)
(* and a confirmation attempt are only compared for equality with values   *)
(* still held somewhere, so a fresh one is any value that nothing holds.   *)
(***************************************************************************)
EXTENDS Naturals, Sequences, FiniteSets

CONSTANTS Events, Workers,
          Tokens,        \* claim tokens (32 random bytes) and lookup attempts
          BatchSize,     \* config.batchSize
          MAX_ATTEMPTS,  \* 100 in the code
          MaxRedrive,    \* 3 in the code
          Keys,          \* idempotency keys of operators
          MaxCrashes     \* bound on crashes and drains of worker processes

VARIABLES outbox,      \* the table owner_recovery_outbox
          worker,      \* what each worker process is doing
          deliveries,  \* the deliver() calls in progress
          lookups,     \* the confirmOne() calls in progress
          accepted,    \* events the provider has accepted
          late,        \* events with an abandoned request still on the wire
          idempotency, \* completed records of operator mutations
          audit,       \* admin audit events of operator mutations, per event
          asked,       \* history: <<event, version>> with a request not refused
          crashes

vars == <<outbox, worker, deliveries, lookups, accepted, late, idempotency,
          audit, asked, crashes>>

NoToken == "none"

ASSUME OutboxAssumption ==
  /\ NoToken \notin Tokens
  /\ MAX_ATTEMPTS \in Nat \ {0}
  /\ MaxRedrive \in Nat
  /\ MaxCrashes \in Nat

NoRecord == [op |-> "none"]

Statuses == {"pending", "published", "uncertain", "dead_letter", "suppressed",
             "pruned"}

Rows == [status : Statuses,
         attempts : 0..MAX_ATTEMPTS,
         claim : Tokens \cup {NoToken},      \* claim_token_digest
         live : BOOLEAN,                     \* claim_expires_at > now
         due : BOOLEAN,                      \* available_at <= now
         management_version : 1..(MaxRedrive + 2),
         redrive_count : 0..MaxRedrive,
         confirmation : Tokens \cup {NoToken},
         confirm_due : BOOLEAN]              \* provider_confirmation_next_at <= now

NewRow == [status |-> "pending", attempts |-> 0, claim |-> NoToken,
           live |-> FALSE, due |-> TRUE, management_version |-> 1,
           redrive_count |-> 0, confirmation |-> NoToken,
           confirm_due |-> FALSE]

Operations == {"redrive", "suppress", "retryUncertain", "suppressUncertain"}

Decisions == [op : Operations, event : Events,
              expected : 1..(MaxRedrive + 2), key : Keys]

Smaller(a, b) == IF a < b THEN a ELSE b

Init == /\ outbox = [e \in Events |-> NewRow]
        /\ worker = [w \in Workers |-> "idle"]
        /\ deliveries = {}
        /\ lookups = {}
        /\ accepted = {}
        /\ late = {}
        /\ idempotency = [k \in Keys |-> NoRecord]
        /\ audit = [e \in Events |-> <<>>]
        /\ asked = {}
        /\ crashes = 0

Outside == <<accepted, late, idempotency, audit, asked, crashes>>

(***************************************************************************)
(* The repository.                                                         *)
(***************************************************************************)
HeldTokens == {outbox[e].claim : e \in Events} \cup {d.token : d \in deliveries}

HeldConfirmations ==
  {outbox[e].confirmation : e \in Events} \cup {l.attempt : l \in lookups}

\* A value that nothing holds: one stands for all of them.
Fresh(held) == IF Tokens \subseteq held THEN {}
               ELSE {CHOOSE t \in Tokens : t \notin held}

\* A plausible bug: the quarantine does not schedule the lookup.
Uncertain_Unscheduled(row) ==
  [row EXCEPT !.status = "uncertain", !.claim = NoToken, !.live = FALSE]

\* An unknown outcome: out of the claim path, due for a provider lookup.
Uncertain(row) == [row EXCEPT !.status = "uncertain", !.claim = NoToken,
                              !.live = FALSE, !.confirm_due = TRUE]

\* A plausible bug: the last attempt is left out of the quarantine.
Interrupted_NotLast(row) ==
  /\ row.status = "pending" /\ row.claim # NoToken /\ ~row.live
  /\ row.attempts < MAX_ATTEMPTS

Interrupted(row) == row.status = "pending" /\ row.claim # NoToken /\ ~row.live

Claimable(row) == row.status = "pending" /\ row.claim = NoToken /\ row.due

Claimed(row, t) ==
  [row EXCEPT !.attempts = Smaller(row.attempts + 1, MAX_ATTEMPTS),
              !.claim = t, !.live = TRUE, !.due = FALSE]

\* The rows claimBatch touches: expired leases first, then claimable rows,
\* BatchSize of both together; as many as there are, up to the limit.
ClaimSets ==
  LET expired == {e \in Events : Interrupted(outbox[e])}
      free == {e \in Events : Claimable(outbox[e])}
      Take(S, n) == {T \in SUBSET S : Cardinality(T) = Smaller(n, Cardinality(S))}
  IN {pair \in (SUBSET expired) \X (SUBSET free) :
        /\ pair[1] \in Take(expired, BatchSize)
        /\ pair[2] \in Take(free \ pair[1], BatchSize - Cardinality(pair[1]))}

\* A plausible bug: the lease token is not compared.
OwnsClaim_AnyToken(d) ==
  LET row == outbox[d.event]
  IN row.status = "pending" /\ row.claim # NoToken

\* The claim a delivery presents is the row's, on the attempt it was made for,
\* and its lease has not run out.
OwnsClaim(d) ==
  LET row == outbox[d.event]
  IN /\ row.status = "pending"
     /\ row.attempts = d.attempt
     /\ row.claim = d.token
     /\ row.live

Published(row) == [row EXCEPT !.status = "published", !.claim = NoToken,
                              !.live = FALSE, !.confirm_due = FALSE]

Failed(row) == [row EXCEPT !.status = IF row.attempts = MAX_ATTEMPTS
                                      THEN "dead_letter" ELSE "pending",
                           !.claim = NoToken, !.live = FALSE,
                           !.due = row.attempts = MAX_ATTEMPTS]

(***************************************************************************)
(* One cycle of a worker: claim and deliver, confirm, prune.               *)
(***************************************************************************)
\* runOnce and claimBatch. The lost answer leaves rows claimed under a token
\* that no process knows.
ClaimBatch(w) ==
  /\ worker[w] = "idle"
  /\ \E pair \in ClaimSets, t \in Fresh(HeldTokens), answered \in BOOLEAN :
       /\ outbox' = [e \in Events |->
                       IF e \in pair[1] THEN Uncertain(outbox[e])
                       ELSE IF e \in pair[2] THEN Claimed(outbox[e], t)
                       ELSE outbox[e]]
       /\ deliveries' = deliveries \cup
            IF answered
            THEN {[worker |-> w, event |-> e, token |-> t, pc |-> "send",
                   attempt |-> outbox'[e].attempts,
                   version |-> outbox[e].management_version] : e \in pair[2]}
            ELSE {}
       /\ worker' = [worker EXCEPT ![w] = IF answered THEN "deliver" ELSE "idle"]
  /\ UNCHANGED <<lookups, Outside>>

\* publisher.publish: the request leaves.
Publish(d) ==
  /\ d.pc = "send"
  /\ deliveries' = (deliveries \ {d}) \cup {[d EXCEPT !.pc = "wait"]}
  /\ asked' = asked \cup {<<d.event, d.version>>}
  /\ UNCHANGED <<outbox, worker, lookups, accepted, late, idempotency, audit,
                 crashes>>

\* The provider answers. A key it accepted before is accepted again as a
\* duplicate. A timeout, a transport error or a malformed answer leaves the
\* request on the wire, where it may still arrive.
Answer(d) ==
  /\ d.pc = "wait"
  /\ \/ /\ accepted' = accepted \cup {d.event}
        /\ deliveries' = (deliveries \ {d}) \cup {[d EXCEPT !.pc = "accepted"]}
        /\ UNCHANGED <<late, asked>>
     \/ /\ d.event \notin accepted
        /\ asked' = asked \ {<<d.event, d.version>>}
        /\ deliveries' = (deliveries \ {d}) \cup {[d EXCEPT !.pc = "rejected"]}
        /\ UNCHANGED <<accepted, late>>
     \/ /\ late' = late \cup {d.event}
        /\ deliveries' = (deliveries \ {d}) \cup {[d EXCEPT !.pc = "unknown"]}
        /\ UNCHANGED <<accepted, asked>>
  /\ UNCHANGED <<outbox, worker, lookups, idempotency, audit, crashes>>

\* The calls that settle a delivery: committed with the claim, or not. The
\* call after an unavailable markPublished is persistUncertain; every other
\* failure ends the delivery and leaves the row to its lease.
Settle(d) ==
  \E committed \in {OwnsClaim(d), FALSE}, answered \in BOOLEAN :
    LET row == outbox[d.event]
        After == CASE d.pc = "accepted" -> Published(row)
                   [] d.pc = "rejected" -> Failed(row)
                   [] d.pc = "unknown"  -> Uncertain(row)
    IN /\ d.pc \in {"accepted", "rejected", "unknown"}
       /\ answered => committed = OwnsClaim(d)
       /\ outbox' = IF committed THEN [outbox EXCEPT ![d.event] = After]
                                 ELSE outbox
       /\ deliveries' = (deliveries \ {d}) \cup
            IF d.pc = "accepted" /\ ~answered
            THEN {[d EXCEPT !.pc = "unknown"]} ELSE {}
       /\ UNCHANGED <<worker, lookups, Outside>>

\* All deliveries of the cycle have settled: claimConfirmationBatch.
ClaimConfirmations(w) ==
  LET ready == {e \in Events : outbox[e].status = "uncertain" /\ outbox[e].confirm_due}
  IN /\ worker[w] = "deliver"
     /\ \A d \in deliveries : d.worker # w
     /\ \E S \in SUBSET ready, c \in Fresh(HeldConfirmations), answered \in BOOLEAN :
          /\ Cardinality(S) = Smaller(BatchSize, Cardinality(ready))
          /\ outbox' = [e \in Events |->
               IF e \in S THEN [outbox[e] EXCEPT !.confirmation = c, !.confirm_due = FALSE]
                          ELSE outbox[e]]
          /\ lookups' = lookups \cup
               IF answered
               THEN {[worker |-> w, event |-> e, attempt |-> c, pc |-> "lookup",
                      version |-> outbox[e].management_version] : e \in S}
               ELSE {}
          /\ worker' = [worker EXCEPT ![w] = "confirm"]
     /\ UNCHANGED <<deliveries, Outside>>

\* A plausible bug: a negative answer is taken for a positive one.
LookupAcceptance_Negative(l) ==
  /\ l.pc = "lookup"
  /\ \/ lookups' = (lookups \ {l}) \cup {[l EXCEPT !.pc = "confirm"]}
     \/ lookups' = lookups \ {l}
  /\ UNCHANGED <<outbox, worker, deliveries, Outside>>

\* confirmOne: only a positive, well-formed answer goes on.
LookupAcceptance(l) ==
  /\ l.pc = "lookup"
  /\ \/ /\ l.event \in accepted
        /\ lookups' = (lookups \ {l}) \cup {[l EXCEPT !.pc = "confirm"]}
     \/ lookups' = lookups \ {l}
  /\ UNCHANGED <<outbox, worker, deliveries, Outside>>

\* markProviderConfirmed, fenced by the operators' version and the attempt.
MarkProviderConfirmed(l) ==
  LET row == outbox[l.event]
      fenced == /\ row.status = "uncertain"
                /\ row.management_version = l.version
                /\ row.confirmation = l.attempt
  IN /\ l.pc = "confirm"
     /\ lookups' = lookups \ {l}
     /\ \E committed \in {fenced, FALSE} :
          outbox' = IF committed THEN [outbox EXCEPT ![l.event] = Published(row)]
                                 ELSE outbox
     /\ UNCHANGED <<worker, deliveries, Outside>>

\* maybePruneRetention ends the cycle. Which terminal rows are old enough is
\* the database's clock.
EndCycle(w) ==
  /\ worker[w] = "confirm"
  /\ \A l \in lookups : l.worker # w
  /\ \E S \in SUBSET {e \in Events :
                        outbox[e].status \in {"published", "dead_letter", "suppressed"}} :
       outbox' = [e \in Events |->
                    IF e \in S THEN [outbox[e] EXCEPT !.status = "pruned"]
                               ELSE outbox[e]]
  /\ worker' = [worker EXCEPT ![w] = "idle"]
  /\ UNCHANGED <<deliveries, lookups, Outside>>

(***************************************************************************)
(* Processes, time and the network.                                        *)
(***************************************************************************)
\* drain() stops the timer; a cycle in progress goes on.
Drain(w) ==
  /\ crashes < MaxCrashes
  /\ worker[w] = "idle"
  /\ worker' = [worker EXCEPT ![w] = "closed"]
  /\ crashes' = crashes + 1
  /\ UNCHANGED <<outbox, deliveries, lookups, accepted, late, idempotency,
                 audit, asked>>

\* The process ends between any two steps; its requests may still arrive.
Crash(w) ==
  /\ crashes < MaxCrashes
  /\ worker[w] \in {"deliver", "confirm"}
  /\ worker' = [worker EXCEPT ![w] = "closed"]
  /\ late' = late \cup {d.event : d \in {x \in deliveries : x.worker = w /\ x.pc = "wait"}}
  /\ deliveries' = {d \in deliveries : d.worker # w}
  /\ lookups' = {l \in lookups : l.worker # w}
  /\ crashes' = crashes + 1
  /\ UNCHANGED <<outbox, accepted, idempotency, audit, asked>>

\* A new process: start().
Start(w) ==
  /\ worker[w] = "closed"
  /\ worker' = [worker EXCEPT ![w] = "idle"]
  /\ UNCHANGED <<outbox, deliveries, lookups, Outside>>

LateArrival(e) ==
  /\ e \in late
  /\ late' = late \ {e}
  /\ accepted' \in {accepted, accepted \cup {e}}
  /\ UNCHANGED <<outbox, worker, deliveries, lookups, idempotency, audit, asked,
                 crashes>>

\* clock_timestamp() passes claim_expires_at, available_at or the time of the
\* next lookup.
LeaseExpires(e) ==
  /\ outbox[e].live
  /\ outbox' = [outbox EXCEPT ![e].live = FALSE]
  /\ UNCHANGED <<worker, deliveries, lookups, Outside>>

BackoffPasses(e) ==
  /\ outbox[e].status = "pending" /\ outbox[e].claim = NoToken /\ ~outbox[e].due
  /\ outbox' = [outbox EXCEPT ![e].due = TRUE]
  /\ UNCHANGED <<worker, deliveries, lookups, Outside>>

LookupDue(e) ==
  /\ outbox[e].status = "uncertain" /\ ~outbox[e].confirm_due
  /\ outbox[e].confirmation # NoToken
  /\ outbox' = [outbox EXCEPT ![e].confirm_due = TRUE]
  /\ UNCHANGED <<worker, deliveries, lookups, Outside>>

\* A plausible bug: the expected version is not compared.
Permits_AnyVersion(r, row) ==
  /\ row.status = IF r.op \in {"redrive", "suppress"} THEN "dead_letter" ELSE "uncertain"
  /\ r.op \in {"redrive", "retryUncertain"} => row.redrive_count < MaxRedrive

(***************************************************************************)
(* Operators.                                                              *)
(***************************************************************************)
\* The statement of each decision: the row it needs, and the row it leaves.
Permits(r, row) ==
  /\ row.management_version = r.expected
  /\ row.status = IF r.op \in {"redrive", "suppress"} THEN "dead_letter" ELSE "uncertain"
  /\ r.op \in {"redrive", "retryUncertain"} => row.redrive_count < MaxRedrive

Decided(r, row) ==
  LET decided == [row EXCEPT !.management_version = @ + 1, !.claim = NoToken,
                             !.live = FALSE, !.confirm_due = FALSE]
  IN CASE r.op = "redrive" ->
            [decided EXCEPT !.status = "pending", !.attempts = 0, !.due = TRUE,
                            !.redrive_count = @ + 1]
       [] r.op = "retryUncertain" ->
            [decided EXCEPT !.status = "pending", !.due = TRUE,
                            !.redrive_count = @ + 1]
       [] OTHER -> [decided EXCEPT !.status = "suppressed"]

\* mutate: one transaction takes the idempotency record, changes the row,
\* appends the audit event and completes the record. A record of the same
\* request is replayed and one of another request conflicts: neither changes
\* anything. An answer may be lost; the operator then sends it again.
Mutate(r) ==
  /\ idempotency[r.key] = NoRecord
  /\ Permits(r, outbox[r.event])
  /\ outbox' = [outbox EXCEPT ![r.event] = Decided(r, @)]
  /\ audit' = [audit EXCEPT ![r.event] = Append(@, [op |-> r.op, expected |-> r.expected])]
  /\ idempotency' = [idempotency EXCEPT ![r.key] = r]
  /\ UNCHANGED <<worker, deliveries, lookups, accepted, late, asked, crashes>>

\* idempotencyTtlMs has passed; the next acquireIdempotency deletes the record.
ForgetKey(k) ==
  /\ idempotency[k] # NoRecord
  /\ idempotency' = [idempotency EXCEPT ![k] = NoRecord]
  /\ UNCHANGED <<outbox, worker, deliveries, lookups, accepted, late, audit,
                 asked, crashes>>

WorkerStep(w) ==
  \/ ClaimBatch(w) \/ ClaimConfirmations(w) \/ EndCycle(w) \/ Start(w)

CallStep(w) ==
  \/ \E d \in deliveries : d.worker = w /\ (Publish(d) \/ Answer(d) \/ Settle(d))
  \/ \E l \in lookups : l.worker = w /\ (LookupAcceptance(l) \/ MarkProviderConfirmed(l))

TimeStep(e) == LeaseExpires(e) \/ BackoffPasses(e) \/ LookupDue(e)

OperatorStep == \/ \E r \in Decisions : Mutate(r)
                \/ \E k \in Keys : ForgetKey(k)

Next == \/ \E w \in Workers : WorkerStep(w) \/ CallStep(w) \/ Drain(w) \/ Crash(w)
        \/ \E e \in Events : TimeStep(e) \/ LateArrival(e)
        \/ OperatorStep

Spec == Init /\ [][Next]_vars

\* Workers poll, calls in progress return or time out, time passes. Storage
\* and provider may fail any number of times, but not for ever, and not every
\* lookup is overtaken by the next one: CONFIRMATION_RETRY_MS is a minute and
\* publishTimeoutMs ten seconds.
LookupStarts(e) ==
  \E w \in Workers : ClaimConfirmations(w) /\ \E l \in lookups' : l.event = e

LookupAnswers(e) ==
  \E l \in lookups : /\ l.event = e
                     /\ l.attempt = outbox[e].confirmation
                     /\ LookupAcceptance(l)
                     /\ [l EXCEPT !.pc = "confirm"] \in lookups'

LookupCommits(e) ==
  \E l \in lookups : MarkProviderConfirmed(l) /\ outbox'[e] # outbox[e]

FairSpec ==
  /\ Spec
  /\ \A w \in Workers : WF_vars(WorkerStep(w)) /\ WF_vars(CallStep(w))
  /\ \A e \in Events : /\ WF_vars(TimeStep(e))
                        /\ SF_vars(LookupStarts(e))
                        /\ SF_vars(LookupAnswers(e))
                        /\ SF_vars(LookupCommits(e))

(***************************************************************************)
(* Properties.                                                             *)
(***************************************************************************)
TypeOK ==
  /\ outbox \in [Events -> Rows]
  /\ worker \in [Workers -> {"idle", "deliver", "confirm", "closed"}]
  /\ deliveries \subseteq
       [worker : Workers, event : Events, token : Tokens, attempt : 1..MAX_ATTEMPTS,
        version : 1..(MaxRedrive + 2),
        pc : {"send", "wait", "accepted", "rejected", "unknown"}]
  /\ lookups \subseteq
       [worker : Workers, event : Events, attempt : Tokens,
        version : 1..(MaxRedrive + 2), pc : {"lookup", "confirm"}]
  /\ accepted \subseteq Events
  /\ late \subseteq Events
  /\ idempotency \in [Keys -> Decisions \cup {NoRecord}]
  /\ audit \in [Events -> Seq([op : Operations, expected : 1..(MaxRedrive + 2)])]
  /\ asked \subseteq Events \X (1..(MaxRedrive + 2))
  /\ crashes \in 0..MaxCrashes

\* A row the workers may claim by themselves, or have given up on, carries no
\* open question: since the last decision of an operator the provider refused
\* every request that was sent. A timeout, a crash, a lost answer or a lease
\* that ran out never leads to a second request without a person.
NoBlindRetry ==
  \A e \in Events :
    LET row == outbox[e]
    IN \/ row.status = "pending" /\ row.claim = NoToken
       \/ row.status = "dead_letter"
       => <<e, row.management_version>> \notin asked

\* A row is published only when the provider has accepted its event, however
\* late, stale or repeated the calls that settled it were.
PublishedWasAccepted ==
  \A e \in Events : outbox[e].status = "published" => e \in accepted

\* Every decision of an operator applied to the version the operator saw, is in
\* the audit log exactly once, and the redrives in the log are the ones counted
\* on the row: also when an answer is lost and sent again under the same or
\* another key, and when the idempotency record has been forgotten.
DecisionsAudited ==
  \A e \in Events :
    LET row == outbox[e]
        redrives == {i \in 1..Len(audit[e]) :
                       audit[e][i].op \in {"redrive", "retryUncertain"}}
    IN /\ row.management_version = Len(audit[e]) + 1
       /\ \A i \in 1..Len(audit[e]) : audit[e][i].expected = i
       /\ row.redrive_count = Cardinality(redrives)

\* No claim is held for ever: a crashed worker, a lost claim answer or a
\* settlement that failed leaves its row to the next poll.
ClaimsEnd ==
  \A e \in Events : outbox[e].claim # NoToken ~> outbox[e].claim = NoToken

\* An event the provider accepted does not stay uncertain.
AcceptedConverges ==
  \A e \in Events :
    (outbox[e].status = "uncertain" /\ e \in accepted) ~> outbox[e].status # "uncertain"
=============================================================================
