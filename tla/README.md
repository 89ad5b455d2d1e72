# AgentPass in TLA+

AgentPass lets AI coding agents sign git commits with a hardware key under a
policy a human set. A macOS service owns the key; agents reach it over XPC with a
session bound to their process and worktree. A cloud control plane issues session
grants and policy bundles and collects audit events. This directory models the
parts that carry the promise *one authorised request, one key use, always on
record*: on the device the session registry, the durable signing ledger, the two
endpoints that use the key, the outbox that carries audit events to the cloud and
the setup journal; in the cloud the issuance of signing capabilities, the durable
managed signer and the owner-recovery outbox.

## 1. Inventory

| Component | State | Operations | What makes it correct | Module |
|---|---|---|---|---|
| Signing transaction ledger (`NativeSigningTransaction.swift`) | map of records in memory, the same map in one JSON file | admit, markIntent, markProviderStarted, recordVerified, complete, markUncertain, legacy begin/recordSigned, open with recovery | a record that says the key may have been used is never forgotten; the store can read what it wrote | `SigningTransactionStore` |
| Agent session registry (`NativeAgentSessionRegistry.swift`, `…State.swift`) | pending, hidden and published sessions under one lock; budget, reservation, consumed identities | two-phase activation, reserve, begin, record, finalize, release, mark unknown, invalidate, close | ceilings, budget, one reservation, no replay, terminal means terminal | `AgentSessionRegistry` |
| Session coordinator (`NativeAgentSessionCoordinator.swift`) | leases of one connection | start, status, close, handoff, the signing calls, XPC invalidation | its lease mirrors the registry | `AgentSessionSigning` |
| Signing adapter (`…CoordinatorSigningAdapter.swift`) | one request's progress | reserve → begin → execute → record → finalize and their failure paths | sign once; every request ends | `AgentSessionSigning`, `SignOnce` |
| Management endpoint (`main.swift`, `sign`) | ledger of its own, audit log, control state | sign, replay, catch block | key use audited before, reply audited after, fails closed | `ManagementSigning` |
| Device audit outbox and upload (`NativeDeviceAuditOutbox.swift`, upload coordinator, supervisor) | one file per event, `head.json` | nextPreviousHash, enqueue, pending, acknowledge, flush, open | nothing lost, no fork, drains | `DeviceAuditOutbox` |
| Cloud audit ingestion and inbox (`server.mjs`, authority repository, inbox worker) | device chain, inbox rows | ingest, queue, claim and settle | the chain has no gap | `DeviceAuditOutbox` |
| Session activation and its recovery store | durable attempt, receipt, terminal evidence | `coordinator.start` and recovery | no authority without evidence | planned |
| Audit log, retention, prune, key rotation | hash chain, checkpoints, journals | append, rotate, prune, recover | evidence survives every crash | planned |
| Control bundles, device sync | accepted bundle, generation, retry schedule | fetch, accept, activate, revoke | monotone, fails closed | planned |
| Key lifecycle | journalled key mutations, pins | create, rotate, revoke, recover | keychain and journal agree after recovery | planned |
| Agent host, child supervisor, private git bridge | child process, session, socket | launch, sign, close, reap | one owner per session, always reaped | planned |
| Setup orchestrator and journal (`lib/setup-journal.mjs`, `setup-orchestrator.mjs`, the setup commands of `bin/agentpass.mjs`) | journal file, anchor file, lock file, the configuration a setup writes | setup with its catch block, initialize, status, transition, continue with its handler | loadable after every crash, nothing rolled back, steps in order | `SetupJournal` |
| Cloud capability issuance (`signing-capability-issuance-service.mjs`, reservation repository and maintenance worker) | session row with budget, reservation rows, capabilities | reserve, sign, commit, replay, mark uncertain, recover expired, end session | the budget covers every signature; an outcome is final | `SigningCapabilityIssuance` |
| Cloud managed signer (`durable-managed-signer-provider.mjs`, reconciliation adapter, repositories) | signing row, provider operation row, key lifecycle snapshot | reserve, start, fence, provider call, accept, commit, reconcile, quarantine, maintain, prune; rotate, disable, restore | the provider is asked once; a reduced key authority stops what was reserved under it | `ManagedSigner`, `ProviderOperations`, `ManagedSignerKeyLifecycle` |
| Owner recovery outbox (worker, repositories, publisher) | outbox rows with leases, idempotency records, audit events | claim, publish, settle, confirm, prune, drain; four operator decisions | no second request without a person; decisions audited once | `OwnerRecoveryOutbox` |
| Session grants (issue, consume), adjudication of the managed signer | PostgreSQL rows | issue, consume, adjudicate | one grant one session | not modelled yet |
| JavaScript broker | lock file, capability state, audit file | sign, consume | one consumer per capability | not modelled yet |
| User interfaces, encodings, schemas, scripts, qualification harness | – | – | – | not modelled: no protocol state of their own |

How they interact. An agent's XPC connection has one coordinator; all coordinators
share one registry and one ledger. A signing request is a chain of calls

    handoff → status → registry.reserve → ledger.admit → registry.begin →
    ledger.markIntent → ledger.markProviderStarted → key → ledger.recordVerified →
    registry.recordSigned → registry.finalize → ledger.complete → reply

and nothing holds a lock across two of them. Requests of the agent endpoint run on
a serial queue per connection, those of the Host and Child routes on threads of
their own; the XPC invalidation handler runs on any thread. The management
endpoint holds one service-wide lock for a whole call and has a ledger file of its
own. Every audit record is projected to a device event and enqueued in the outbox;
a supervisor uploads the oldest events every 30 seconds.

In the cloud several processes of one service share a PostgreSQL database. Every
repository call is one transaction; the protocol of a request is a chain of such
calls with an external call (KMS, notification provider) in between:

    issue() → reserve → [managed signer] → commit → answer
    sign()  → reserveSignature → startSignature → fenceSignature →
              reserveOperation → startOperation → KMS → recordAccepted →
              commitOperation → commitSignature
    worker  → claimBatch → publish → markPublished | markFailed | markUncertain →
              claimConfirmationBatch → lookup → markProviderConfirmed → prune

Leases with random tokens and the database clock decide who may go on. The setup
command is a process of its own per invocation; invocations meet only in the three
files of the journal and in `config.json`.

What is hard: interleavings of calls that each look at a state another call may
have changed; writes that throw although they landed (the atomic write syncs the
directory after the rename); compensations that may fail themselves (`try?`);
crashes between a ledger write, a key use and an audit record; answers lost,
repeated or late. `PROJECT.json` lists these hazards line by line.

## 2. Modules

- `SigningRequests`: the set of requests, shared by ledger and registry.
- `SigningTransactionStore`: the ledger. `records` is the memory, `file` the disk.
  Every mutation rewrites the whole file with one of three outcomes: `ok`, `lost`
  (thrown before the rename, memory rolled back) or `landed` (thrown after it,
  memory rolled back, file ahead). `Open` loads, checks the evidence rules and
  turns unfinished records into `uncertain`.
- `AgentSessionRegistry`: `state[s]` says in which of the three maps a session is
  and, once published, its state; `used`, `resv` and `seen` are budget,
  reservation and consumed identities. One action per method.
- `SignOnce`: the abstract specification. A key use happens at most once per
  request and within the session's budget; a signature is handed out only after.
- `AgentSessionSigning`: composes registry and ledger with coordinator, adapter
  and endpoint. `pc[r]` is the next call of the thread serving `r`; each call is
  one action, named after the method it calls. `Abstract == INSTANCE SignOnce`
  maps `calls` and `replied`.
- `ManagementSigning`: `sign()` step by step over the ledger and the audit log.
- `DeviceAuditOutbox`: event *n* extends event *n − 1*; files, head, batches and
  the cloud's chain are sets of numbers. Writer (`Prepare`, `Enqueue`), uploader
  (`Flush`, `GiveUp`, `Acknowledge`, `Delete`), network (`Lose`), cloud (`Receive`,
  `InboxWork`) and process (`Crash`, `Restart`) interleave.
- `ManagedSignerKeyLifecycle`: the snapshot of the keys of one purpose, its
  version, and the four changes an operator makes.
- `ProviderOperations`: the operation row as the functions of migration 0049 write
  it. Each operator yields the new row and the answer; it is not an action, so that
  the caller decides whether the answer arrives.
- `ManagedSigner`: extends both with the signing row and the processes. `pc[p]` is
  the next call of process `p`; the operators named after repository methods are
  the transactions, the capitalised ones the steps of the process. A transaction
  whose repository throws leaves the row as it was, because `runDatabase` throws
  inside `withTransaction`. One operation is modelled: rows of different operations
  never touch.
- `OwnerRecoveryOutbox`: rows, worker cycles, deliveries and lookups in progress,
  the provider (`accepted`, and `late` for requests still on the wire), operators
  with idempotency records, and the audit log. `asked` is a history variable.
- `SigningCapabilityIssuance`: one session, its reservation rows and the handlers.
  The managed signer is one step that signs or fails, with the key used or not:
  what `ManagedSigner` shows of a call. A claim token is the handler that drew it.
  `EndSession` is the revocation or expiry of the session as the SQL functions of
  migration 0078 do it under the trigger of 0019, which lets no session leave
  `signing_intent` that way; `Revoke` is the revocation of a device, an agent or the
  organisation, one transaction with the end of the session (`runtime.mjs:446-466`);
  `Withdraw` an authority generation or a signer key that moves on, which touches no
  session.
- `SetupJournal`: a journal is its history, an entry the process that recorded it.
  One file operation is one step; `Kill` may come between any two, and `Throw`
  stands for a failing one. `config` is the setup whose native bridge the
  configuration selects, `before` what a process had read: `Setup` reads it,
  `SaveConfig` overwrites it, and every later error of a setup leads to `Restore`, the
  catch block, which writes `before` back, undoes the process's part of `ran`, and
  rethrows. `Preflight` is what `continueNativeSetup` does before it calls the
  orchestrator, `Execute` the orchestrator's `continue`.
- `…Proofs`: the theorems about the module they are named after, one for each of the
  eight state machines. `AgentSessionSigningProofs` builds on
  `AgentSessionRegistryProofs`.
- `MC…`: the small instances. Operators whose name has a suffix, such as
  `Drop_KeepsReservation`, are mutants: the operator they are named after with a
  plausible bug, used only to see that a property notices it.

## 3. Runs

| Run | Instance | Checks |
|---|---|---|
| `registry` | 3 sessions, 3 requests, 2 connections, ceilings 2/1/2 | `RegistryTypeOK`, `CapacityBound`, `BudgetBound`, `ReservationConsistent`, `IdentitiesConsumedOnce`, `TerminalForever` under callers that call anything in any order |
| `signing` | one session, budget 2, 3 requests of which some on threads of their own, ledger with room for 2 | `KeyExclusive`, `BudgetCoversKeyUse`, `LeaseMirrorsBudget`, and the refinement `SignOnceSpec` |
| `signing_restart` | two sessions on two connections across crashes, fair threads | `ProviderDurable`, `ReplyDurable`, `EveryRequestEnds`, `ReservationEnds` |
| `management` | 3 requests, ledger with room for 2, up to two failing writes | `KeyUsedOnceAudited`, `ReplyAudited`, `FailsClosed`, `NoContradiction` |
| `outbox` | 4 events, batches of 2, room for 3, 2 failures, both cloud deployments, fair | `TypeOK`, `NothingLost`, `CloudContinuous`, `HeadConfirmed`, `ExtendsNewest`, `DrainsUnlessStuck` |
| `managed_signer` | 2 processes, 2 keys, 3 lifecycle versions, one recovery attempt | `ProviderCalledOnce`, `BoundaryDurable`, `CommittedBacked`, `NeverReopened`, `LifecycleFences` |
| `owner_recovery_outbox` | 1 event, 2 workers, 2 attempts, 1 redrive, 1 crash or drain, fair | `NoBlindRetry`, `PublishedWasAccepted`, `DecisionsAudited`, `ClaimsEnd`, `AcceptedConverges` |
| `setup` | 3 invocations, 4 states | `Recoverable`, `NothingRolledBack`, `StepsInOrder` |
| `capability` | 3 requests, budget 2, 2 handlers, 1 lost answer or death, fair | `BudgetCoversSignatures`, `OutcomeIsFinal`, `ReservationsRecovered` |
| `signing_reopen` | as `signing` | violated: `OpensOwnFile` |
| `signer_recovery` | as `managed_signer` | violated: `ExpiryIsUncertain` |
| `setup_lock` | 3 invocations, two of which overlap after the first was killed | violated: `Recoverable` |

What the passing runs show. The registry keeps its ceilings and budgets whatever
the callers do. Concurrent adapters never have the key together, a budget unit is
never refunded once its key use began, and the whole implements `SignOnce` through
failing writes and crashes. Once the provider may run, memory and disk say so for
ever after, although a write may land and be rolled back in memory and another
request then rewrites the whole file. Every request ends and frees its
reservation. The management endpoint uses the key once per request, never without
its audit record, answers only after the result is audited, and stops signing when
a result could not be audited. The outbox loses nothing and the cloud sees no gap.

The managed signer asks the provider at most once per operation while its rows are
kept, whichever process dies, loses its lease or loses an answer, and never before
the operation row says so; a committed response is backed by a stored result; and a
reservation made under an older lifecycle snapshot never commits. The owner-recovery
workers never send an event again whose outcome is in doubt unless an operator
decided so, mark as published only what the provider accepted, and every decision
is applied to the version the operator saw and audited once. A capability request
is signed at most once however often it is repeated, and every signature is covered
by a budget unit that was spent or is still held, also when nobody heard of the
signature; every reservation is closed in the end, and the session is again and again
where it can be revoked or expired. The setup journal can be loaded after a kill or a
failing write at any point and never loses a state it reported; its entries were
worked for, and there is a journal without a configuration only if a setup that
had found none failed and put that back.

Where the code and its comments disagree (the three violation runs;
`PROJECT.json` quotes the lines):

1. `OpensOwnFile`: the ledger writes records its own `load()` rejects, such as
   `uncertain` straight from `admitted`; the next start fails.
2. `ExpiryIsUncertain`: `signing_reserve` turns a lapsed reservation whose provider
   call had started into `uncertain`, but `reserveSignature` throws on that answer
   inside the transaction and so undoes it. The caller goes on to reconcile a row
   that is still `pending`, which is refused, at every retry.
3. `Recoverable` with overlapping invocations: the takeover of a dead lock reads,
   probes and unlinks in three steps. Two processes can both come to the unlink, the
   second removes the lock the first has just created, and both write. No crash
   beyond the one that left the lock is needed.

### Known limits of the code, within the model

The models also reach the following; the properties above are stated so that they
are true next to them.

- The sweep of an invalidated connection skips an entry in state `signed`, which has
  no edge to `revoked`; `finalize` makes it `active` again
  (`NativeAgentSessionRegistry.swift:514`; the plan document, line 307, says every
  session of the connection ends).
- Nothing looks at the registry between the intent and the provider call, so a
  revocation in between does not stop the key use
  (`NativeAgentSessionCoordinatorSigningAdapter.swift:263`; plan document, lines 308
  and 309).
- A crash while an event is written leaves a temporary file whose name
  `isTemporaryName` does not match, and the outbox never opens again
  (`NativeDeviceAuditOutbox.swift:393`, `:563`). `DrainsUnlessStuck` excepts it.
- After an acknowledgement that stopped behind the durable head the next batch mixes
  confirmed and new events, and `acknowledge` refuses every answer to it (`:216`).
  `DrainsUnlessStuck` excepts it too.
- With the inbox configured the cloud never gives a committed answer (`server.mjs:894`),
  so no event leaves the outbox; `DrainsUnlessStuck` assumes direct ingestion.
- `NoContradiction` is stated for at most one failing write: with two, a record that
  landed but was reported as failed, followed by a failing `markUncertain`, is audited
  as an error although the signature is on disk.
- A setup process killed between creating the lock file and writing its pid leaves a
  file that every later invocation reports as busy.
- The catch block of `setup` (`bin/agentpass.mjs:439-442`) restores the configuration
  and not the journal. A setup that has recorded `native_bridge_selected` and then
  fails, in the final `status()` for instance, leaves the journal ahead of the
  configuration. It also restores over others: of two concurrent setups the one
  that meets the lock of the other writes back what it had read before either saved,
  and the one that succeeded is left without its configuration. `setup continue`
  then stops with "Native bridge configuration has no pinned Apple Team ID; rerun
  agentpass setup", and running `setup` again repairs both. `StepsInOrder` is stated
  next to this: it says that this catch block is the only way to such a state.
- While a signing intent is open its session cannot be revoked or expired: the
  lifecycle functions select it (`0078:168`, `:256`), the trigger refuses the update
  (`0019:294-295`), and the transaction aborts, for every other session it selected and
  for the revocation of the device, agent or organisation it is part of
  (`runtime.mjs:446-466`). The caller has to try again after the intent is closed. In the
  model `EndSession` and `Revoke` are disabled there, and the second part of
  `ReservationsRecovered` says that the obstacle goes away. The model has one session,
  so what the abort does to others is not shown.

### Bounds

`MaximumRecords`, the ceilings, `MaximumPendingEvents` and `BatchLimit` are small
so that the limits are reached: a third request meets a full ledger, a third
session a full registry, an outbox with three files holds more than a batch. Three
requests of one session are the least with which two contend while a third is
refunded. `MaxDiskFaults` and `MaxFailures` of two allow a failure inside the
handling of a failure. `MaxEvents` of four lets a chain advance past a batch that
was acknowledged, repeated and partly deleted. Writes of `AgentSessionSigning` may
fail without bound; key uses are bounded by the number of requests.

Database answers of `ManagedSigner` and `OwnerRecoveryOutbox` are lost without bound;
restarts of signer processes too. `MaxVersion` 3 allows two lifecycle changes, so a
key can be disabled and restored, or replaced, while a reservation made before is
open. `MaxRecoveryAttempts` 1 lets the adapter's loop be taken and end. `Prune` waits
until no call is in progress: the retention (days) is taken to outlast every call
(leases of minutes). In `OwnerRecoveryOutbox` a claim token is any value that no row
and no delivery holds, which is what 32 random bytes are; four are enough for two
workers. Rows do not touch each other except through the batch limit, so one event
with two workers is the instance; `MAX_ATTEMPTS` 2 and `MaxRedrive` 1 let both limits
be reached. The budget of two in `SigningCapabilityIssuance` is the code's own
(`max_signatures <> 2` is refused); the third request meets an exhausted session.
`MaxFaults` bounds lost answers and deaths together.

`SetupJournal` has three bounds of its own. `LastRevision` 3 with `Prepared` 1 stands
for the code's longer list: one state the setup command always records, one it records
if the service was found enabled, and one that only a handler leads to. Three
invocations are enough for two to contend and a third to find what both left, in any
mix of `setup` and `setup continue`. `View` in `MCSetupJournal` leaves out of a state
what no later step and no property reads (the local variables of a process that is
gone, the history it held under the lock); it merges states and removes no behaviour.
`Overlap`: two invocations may run together from the start, but once
one has ended, and a dead lock may be met, at most `Overlap` run at a time. The passing
run sets it to 1 and thereby excludes the takeover race, which `setup_lock`
(`Overlap` 2) shows; it still has two processes contend for a live lock, and a
single process take over a dead one.

### Fairness

- `AgentSessionSigning!FairSpec`: weak fairness of every thread's next call and of
  the sweep of an invalidated connection. The calls are straight-line code on
  dispatch queues of a running process. This includes that the key provider
  returns or throws; a hardware prompt nobody answers would hold its thread.
- `DeviceAuditOutbox!FairSpec`: weak fairness of the uploader's steps (the
  supervisor loops every 30 s and the transport has a timeout), of `Restart`
  (launchd) and of the inbox worker (a timer loop), and strong fairness of
  `Answered`: a batch sent again and again is answered some time. Nothing is
  assumed of the writer, of crashes or of the network beyond that.
- `OwnerRecoveryOutbox!FairSpec`: weak fairness of the workers (they poll on a timer,
  and a stopped replica is replaced), of calls in progress (`withTimeout`) and of the
  clock; strong fairness of the three steps of a lookup: storage and provider may fail
  any number of times but not always, and not every lookup is overtaken by the next,
  since `CONFIRMATION_RETRY_MS` is a minute and a lookup times out after ten seconds.
- `SigningCapabilityIssuance!FairSpec`: a claim lapses (after at most 60 s) and the
  maintenance worker recovers what has lapsed (a timer loop). Nothing is assumed of
  handlers or clients, of whoever revokes, or of `expireDue`, which nothing in the
  repository schedules.

Deadlock is checked in all runs of the signing models, of the managed signer and of
the owner-recovery outbox. The audit outbox may really stop (every event uploaded, or
refused to open), so may a setup whose invocations have all ended and a session that
is over, so their runs do not check it.

## 4. Proofs

TLAPS proves every invariant and every action property that the passing runs check,
and the refinement of `SignOnce`, for every value of the constants that satisfies the
named assumptions. In the table, a theorem that is not followed by a name in
parentheses is about types; the others state the property named.

| Module | Theorems | Assumption on the constants |
|---|---|---|
| `AgentSessionRegistryProofs` | `RegistryTyping` (`RegistryTypeOK`), `RegistryBudget` (`BudgetBound`), `RegistryReservation` (`ReservationConsistent`), `RegistryReplay` (`IdentitiesConsumedOnce`), `RegistryTerminal` (`TerminalForever`), `RegistryCapacity` (`CapacityBound`) | `RegistryAssumption`: types, finitely many sessions, a lease is not overdrawn when it arrives |
| `AgentSessionSigningProofs` | `SigningProviderDurable` (`ProviderDurable`), `SigningReplyDurable` (`ReplyDurable`), `SigningKeyExclusive` (`KeyExclusive`), `SigningBudget` (`BudgetCoversKeyUse`), `SigningLease` (`LeaseMirrorsBudget`), `SigningImplementsSignOnce` (`SignOnceSpec`), `SigningTyping` | the registry's, `SigningAssumption` (finitely many requests, dedicated routes serve some of them), `StoreAssumption` (the ledger has room for a record) |
| `ManagementSigningProofs` | `ManagementKeyUse` (`KeyUsedOnceAudited`), `ManagementReply` (`ReplyAudited`), `ManagementFailsClosed` (`FailsClosed`), `ManagementNoContradiction` (`NoContradiction`), `ManagementTyping` | `ManagementAssumption`, `StoreAssumption`: types |
| `DeviceAuditOutboxProofs` | `OutboxNothingLost` (`NothingLost`), `OutboxCloudContinuous` (`CloudContinuous`), `OutboxHeadConfirmed` (`HeadConfirmed`), `OutboxExtendsNewest` (`ExtendsNewest`), `OutboxTyping` (`TypeOK`) | `OutboxAssumption`: types |
| `ManagedSignerProofs` | `SignerCallsOnce` (`ProviderCalledOnce`), `SignerBoundary` (`BoundaryDurable`), `SignerBacked` (`CommittedBacked`), `SignerNeverReopens` (`NeverReopened`), `SignerLifecycleFences` (`LifecycleFences`), `SignerTyping` | `SignerAssumption`, `LifecycleAssumption`: types |
| `OwnerRecoveryOutboxProofs` | `OutboxNoBlindRetry` (`NoBlindRetry`), `OutboxPublished` (`PublishedWasAccepted`), `OutboxDecisions` (`DecisionsAudited`), `OutboxTyping` | `OutboxAssumption`: types, no token is the empty one |
| `SigningCapabilityIssuanceProofs` | `IssuanceBudget` (`BudgetCoversSignatures`), `IssuanceOutcome` (`OutcomeIsFinal`), `IssuanceUnitHeld` (`UnitHeld`, no run checks it), `IssuanceTyping` | `IssuanceAssumption`: types, finitely many requests |
| `SetupJournalProofs` | `SetupRecoverable` (`Recoverable`), `SetupNothingRolledBack` (`NothingRolledBack`), `SetupStepsInOrder` (`StepsInOrder`), `SetupTyping` | `SetupAssumption`: types, finitely many invocations; and the hypothesis `Overlap = 1` |

Each module has one more theorem, `…Invariance`, for its inductive invariant. Every
proof has the same shape: a named conjunction that the initial states satisfy, one
lemma per step of the model (or per group of steps that touch the same state), and
the properties as consequences. The inductive invariants were first checked by TLC
on the instances of section 3. What each of them adds to the properties, and why:

**Registry.** `RegistryInv` joins typing, `BudgetBound`, `Accounting` (an entry
that holds a reservation has used at least one unit, an unpublished activation has
the use count of its lease), `ReservationConsistent` and `IdentitiesConsumedOnce`.
The accounting part is what `BudgetBound` and typing need to survive a refund:
releasing a reservation subtracts one, which stays a natural number only because that
unit had been added. `RegistryCapacity` is a separate induction over the cardinality
of the counted sessions, which only a reservation increases.

**Agent signing.** The properties speak of the key, the budget and the ledger; the
steps speak of threads. `ThreadHolds` says that what a thread believes it holds
(reservation, intent, signed) is the reservation of its session, or the session was
ended under it, and that a thread past its own steps is nobody's reservation.
`OneOwner` carries exclusion over the end of the session: the thread that lost its
session still stands at the key, and no other thread can get there because a terminal
session admits none. `UnitsCharged` counts: the units a session used since its lease
arrived are at least the requests whose key was used plus those that still may; only
this counted form survives a release, which gives back exactly the unit of a thread
that is before the key. The ledger part says that a signature on record was made,
and that the memory never claims a completion the file does not hold. `ProviderDurable`
and `ReplyDurable` need it because a write may land and be rolled back in memory,
after which another request rewrites the whole file. `RegistryInv` is reused from the
registry's proofs. A by-product of `ThreadHolds`: a reservation
in state `signed` belongs to a thread that is itself about to finalize, so a repeated
request never finds one to finish, and the branch of `Recover` that finalizes is never
taken within the model.

*The refinement.* `Abstract` maps the key uses and the replies of the composition to
those of `SignOnce`. Under `SigningInv`, the provider step is an abstract key use: the
thread is before the key, so its request was not used (`KeyKnown`), and the abstract
budget admits it, because the requests already used and the thread's own are distinct
members of `Charged`, whose number `UnitsCharged` and `BudgetBound` bound. The steps
that reply (completion and replay) hand out in the abstract specification, since a
record they answer from was signed (`SignedWasCalled`). Every other step, crash and
restart included, leaves the mapped variables alone.

**Management endpoint.** `KeyRemembered` says that a used key is remembered by the
file and, while the process lives, by the memory, whichever of the two is ahead.
`CompletionRemembered` relates the two: the memory is never ahead with a completion,
and a record that the memory takes for not yet signed has no signature on disk.
`CallProgress` says what the call in progress has made durable at each step.
`FaultsCounted` counts the failing writes it takes to bring file and memory apart at
each place of the catch block, which is what `NoContradiction` rests on.
`ClosedOrResolved` is `FailsClosed` in inductive form: a key use without its result
belongs to the call in progress, or authorization is shut and no call is past it.

**Audit outbox.** `OutboxInv` adds `InFlight`: every batch on the wire or in the
inbox is *continuing* (whatever lies before one of its events is in the batch or
stored), every answer names a head the cloud has, and what is left to delete lies
behind the head. A batch cut by `pending()` is continuing because a missing file
in front of one of its events is behind the head, hence stored; ingesting a
continuing batch closes no hole and opens none, whenever it arrives; an accepted
answer moves the head forward to an event that is stored. `NothingLost` then
follows by splitting the events at the head. That a nonempty set of event numbers
has a largest member is taken from the well-foundedness of the naturals.

**Managed signer.** `OneAtBoundary` says that a process about to call the provider is
alone there and that nothing was called; it rests on `ClaimPending` (a process about
to start the operation lost its claim or finds the row as it reserved it) and
`CallRecorded` (a call leaves a row past `pending`, until a committed response has
taken its place). `RecordFirst` and `PrunedIsOver` order the two rows: the record
commits before the response and is pruned only when no process is past the
reservation. The steps fall into those at the boundary and those away from it;
`AwayFromBoundary` treats the second kind at once.

**Owner-recovery outbox.** The version of a row, which only a decision moves, is what
`NoBlindRetry` is stated with. `DeliveryFenced` says that a delivery of the row's
version holds the row's claim for as long as the row is pending, so that a late answer
can change nothing at another version; `OneDelivery` and `AskedBound` say that a
version is delivered by one worker at a time and not before it is reached.
`VersionBound` ties versions to redrives and closes `DecisionsAudited`.

**Capability issuance.** `UnitPerRow` is the exact count: as many rows were ever
inserted as units are used or held. `SignsFirst` says that only the handler that
inserted a row comes to sign for it, before anything was signed; `Working` that every
handler past the reservation has a row. `OnRecord` joins rows and capabilities.
`UnitHeld` says that a row is reserved exactly while the session is in
`signing_intent` for it, and that the session holds one unit then and none otherwise;
`EndSession` and `Revoke` keep it because the trigger keeps them out of that status.
It is a theorem of its own: an ended session never retains a reservation, which is the
other thing the trigger demands (`0019:383-389`).

**Setup journal.** The properties do not mention the lock, so the invariant does.
`FewAlive` says how many invocations run; `LockHeld` that a process past the lock is
the one whose file it is, hence alone; `PairOrdered` that the journal is its anchor,
one entry behind it, or not there yet, so that the tip that `loadPair` answers with is
always the anchor; `HolderKnows` what a process past the lock knows of the two files;
`AnsweredKept`, `WorkDone` and `EntriesWorked` restate the properties over the anchor.
Work that the catch block undid still counts as done (`Did`), since the process that
undid it is over and stays so. `ConfigFirst` says that until a setup has saved its
configuration there is no anchor and no setup is past that save: from then on the
configuration can only go missing through a `Restore`, whose process stays behind as
the witness that `StepsInOrder` asks for.
The takeover of a dead lock keeps `LockHeld` only because the process that removes the
file is the only one running: that is where `Overlap = 1` is used, and the run
`setup_lock` shows that the theorem is false without it.

Only model-checked. Liveness: `EveryRequestEnds`, `ReservationEnds`,
`DrainsUnlessStuck`, `ClaimsEnd`, `AcceptedConverges` and `ReservationsRecovered` need
fairness and enabledness, which the prover does not handle. The three violation runs
are counterexamples and need no proof.

## 5. Abstractions and what is left out

Contents, hashes, signatures and identifiers are numbers, sets or presence flags;
comparisons of values that the callers always pass on unchanged succeed. Policy
evaluation, code-signing checks, worktree observation and deadlines are inputs
that may refuse at any call. `coordinator.start` is one step. A power failure that
undoes an unsynced rename or deletion is not modelled, a process crash is. In the
outbox model the inbox worker's leases, attempts and dead letters are the three
outcomes of one step.

In the cloud models a transaction is one step, which row locks and the advisory lock
of the organisation justify. Ed25519 signatures of the same bytes are equal, so only
their presence is kept. `ManagedSigner` models the deployment with the provider
operation adapter; the one without it has a subset of its steps. Delivery bindings of
the owner-recovery outbox are taken to be the configured one. In
`SigningCapabilityIssuance` the device, agent, grant, generation, revocation and key
checks are one flag, `authority`, that is withdrawn and not given back. In
`SetupJournal` the configuration is the setup that wrote it; `setup continue` reads it
once, and what the enrollment handler itself reads and writes of it
(`device-enrollment-setup-handler.mjs:469-473`, with an await in between) is part of the
handler's work and not modelled.

Not modelled: the parts of the table in section 1 marked so, and the user interfaces,
encodings, schemas, scripts and qualification code, which have no protocol state of
their own. They are the larger part of the repository: the map covers the protocols
above, not the HTTP layer, the web console, the contract schemas or the
qualification scripts.

## 6. Plan

Done: ledger, registry, signing composition, management endpoint, audit outbox,
managed signer, owner-recovery outbox, capability issuance, setup journal, and a
proof of every safety property of theirs. Next, in this order:

1. An abstract specification of the managed signer and of the owner-recovery outbox
   (one request, one outcome), shown to be implemented as `SignOnce` is.
2. `SessionActivation`: `coordinator.start` with the consume recovery store, the
   audit record and the two-phase admission, with a crash between any two steps;
   it refines the single `Start` step of `AgentSessionSigning`.
3. `ControlBundles` and `DeviceRefresh`: monotone acceptance, journalled
   activation, the refresh state machine; abstractly, a register that only grows.
4. `KeyLifecycle` (keychain and pins), `AuditLog` (chain, checkpoints, prune journal),
   `AgentHost` (close racing exit), `CapabilityState` of the JavaScript broker, and
   adjudication of the managed signer.
