-------------------------- MODULE DeviceAuditOutbox --------------------------
(***************************************************************************)
(* Device audit events on their way to the cloud: the durable outbox of    *)
(* the native service (NativeDeviceAuditOutbox), the upload coordinator    *)
(* that sends its oldest events as one batch and applies the answer, and   *)
(* the cloud's ingestion, directly or through its inbox.                   *)
(*                                                                         *)
(* Event n extends event n - 1 by hash; event 0 is the genesis anchor.  An *)
(* event that never became a file has no number of its own: the next one   *)
(* extends the same tail.  The outbox lock is held through one operation,  *)
(* so only a crash comes between the head write and the deletions of an    *)
(* acknowledgement; the writer reads the tail and enqueues in two          *)
(* operations.  The audit chain is shared, the process is not: a request   *)
(* on the wire survives a crash of its sender.                             *)
(*                                                                         *)
(* Abstracted: contents and hashes; a crash of the machine that undoes     *)
(* unsynced deletions; the first start, which creates the genesis head.    *)
(***************************************************************************)
EXTENDS Naturals, FiniteSets

CONSTANTS
  MaximumPendingEvents,   \* capacity of the outbox (4_096 in the code)
  BatchLimit,             \* events of a batch (64 in the code)
  InboxModes,             \* deployments: {TRUE} with the cloud inbox
  MaxEvents,              \* bound on the events that become durable
  MaxFailures             \* bound on crashes and failing file operations

ASSUME OutboxAssumption ==
  /\ MaximumPendingEvents \in Nat \ {0}
  /\ BatchLimit \in Nat \ {0}
  /\ InboxModes \subseteq BOOLEAN
  /\ MaxEvents \in Nat
  /\ MaxFailures \in Nat

VARIABLES
  files,      \* events that have a file
  head,       \* head.json: the last event confirmed by the cloud
  leftover,   \* the temporary file of an interrupted enqueue exists
  up,         \* "open", "down" (no process) or "refused" (init threw)
  draft,      \* the event a writer is about to enqueue, or 0
  step,       \* the uploader: "idle", "waiting", "answered" or "deleting"
  batch,      \* the batch it sent last
  answer,     \* the answer it got; what is left to delete
  wire,       \* batches on their way to the cloud
  inbox,      \* the cloud answers through its inbox
  queued,     \* batches the inbox has a row for
  claimable,  \* those of them its worker still has to settle
  stored,     \* events in the cloud's chain
  cloudHead,  \* its last event
  gap,        \* a gap was recorded in it
  last,       \* number of events that ever became durable (history)
  failures    \* crashes and failed file operations so far

deviceVars == <<files, head, leftover, up, draft, last, failures>>
uploadVars == <<step, batch, answer>>
cloudVars == <<wire, inbox, queued, claimable, stored, cloudHead, gap>>
vars == <<deviceVars, uploadVars, cloudVars>>

Answers == [state : {"none", "queued", "committed"}, accepted : SUBSET Nat,
            duplicates : SUBSET Nat, head : Nat, gap : BOOLEAN]

NoAnswer == [state |-> "none", accepted |-> {}, duplicates |-> {},
             head |-> 0, gap |-> FALSE]

\* One more crash or failing file operation.
Fail == failures < MaxFailures /\ failures' = failures + 1

-----------------------------------------------------------------------------
(* The chain on disk.                                                      *)

\* Files of the head event and of the ancestors that lead up to it.
Behind == {e \in files : e <= head /\ e..head \subseteq files}

\* Files of the events that extend the head without a hole.
Extensions == {e \in files : e > head /\ (head + 1)..e \subseteq files}

\* Otherwise every operation that orders the files throws.
Orderable == files = Behind \cup Extensions

\* Mutant: the tail is the confirmed head, pending events are not looked at.
ChainTail_ConfirmedHead == head

ChainTail ==
  CHOOSE e \in Extensions \cup {head} : \A x \in Extensions \cup {head} : x <= e

\* Mutant: the batch takes the wrong end of the chain.
Pending_Newest == {e \in files : Cardinality({x \in files : x >= e}) <= BatchLimit}

\* pending(): the oldest files, acknowledged ones included.
Pending == {e \in files : Cardinality({x \in files : x <= e}) <= BatchLimit}

-----------------------------------------------------------------------------
(* The writer.                                                             *)

Operating == up = "open" /\ step # "deleting"

\* nextPreviousHash: the event to enqueue extends the current tail.
Prepare ==
  /\ Operating
  /\ draft = 0 /\ last < MaxEvents
  /\ Orderable
  /\ draft' = ChainTail + 1
  /\ UNCHANGED <<files, head, leftover, up, last, failures, uploadVars, cloudVars>>

\* Mutant: the capacity is tested off by one.
CanEnqueue_OffByOne ==
  /\ Orderable
  /\ Cardinality(files) <= MaximumPendingEvents
  /\ draft = ChainTail + 1

CanEnqueue ==
  /\ Orderable
  /\ Cardinality(files) < MaximumPendingEvents
  /\ draft = ChainTail + 1

\* A write that throws may have landed.
Enqueue ==
  /\ Operating
  /\ draft # 0
  /\ \/ /\ CanEnqueue
        /\ files' = files \cup {draft} /\ last' = draft
        /\ UNCHANGED failures \/ Fail
     \/ CanEnqueue /\ Fail /\ UNCHANGED <<files, last>>
     \/ ~CanEnqueue /\ UNCHANGED <<files, last, failures>>
  /\ draft' = 0
  /\ UNCHANGED <<head, leftover, up, uploadVars, cloudVars>>

-----------------------------------------------------------------------------
(* The uploader.                                                           *)

\* flush: nothing is sent while the files cannot be ordered.
Flush ==
  /\ Operating
  /\ step = "idle"
  /\ files # {} /\ Orderable
  /\ step' = "waiting"
  /\ batch' = Pending
  /\ wire' = wire \cup {Pending}
  /\ UNCHANGED <<deviceVars, answer, inbox, queued, claimable, stored, cloudHead, gap>>

\* Mutant: a request without a timeout.
GiveUp_NoTimeout ==
  /\ step = "waiting"
  /\ UNCHANGED vars

\* The transport gives up.
GiveUp ==
  /\ step = "waiting"
  /\ step' = "idle"
  /\ UNCHANGED <<deviceVars, batch, answer, cloudVars>>

\* What acknowledge() accepts of a committed answer: it advances the head by
\* exactly the acknowledged events, or names the current head alone.
Acceptable(a) ==
  LET acknowledged == a.accepted \cup a.duplicates
  IN /\ acknowledged # {} /\ ~a.gap
     /\ IF a.head = head
        THEN a.head # 0 /\ acknowledged = {a.head}
        ELSE /\ Orderable
             /\ a.head \in Extensions
             /\ acknowledged = (head + 1)..a.head

\* Mutant: a batch in the cloud's inbox counts as committed.
Acknowledge_TrustsInbox ==
  /\ Operating
  /\ step = "answered"
  /\ step' = "deleting"
  /\ answer' = [answer EXCEPT !.accepted = batch]
  /\ head' = CHOOSE e \in batch : \A x \in batch : x <= e
  /\ UNCHANGED <<files, leftover, up, draft, last, failures, batch, cloudVars>>

\* Mutant: the files go before the head is durable.
Acknowledge_DeletesFirst ==
  /\ Operating
  /\ step = "answered"
  /\ IF answer.state = "queued" \/ ~Acceptable(answer)
     THEN step' = "idle" /\ UNCHANGED files
     ELSE step' = "deleting" /\ files' = files \ (answer.accepted \cup answer.duplicates)
  /\ UNCHANGED <<head, leftover, up, draft, last, failures, batch, answer, cloudVars>>

\* acknowledge(), up to the durable head.  A queued batch is kept.
Acknowledge ==
  /\ Operating
  /\ step = "answered"
  /\ \/ /\ answer.state = "queued" \/ ~Acceptable(answer)
        /\ step' = "idle"
        /\ UNCHANGED <<head, failures>>
     \/ /\ answer.state = "committed" /\ Acceptable(answer)
        /\ \/ step' = "deleting" /\ head' = answer.head /\ UNCHANGED failures
           \/ /\ answer.head # head /\ Fail
              /\ step' = "idle" /\ head' \in {head, answer.head}
  /\ UNCHANGED <<files, leftover, up, draft, last, batch, answer, cloudVars>>

\* The rest of acknowledge(): accepted events first, then duplicates, each in
\* chain order; a failing deletion leaves the others.
Delete ==
  /\ up = "open"
  /\ step = "deleting"
  /\ LET first == IF answer.accepted # {} THEN answer.accepted ELSE answer.duplicates
     IN \/ /\ first = {}
           /\ step' = "idle"
           /\ UNCHANGED <<files, failures, answer>>
        \/ \E e \in first :
             /\ \A x \in first : e <= x
             /\ files' = files \ {e}
             /\ answer' = [answer EXCEPT !.accepted = @ \ {e}, !.duplicates = @ \ {e}]
             /\ UNCHANGED <<step, failures>>
        \/ first # {} /\ Fail /\ step' = "idle" /\ UNCHANGED <<files, answer>>
  /\ UNCHANGED <<head, leftover, up, draft, last, batch, cloudVars>>

-----------------------------------------------------------------------------
(* The cloud.                                                              *)

\* Events of b the chain does not have.
NewEvents(b) == b \ stored

\* Ingested in order, every new event extends the head before it.
Continues(new) ==
  \A e \in new : e - 1 \in new \/ (e - 1 = cloudHead /\ \A x \in new : e <= x)

HeadAfter(new) ==
  IF new = {} THEN cloudHead ELSE CHOOSE e \in new : \A x \in new : x <= e

Ingest(b) ==
  /\ stored' = stored \cup NewEvents(b)
  /\ cloudHead' = HeadAfter(NewEvents(b))
  /\ gap' = (gap \/ ~Continues(NewEvents(b)))

\* The answer to b, computed with its ingestion.
Response(b) ==
  [state |-> "committed", accepted |-> NewEvents(b), duplicates |-> b \ NewEvents(b),
   head |-> HeadAfter(NewEvents(b)), gap |-> gap \/ ~Continues(NewEvents(b))]

\* A batch arrives; its answer may be lost, and is, when nobody waits for it.
Receive(b) ==
  /\ b \in wire
  /\ wire' = wire \ {b}
  /\ IF inbox
     THEN /\ queued' = queued \cup {b}
          /\ claimable' = IF b \in queued THEN claimable ELSE claimable \cup {b}
          /\ UNCHANGED <<stored, cloudHead, gap>>
     ELSE Ingest(b) /\ UNCHANGED <<queued, claimable>>
  /\ \/ /\ step = "waiting" /\ batch = b
        /\ step' = "answered"
        /\ answer' = IF inbox THEN [NoAnswer EXCEPT !.state = "queued"] ELSE Response(b)
     \/ UNCHANGED <<step, answer>>
  /\ UNCHANGED <<deviceVars, batch, inbox>>

\* A request is lost.
Lose(b) ==
  /\ b \in wire
  /\ wire' = wire \ {b}
  /\ UNCHANGED <<deviceVars, uploadVars, inbox, queued, claimable, stored, cloudHead, gap>>

\* The inbox worker ingests a claimed batch and settles it, or settles it as
\* uncertain without, or loses its claim after the ingestion.
InboxWork(b) ==
  /\ b \in claimable
  /\ \/ Ingest(b) /\ claimable' \in {claimable, claimable \ {b}}
     \/ claimable' = claimable \ {b} /\ UNCHANGED <<stored, cloudHead, gap>>
  /\ UNCHANGED <<deviceVars, uploadVars, wire, inbox, queued>>

-----------------------------------------------------------------------------
(* The process.                                                            *)

\* A crash during the write of an enqueue leaves its temporary file.
Crash ==
  /\ up = "open"
  /\ Fail
  /\ up' = "down"
  /\ leftover' \in {leftover, leftover \/ (Operating /\ draft # 0 /\ CanEnqueue)}
  /\ draft' = 0
  /\ step' = "idle"
  /\ UNCHANGED <<files, head, last, batch, answer, cloudVars>>

\* init removes the temporary files it recognises, which those of events are
\* not (their names start with a dot), and refuses any other file it does not
\* know.
Restart ==
  /\ up = "down"
  /\ up' = IF leftover THEN "refused" ELSE "open"
  /\ UNCHANGED <<files, head, leftover, draft, last, failures, uploadVars, cloudVars>>

Init ==
  /\ files = {} /\ head = 0 /\ leftover = FALSE /\ up = "open" /\ draft = 0
  /\ step = "idle" /\ batch = {} /\ answer = NoAnswer
  /\ wire = {} /\ inbox \in InboxModes /\ queued = {} /\ claimable = {}
  /\ stored = {} /\ cloudHead = 0 /\ gap = FALSE
  /\ last = 0 /\ failures = 0

DeviceStep == Prepare \/ Enqueue \/ Flush \/ GiveUp \/ Acknowledge \/ Delete

CloudStep ==
  \/ \E b \in wire : Receive(b) \/ Lose(b)
  \/ \E b \in claimable : InboxWork(b)

Next == DeviceStep \/ CloudStep \/ Crash \/ Restart

Spec == Init /\ [][Next]_vars

\* The batch is answered.
Answered == Receive(batch) /\ step' = "answered"

\* The supervisor runs, a killed service is started again, the inbox worker
\* runs, and a batch sent again and again is answered some time.
FairSpec ==
  /\ Spec
  /\ WF_vars(Flush) /\ WF_vars(GiveUp) /\ WF_vars(Acknowledge) /\ WF_vars(Delete)
  /\ WF_vars(Restart)
  /\ WF_vars(\E b \in claimable : InboxWork(b))
  /\ SF_vars(Answered)

-----------------------------------------------------------------------------
(* Properties.                                                             *)

Events == 1..MaxEvents

DeviceTypeOK ==
  /\ files \subseteq Events /\ Cardinality(files) <= MaximumPendingEvents
  /\ head \in 0..MaxEvents /\ last \in 0..MaxEvents /\ draft \in 0..MaxEvents
  /\ leftover \in BOOLEAN /\ up \in {"open", "down", "refused"}
  /\ failures \in 0..MaxFailures

UploadTypeOK ==
  /\ step \in {"idle", "waiting", "answered", "deleting"}
  /\ batch \subseteq Events
  /\ answer \in Answers /\ answer.head \in 0..MaxEvents
  /\ answer.accepted \cup answer.duplicates \subseteq Events

CloudTypeOK ==
  /\ wire \subseteq SUBSET Events /\ queued \subseteq SUBSET Events
  /\ claimable \subseteq queued /\ inbox \in InboxModes
  /\ stored \subseteq Events /\ cloudHead \in 0..MaxEvents /\ gap \in BOOLEAN

\* Every variable has its type and the outbox is within its capacity, so that
\* pendingEntries never throws for the number of files.
TypeOK == DeviceTypeOK /\ UploadTypeOK /\ CloudTypeOK

\* No event that became durable is ever lost: whatever crashes, failing
\* deletions, lost answers or an inbox that gives a batch up do, it has its
\* file or the cloud has stored it.
NothingLost == \A e \in 1..last : e \in files \/ e \in stored

\* The cloud's chain has no gap, although batches are repeated, overtaken,
\* delivered after their sender crashed and ingested twice.
CloudContinuous == ~gap /\ stored = 1..cloudHead

\* The head on disk names an event the cloud has, and everything after it is
\* still on disk: never a deleted event with a stale chain head.
HeadConfirmed ==
  /\ head <= cloudHead
  /\ (head + 1)..last \subseteq files /\ files \subseteq 1..last

\* The event about to be enqueued extends the newest durable one, even when an
\* acknowledgement moves the head and deletes files between nextPreviousHash
\* and enqueue: the chain never forks.
ExtendsNewest == draft # 0 => draft = last + 1

\* A batch extends what the cloud has whenever it arrives, and so does one the
\* inbox holds.
Continuing(b) ==
  b \subseteq 1..last /\ \A e \in b : \A x \in 1..e : x \in b \/ x \in stored

\* What is in flight stays usable however late it is used: a batch on the wire
\* or in the inbox continues the cloud's chain, an answer names a head the
\* cloud has, and what acknowledge() still has to delete is confirmed.
InFlight ==
  /\ cloudHead <= last
  /\ \A b \in wire \cup claimable : Continuing(b)
  /\ answer.head <= cloudHead
  /\ step = "deleting" => answer.accepted \cup answer.duplicates \subseteq 1..head

\* The answer the cloud would give now to the next batch is one that
\* acknowledge() accepts.
Replayable == Orderable /\ Acceptable(Response(Pending))

\* With direct ingestion an event leaves the outbox in the end, unless the
\* outbox refuses to open or comes to hold files whose replay it refuses (both
\* happen after a failure: the temporary file of an interrupted enqueue is not
\* recognised, and confirmed files go into one batch with new ones).
DrainsUnlessStuck ==
  \A e \in Events :
    (e \in files /\ ~inbox)
      ~> (e \notin files \/ up = "refused" \/ (Operating /\ ~Replayable))

=============================================================================
