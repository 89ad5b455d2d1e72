----------------------- MODULE DeviceAuditOutboxProofs -----------------------
(***************************************************************************)
(* What the device audit outbox promises for any number of events,         *)
(* failures and batches and any capacity: no durable event is lost, the    *)
(* cloud's chain has no gap, the head on disk is confirmed, and the chain  *)
(* never forks.                                                            *)
(***************************************************************************)
EXTENDS DeviceAuditOutbox, FiniteSetTheorems, WellFoundedInduction, TLAPS

\* A bounded set of numbers has a largest one.
LEMMA LargestExists ==
  ASSUME NEW n \in Nat, NEW S \in SUBSET (0..n), S # {}
  PROVE  \E e \in S : \A x \in S : x <= e
<1> DEFINE R == {p \in Nat \X Nat : p[1] < p[2]}
           T == {k \in Nat : n - k \in S}
<1>1. T # {}
  <2>1. PICK e \in S : TRUE
    OBVIOUS
  <2>2. n - e \in T
    BY <2>1
  <2> QED BY <2>2
<1>2. IsWellFoundedOn(R, Nat)
  BY NatLessThanWellFounded, Zenon DEF OpToRel
<1>3. PICK k \in T : \A y \in T : ~(y < k)
  <2>1. T \subseteq Nat
    OBVIOUS
  <2>2. PICK k \in T : \A y \in T : ~(<<y, k>> \in R)
    <3> HIDE DEF R, T
    <3> QED BY <1>1, <1>2, <2>1, WFMin, Zenon
  <2>3. \A y \in T : ~(y < k)
    BY <2>1, <2>2
  <2> QED BY <2>3
<1>4. \A x \in S : n - x \in T
  OBVIOUS
<1>5. \A x \in S : x <= n - k
  BY <1>3, <1>4
<1> QED BY <1>5

-----------------------------------------------------------------------------

\* The inductive invariant.  HeadConfirmed and CloudContinuous need to know
\* what every batch and every answer in flight can still do.
OutboxInv ==
  TypeOK /\ CloudContinuous /\ HeadConfirmed /\ ExtendsNewest /\ InFlight

\* The files in front of an event are finitely many.
LEMMA FinitePrefix ==
  ASSUME OutboxInv, NEW e \in Nat
  PROVE  /\ IsFiniteSet(files)
         /\ IsFiniteSet({x \in files : x <= e})
<1>1. IsFiniteSet(1..last)
  BY FS_Interval DEF OutboxInv, TypeOK, DeviceTypeOK
<1>2. files \subseteq 1..last
  BY DEF OutboxInv, HeadConfirmed
<1> QED BY <1>1, <1>2, FS_Subset

\* pending() takes a prefix of the files, and every event without a file in
\* front of it is confirmed: the batch continues the cloud's chain.
LEMMA PendingContinues ==
  ASSUME OutboxInv
  PROVE  Continuing(Pending)
<1> USE DEF OutboxInv
<1>1. Pending \subseteq 1..last
  BY DEF Pending, HeadConfirmed
<1>2. ASSUME NEW e \in Pending, NEW x \in 1..e
      PROVE  x \in Pending \/ x \in stored
  <2>1. /\ e \in files /\ e \in 1..last /\ last \in Nat /\ x \in Nat /\ x <= e
        /\ Cardinality({y \in files : y <= e}) <= BatchLimit
    BY <1>1, <1>2 DEF Pending, TypeOK, DeviceTypeOK
  <2>2. CASE x \in files
    <3>1. {y \in files : y <= x} \in SUBSET {y \in files : y <= e}
      <4>1. \A y \in files : y <= x => y <= e
        BY <2>1 DEF HeadConfirmed
      <4> QED BY <4>1
    <3>2. IsFiniteSet({y \in files : y <= e})
      BY <2>1, FinitePrefix
    <3>3. /\ IsFiniteSet({y \in files : y <= x})
          /\ Cardinality({y \in files : y <= x}) <= Cardinality({y \in files : y <= e})
      BY <3>1, <3>2, FS_Subset
    <3>4. /\ Cardinality({y \in files : y <= x}) \in Nat
          /\ Cardinality({y \in files : y <= e}) \in Nat
      BY <3>2, <3>3, FS_CardinalityType
    <3>5. Cardinality({y \in files : y <= x}) <= BatchLimit
      BY <2>1, <3>3, <3>4, OutboxAssumption
    <3> QED BY <2>2, <3>5 DEF Pending
  <2>3. CASE x \notin files
    <3>1. ~(x \in (head + 1)..last)
      BY <2>3 DEF HeadConfirmed
    <3>2. x <= head
      BY <2>1, <3>1 DEF TypeOK, DeviceTypeOK
    <3> QED BY <2>1, <3>2, <1>2 
      DEF HeadConfirmed, CloudContinuous, TypeOK, DeviceTypeOK, CloudTypeOK
  <2> QED BY <2>2, <2>3
<1> QED BY <1>1, <1>2 DEF Continuing

\* The tail of a chain that can be ordered is the newest durable event.
LEMMA TailIsNewest ==
  ASSUME OutboxInv
  PROVE  ChainTail = last
<1> USE DEF OutboxInv
<1>1. head \in Nat /\ last \in Nat /\ head <= last
  BY DEF TypeOK, DeviceTypeOK, CloudTypeOK, HeadConfirmed, InFlight
<1>2. last \in Extensions \cup {head}
  <2>1. CASE head = last
    BY <2>1
  <2>2. CASE head # last
    BY <1>1, <2>2 DEF Extensions, HeadConfirmed
  <2> QED BY <2>1, <2>2
<1>3. \A x \in Extensions \cup {head} : x \in Nat /\ x <= last
  BY <1>1 DEF Extensions, HeadConfirmed
<1>4. \E e \in Extensions \cup {head} : \A x \in Extensions \cup {head} : x <= e
  BY <1>2, <1>3
<1>5. /\ ChainTail \in Extensions \cup {head}
      /\ \A x \in Extensions \cup {head} : x <= ChainTail
  BY <1>4, Zenon DEF ChainTail
<1> QED BY <1>1, <1>2, <1>3, <1>5

\* A continuing batch is ingested without a gap, and the chain afterwards is
\* again everything up to its head.
LEMMA Ingestion ==
  ASSUME OutboxInv, NEW b, Continuing(b)
  PROVE  /\ HeadAfter(NewEvents(b)) \in Nat
         /\ cloudHead <= HeadAfter(NewEvents(b)) /\ HeadAfter(NewEvents(b)) <= last
         /\ stored \cup NewEvents(b) = 1..HeadAfter(NewEvents(b))
         /\ Continues(NewEvents(b))
<1> USE DEF OutboxInv
<1> DEFINE new == NewEvents(b)
<1>1. /\ cloudHead \in Nat /\ last \in Nat /\ cloudHead <= last
      /\ stored = 1..cloudHead
  BY DEF TypeOK, DeviceTypeOK, CloudTypeOK, CloudContinuous, InFlight
<1>2. /\ \A e \in new : e \in Nat /\ e > cloudHead /\ e <= last
      /\ \A e \in new : \A x \in Nat : cloudHead < x /\ x <= e => x \in new
  BY <1>1 DEF NewEvents, Continuing
<1>3. CASE new = {}
  BY <1>1, <1>3 DEF HeadAfter, Continues
<1>4. CASE new # {}
  <2>1. new \in SUBSET (0..last)
    BY <1>1, <1>2
  <2>2. \E e \in new : \A x \in new : x <= e
    <3> HIDE DEF new
    <3> QED BY <1>1, <1>4, <2>1, LargestExists
  <2>3. HeadAfter(new) \in new /\ \A x \in new : x <= HeadAfter(new)
    <3> HIDE DEF new
    <3> QED BY <1>4, <2>2, Zenon DEF HeadAfter
  <2> DEFINE m == HeadAfter(new)
  <2> HIDE DEF m, new
  <2>4. m \in Nat /\ cloudHead <= m /\ m <= last
    BY <1>1, <1>2, <2>3 DEF m
  <2>5. stored \cup new = 1..m
    BY <1>1, <1>2, <2>3, <2>4 DEF m
  <2>6. Continues(new)
    <3> SUFFICES ASSUME NEW e \in new, e - 1 \notin new
                 PROVE  e - 1 = cloudHead /\ \A x \in new : e <= x
      BY DEF Continues
    <3>1. e - 1 = cloudHead
      BY <1>1, <1>2
    <3> QED BY <1>1, <1>2, <3>1
  <2> QED BY <2>4, <2>5, <2>6 DEF m, new
<1> QED BY <1>3, <1>4

-----------------------------------------------------------------------------
(* What a step that leaves a part alone keeps of it.                       *)

LEMMA DeviceFrame == DeviceTypeOK /\ UNCHANGED deviceVars => DeviceTypeOK'
BY DEF DeviceTypeOK, Events, deviceVars

LEMMA UploadFrame == UploadTypeOK /\ UNCHANGED uploadVars => UploadTypeOK'
BY DEF UploadTypeOK, Events, uploadVars

LEMMA CloudFrame ==
  UNCHANGED cloudVars =>
    /\ CloudTypeOK => CloudTypeOK'
    /\ CloudContinuous => CloudContinuous'
<1>1. UNCHANGED cloudVars => (CloudTypeOK => CloudTypeOK')
  BY DEF CloudTypeOK, Events, cloudVars
<1>2. UNCHANGED cloudVars => (CloudContinuous => CloudContinuous')
  BY DEF CloudContinuous, cloudVars
<1> QED BY <1>1, <1>2

\* Batches go on continuing while the device's and the cloud's chain grow.
LEMMA StillContinuing ==
  ASSUME NEW b, Continuing(b), last \in Nat, last' \in Nat, last <= last',
         stored \subseteq stored'
  PROVE  Continuing(b)'
BY DEF Continuing

-----------------------------------------------------------------------------
(* One lemma per action.                                                   *)

LEMMA PrepareInv == OutboxInv /\ Prepare => OutboxInv'
<1> SUFFICES ASSUME OutboxInv, Prepare PROVE OutboxInv'
  OBVIOUS
<1>1. draft' = last + 1 /\ last < MaxEvents
  BY TailIsNewest DEF Prepare
<1>2. DeviceTypeOK'
  BY <1>1, OutboxAssumption DEF Prepare, OutboxInv, TypeOK, DeviceTypeOK, Events
<1>3. UploadTypeOK' /\ CloudTypeOK' /\ CloudContinuous'
  BY UploadFrame, CloudFrame DEF Prepare, OutboxInv, TypeOK
<1>4. HeadConfirmed'
  BY DEF Prepare, OutboxInv, HeadConfirmed, cloudVars
<1>5. ExtendsNewest'
  BY <1>1 DEF Prepare, ExtendsNewest
<1>6. InFlight'
  BY DEF Prepare, OutboxInv, InFlight, Continuing, uploadVars, cloudVars
<1> QED BY <1>2, <1>3, <1>4, <1>5, <1>6 DEF OutboxInv, TypeOK

LEMMA EnqueueInv == OutboxInv /\ Enqueue => OutboxInv'
<1> SUFFICES ASSUME OutboxInv, Enqueue PROVE OutboxInv'
  OBVIOUS
<1>1. /\ draft' = 0
      /\ UNCHANGED <<head, leftover, up, uploadVars, cloudVars>>
      /\ failures' \in 0..MaxFailures
  BY OutboxAssumption DEF Enqueue, Fail, OutboxInv, TypeOK, DeviceTypeOK
<1>2. UploadTypeOK' /\ CloudTypeOK' /\ CloudContinuous' /\ ExtendsNewest'
  BY <1>1, UploadFrame, CloudFrame DEF OutboxInv, TypeOK, ExtendsNewest
<1>3. CASE UNCHANGED <<files, last>>
  <2>1. DeviceTypeOK'
    BY <1>1, <1>3, OutboxAssumption DEF OutboxInv, TypeOK, DeviceTypeOK, Events
  <2>2. HeadConfirmed' /\ InFlight'
    BY <1>1, <1>3
    DEF OutboxInv, HeadConfirmed, InFlight, Continuing, uploadVars, cloudVars
  <2> QED BY <1>2, <2>1, <2>2 DEF OutboxInv, TypeOK
<1>4. CASE CanEnqueue /\ files' = files \cup {draft} /\ last' = draft
  <2>1. /\ draft = last + 1 /\ last' = last + 1 /\ draft \in 1..MaxEvents
        /\ last \in Nat /\ head \in Nat
    BY <1>4, TailIsNewest DEF CanEnqueue, OutboxInv, TypeOK, DeviceTypeOK
  <2>2. Cardinality(files') <= MaximumPendingEvents
    <3>1. IsFiniteSet(files)
      BY FinitePrefix
    <3>2. /\ Cardinality(files) \in Nat
          /\ Cardinality(files') \in {Cardinality(files), Cardinality(files) + 1}
      BY <1>4, <3>1, FS_AddElement, FS_CardinalityType
    <3> QED BY <1>4, <3>2, OutboxAssumption DEF CanEnqueue
  <2>3. DeviceTypeOK'
    BY <1>1, <1>4, <2>1, <2>2, OutboxAssumption DEF OutboxInv, TypeOK, DeviceTypeOK, Events
  <2>4. HeadConfirmed'
    BY <1>1, <1>4, <2>1 DEF OutboxInv, HeadConfirmed, cloudVars
  <2>5. InFlight'
    <3>1. \A b \in wire' \cup claimable' : Continuing(b)'
      BY <1>1, <2>1, StillContinuing DEF OutboxInv, InFlight, cloudVars
    <3>2. cloudHead' <= last' /\ answer'.head <= cloudHead'
      BY <1>1, <2>1 DEF OutboxInv, TypeOK, CloudTypeOK, InFlight, uploadVars, cloudVars
    <3> QED BY <1>1, <3>1, <3>2 DEF OutboxInv, InFlight, uploadVars
  <2> QED BY <1>2, <2>3, <2>4, <2>5 DEF OutboxInv, TypeOK
<1> QED BY <1>3, <1>4 DEF Enqueue

LEMMA FlushInv == OutboxInv /\ Flush => OutboxInv'
<1> SUFFICES ASSUME OutboxInv, Flush PROVE OutboxInv'
  OBVIOUS
<1> DEFINE p == Pending
<1>1. /\ step' = "waiting" /\ batch' = p /\ wire' = wire \cup {p}
      /\ UNCHANGED <<deviceVars, answer, inbox, queued, claimable, stored, cloudHead, gap>>
  BY DEF Flush
<1>2. Continuing(p) /\ p \subseteq Events
  BY PendingContinues DEF Pending, OutboxInv, TypeOK, DeviceTypeOK
<1> HIDE DEF p
<1>3. DeviceTypeOK'
  BY <1>1, DeviceFrame DEF OutboxInv, TypeOK
<1>4. UploadTypeOK'
  BY <1>1, <1>2 DEF OutboxInv, TypeOK, UploadTypeOK, Events
<1>5. CloudTypeOK'
  BY <1>1, <1>2 DEF OutboxInv, TypeOK, CloudTypeOK, Events
<1>6. CloudContinuous' /\ HeadConfirmed' /\ ExtendsNewest'
  BY <1>1 DEF OutboxInv, CloudContinuous, HeadConfirmed, ExtendsNewest, deviceVars
<1>7. InFlight'
  <2>1. \A b : Continuing(b)' <=> Continuing(b)
    BY <1>1 DEF Continuing, deviceVars
  <2>2. \A b \in wire' \cup claimable' : Continuing(b)
    BY <1>1, <1>2 DEF OutboxInv, InFlight
  <2> QED BY <1>1, <2>1, <2>2 DEF OutboxInv, InFlight, deviceVars
<1> QED BY <1>3, <1>4, <1>5, <1>6, <1>7 DEF OutboxInv, TypeOK

LEMMA GiveUpInv == OutboxInv /\ GiveUp => OutboxInv'
<1> SUFFICES ASSUME OutboxInv, GiveUp PROVE OutboxInv'
  OBVIOUS
<1>1. DeviceTypeOK' /\ CloudTypeOK' /\ CloudContinuous'
  BY DeviceFrame, CloudFrame DEF GiveUp, OutboxInv, TypeOK
<1>2. UploadTypeOK'
  BY DEF GiveUp, OutboxInv, TypeOK, UploadTypeOK, Events
<1>3. HeadConfirmed' /\ ExtendsNewest'
  BY DEF GiveUp, OutboxInv, HeadConfirmed, ExtendsNewest, deviceVars, cloudVars
<1>4. InFlight'
  BY DEF GiveUp, OutboxInv, InFlight, Continuing, deviceVars, cloudVars
<1> QED BY <1>1, <1>2, <1>3, <1>4 DEF OutboxInv, TypeOK

\* The head only moves forward, to one the cloud has, and what is to be
\* deleted lies behind it.
LEMMA AcknowledgeInv == OutboxInv /\ Acknowledge => OutboxInv'
<1> SUFFICES ASSUME OutboxInv, Acknowledge PROVE OutboxInv'
  OBVIOUS
<1>1. /\ UNCHANGED <<files, leftover, up, draft, last, batch, answer, cloudVars>>
      /\ failures' \in 0..MaxFailures
      /\ step' \in {"idle", "deleting"}
  BY OutboxAssumption DEF Acknowledge, Fail, OutboxInv, TypeOK, DeviceTypeOK
<1>2. /\ head \in Nat /\ last \in Nat /\ last <= MaxEvents /\ cloudHead \in Nat /\ answer.head \in Nat
      /\ answer.head <= cloudHead /\ head <= cloudHead /\ cloudHead <= last
  BY OutboxAssumption
  DEF OutboxInv, TypeOK, DeviceTypeOK, UploadTypeOK, CloudTypeOK, InFlight, HeadConfirmed
<1>3. /\ head' \in Nat /\ head <= head' /\ head' <= cloudHead
      /\ step' = "deleting" => answer.accepted \cup answer.duplicates \subseteq 1..head'
  <2>1. CASE head' = head /\ step' = "idle"
    BY <1>2, <2>1
  <2>2. CASE Acceptable(answer) /\ head' = answer.head
    <3>1. CASE answer.head = head
      BY <1>2, <2>2, <3>1 DEF Acceptable
    <3>2. CASE answer.head # head
      BY <1>2, <2>2, <3>2 DEF Acceptable, Extensions
    <3> QED BY <3>1, <3>2
  <2> QED BY <2>1, <2>2 DEF Acknowledge
<1>4. DeviceTypeOK'
  BY <1>1, <1>2, <1>3, OutboxAssumption DEF OutboxInv, TypeOK, DeviceTypeOK, Events
<1>5. UploadTypeOK'
  BY <1>1 DEF OutboxInv, TypeOK, UploadTypeOK, Events
<1>6. CloudTypeOK' /\ CloudContinuous' /\ ExtendsNewest'
  BY <1>1, CloudFrame DEF OutboxInv, TypeOK, ExtendsNewest
<1>7. HeadConfirmed'
  <2>1. (head' + 1)..last \subseteq (head + 1)..last
    <3>1. head \in Int /\ head' \in Int /\ last \in Int /\ head <= head'
      BY <1>2, <1>3
    <3>2. \A a, b, c \in Int : a <= b => (b + 1)..c \subseteq (a + 1)..c
      OBVIOUS
    <3> QED BY <3>1, <3>2
  <2>2. (head + 1)..last \subseteq files /\ files \subseteq 1..last
    BY DEF OutboxInv, HeadConfirmed
  <2>3. files' = files /\ last' = last /\ cloudHead' = cloudHead
    BY <1>1 DEF cloudVars
  <2> QED BY <1>3, <2>1, <2>2, <2>3 DEF HeadConfirmed
<1>8. InFlight'
  BY <1>1, <1>3 DEF OutboxInv, InFlight, Continuing, cloudVars
<1> QED BY <1>4, <1>5, <1>6, <1>7, <1>8 DEF OutboxInv, TypeOK
LEMMA DeleteInv == OutboxInv /\ Delete => OutboxInv'
<1> SUFFICES ASSUME OutboxInv, Delete PROVE OutboxInv'
  OBVIOUS
<1>1. /\ UNCHANGED <<head, leftover, up, draft, last, batch, cloudVars>>
      /\ step = "deleting"
  BY DEF Delete
<1>2. failures' \in 0..MaxFailures /\ step' \in {"idle", "deleting"}
  <2>1. \/ UNCHANGED failures /\ step' \in {"idle", step}
        \/ Fail /\ step' = "idle"
    BY DEF Delete
  <2> QED BY <1>1, <2>1, OutboxAssumption DEF Fail, OutboxInv, TypeOK, DeviceTypeOK
<1>3. CloudTypeOK' /\ CloudContinuous' /\ ExtendsNewest'
  BY <1>1, CloudFrame DEF OutboxInv, TypeOK, ExtendsNewest
<1>4. CASE UNCHANGED <<files, answer>>
  <2>1. DeviceTypeOK'
    BY <1>1, <1>2, <1>4 DEF OutboxInv, TypeOK, DeviceTypeOK, Events
  <2>2. UploadTypeOK'
    BY <1>1, <1>2, <1>4 DEF OutboxInv, TypeOK, UploadTypeOK, Events
  <2>3. HeadConfirmed'
    BY <1>1, <1>4 DEF OutboxInv, HeadConfirmed, cloudVars
  <2>4. InFlight'
    BY <1>1, <1>4 DEF OutboxInv, InFlight, Continuing, cloudVars
  <2> QED BY <1>3, <2>1, <2>2, <2>3, <2>4 DEF OutboxInv, TypeOK
<1>5. ASSUME NEW e \in answer.accepted \cup answer.duplicates,
             files' = files \ {e},
             answer' = [answer EXCEPT !.accepted = @ \ {e}, !.duplicates = @ \ {e}]
      PROVE  OutboxInv'
  <2>1. e \in 1..head /\ head \in Nat
    BY <1>1 DEF OutboxInv, TypeOK, DeviceTypeOK, InFlight
  <2>2. /\ answer' \in Answers
        /\ answer'.accepted = answer.accepted \ {e}
        /\ answer'.duplicates = answer.duplicates \ {e}
        /\ answer'.head = answer.head
    BY <1>5 DEF OutboxInv, TypeOK, UploadTypeOK, Answers
  <2>3. Cardinality(files') <= MaximumPendingEvents
    <3>1. IsFiniteSet(files) /\ files' \in SUBSET files
      BY <1>5, FinitePrefix
    <3>2. /\ Cardinality(files') <= Cardinality(files)
          /\ Cardinality(files') \in Nat /\ Cardinality(files) \in Nat
      BY <3>1, FS_Subset, FS_CardinalityType
    <3> QED BY <3>2, OutboxAssumption DEF OutboxInv, TypeOK, DeviceTypeOK
  <2>4. DeviceTypeOK'
    BY <1>1, <1>2, <1>5, <2>3 DEF OutboxInv, TypeOK, DeviceTypeOK, Events
  <2>5. UploadTypeOK'
    BY <1>1, <1>2, <2>2 DEF OutboxInv, TypeOK, UploadTypeOK, Events
  <2>6. HeadConfirmed'
    BY <1>1, <1>5, <2>1 DEF OutboxInv, HeadConfirmed, cloudVars
  <2>7. InFlight'
    BY <1>1, <2>2 DEF OutboxInv, InFlight, Continuing, cloudVars
  <2> QED BY <1>3, <2>4, <2>5, <2>6, <2>7 DEF OutboxInv, TypeOK
<1> QED BY <1>4, <1>5 DEF Delete

\* Ingesting a continuing batch, whatever else the step does to the uploader.
LEMMA IngestInv ==
  ASSUME OutboxInv, NEW b, Continuing(b), Ingest(b), UNCHANGED deviceVars
  PROVE  /\ stored' \subseteq Events /\ cloudHead' \in 0..MaxEvents
         /\ cloudHead \in Nat /\ cloudHead <= cloudHead' /\ cloudHead' <= last'
         /\ cloudHead' = HeadAfter(NewEvents(b)) /\ Continues(NewEvents(b))
         /\ gap' = gap /\ gap = FALSE
         /\ CloudContinuous' /\ HeadConfirmed' /\ ExtendsNewest'
         /\ \A c \in wire \cup claimable : Continuing(c)'
<1> DEFINE m == HeadAfter(NewEvents(b))
<1>1. /\ m \in Nat /\ cloudHead <= m /\ m <= last
      /\ stored \cup NewEvents(b) = 1..m /\ Continues(NewEvents(b))
  BY Ingestion
<1>2. stored' = 1..m /\ cloudHead' = m /\ gap' = gap /\ gap = FALSE
  BY <1>1 DEF Ingest, OutboxInv, TypeOK, CloudTypeOK, CloudContinuous
<1> HIDE DEF m
<1>3. /\ last' = last /\ head' = head /\ files' = files /\ draft' = draft
      /\ last \in 0..MaxEvents /\ cloudHead \in Nat /\ head \in Nat /\ last \in Nat
  BY DEF deviceVars, OutboxInv, TypeOK, DeviceTypeOK, CloudTypeOK
<1>4. stored' \subseteq Events /\ m \in 0..MaxEvents
  BY <1>1, <1>2, <1>3, OutboxAssumption DEF Events
<1>5. stored \subseteq stored'
  BY <1>1, <1>2
<1>6. CloudContinuous'
  BY <1>2 DEF CloudContinuous
<1>7. HeadConfirmed'
  BY <1>1, <1>2, <1>3 DEF OutboxInv, HeadConfirmed
<1>8. ExtendsNewest'
  BY <1>3 DEF OutboxInv, ExtendsNewest
<1>9. \A c \in wire \cup claimable : Continuing(c)'
  BY <1>3, <1>5, StillContinuing DEF OutboxInv, InFlight
<1> QED BY <1>1, <1>2, <1>3, <1>4, <1>6, <1>7, <1>8, <1>9 DEF m
LEMMA ReceiveInv ==
  ASSUME OutboxInv, NEW b \in wire, Receive(b)
  PROVE  OutboxInv'
<1>1. /\ Continuing(b) /\ b \subseteq Events
      /\ wire' = wire \ {b} /\ UNCHANGED <<deviceVars, batch, inbox>>
  BY DEF Receive, OutboxInv, InFlight, TypeOK, CloudTypeOK
<1>2. DeviceTypeOK'
  BY <1>1, DeviceFrame DEF OutboxInv, TypeOK
<1>3. CASE inbox
  <2>1. /\ queued' = queued \cup {b}
        /\ claimable' \in {claimable, claimable \cup {b}}
        /\ UNCHANGED <<stored, cloudHead, gap>>
    BY <1>3 DEF Receive
  <2>2. \/ step' = step /\ answer' = answer
        \/ step' = "answered" /\ answer' = [NoAnswer EXCEPT !.state = "queued"]
    BY <1>3 DEF Receive
  <2>3. CloudTypeOK'
    BY <1>1, <2>1 DEF OutboxInv, TypeOK, CloudTypeOK, Events
  <2>4. UploadTypeOK' /\ answer'.head <= cloudHead
    <3>1. CASE step' = step /\ answer' = answer
      BY <1>1, <3>1 DEF OutboxInv, TypeOK, UploadTypeOK, InFlight, Events
    <3>2. CASE step' = "answered" /\ answer' = [NoAnswer EXCEPT !.state = "queued"]
      <4>1. answer' \in Answers
        BY <3>2 DEF NoAnswer, Answers
      <4>2. answer'.accepted = {} /\ answer'.duplicates = {} /\ answer'.head = 0
        BY <3>2 DEF NoAnswer
      <4> QED BY <1>1, <3>2, <4>1, <4>2, OutboxAssumption
              DEF OutboxInv, TypeOK, UploadTypeOK, CloudTypeOK, Events
    <3> QED BY <2>2, <3>1, <3>2
  <2>5. CloudContinuous' /\ HeadConfirmed' /\ ExtendsNewest'
    BY <1>1, <2>1 DEF OutboxInv, CloudContinuous, HeadConfirmed, ExtendsNewest, deviceVars
  <2>6. InFlight'
    <3>1. \A c : Continuing(c)' <=> Continuing(c)
      BY <1>1, <2>1 DEF Continuing, deviceVars
    <3>2. \A c \in wire' \cup claimable' : Continuing(c)
      BY <1>1, <2>1 DEF OutboxInv, InFlight
    <3> QED BY <1>1, <2>1, <2>2, <2>4, <3>1, <3>2 DEF OutboxInv, InFlight, deviceVars
  <2> QED BY <1>2, <2>3, <2>4, <2>5, <2>6 DEF OutboxInv, TypeOK
<1>4. CASE ~inbox
  <2>1. Ingest(b) /\ UNCHANGED <<queued, claimable>>
    BY <1>4 DEF Receive
  <2>2. /\ stored' \subseteq Events /\ cloudHead' \in 0..MaxEvents
        /\ cloudHead \in Nat /\ cloudHead <= cloudHead' /\ cloudHead' <= last'
        /\ cloudHead' = HeadAfter(NewEvents(b)) /\ Continues(NewEvents(b))
        /\ gap' = gap /\ gap = FALSE
        /\ CloudContinuous' /\ HeadConfirmed' /\ ExtendsNewest'
        /\ \A c \in wire \cup claimable : Continuing(c)'
    BY <1>1, <2>1, IngestInv
  <2>3. \/ step' = step /\ answer' = answer
        \/ step' = "answered" /\ answer' = Response(b)
    BY <1>4 DEF Receive
  <2>4. CloudTypeOK'
    BY <1>1, <2>1, <2>2 DEF OutboxInv, TypeOK, CloudTypeOK, Events
  <2>5. UploadTypeOK' /\ answer'.head <= cloudHead'
    <3>1. CASE step' = step /\ answer' = answer
      <4>1. UploadTypeOK'
        BY <1>1, <3>1 DEF OutboxInv, TypeOK, UploadTypeOK, Events
      <4>2. answer.head \in Int /\ answer.head <= cloudHead /\ cloudHead' \in Int
        BY <2>2, OutboxAssumption DEF OutboxInv, TypeOK, UploadTypeOK, InFlight
      <4> QED BY <2>2, <3>1, <4>1, <4>2
    <3>2. CASE step' = "answered" /\ answer' = Response(b)
      <4>1. Response(b) = [state |-> "committed", accepted |-> NewEvents(b),
                           duplicates |-> b \ NewEvents(b), head |-> cloudHead',
                           gap |-> FALSE]
        BY <2>2 DEF Response
      <4> DEFINE acc == NewEvents(b)
                 dup == b \ NewEvents(b)
                 h == cloudHead'
      <4>2. acc \subseteq Events /\ dup \subseteq Events /\ Events \subseteq Nat
        <5>1. Events \subseteq Nat
          BY OutboxAssumption DEF Events
        <5> QED BY <1>1, <5>1 DEF NewEvents
      <4>3. h \in Nat /\ h \in 0..MaxEvents
        BY <2>2, OutboxAssumption
      <4>6. answer' = [state |-> "committed", accepted |-> acc, duplicates |-> dup,
                       head |-> h, gap |-> FALSE]
        BY <3>2, <4>1
      <4> HIDE DEF acc, dup, h
      <4>4. answer' \in Answers
        BY <4>2, <4>3, <4>6 DEF Answers
      <4>5. /\ answer'.head = h
            /\ answer'.accepted \cup answer'.duplicates \subseteq Events
        BY <4>2, <4>6
      <4> QED BY <1>1, <3>2, <4>3, <4>4, <4>5
              DEF h, OutboxInv, TypeOK, UploadTypeOK, Events
    <3> QED BY <2>3, <3>1, <3>2
  <2>6. InFlight'
    BY <1>1, <2>1, <2>2, <2>3, <2>5 DEF OutboxInv, InFlight, deviceVars
  <2> QED BY <1>2, <2>2, <2>4, <2>5, <2>6 DEF OutboxInv, TypeOK
<1> QED BY <1>3, <1>4

LEMMA LoseInv ==
  ASSUME OutboxInv, NEW b \in wire, Lose(b)
  PROVE  OutboxInv'
<1>1. /\ wire' = wire \ {b}
      /\ UNCHANGED <<deviceVars, uploadVars, inbox, queued, claimable, stored, cloudHead, gap>>
  BY DEF Lose
<1>2. DeviceTypeOK' /\ UploadTypeOK'
  BY <1>1, DeviceFrame, UploadFrame DEF OutboxInv, TypeOK
<1>3. CloudTypeOK'
  BY <1>1 DEF OutboxInv, TypeOK, CloudTypeOK, Events
<1>4. CloudContinuous' /\ HeadConfirmed' /\ ExtendsNewest'
  BY <1>1 DEF OutboxInv, CloudContinuous, HeadConfirmed, ExtendsNewest, deviceVars
<1>5. InFlight'
  BY <1>1 DEF OutboxInv, InFlight, Continuing, deviceVars, uploadVars
<1> QED BY <1>2, <1>3, <1>4, <1>5 DEF OutboxInv, TypeOK

LEMMA InboxWorkInv ==
  ASSUME OutboxInv, NEW b \in claimable, InboxWork(b)
  PROVE  OutboxInv'
<1>1. /\ Continuing(b) /\ claimable' \in {claimable, claimable \ {b}}
      /\ UNCHANGED <<deviceVars, uploadVars, wire, inbox, queued>>
  BY DEF InboxWork, OutboxInv, InFlight
<1>2. DeviceTypeOK' /\ UploadTypeOK'
  BY <1>1, DeviceFrame, UploadFrame DEF OutboxInv, TypeOK
<1>3. CASE UNCHANGED <<stored, cloudHead, gap>>
  <2>1. CloudTypeOK'
    BY <1>1, <1>3 DEF OutboxInv, TypeOK, CloudTypeOK, Events
  <2>2. CloudContinuous' /\ HeadConfirmed' /\ ExtendsNewest'
    BY <1>1, <1>3 DEF OutboxInv, CloudContinuous, HeadConfirmed, ExtendsNewest, deviceVars
  <2>3. InFlight'
    BY <1>1, <1>3 DEF OutboxInv, InFlight, Continuing, deviceVars, uploadVars
  <2> QED BY <1>2, <2>1, <2>2, <2>3 DEF OutboxInv, TypeOK
<1>4. CASE Ingest(b)
  <2>1. /\ stored' \subseteq Events /\ cloudHead' \in 0..MaxEvents
        /\ cloudHead \in Nat /\ cloudHead <= cloudHead' /\ cloudHead' <= last'
        /\ gap' = gap
        /\ CloudContinuous' /\ HeadConfirmed' /\ ExtendsNewest'
        /\ \A c \in wire \cup claimable : Continuing(c)'
    BY <1>1, <1>4, IngestInv
  <2>2. CloudTypeOK'
    BY <1>1, <2>1 DEF OutboxInv, TypeOK, CloudTypeOK, Events
  <2>3. answer'.head <= cloudHead'
    <3>1. answer.head \in Int /\ answer.head <= cloudHead /\ cloudHead' \in Int
      BY <2>1, OutboxAssumption DEF OutboxInv, TypeOK, UploadTypeOK, InFlight
    <3> QED BY <1>1, <2>1, <3>1 DEF uploadVars
  <2>4. InFlight'
    BY <1>1, <2>1, <2>3 DEF OutboxInv, InFlight, deviceVars, uploadVars
  <2> QED BY <1>2, <2>1, <2>2, <2>4 DEF OutboxInv, TypeOK
<1> QED BY <1>3, <1>4 DEF InboxWork

LEMMA ProcessInv == OutboxInv /\ (Crash \/ Restart) => OutboxInv'
<1> SUFFICES ASSUME OutboxInv, Crash \/ Restart PROVE OutboxInv'
  OBVIOUS
<1>0. leftover' \in BOOLEAN
  <2>1. leftover \in BOOLEAN
    BY DEF OutboxInv, TypeOK, DeviceTypeOK
  <2>2. leftover' \in {leftover, leftover \/ (Operating /\ draft # 0 /\ CanEnqueue)}
    BY Zenon DEF Crash, Restart
  <2> QED BY <2>1, <2>2, Zenon
<1>1. /\ up' \in {"open", "down", "refused"}
      /\ draft' \in {0, draft} /\ failures' \in 0..MaxFailures
      /\ step' \in {step, "idle"}
      /\ UNCHANGED <<files, head, last, batch, answer, cloudVars>>
  BY OutboxAssumption DEF Crash, Restart, Fail, OutboxInv, TypeOK, DeviceTypeOK, uploadVars
<1>2. DeviceTypeOK'
  <2>1. draft' \in 0..MaxEvents
    BY <1>1, OutboxAssumption DEF OutboxInv, TypeOK, DeviceTypeOK
  <2> QED BY <1>0, <1>1, <2>1 DEF OutboxInv, TypeOK, DeviceTypeOK, Events
<1>3. UploadTypeOK'
  BY <1>1 DEF OutboxInv, TypeOK, UploadTypeOK, Events
<1>4. CloudTypeOK' /\ CloudContinuous'
  BY <1>1, CloudFrame DEF OutboxInv, TypeOK
<1>5. HeadConfirmed' /\ ExtendsNewest'
  BY <1>1 DEF OutboxInv, HeadConfirmed, ExtendsNewest, cloudVars
<1>6. InFlight'
  BY <1>1 DEF OutboxInv, InFlight, Continuing, cloudVars
<1> QED BY <1>2, <1>3, <1>4, <1>5, <1>6 DEF OutboxInv, TypeOK

-----------------------------------------------------------------------------
(* The theorems.                                                           *)

LEMMA InitInv == Init => OutboxInv
<1> SUFFICES ASSUME Init PROVE OutboxInv
  OBVIOUS
<1>1. DeviceTypeOK
  <2>1. Cardinality({}) = 0
    BY FS_EmptySet
  <2>2. leftover \in BOOLEAN
    BY Zenon DEF Init
  <2>3. files = {} /\ head = 0 /\ last = 0 /\ draft = 0 /\ up = "open" /\ failures = 0
    BY DEF Init
  <2> QED BY <2>1, <2>2, <2>3, OutboxAssumption DEF DeviceTypeOK
<1>2. UploadTypeOK
  BY OutboxAssumption DEF Init, NoAnswer, Answers, UploadTypeOK, Events
<1>3. CloudTypeOK
  <2>1. gap \in BOOLEAN /\ inbox \in InboxModes
    BY Zenon DEF Init
  <2>2. wire = {} /\ queued = {} /\ claimable = {} /\ stored = {} /\ cloudHead = 0
    BY DEF Init
  <2> QED BY <2>1, <2>2, OutboxAssumption DEF CloudTypeOK
<1>4. CloudContinuous /\ HeadConfirmed /\ ExtendsNewest
  BY DEF Init, CloudContinuous, HeadConfirmed, ExtendsNewest
<1>5. InFlight
  BY DEF Init, NoAnswer, InFlight
<1> QED BY <1>1, <1>2, <1>3, <1>4, <1>5 DEF OutboxInv, TypeOK

\* The inductive invariant holds throughout, for every capacity, batch size,
\* deployment and number of events and failures.
THEOREM OutboxInvariance == Spec => []OutboxInv
<1>1. OutboxInv /\ UNCHANGED vars => OutboxInv'
  <2> SUFFICES ASSUME OutboxInv, UNCHANGED vars PROVE OutboxInv'
    OBVIOUS
  <2>1. TypeOK' /\ CloudContinuous'
    BY DeviceFrame, UploadFrame, CloudFrame DEF OutboxInv, TypeOK, vars
  <2>2. HeadConfirmed' /\ ExtendsNewest'
    BY DEF OutboxInv, HeadConfirmed, ExtendsNewest, vars, deviceVars, cloudVars
  <2>3. InFlight'
    BY DEF OutboxInv, InFlight, Continuing, vars, deviceVars, uploadVars, cloudVars
  <2> QED BY <2>1, <2>2, <2>3 DEF OutboxInv
<1>2. OutboxInv /\ Next => OutboxInv'
  BY PrepareInv, EnqueueInv, FlushInv, GiveUpInv, AcknowledgeInv, DeleteInv,
     ReceiveInv, LoseInv, InboxWorkInv, ProcessInv
  DEF Next, DeviceStep, CloudStep
<1> QED BY <1>1, <1>2, InitInv, PTL DEF Spec

\* Types, and the capacity of the outbox.
THEOREM OutboxTyping == Spec => []TypeOK
BY OutboxInvariance, PTL DEF OutboxInv

\* An event that became durable is on disk or in the cloud's chain: the head
\* splits them, everything up to it is stored, everything after it is a file.
THEOREM OutboxNothingLost == Spec => []NothingLost
<1>1. OutboxInv => NothingLost
  <2> SUFFICES ASSUME OutboxInv, NEW e \in 1..last PROVE e \in files \/ e \in stored
    BY DEF NothingLost
  <2>1. head \in Int /\ last \in Int /\ cloudHead \in Int
    BY OutboxAssumption DEF OutboxInv, TypeOK, DeviceTypeOK, CloudTypeOK
  <2>2. CASE e <= head
    BY <2>1, <2>2 DEF OutboxInv, HeadConfirmed, CloudContinuous
  <2>3. CASE e > head
    BY <2>1, <2>3 DEF OutboxInv, HeadConfirmed
  <2> QED BY <2>1, <2>2, <2>3
<1> QED BY <1>1, OutboxInvariance, PTL

\* No gap in the cloud's chain.
THEOREM OutboxCloudContinuous == Spec => []CloudContinuous
BY OutboxInvariance, PTL DEF OutboxInv

\* The head on disk is confirmed and what follows it is on disk.
THEOREM OutboxHeadConfirmed == Spec => []HeadConfirmed
BY OutboxInvariance, PTL DEF OutboxInv

\* The chain never forks.
THEOREM OutboxExtendsNewest == Spec => []ExtendsNewest
BY OutboxInvariance, PTL DEF OutboxInv
=============================================================================
