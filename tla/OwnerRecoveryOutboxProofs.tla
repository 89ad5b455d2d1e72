---------------------- MODULE OwnerRecoveryOutboxProofs ----------------------
(***************************************************************************)
(* What the delivery of owner-recovery notifications promises for any      *)
(* number of events, workers, tokens, operators and attempts: no request   *)
(* is repeated blindly, a published event was accepted, and every decision *)
(* of an operator is audited and counted once.                             *)
(***************************************************************************)
EXTENDS OwnerRecoveryOutbox, FiniteSetTheorems, SequenceTheorems, TLAPS

-----------------------------------------------------------------------------
(* The inductive invariant. *)

\* The version of a row counts its decisions: the redrives, and the one
\* suppression that is terminal.
VersionBound ==
  \A e \in Events :
    LET row == outbox[e]
    IN /\ row.management_version <= row.redrive_count + 2
       /\ row.status \notin {"suppressed", "pruned"} =>
            row.management_version <= row.redrive_count + 1

\* No request carries a version the row has not reached.
AskedBound == \A e \in Events, v \in 1..(MaxRedrive + 2) : <<e, v>> \in asked => v <= outbox[e].management_version

\* A delivery in progress at the version of its row holds the row's claim for
\* as long as the row is pending, and a claim is held at the current version.
DeliveryFenced ==
  \A d \in deliveries :
    LET row == outbox[d.event]
    IN /\ d.version <= row.management_version
       /\ d.version = row.management_version =>
            /\ row.status # "dead_letter"
            /\ row.status = "pending" => row.claim = d.token
       /\ row.claim = d.token => d.version = row.management_version

\* One delivery at a time for each event and version.
OneDelivery ==
  \A c, d \in deliveries : c.event = d.event /\ c.version = d.version => c = d

\* What a delivery or a lookup was told.
AnswersKnown ==
  /\ \A d \in deliveries : /\ d.pc = "rejected" => <<d.event, d.version>> \notin asked
                           /\ d.pc = "accepted" => d.event \in accepted
  /\ \A l \in lookups : l.pc = "confirm" => l.event \in accepted

OutboxInv ==
  /\ TypeOK /\ VersionBound /\ AskedBound /\ DeliveryFenced /\ OneDelivery /\ AnswersKnown
  /\ NoBlindRetry /\ PublishedWasAccepted /\ DecisionsAudited

-----------------------------------------------------------------------------
(* Rows. *)

\* What a worker, the clock or the retention may do to a row on its own: the
\* version stays, a claim is at most given up, and no row comes back to the
\* claim path or to the dead letters.
RowMoves(row, new) ==
  /\ new \in Rows
  /\ new.management_version = row.management_version
  /\ new.redrive_count = row.redrive_count
  /\ new.claim \in {row.claim, NoToken}
  /\ new.status = "pending" => row.status = "pending" /\ new.claim = row.claim
  /\ new.status = "dead_letter" => row.status = "dead_letter"
  /\ row.status \in {"suppressed", "pruned"} => new.status \in {"suppressed", "pruned"}

LEMMA RowTyped ==
  ASSUME OutboxInv, NEW e \in Events
  PROVE  /\ outbox[e] \in Rows
         /\ outbox[e].management_version \in 1..(MaxRedrive + 2)
         /\ outbox[e].redrive_count \in 0..MaxRedrive
         /\ outbox[e].attempts \in 0..MAX_ATTEMPTS
BY DEF OutboxInv, TypeOK, Rows

LEMMA SameMoves == ASSUME NEW row \in Rows PROVE RowMoves(row, row)
BY DEF RowMoves

LEMMA UncertainMoves ==
  ASSUME NEW row \in Rows, row.status = "pending"
  PROVE  RowMoves(row, Uncertain(row)) /\ Uncertain(row).status = "uncertain"
<1> DEFINE new == Uncertain(row)
<1>1. /\ new \in Rows /\ new.status = "uncertain" /\ new.claim = NoToken
      /\ new.management_version = row.management_version /\ new.redrive_count = row.redrive_count
  BY DEF Uncertain, Rows, Statuses
<1> QED BY <1>1 DEF RowMoves

LEMMA PublishedMoves ==
  ASSUME NEW row \in Rows, row.status \in {"pending", "uncertain"}
  PROVE  RowMoves(row, Published(row)) /\ Published(row).status = "published"
<1> DEFINE new == Published(row)
<1>1. /\ new \in Rows /\ new.status = "published" /\ new.claim = NoToken
      /\ new.management_version = row.management_version /\ new.redrive_count = row.redrive_count
  BY DEF Published, Rows, Statuses
<1> QED BY <1>1 DEF RowMoves

LEMMA ConfirmationMoves ==
  ASSUME NEW row \in Rows, NEW c \in Tokens
  PROVE  /\ RowMoves(row, [row EXCEPT !.confirmation = c, !.confirm_due = FALSE])
         /\ [row EXCEPT !.confirmation = c, !.confirm_due = FALSE].status = row.status
<1> DEFINE new == [row EXCEPT !.confirmation = c, !.confirm_due = FALSE]
<1>1. /\ new \in Rows /\ new.status = row.status /\ new.claim = row.claim
      /\ new.management_version = row.management_version /\ new.redrive_count = row.redrive_count
  BY DEF Rows
<1> HIDE DEF new
<1>2. RowMoves(row, new)
  BY <1>1 DEF RowMoves
<1> QED BY <1>1, <1>2 DEF new

LEMMA PrunedMoves ==
  ASSUME NEW row \in Rows
  PROVE  RowMoves(row, [row EXCEPT !.status = "pruned"]) /\ [row EXCEPT !.status = "pruned"].status = "pruned"
<1> DEFINE new == [row EXCEPT !.status = "pruned"]
<1>1. /\ new \in Rows /\ new.status = "pruned" /\ new.claim = row.claim
      /\ new.management_version = row.management_version /\ new.redrive_count = row.redrive_count
  BY DEF Rows, Statuses
<1> HIDE DEF new
<1>2. RowMoves(row, new)
  BY <1>1 DEF RowMoves
<1> QED BY <1>1, <1>2 DEF new

\* The clock moves only flags.
LEMMA ClockMoves ==
  ASSUME NEW row \in Rows, NEW new,
         new \in {[row EXCEPT !.live = FALSE], [row EXCEPT !.due = TRUE], [row EXCEPT !.confirm_due = TRUE]}
  PROVE  RowMoves(row, new) /\ new.status = row.status
<1>1. /\ new \in Rows /\ new.status = row.status /\ new.claim = row.claim
      /\ new.management_version = row.management_version /\ new.redrive_count = row.redrive_count
  BY DEF Rows
<1> QED BY <1>1 DEF RowMoves

\* A claim puts a token on the row.
LEMMA ClaimedRow ==
  ASSUME NEW row \in Rows, NEW t \in Tokens
  PROVE  /\ Claimed(row, t) \in Rows /\ Claimed(row, t).status = row.status /\ Claimed(row, t).claim = t
         /\ Claimed(row, t).management_version = row.management_version
         /\ Claimed(row, t).redrive_count = row.redrive_count
         /\ Claimed(row, t).attempts \in 1..MAX_ATTEMPTS
<1>1. row.attempts \in 0..MAX_ATTEMPTS
  BY DEF Rows
<1>2. Smaller(row.attempts + 1, MAX_ATTEMPTS) \in 1..MAX_ATTEMPTS
  BY <1>1, OutboxAssumption DEF Smaller
<1> DEFINE n == Smaller(row.attempts + 1, MAX_ATTEMPTS)
<1>3. n \in 1..MAX_ATTEMPTS /\ n \in 0..MAX_ATTEMPTS
  BY <1>2, OutboxAssumption
<1>4. Claimed(row, t) = [row EXCEPT !.attempts = n, !.claim = t, !.live = TRUE, !.due = FALSE]
  BY DEF Claimed
<1> HIDE DEF n
<1> QED BY <1>3, <1>4 DEF Rows

\* A refused request goes back to the queue, or to the dead letters.
LEMMA FailedRow ==
  ASSUME NEW row \in Rows
  PROVE  /\ Failed(row) \in Rows /\ Failed(row).status \in {"pending", "dead_letter"}
         /\ Failed(row).claim = NoToken
         /\ Failed(row).management_version = row.management_version
         /\ Failed(row).redrive_count = row.redrive_count
<1> DEFINE s == IF row.attempts = MAX_ATTEMPTS THEN "dead_letter" ELSE "pending"
           b == row.attempts = MAX_ATTEMPTS
<1>1. s \in {"pending", "dead_letter"} /\ b \in BOOLEAN
  OBVIOUS
<1>2. Failed(row) = [row EXCEPT !.status = s, !.claim = NoToken, !.live = FALSE, !.due = b]
  BY DEF Failed
<1> HIDE DEF s, b
<1> QED BY <1>1, <1>2 DEF Rows, Statuses

\* A decision of an operator takes the row to its next version.
LEMMA DecidedRow ==
  ASSUME NEW row \in Rows, NEW r \in Decisions, Permits(r, row),
         row.management_version <= row.redrive_count + 1
  PROVE  /\ Decided(r, row) \in Rows /\ Decided(r, row).claim = NoToken
         /\ Decided(r, row).status \in {"pending", "suppressed"}
         /\ Decided(r, row).management_version = row.management_version + 1
         /\ Decided(r, row).redrive_count =
              IF r.op \in {"redrive", "retryUncertain"} THEN row.redrive_count + 1 ELSE row.redrive_count
         /\ Decided(r, row).status # "suppressed" => r.op \in {"redrive", "retryUncertain"}
<1> DEFINE m == row.management_version + 1
           c == row.redrive_count + 1
           decided == [row EXCEPT !.management_version = m, !.claim = NoToken, !.live = FALSE, !.confirm_due = FALSE]
<1>1. /\ row.management_version \in 1..(MaxRedrive + 2) /\ row.redrive_count \in 0..MaxRedrive
  BY DEF Rows
<1>2. m \in 1..(MaxRedrive + 2)
  BY <1>1, OutboxAssumption
<1>3. r.op \in {"redrive", "retryUncertain"} => c \in 0..MaxRedrive
  BY <1>1, OutboxAssumption DEF Permits
<1> HIDE DEF m, c
<1>4. /\ decided \in Rows /\ decided.claim = NoToken /\ decided.management_version = m
      /\ decided.redrive_count = row.redrive_count
  BY <1>2 DEF Rows
<1>5. 0 \in 0..MAX_ATTEMPTS
  BY OutboxAssumption
<1>6. CASE r.op = "redrive"
  <2> HIDE DEF decided
  <2>1. Decided(r, row) = [decided EXCEPT !.status = "pending", !.attempts = 0, !.due = TRUE, !.redrive_count = c]
    BY <1>4, <1>6 DEF Decided, decided, m, c
  <2> QED BY <1>3, <1>4, <1>5, <1>6, <2>1 DEF Rows, Statuses, m, c
<1>7. CASE r.op = "retryUncertain"
  <2> HIDE DEF decided
  <2>1. Decided(r, row) = [decided EXCEPT !.status = "pending", !.due = TRUE, !.redrive_count = c]
    BY <1>4, <1>7 DEF Decided, decided, m, c
  <2> QED BY <1>3, <1>4, <1>7, <2>1 DEF Rows, Statuses, m, c
<1>8. CASE r.op \notin {"redrive", "retryUncertain"}
  <2> HIDE DEF decided
  <2>1. Decided(r, row) = [decided EXCEPT !.status = "suppressed"]
    BY <1>8 DEF Decided, decided, m
  <2> QED BY <1>4, <1>8, <2>1 DEF Rows, Statuses, m
<1> QED BY <1>6, <1>7, <1>8

-----------------------------------------------------------------------------
(* What follows from how rows and deliveries move. *)

DeliveryType ==
  [worker : Workers, event : Events, token : Tokens, attempt : 1..MAX_ATTEMPTS,
   version : 1..(MaxRedrive + 2), pc : {"send", "wait", "accepted", "rejected", "unknown"}]

LookupType ==
  [worker : Workers, event : Events, attempt : Tokens,
   version : 1..(MaxRedrive + 2), pc : {"lookup", "confirm"}]

\* Every row moves on its own.
RowsMove ==
  /\ outbox' \in [Events -> Rows]
  /\ \A e \in Events : RowMoves(outbox[e], outbox'[e])

\* Deliveries end, and at most one of them goes on to pc.
Continues(d, pc) == deliveries' \subseteq (deliveries \ {d}) \cup {[d EXCEPT !.pc = pc]}

LEMMA RowsMoved ==
  ASSUME OutboxInv, RowsMove, UNCHANGED audit, asked' \subseteq asked
  PROVE  VersionBound' /\ AskedBound' /\ NoBlindRetry' /\ DecisionsAudited'
<1> USE DEF OutboxInv, RowsMove, RowMoves
<1>1. VersionBound'
  BY DEF VersionBound
<1>2. AskedBound'
  BY DEF AskedBound
<1>3. NoBlindRetry'
  BY DEF NoBlindRetry
<1>4. DecisionsAudited'
  BY DEF DecisionsAudited
<1> QED BY <1>1, <1>2, <1>3, <1>4

LEMMA RowsUnmoved ==
  ASSUME OutboxInv, UNCHANGED outbox
  PROVE  RowsMove
BY SameMoves DEF OutboxInv, TypeOK, RowsMove

\* One row moves.
LEMMA RowMoved ==
  ASSUME OutboxInv, NEW e \in Events, NEW new, RowMoves(outbox[e], new),
         outbox' = [outbox EXCEPT ![e] = new]
  PROVE  RowsMove /\ outbox'[e] = new /\ \A f \in Events : f # e => outbox'[f] = outbox[f]
<1>1. outbox \in [Events -> Rows] /\ new \in Rows
  BY DEF OutboxInv, TypeOK, RowMoves
<1>2. outbox' \in [Events -> Rows] /\ outbox'[e] = new /\ \A f \in Events : f # e => outbox'[f] = outbox[f]
  BY <1>1
<1>3. \A f \in Events : RowMoves(outbox[f], outbox'[f])
  BY <1>1, <1>2, SameMoves
<1> QED BY <1>2, <1>3 DEF RowsMove

\* The deliveries after a call are those before it, one of them further on.
LEMMA ContinuedDeliveries ==
  ASSUME OutboxInv, NEW d \in deliveries,
         NEW pc \in {"send", "wait", "accepted", "rejected", "unknown"}, Continues(d, pc)
  PROVE  /\ deliveries' \subseteq DeliveryType
         /\ OneDelivery'
         /\ \A c \in deliveries' : \E b \in deliveries :
              /\ c.event = b.event /\ c.version = b.version /\ c.token = b.token
              /\ (c = b /\ b # d) \/ (b = d /\ c.pc = pc)
<1> DEFINE new == [d EXCEPT !.pc = pc]
<1>1. deliveries \subseteq DeliveryType
  BY DEF OutboxInv, TypeOK, DeliveryType
<1>2. /\ new \in DeliveryType /\ new.event = d.event /\ new.version = d.version
      /\ new.token = d.token /\ new.pc = pc
  BY <1>1 DEF DeliveryType
<1>3. deliveries' \subseteq (deliveries \ {d}) \cup {new}
  BY DEF Continues
<1> HIDE DEF new
<1>4. deliveries' \subseteq DeliveryType
  BY <1>1, <1>2, <1>3
<1>5. OneDelivery'
  BY <1>2, <1>3 DEF OutboxInv, OneDelivery
<1>6. ASSUME NEW c \in deliveries'
      PROVE  \E b \in deliveries :
               /\ c.event = b.event /\ c.version = b.version /\ c.token = b.token
               /\ (c = b /\ b # d) \/ (b = d /\ c.pc = pc)
  BY <1>2, <1>3
<1> QED BY <1>4, <1>5, <1>6

\* Deliveries that came from others stay fenced while rows move.
LEMMA FencedKept ==
  ASSUME OutboxInv, RowsMove,
         \A c \in deliveries' : \E b \in deliveries :
            c.event = b.event /\ c.version = b.version /\ c.token = b.token
  PROVE  DeliveryFenced'
<1> SUFFICES ASSUME NEW c \in deliveries'
             PROVE  LET row == outbox'[c.event]
                    IN /\ c.version <= row.management_version
                       /\ c.version = row.management_version =>
                            /\ row.status # "dead_letter"
                            /\ row.status = "pending" => row.claim = c.token
                       /\ row.claim = c.token => c.version = row.management_version
  BY DEF DeliveryFenced
<1>1. PICK b \in deliveries : c.event = b.event /\ c.version = b.version /\ c.token = b.token
  OBVIOUS
<1>2. b \in DeliveryType
  BY DEF OutboxInv, TypeOK, DeliveryType
<1>3. b.event \in Events /\ b.token \in Tokens
  BY <1>2 DEF DeliveryType
<1>4. RowMoves(outbox[b.event], outbox'[b.event])
  BY <1>3 DEF RowsMove
<1>5. b.token # NoToken
  BY <1>3, OutboxAssumption
<1> QED BY <1>1, <1>4, <1>5 DEF OutboxInv, DeliveryFenced, RowMoves

\* A step that starts no delivery, sends nothing and only moves rows.
LEMMA QuietStep ==
  ASSUME OutboxInv, TypeOK', RowsMove, deliveries' \subseteq deliveries,
         \A l \in lookups' : l.pc = "confirm" => l \in lookups \/ l.event \in accepted',
         accepted \subseteq accepted', asked' = asked, audit' = audit,
         \A e \in Events : outbox'[e].status = "published" => outbox[e].status = "published" \/ e \in accepted
  PROVE  OutboxInv'
<1>1. VersionBound' /\ AskedBound' /\ NoBlindRetry' /\ DecisionsAudited'
  BY RowsMoved
<1>2. DeliveryFenced'
  BY FencedKept
<1>3. OneDelivery' /\ AnswersKnown' /\ PublishedWasAccepted'
  BY DEF OutboxInv, OneDelivery, AnswersKnown, PublishedWasAccepted
<1> QED BY <1>1, <1>2, <1>3 DEF OutboxInv

\* A step of one delivery that only moves rows.
LEMMA DeliveryStep ==
  ASSUME OutboxInv, RowsMove, NEW d \in deliveries,
         NEW pc \in {"wait", "accepted", "rejected", "unknown"}, Continues(d, pc),
         asked' \subseteq asked, accepted \subseteq accepted', accepted' \subseteq Events,
         late' \subseteq Events,
         pc = "rejected" => <<d.event, d.version>> \notin asked',
         pc = "accepted" => d.event \in accepted',
         \A e \in Events : outbox'[e].status = "published" => outbox[e].status = "published" \/ e \in accepted,
         UNCHANGED <<worker, lookups, idempotency, audit, crashes>>
  PROVE  OutboxInv'
<1>1. /\ deliveries' \subseteq DeliveryType
      /\ OneDelivery'
      /\ \A c \in deliveries' : \E b \in deliveries :
            /\ c.event = b.event /\ c.version = b.version /\ c.token = b.token
            /\ (c = b /\ b # d) \/ (b = d /\ c.pc = pc)
  BY ContinuedDeliveries
<1>2. TypeOK'
  BY <1>1 DEF OutboxInv, TypeOK, RowsMove, DeliveryType
<1>3. VersionBound' /\ AskedBound' /\ NoBlindRetry' /\ DecisionsAudited'
  BY RowsMoved
<1>4. DeliveryFenced'
  BY <1>1, FencedKept
<1>5. AnswersKnown' /\ PublishedWasAccepted'
  BY <1>1 DEF OutboxInv, AnswersKnown, PublishedWasAccepted
<1> QED BY <1>1, <1>2, <1>3, <1>4, <1>5 DEF OutboxInv

-----------------------------------------------------------------------------
(* The deliveries. *)

LEMMA DeliveryTyped ==
  ASSUME OutboxInv, NEW d \in deliveries
  PROVE  d \in DeliveryType /\ d.event \in Events /\ d.token \in Tokens /\ d.version \in 1..(MaxRedrive + 2)
         /\ d.token # NoToken
BY OutboxAssumption DEF OutboxInv, TypeOK, DeliveryType

LEMMA PublishStep == ASSUME OutboxInv, NEW d \in deliveries, Publish(d) PROVE OutboxInv'
<1>1. /\ Continues(d, "wait") /\ asked' = asked \cup {<<d.event, d.version>>}
      /\ UNCHANGED <<outbox, worker, lookups, accepted, late, idempotency, audit, crashes>>
  BY DEF Publish, Continues
<1>2. /\ deliveries' \subseteq DeliveryType
      /\ OneDelivery'
      /\ \A c \in deliveries' : \E b \in deliveries :
            /\ c.event = b.event /\ c.version = b.version /\ c.token = b.token
            /\ (c = b /\ b # d) \/ (b = d /\ c.pc = "wait")
  BY <1>1, ContinuedDeliveries
<1>3. d.event \in Events /\ d.version \in 1..(MaxRedrive + 2) /\ d.token # NoToken
  BY DeliveryTyped
<1>4. TypeOK'
  <2>1. asked' \subseteq Events \X (1..(MaxRedrive + 2))
    BY <1>1, <1>3 DEF OutboxInv, TypeOK
  <2> QED BY <1>1, <1>2, <2>1 DEF OutboxInv, TypeOK, DeliveryType
<1>5. DeliveryFenced'
  BY <1>1, <1>2, RowsUnmoved, FencedKept
<1>6. VersionBound' /\ DecisionsAudited' /\ PublishedWasAccepted'
  BY <1>1 DEF OutboxInv, VersionBound, DecisionsAudited, PublishedWasAccepted
<1>7. NoBlindRetry'
  BY <1>1, <1>3 DEF OutboxInv, NoBlindRetry, DeliveryFenced
<1>8. AskedBound'
  BY <1>1 DEF OutboxInv, AskedBound, DeliveryFenced
<1>9. AnswersKnown'
  BY <1>1, <1>2 DEF OutboxInv, AnswersKnown, OneDelivery
<1> QED BY <1>2, <1>4, <1>5, <1>6, <1>7, <1>8, <1>9 DEF OutboxInv

LEMMA AnswerStep == ASSUME OutboxInv, NEW d \in deliveries, Answer(d) PROVE OutboxInv'
<1>1. RowsMove /\ UNCHANGED <<outbox, worker, lookups, idempotency, audit, crashes>>
  BY RowsUnmoved DEF Answer
<1>2. d.event \in Events /\ accepted \subseteq Events /\ late \subseteq Events
  BY DeliveryTyped DEF OutboxInv, TypeOK
<1>3. CASE /\ accepted' = accepted \cup {d.event}
           /\ deliveries' = (deliveries \ {d}) \cup {[d EXCEPT !.pc = "accepted"]}
           /\ UNCHANGED <<late, asked>>
  <2>1. Continues(d, "accepted") /\ accepted' \subseteq Events /\ late' \subseteq Events
    BY <1>2, <1>3 DEF Continues
  <2> QED BY <1>1, <1>3, <2>1, DeliveryStep
<1>4. CASE /\ asked' = asked \ {<<d.event, d.version>>}
           /\ deliveries' = (deliveries \ {d}) \cup {[d EXCEPT !.pc = "rejected"]}
           /\ UNCHANGED <<accepted, late>>
  <2>1. Continues(d, "rejected") /\ accepted' \subseteq Events /\ late' \subseteq Events
    BY <1>2, <1>4 DEF Continues
  <2>2. asked' \subseteq asked /\ <<d.event, d.version>> \notin asked'
    BY <1>4
  <2> QED BY <1>1, <1>4, <2>1, <2>2, DeliveryStep
<1>5. CASE /\ late' = late \cup {d.event}
           /\ deliveries' = (deliveries \ {d}) \cup {[d EXCEPT !.pc = "unknown"]}
           /\ UNCHANGED <<accepted, asked>>
  <2>1. Continues(d, "unknown") /\ accepted' \subseteq Events /\ late' \subseteq Events
    BY <1>2, <1>5 DEF Continues
  <2> QED BY <1>1, <1>5, <2>1, DeliveryStep
<1> QED BY <1>3, <1>4, <1>5 DEF Answer

\* A refused request settles: the row returns to the claim path, or to the
\* dead letters, with nothing asked for its version.
LEMMA RefusalSettles ==
  ASSUME OutboxInv, NEW d \in deliveries, d.pc = "rejected", OwnsClaim(d),
         outbox' = [outbox EXCEPT ![d.event] = Failed(outbox[d.event])],
         deliveries' = deliveries \ {d},
         UNCHANGED <<worker, lookups, accepted, late, idempotency, audit, asked, crashes>>
  PROVE  OutboxInv'
<1> DEFINE e == d.event
           row == outbox[e]
           new == Failed(row)
<1>1. e \in Events /\ row \in Rows /\ d.token # NoToken
  BY DeliveryTyped, RowTyped
<1>2. row.status = "pending" /\ row.claim = d.token
  BY DEF OwnsClaim
<1>3. row.management_version = d.version /\ <<e, d.version>> \notin asked
  BY <1>2 DEF OutboxInv, DeliveryFenced, AnswersKnown
<1>4. /\ new \in Rows /\ new.status \in {"pending", "dead_letter"} /\ new.claim = NoToken
      /\ new.management_version = row.management_version /\ new.redrive_count = row.redrive_count
  BY <1>1, FailedRow
<1>5. /\ outbox' \in [Events -> Rows] /\ outbox'[e] = new
      /\ \A f \in Events : f # e => outbox'[f] = outbox[f]
  BY <1>1, <1>4 DEF OutboxInv, TypeOK
<1> HIDE DEF new
<1>6. TypeOK'
  BY <1>5 DEF OutboxInv, TypeOK
<1>7. VersionBound' /\ AskedBound' /\ DecisionsAudited'
  BY <1>2, <1>4, <1>5 DEF OutboxInv, VersionBound, AskedBound, DecisionsAudited
<1>8. NoBlindRetry'
  BY <1>3, <1>4, <1>5 DEF OutboxInv, NoBlindRetry
<1>9. PublishedWasAccepted' /\ AnswersKnown' /\ OneDelivery'
  BY <1>4, <1>5 DEF OutboxInv, PublishedWasAccepted, AnswersKnown, OneDelivery
<1>10. DeliveryFenced'
  <2> SUFFICES ASSUME NEW c \in deliveries, c # d
               PROVE  LET r == outbox'[c.event]
                      IN /\ c.version <= r.management_version
                         /\ c.version = r.management_version =>
                              /\ r.status # "dead_letter"
                              /\ r.status = "pending" => r.claim = c.token
                         /\ r.claim = c.token => c.version = r.management_version
    BY DEF DeliveryFenced
  <2>1. c.event \in Events /\ c.token # NoToken
    BY DeliveryTyped
  <2>2. CASE c.event # e
    BY <1>5, <2>1, <2>2 DEF OutboxInv, DeliveryFenced
  <2>3. CASE c.event = e
    <3>1. c.version # d.version
      BY <2>3 DEF OutboxInv, OneDelivery
    <3>2. c.version <= row.management_version
      BY <2>3 DEF OutboxInv, DeliveryFenced
    <3> QED BY <1>3, <1>4, <1>5, <2>1, <2>3, <3>1, <3>2
  <2> QED BY <2>2, <2>3
<1> QED BY <1>6, <1>7, <1>8, <1>9, <1>10 DEF OutboxInv

LEMMA SettleStep == ASSUME OutboxInv, NEW d \in deliveries, Settle(d) PROVE OutboxInv'
<1> DEFINE row == outbox[d.event]
<1>1. /\ d.pc \in {"accepted", "rejected", "unknown"}
      /\ UNCHANGED <<worker, lookups, accepted, late, idempotency, audit, asked, crashes>>
      /\ Continues(d, "unknown")
      /\ d.pc = "rejected" => deliveries' = deliveries \ {d}
  BY DEF Settle, Outside, Continues
<1>2. /\ d.event \in Events /\ row \in Rows
      /\ accepted \subseteq Events /\ late \subseteq Events
  BY DeliveryTyped, RowTyped DEF OutboxInv, TypeOK
<1>3. CASE outbox' = outbox
  <2>1. RowsMove
    BY <1>3, RowsUnmoved
  <2> QED BY <1>1, <1>2, <1>3, <2>1, DeliveryStep
<1>4. CASE OwnsClaim(d) /\ d.pc = "accepted" /\ outbox' = [outbox EXCEPT ![d.event] = Published(row)]
  <2>1. RowMoves(row, Published(row)) /\ d.event \in accepted
    BY <1>2, <1>4, PublishedMoves DEF OwnsClaim, OutboxInv, AnswersKnown
  <2>2. RowsMove /\ \A f \in Events : f # d.event => outbox'[f] = outbox[f]
    BY <1>2, <1>4, <2>1, RowMoved
  <2>3. \A e \in Events : outbox'[e].status = "published" => outbox[e].status = "published" \/ e \in accepted
    BY <2>1, <2>2
  <2> QED BY <1>1, <1>2, <2>2, <2>3, DeliveryStep
<1>5. CASE OwnsClaim(d) /\ d.pc = "unknown" /\ outbox' = [outbox EXCEPT ![d.event] = Uncertain(row)]
  <2>1. RowMoves(row, Uncertain(row)) /\ Uncertain(row).status = "uncertain"
    BY <1>2, <1>5, UncertainMoves DEF OwnsClaim
  <2>2. RowsMove /\ outbox'[d.event] = Uncertain(row) /\ \A f \in Events : f # d.event => outbox'[f] = outbox[f]
    BY <1>2, <1>5, <2>1, RowMoved
  <2>3. \A e \in Events : outbox'[e].status = "published" => outbox[e].status = "published" \/ e \in accepted
    BY <2>1, <2>2
  <2> QED BY <1>1, <1>2, <2>2, <2>3, DeliveryStep
<1>6. CASE OwnsClaim(d) /\ d.pc = "rejected" /\ outbox' = [outbox EXCEPT ![d.event] = Failed(row)]
  BY <1>1, <1>6, RefusalSettles
<1> QED BY <1>3, <1>4, <1>5, <1>6 DEF Settle

-----------------------------------------------------------------------------
(* Lookups, retention, processes and time. *)

LEMMA FreshToken ==
  ASSUME NEW held, NEW t \in Fresh(held)
  PROVE  t \in Tokens /\ t \notin held
<1>1. ~(Tokens \subseteq held) /\ t = CHOOSE s \in Tokens : s \notin held
  BY DEF Fresh
<1>2. \E s \in Tokens : s \notin held
  BY <1>1
<1> QED BY <1>1, <1>2

LEMMA LookupTyped ==
  ASSUME OutboxInv, NEW l \in lookups
  PROVE  l \in LookupType /\ l.event \in Events
BY DEF OutboxInv, TypeOK, LookupType

LEMMA ClaimConfirmationsStep ==
  ASSUME OutboxInv, NEW w \in Workers, ClaimConfirmations(w)
  PROVE  OutboxInv'
<1> DEFINE Row(e, c) == [outbox[e] EXCEPT !.confirmation = c, !.confirm_due = FALSE]
           Call(e, c) == [worker |-> w, event |-> e, attempt |-> c, pc |-> "lookup",
                          version |-> outbox[e].management_version]
<1>1. PICK S \in SUBSET Events, c \in Fresh(HeldConfirmations) :
        /\ outbox' = [e \in Events |-> IF e \in S THEN Row(e, c) ELSE outbox[e]]
        /\ lookups' \subseteq lookups \cup {Call(e, c) : e \in S}
        /\ worker' = [worker EXCEPT ![w] = "confirm"]
  BY DEF ClaimConfirmations
<1>2. UNCHANGED <<deliveries, accepted, late, idempotency, audit, asked, crashes>>
  BY DEF ClaimConfirmations, Outside
<1>3. c \in Tokens
  BY FreshToken
<1>4. \A e \in Events : RowMoves(outbox[e], Row(e, c)) /\ Row(e, c).status = outbox[e].status
  BY <1>3, RowTyped, ConfirmationMoves
<1>5. \A e \in Events : Call(e, c) \in LookupType /\ Call(e, c).pc = "lookup"
  BY <1>3, RowTyped DEF LookupType
<1> HIDE DEF Row, Call
<1>6. \A e \in Events : RowMoves(outbox[e], outbox'[e]) /\ outbox'[e].status = outbox[e].status
  BY <1>1, <1>4, RowTyped, SameMoves
<1>7. RowsMove
  BY <1>1, <1>6 DEF RowsMove, RowMoves
<1>8. lookups' \subseteq LookupType
  BY <1>1, <1>5, LookupTyped
<1>9. TypeOK'
  <2>1. worker' \in [Workers -> {"idle", "deliver", "confirm", "closed"}]
    BY <1>1 DEF OutboxInv, TypeOK
  <2> QED BY <1>2, <1>7, <1>8, <2>1 DEF OutboxInv, TypeOK, RowsMove, LookupType
<1>10. \A l \in lookups' : l.pc = "confirm" => l \in lookups
  BY <1>1, <1>5
<1> QED BY <1>2, <1>6, <1>7, <1>9, <1>10, QuietStep

LEMMA LookupAcceptanceStep ==
  ASSUME OutboxInv, NEW l \in lookups, LookupAcceptance(l)
  PROVE  OutboxInv'
<1> DEFINE new == [l EXCEPT !.pc = "confirm"]
<1>1. l \in LookupType /\ l.event \in Events
  BY LookupTyped
<1>2. new \in LookupType /\ new.event = l.event
  BY <1>1 DEF LookupType
<1>3. UNCHANGED <<outbox, worker, deliveries, accepted, late, idempotency, audit, asked, crashes>>
  BY DEF LookupAcceptance, Outside
<1>4. lookups' \subseteq lookups \/ (l.event \in accepted /\ lookups' \subseteq lookups \cup {new})
  BY DEF LookupAcceptance
<1> HIDE DEF new
<1>5. lookups' \subseteq LookupType
  BY <1>2, <1>4, LookupTyped
<1>6. TypeOK'
  BY <1>3, <1>5 DEF OutboxInv, TypeOK, LookupType
<1>7. \A m \in lookups' : m.pc = "confirm" => m \in lookups \/ m.event \in accepted'
  BY <1>2, <1>3, <1>4
<1> QED BY <1>3, <1>6, <1>7, RowsUnmoved, QuietStep

LEMMA MarkProviderConfirmedStep ==
  ASSUME OutboxInv, NEW l \in lookups, MarkProviderConfirmed(l)
  PROVE  OutboxInv'
<1> DEFINE row == outbox[l.event]
<1>1. l.event \in Events /\ row \in Rows /\ l.event \in accepted
  BY LookupTyped, RowTyped DEF MarkProviderConfirmed, OutboxInv, AnswersKnown
<1>2. UNCHANGED <<worker, deliveries, accepted, late, idempotency, audit, asked, crashes>>
      /\ lookups' \subseteq lookups
  BY DEF MarkProviderConfirmed, Outside
<1>3. \/ outbox' = outbox
      \/ row.status = "uncertain" /\ outbox' = [outbox EXCEPT ![l.event] = Published(row)]
  BY DEF MarkProviderConfirmed
<1>4. RowsMove /\ \A f \in Events : f # l.event => outbox'[f] = outbox[f]
  <2>1. CASE outbox' = outbox
    BY <2>1, RowsUnmoved
  <2>2. CASE row.status = "uncertain" /\ outbox' = [outbox EXCEPT ![l.event] = Published(row)]
    BY <1>1, <2>2, PublishedMoves, RowMoved
  <2> QED BY <1>3, <2>1, <2>2
<1>5. TypeOK'
  BY <1>2, <1>4 DEF OutboxInv, TypeOK, RowsMove
<1> QED BY <1>1, <1>2, <1>4, <1>5, QuietStep

LEMMA EndCycleStep ==
  ASSUME OutboxInv, NEW w \in Workers, EndCycle(w)
  PROVE  OutboxInv'
<1> DEFINE Row(e) == [outbox[e] EXCEPT !.status = "pruned"]
<1>1. PICK S \in SUBSET Events : outbox' = [e \in Events |-> IF e \in S THEN Row(e) ELSE outbox[e]]
  BY DEF EndCycle
<1>2. /\ UNCHANGED <<deliveries, lookups, accepted, late, idempotency, audit, asked, crashes>>
      /\ worker' = [worker EXCEPT ![w] = "idle"]
  BY DEF EndCycle, Outside
<1>3. \A e \in Events : RowMoves(outbox[e], Row(e)) /\ Row(e).status = "pruned"
  BY RowTyped, PrunedMoves
<1> HIDE DEF Row
<1>4. \A e \in Events : RowMoves(outbox[e], outbox'[e]) /\ (outbox'[e] = outbox[e] \/ outbox'[e].status = "pruned")
  BY <1>1, <1>3, RowTyped, SameMoves
<1>5. RowsMove
  BY <1>1, <1>4 DEF RowsMove, RowMoves
<1>6. TypeOK'
  <2>1. worker' \in [Workers -> {"idle", "deliver", "confirm", "closed"}]
    BY <1>2 DEF OutboxInv, TypeOK
  <2> QED BY <1>2, <1>5, <2>1 DEF OutboxInv, TypeOK, RowsMove
<1> QED BY <1>2, <1>4, <1>5, <1>6, QuietStep

LEMMA ProcessStep ==
  ASSUME OutboxInv, NEW w \in Workers, Drain(w) \/ Crash(w) \/ Start(w)
  PROVE  OutboxInv'
<1>1. /\ UNCHANGED <<outbox, accepted, idempotency, audit, asked>>
      /\ deliveries' \subseteq deliveries /\ lookups' \subseteq lookups
      /\ worker' = [worker EXCEPT ![w] = "closed"] \/ worker' = [worker EXCEPT ![w] = "idle"]
      /\ crashes' = crashes \/ (crashes < MaxCrashes /\ crashes' = crashes + 1)
  BY DEF Drain, Crash, Start, Outside
<1>2. late' \subseteq late \cup {d.event : d \in deliveries}
  BY DEF Drain, Crash, Start, Outside
<1>3. late' \subseteq Events
  BY <1>2, DeliveryTyped DEF OutboxInv, TypeOK
<1>4. worker' \in [Workers -> {"idle", "deliver", "confirm", "closed"}]
  BY <1>1 DEF OutboxInv, TypeOK
<1>5. crashes' \in 0..MaxCrashes
  BY <1>1, OutboxAssumption DEF OutboxInv, TypeOK
<1>6. TypeOK'
  BY <1>1, <1>3, <1>4, <1>5 DEF OutboxInv, TypeOK
<1> QED BY <1>1, <1>6, RowsUnmoved, QuietStep

LEMMA LateArrivalStep ==
  ASSUME OutboxInv, NEW e \in Events, LateArrival(e)
  PROVE  OutboxInv'
<1>1. /\ UNCHANGED <<outbox, worker, deliveries, lookups, idempotency, audit, asked, crashes>>
      /\ late' \subseteq late /\ accepted \subseteq accepted' /\ accepted' \subseteq accepted \cup {e}
  BY DEF LateArrival
<1>2. TypeOK'
  BY <1>1 DEF OutboxInv, TypeOK
<1> QED BY <1>1, <1>2, RowsUnmoved, QuietStep

LEMMA ForgetKeyStep ==
  ASSUME OutboxInv, NEW k \in Keys, ForgetKey(k)
  PROVE  OutboxInv'
<1>1. /\ UNCHANGED <<outbox, worker, deliveries, lookups, accepted, late, audit, asked, crashes>>
      /\ idempotency' = [idempotency EXCEPT ![k] = NoRecord]
  BY DEF ForgetKey
<1>2. TypeOK'
  BY <1>1 DEF OutboxInv, TypeOK
<1> QED BY <1>1, <1>2, RowsUnmoved, QuietStep

LEMMA TimeStepStep ==
  ASSUME OutboxInv, NEW e \in Events, TimeStep(e)
  PROVE  OutboxInv'
<1>1. UNCHANGED <<worker, deliveries, lookups, accepted, late, idempotency, audit, asked, crashes>>
  BY DEF TimeStep, LeaseExpires, BackoffPasses, LookupDue, Outside
<1>2. PICK new \in {[outbox[e] EXCEPT !.live = FALSE], [outbox[e] EXCEPT !.due = TRUE],
                    [outbox[e] EXCEPT !.confirm_due = TRUE]} :
        outbox' = [outbox EXCEPT ![e] = new]
  BY DEF TimeStep, LeaseExpires, BackoffPasses, LookupDue
<1>3. RowMoves(outbox[e], new) /\ new.status = outbox[e].status
  BY <1>2, RowTyped, ClockMoves
<1>4. RowsMove /\ outbox'[e] = new /\ \A f \in Events : f # e => outbox'[f] = outbox[f]
  BY <1>2, <1>3, RowMoved
<1>5. TypeOK'
  BY <1>1, <1>4 DEF OutboxInv, TypeOK, RowsMove
<1>6. \A f \in Events : outbox'[f].status = outbox[f].status
  BY <1>3, <1>4
<1> QED BY <1>1, <1>4, <1>5, <1>6, QuietStep

-----------------------------------------------------------------------------
(* Claims. *)

\* A row that may be claimed has no delivery at its version: one in progress
\* there would hold the claim.
LEMMA ClaimableIsFree ==
  ASSUME OutboxInv, NEW d \in deliveries, Claimable(outbox[d.event])
  PROVE  d.version < outbox[d.event].management_version
<1>1. d.event \in Events /\ d.token # NoToken /\ d.version \in 1..(MaxRedrive + 2)
  BY DeliveryTyped
<1>2. outbox[d.event].management_version \in 1..(MaxRedrive + 2)
  BY <1>1, RowTyped
<1> QED BY <1>1, <1>2, OutboxAssumption DEF OutboxInv, DeliveryFenced, Claimable

LEMMA ClaimBatchStep ==
  ASSUME OutboxInv, NEW w \in Workers, ClaimBatch(w)
  PROVE  OutboxInv'
<1> DEFINE Call(e, t) == [worker |-> w, event |-> e, token |-> t, pc |-> "send",
                          attempt |-> outbox'[e].attempts,
                          version |-> outbox[e].management_version]
<1>1. PICK pair \in ClaimSets, t \in Fresh(HeldTokens), answered \in BOOLEAN :
        /\ outbox' = [e \in Events |->
                        IF e \in pair[1] THEN Uncertain(outbox[e])
                        ELSE IF e \in pair[2] THEN Claimed(outbox[e], t)
                        ELSE outbox[e]]
        /\ deliveries' = deliveries \cup IF answered THEN {Call(e, t) : e \in pair[2]} ELSE {}
        /\ worker' = [worker EXCEPT ![w] = IF answered THEN "deliver" ELSE "idle"]
  BY DEF ClaimBatch
<1>2. UNCHANGED <<lookups, accepted, late, idempotency, audit, asked, crashes>>
  BY DEF ClaimBatch, Outside
<1>3. /\ \A e \in pair[1] : e \in Events /\ Interrupted(outbox[e])
      /\ \A e \in pair[2] : e \in Events /\ Claimable(outbox[e])
  BY DEF ClaimSets
<1>4. /\ t \in Tokens /\ t # NoToken
      /\ \A e \in Events : outbox[e].claim # t
      /\ \A d \in deliveries : d.token # t
  BY FreshToken, OutboxAssumption DEF HeldTokens
<1> DEFINE B == pair[2]
<1>5. \A e \in B : /\ e \in Events /\ e \notin pair[1] /\ Claimable(outbox[e])
                   /\ outbox'[e] = Claimed(outbox[e], t)
  BY <1>1, <1>3 DEF Interrupted, Claimable
<1>6. \A e \in B : /\ outbox'[e] \in Rows /\ outbox'[e].status = "pending" /\ outbox'[e].claim = t
                   /\ outbox'[e].management_version = outbox[e].management_version
                   /\ outbox'[e].redrive_count = outbox[e].redrive_count
                   /\ outbox'[e].attempts \in 1..MAX_ATTEMPTS
  BY <1>4, <1>5, RowTyped, ClaimedRow DEF Claimable
<1>7. ASSUME NEW e \in Events, e \notin B
      PROVE  /\ RowMoves(outbox[e], outbox'[e])
             /\ outbox'[e].status = "published" => outbox[e].status = "published"
  <2>1. CASE e \in pair[1]
    BY <1>1, <1>3, <2>1, RowTyped, UncertainMoves DEF Interrupted
  <2>2. CASE e \notin pair[1]
    BY <1>1, <1>7, <2>2, RowTyped, SameMoves
  <2> QED BY <2>1, <2>2
<1>8. \A e \in B : /\ Call(e, t) \in DeliveryType /\ Call(e, t).event = e /\ Call(e, t).token = t
                   /\ Call(e, t).pc = "send" /\ Call(e, t).version = outbox[e].management_version
  BY <1>4, <1>5, <1>6, RowTyped DEF DeliveryType
<1>9. \A c \in deliveries' : c \in deliveries \/ \E e \in B : c = Call(e, t)
  BY <1>1
<1>10. outbox' \in [Events -> Rows]
  BY <1>1, <1>5, <1>6, <1>7 DEF RowMoves
<1> HIDE DEF B, Call
<1>11. TypeOK'
  <2>1. worker' \in [Workers -> {"idle", "deliver", "confirm", "closed"}]
    BY <1>1 DEF OutboxInv, TypeOK
  <2>2. deliveries' \subseteq DeliveryType
    BY <1>8, <1>9, DeliveryTyped
  <2> QED BY <1>2, <1>10, <2>1, <2>2 DEF OutboxInv, TypeOK, DeliveryType
<1>12. VersionBound'
  BY <1>5, <1>6, <1>7 DEF OutboxInv, VersionBound, RowMoves, Claimable
<1>13. \A e \in Events : /\ outbox'[e].management_version = outbox[e].management_version
                         /\ outbox'[e].redrive_count = outbox[e].redrive_count
  BY <1>6, <1>7 DEF RowMoves
<1>14. AskedBound' /\ DecisionsAudited'
  BY <1>2, <1>13 DEF OutboxInv, AskedBound, DecisionsAudited
<1>15. NoBlindRetry'
  BY <1>2, <1>4, <1>6, <1>7 DEF OutboxInv, NoBlindRetry, RowMoves
<1>16. PublishedWasAccepted'
  BY <1>2, <1>6, <1>7 DEF OutboxInv, PublishedWasAccepted
<1>17. AnswersKnown'
  BY <1>2, <1>8, <1>9 DEF OutboxInv, AnswersKnown
<1>18. \A d \in deliveries : d.event \in B => d.version < outbox[d.event].management_version
  BY <1>5, ClaimableIsFree
<1>19. OneDelivery'
  <2> SUFFICES ASSUME NEW c \in deliveries', NEW d \in deliveries', c.event = d.event, c.version = d.version
               PROVE  c = d
    BY DEF OneDelivery
  <2>1. \A b \in deliveries : b.event \in Events /\ b.version \in 1..(MaxRedrive + 2)
    BY DeliveryTyped
  <2>2. \A e \in B : outbox[e].management_version \in 1..(MaxRedrive + 2)
    BY <1>5, RowTyped
  <2>3. \A b \in deliveries, e \in B : ~(b.event = e /\ b.version = outbox[e].management_version)
    BY <1>18, <2>1, <2>2, OutboxAssumption
  <2>4. CASE c \in deliveries /\ d \in deliveries
    BY <2>4 DEF OutboxInv, OneDelivery
  <2> QED BY <1>8, <1>9, <2>3, <2>4
<1>20. DeliveryFenced'
  <2> SUFFICES ASSUME NEW c \in deliveries'
               PROVE  LET r == outbox'[c.event]
                      IN /\ c.version <= r.management_version
                         /\ c.version = r.management_version =>
                              /\ r.status # "dead_letter"
                              /\ r.status = "pending" => r.claim = c.token
                         /\ r.claim = c.token => c.version = r.management_version
    BY DEF DeliveryFenced
  <2>1. CASE c \in deliveries /\ c.event \in B
    <3>1. c.version < outbox'[c.event].management_version /\ outbox'[c.event].claim # c.token
      BY <1>4, <1>6, <1>18, <2>1
    <3>2. c.version \in Nat /\ outbox'[c.event].management_version \in Nat
      BY <1>5, <1>6, <2>1, DeliveryTyped, RowTyped, OutboxAssumption
    <3> QED BY <3>1, <3>2
  <2>2. CASE c \in deliveries /\ c.event \notin B
    <3>1. c.event \in Events /\ c.token # NoToken
      BY <2>2, DeliveryTyped
    <3>2. RowMoves(outbox[c.event], outbox'[c.event])
      BY <1>7, <2>2, <3>1
    <3> QED BY <2>2, <3>1, <3>2 DEF OutboxInv, DeliveryFenced, RowMoves
  <2>3. ASSUME NEW e \in B, c = Call(e, t)
        PROVE  /\ c.event = e /\ c.version = outbox'[e].management_version /\ c.version \in Nat
               /\ outbox'[e].status = "pending" /\ outbox'[e].claim = c.token
    BY <1>5, <1>6, <1>8, <2>3, RowTyped, OutboxAssumption
  <2> QED BY <1>9, <2>1, <2>2, <2>3
<1> QED BY <1>11, <1>12, <1>14, <1>15, <1>16, <1>17, <1>19, <1>20 DEF OutboxInv

-----------------------------------------------------------------------------
(* Operators. *)

Redrives(log) == {i \in 1..Len(log) : log[i].op \in {"redrive", "retryUncertain"}}

AuditLogs == Seq([op : Operations, expected : 1..(MaxRedrive + 2)])

\* An appended redrive is counted once, an appended suppression not at all.
LEMMA AppendCounts ==
  ASSUME NEW log \in AuditLogs, NEW x \in [op : Operations, expected : 1..(MaxRedrive + 2)]
  PROVE  /\ Append(log, x) \in AuditLogs
         /\ Len(Append(log, x)) = Len(log) + 1
         /\ \A i \in 1..Len(log) : Append(log, x)[i] = log[i]
         /\ Append(log, x)[Len(log) + 1] = x
         /\ Cardinality(Redrives(Append(log, x))) =
              IF x.op \in {"redrive", "retryUncertain"}
              THEN Cardinality(Redrives(log)) + 1 ELSE Cardinality(Redrives(log))
<1> DEFINE new == Append(log, x)
<1>1. /\ new \in AuditLogs /\ Len(new) = Len(log) + 1
      /\ \A i \in 1..Len(log) : new[i] = log[i]
      /\ new[Len(log) + 1] = x
  BY AppendProperties DEF AuditLogs
<1>2. Len(log) \in Nat
  BY LenProperties DEF AuditLogs
<1> HIDE DEF new
<1>3. Redrives(new) = IF x.op \in {"redrive", "retryUncertain"}
                      THEN Redrives(log) \cup {Len(log) + 1} ELSE Redrives(log)
  BY <1>1, <1>2 DEF Redrives
<1>4. IsFiniteSet(Redrives(log))
  <2>1. IsFiniteSet(1..Len(log))
    BY <1>2, FS_Interval
  <2> QED BY <2>1, FS_Subset DEF Redrives
<1>5. Len(log) + 1 \notin Redrives(log)
  BY <1>2 DEF Redrives
<1>6. Cardinality(Redrives(log) \cup {Len(log) + 1}) = Cardinality(Redrives(log)) + 1
  BY <1>4, <1>5, FS_AddElement
<1> QED BY <1>1, <1>3, <1>6 DEF new

LEMMA MutateStep ==
  ASSUME OutboxInv, NEW r \in Decisions, Mutate(r)
  PROVE  OutboxInv'
<1> DEFINE e == r.event
           row == outbox[e]
           new == Decided(r, row)
           log == audit[e]
           entry == [op |-> r.op, expected |-> r.expected]
<1>1. /\ e \in Events /\ r.key \in Keys /\ r.op \in Operations /\ r.expected \in 1..(MaxRedrive + 2)
      /\ entry \in [op : Operations, expected : 1..(MaxRedrive + 2)]
      /\ entry.op = r.op /\ entry.expected = r.expected
  BY DEF Decisions
<1>2. /\ UNCHANGED <<worker, deliveries, lookups, accepted, late, asked, crashes>>
      /\ Permits(r, row)
      /\ outbox' = [outbox EXCEPT ![e] = new]
      /\ audit' = [audit EXCEPT ![e] = Append(log, entry)]
      /\ idempotency' = [idempotency EXCEPT ![r.key] = r]
  BY <1>1 DEF Mutate, OutboxInv, TypeOK
<1>3. /\ row \in Rows /\ row.management_version \in 1..(MaxRedrive + 2)
      /\ row.redrive_count \in 0..MaxRedrive
  BY <1>1, RowTyped
<1>4. row.management_version = r.expected /\ row.status \in {"dead_letter", "uncertain"}
  BY <1>2 DEF Permits
<1>5. row.management_version <= row.redrive_count + 1
  BY <1>1, <1>4 DEF OutboxInv, VersionBound
<1>6. /\ new \in Rows /\ new.claim = NoToken /\ new.status \in {"pending", "suppressed"}
      /\ new.management_version = row.management_version + 1
      /\ new.redrive_count =
           IF r.op \in {"redrive", "retryUncertain"} THEN row.redrive_count + 1 ELSE row.redrive_count
      /\ new.status # "suppressed" => r.op \in {"redrive", "retryUncertain"}
  BY <1>2, <1>3, <1>5, DecidedRow
<1> HIDE DEF new, entry
<1>7. /\ outbox' \in [Events -> Rows] /\ outbox'[e] = new
      /\ \A f \in Events : f # e => outbox'[f] = outbox[f]
  BY <1>1, <1>2, <1>6 DEF OutboxInv, TypeOK
<1>8. log \in AuditLogs /\ audit \in [Events -> AuditLogs]
  BY <1>1 DEF OutboxInv, TypeOK, AuditLogs
<1> DEFINE more == Append(log, entry)
<1>9. /\ more \in AuditLogs /\ Len(more) = Len(log) + 1
      /\ \A i \in 1..Len(log) : more[i] = log[i]
      /\ more[Len(log) + 1] = entry
      /\ Cardinality(Redrives(more)) =
           IF entry.op \in {"redrive", "retryUncertain"}
           THEN Cardinality(Redrives(log)) + 1 ELSE Cardinality(Redrives(log))
  BY <1>1, <1>8, AppendCounts
<1> HIDE DEF more
<1>10. /\ audit' \in [Events -> AuditLogs] /\ audit'[e] = more
       /\ \A f \in Events : f # e => audit'[f] = audit[f]
  BY <1>1, <1>2, <1>8, <1>9 DEF more
<1>11. TypeOK'
  <2>1. idempotency' \in [Keys -> Decisions \cup {NoRecord}]
    BY <1>1, <1>2 DEF OutboxInv, TypeOK
  <2> QED BY <1>2, <1>7, <1>10, <2>1 DEF OutboxInv, TypeOK, AuditLogs
<1>12. VersionBound'
  BY <1>3, <1>5, <1>6, <1>7, OutboxAssumption DEF OutboxInv, VersionBound
<1>13. AskedBound'
  BY <1>2, <1>3, <1>6, <1>7, OutboxAssumption DEF OutboxInv, AskedBound
<1>14. DeliveryFenced'
  <2> SUFFICES ASSUME NEW d \in deliveries
               PROVE  LET s == outbox'[d.event]
                      IN /\ d.version <= s.management_version
                         /\ d.version = s.management_version =>
                              /\ s.status # "dead_letter"
                              /\ s.status = "pending" => s.claim = d.token
                         /\ s.claim = d.token => d.version = s.management_version
    BY <1>2 DEF DeliveryFenced
  <2>1. d.event \in Events /\ d.token # NoToken /\ d.version \in 1..(MaxRedrive + 2)
    BY DeliveryTyped
  <2>2. CASE d.event = e
    <3>1. d.version <= row.management_version
      BY <2>2 DEF OutboxInv, DeliveryFenced
    <3> QED BY <1>3, <1>6, <1>7, <2>1, <2>2, <3>1, OutboxAssumption
  <2>3. CASE d.event # e
    BY <1>7, <2>1, <2>3 DEF OutboxInv, DeliveryFenced
  <2> QED BY <2>2, <2>3
<1>15. OneDelivery' /\ AnswersKnown' /\ PublishedWasAccepted'
  BY <1>2, <1>6, <1>7 DEF OutboxInv, OneDelivery, AnswersKnown, PublishedWasAccepted
<1>16. NoBlindRetry'
  <2>1. new.management_version \in 1..(MaxRedrive + 2) /\ ~(new.management_version <= row.management_version)
    BY <1>3, <1>6, OutboxAssumption DEF Rows
  <2>2. <<e, new.management_version>> \notin asked
    BY <1>1, <2>1 DEF OutboxInv, AskedBound
  <2> QED BY <1>2, <1>7, <2>2 DEF OutboxInv, NoBlindRetry
<1>17. DecisionsAudited'
  <2>1. /\ row.management_version = Len(log) + 1
        /\ \A i \in 1..Len(log) : log[i].expected = i
        /\ row.redrive_count = Cardinality(Redrives(log))
    BY <1>1 DEF OutboxInv, DecisionsAudited, Redrives
  <2>2. Len(log) \in Nat
    BY <1>8, LenProperties DEF AuditLogs
  <2>3. new.management_version = Len(more) + 1
    BY <1>6, <1>9, <2>1
  <2>4. \A i \in 1..Len(more) : more[i].expected = i
    BY <1>1, <1>4, <1>9, <2>1, <2>2
  <2>5. new.redrive_count = Cardinality(Redrives(more))
    BY <1>1, <1>6, <1>9, <2>1
  <2>6. ASSUME NEW f \in Events
        PROVE  /\ outbox'[f].management_version = Len(audit'[f]) + 1
               /\ \A i \in 1..Len(audit'[f]) : audit'[f][i].expected = i
               /\ outbox'[f].redrive_count = Cardinality(Redrives(audit'[f]))
    <3>1. CASE f = e
      BY <1>7, <1>10, <2>3, <2>4, <2>5, <3>1
    <3>2. CASE f # e
      BY <1>7, <1>10, <3>2 DEF OutboxInv, DecisionsAudited, Redrives
    <3> QED BY <3>1, <3>2
  <2> QED BY <2>6 DEF DecisionsAudited, Redrives
<1> QED BY <1>11, <1>12, <1>13, <1>14, <1>15, <1>16, <1>17 DEF OutboxInv

-----------------------------------------------------------------------------
(* The theorems. *)

LEMMA OutboxInitially == Init => OutboxInv
<1> SUFFICES ASSUME Init PROVE OutboxInv
  OBVIOUS
<1>1. /\ NewRow \in Rows /\ NewRow.status = "pending" /\ NewRow.management_version = 1
      /\ NewRow.redrive_count = 0 /\ NewRow.claim = NoToken
  BY OutboxAssumption DEF NewRow, Rows, Statuses
<1>2. /\ outbox \in [Events -> Rows] /\ \A e \in Events : outbox[e] = NewRow
      /\ audit = [e \in Events |-> <<>>]
      /\ deliveries = {} /\ lookups = {} /\ asked = {} /\ accepted = {}
  BY <1>1 DEF Init
<1>3. TypeOK
  <2>1. idempotency \in [Keys -> Decisions \cup {NoRecord}]
    BY DEF Init
  <2>2. audit \in [Events -> Seq([op : Operations, expected : 1..(MaxRedrive + 2)])]
    BY <1>2
  <2>3. crashes \in 0..MaxCrashes
    BY OutboxAssumption DEF Init
  <2> QED BY <1>2, <2>1, <2>2, <2>3 DEF Init, TypeOK
<1>4. VersionBound /\ AskedBound /\ DeliveryFenced /\ OneDelivery /\ AnswersKnown
  BY <1>1, <1>2 DEF VersionBound, AskedBound, DeliveryFenced, OneDelivery, AnswersKnown
<1>5. NoBlindRetry /\ PublishedWasAccepted
  BY <1>1, <1>2 DEF NoBlindRetry, PublishedWasAccepted
<1>6. DecisionsAudited
  <2>1. Redrives(<<>>) = {} /\ Len(<<>>) = 0
    BY DEF Redrives
  <2>2. Cardinality(Redrives(<<>>)) = 0
    BY <2>1, FS_EmptySet
  <2> HIDE DEF NewRow
  <2>3. ASSUME NEW e \in Events
        PROVE  /\ outbox[e].management_version = Len(audit[e]) + 1
               /\ \A i \in 1..Len(audit[e]) : audit[e][i].expected = i
               /\ outbox[e].redrive_count = Cardinality(Redrives(audit[e]))
    <3>1. audit[e] = <<>>
      BY <1>2
    <3>2. /\ outbox[e].management_version = 1 /\ outbox[e].redrive_count = 0
      BY <1>1, <1>2
    <3> QED BY <2>1, <2>2, <3>1, <3>2
  <2> QED BY <2>3 DEF DecisionsAudited, Redrives
<1> QED BY <1>3, <1>4, <1>5, <1>6 DEF OutboxInv

LEMMA OutboxInductive == OutboxInv /\ [Next]_vars => OutboxInv'
<1> SUFFICES ASSUME OutboxInv, [Next]_vars PROVE OutboxInv'
  OBVIOUS
<1>1. CASE UNCHANGED vars
  BY <1>1 DEF vars, OutboxInv, TypeOK, VersionBound, AskedBound, DeliveryFenced, OneDelivery, AnswersKnown,
      NoBlindRetry, PublishedWasAccepted, DecisionsAudited
<1>2. ASSUME NEW w \in Workers, WorkerStep(w) PROVE OutboxInv'
  BY <1>2, ClaimBatchStep, ClaimConfirmationsStep, EndCycleStep, ProcessStep DEF WorkerStep
<1>3. ASSUME NEW w \in Workers, CallStep(w) PROVE OutboxInv'
  BY <1>3, PublishStep, AnswerStep, SettleStep, LookupAcceptanceStep, MarkProviderConfirmedStep DEF CallStep
<1>4. ASSUME NEW w \in Workers, Drain(w) \/ Crash(w) PROVE OutboxInv'
  BY <1>4, ProcessStep
<1>5. ASSUME NEW e \in Events, TimeStep(e) \/ LateArrival(e) PROVE OutboxInv'
  BY <1>5, TimeStepStep, LateArrivalStep
<1>6. CASE OperatorStep
  BY <1>6, MutateStep, ForgetKeyStep DEF OperatorStep
<1> QED BY <1>1, <1>2, <1>3, <1>4, <1>5, <1>6 DEF Next

\* The invariant of the outbox: the claim fence that holds deliveries to the
\* version of their row is what carries the promises below through every
\* claim, answer, crash, expiry, lookup and decision.
THEOREM OutboxInvariance == Spec => []OutboxInv
<1> QED BY OutboxInitially, OutboxInductive, PTL DEF Spec

\* Rows, calls in progress, records and logs keep their shape: in particular
\* the version of a row never exceeds MaxRedrive + 2.
THEOREM OutboxTyping == Spec => []TypeOK
<1>1. OutboxInv => TypeOK
  BY DEF OutboxInv
<1> QED BY <1>1, OutboxInvariance, PTL

\* claimBatch and persistUncertain never put a row back on the claim path
\* while the outcome of a request for its version is open.
THEOREM OutboxNoBlindRetry == Spec => []NoBlindRetry
<1>1. OutboxInv => NoBlindRetry
  BY DEF OutboxInv
<1> QED BY <1>1, OutboxInvariance, PTL

\* markPublished and markProviderConfirmed publish only what the provider has
\* accepted.
THEOREM OutboxPublished == Spec => []PublishedWasAccepted
<1>1. OutboxInv => PublishedWasAccepted
  BY DEF OutboxInv
<1> QED BY <1>1, OutboxInvariance, PTL

\* mutate applies every decision of an operator to the version the operator
\* saw, and the log and the redrive counter agree with it.
THEOREM OutboxDecisions == Spec => []DecisionsAudited
<1>1. OutboxInv => DecisionsAudited
  BY DEF OutboxInv
<1> QED BY <1>1, OutboxInvariance, PTL

=============================================================================
