-------------------------- MODULE SetupJournalProofs --------------------------
(***************************************************************************)
(* What the setup journal promises for any number of invocations, any      *)
(* number of setup states and any interleaving of their file operations,   *)
(* failures and kills, as long as an invocation that may meet the lock     *)
(* file of a dead one runs alone (Overlap = 1).                            *)
(*                                                                         *)
(* The three properties say nothing about the lock, so none of them is     *)
(* inductive: what is added says who may be past it, and what a process    *)
(* past it knows about the two files.                                      *)
(***************************************************************************)
EXTENDS SetupJournal, FiniteSetTheorems, SequenceTheorems, TLAPS

-----------------------------------------------------------------------------
(* The inductive invariant. *)

\* Steps of a process that created the lock file and has not removed it.
LockSteps == {"stamp", "load", "anchor", "tip", "release"}

\* Steps inside an operation on the journal.
Working == {"open", "busy", "probe"} \cup LockSteps

\* At most two processes run, and one once a process is gone.
FewAlive ==
  /\ \A a, b, c \in Alive : a = b \/ a = c \/ b = c
  /\ (\E p \in Pids : pc[p] \in Ended) => \A a, b \in Alive : a = b

\* A process past the lock is the one the lock file is of.
LockHeld == \A p \in Pids : pc[p] \in LockSteps => lock.by = p

\* The journal is its anchor, is one entry behind it, or is not there yet.
PairOrdered == journal = anchor \/ journal = Missing \/ Follows(anchor, journal)

\* What a process past the lock knows about the files.
KnowsFiles(p) ==
  /\ pc[p] = "anchor" =>
       /\ journal = anchor /\ view[p] = Append(anchor, p)
       /\ \/ op[p] = "initialize" /\ anchor = Missing
          \/ op[p] = "transition" /\ target[p] = Len(anchor) /\ anchor # Missing
  /\ pc[p] = "tip" => anchor = view[p] /\ anchor # Missing
  /\ pc[p] = "release" => journal = anchor /\ view[p] = anchor /\ anchor # Missing

HolderKnows == \A p \in Pids : KnowsFiles(p)

\* What was answered is in the anchor.
AnsweredKept == \A p \in Pids : known[p] # Missing => anchor # Missing /\ IsPrefix(known[p], anchor)

\* A command that is about to record a state has done its work, and only a
\* setup has a configuration to save or to put back.
WorkOf(p) ==
  /\ pc[p] = "idle" => cmd[p] = "none" /\ \A k \in Revisions : p \notin ran[k]
  /\ pc[p] \in Working \cup {"handler"} => cmd[p] # "none"
  /\ pc[p] \in {"save", "restore", "undone"} => cmd[p] = "setup"
  /\ cmd[p] = "setup" =>
       /\ pc[p] # "handler"
       /\ pc[p] \in Working => op[p] \in {"initialize", "status", "transition", "final"}
       /\ pc[p] \in Working /\ op[p] # "final" => target[p] \in Revisions /\ p \in ran[target[p]]
  /\ cmd[p] = "continue" =>
       /\ pc[p] \in Working => op[p] \in {"read", "preflight", "status", "recheck", "transition"}
       /\ op[p] \in {"recheck", "transition"} /\ pc[p] \in Working =>
            target[p] \in Revisions /\ p \in ran[target[p]]
       /\ pc[p] = "handler" => target[p] \in Revisions /\ known[p] # Missing /\ target[p] = Len(known[p])

WorkDone == \A p \in Pids : WorkOf(p)

\* The entries of the anchor and the work of the handlers.
EntriesWorked ==
  \A k \in Revisions :
    /\ k < Len(anchor) => Did(anchor[k + 1], k)
    /\ \A p \in ran[k] : cmd[p] = "continue" => k <= Len(anchor)

\* There is no setup's configuration, and none was put back.
NeverSaved ==
  /\ config = "nobody"
  /\ \A q \in Pids : ~(pc[q] = "undone" /\ before[q] = "nobody")

\* A configuration is saved before any setup opens the journal.
ConfigFirst ==
  NeverSaved => /\ anchor = Missing
                /\ \A p \in Pids : cmd[p] = "setup" => pc[p] \in {"save"} \cup Ended

SetupInv ==
  /\ TypeOK /\ FewAlive /\ LockHeld /\ PairOrdered /\ HolderKnows
  /\ AnsweredKept /\ WorkDone /\ EntriesWorked /\ ConfigFirst

-----------------------------------------------------------------------------
(* Histories. *)

LEMMA HistoryTyped ==
  \A h : h \in Histories <=> h \in Seq(Pids) /\ Len(h) <= LastRevision + 1
<1>1. Histories = UNION {[1 .. m -> Pids] : m \in 0 .. LastRevision + 1}
  BY DEF Histories, BoundedSeq, SeqOf
<1>2. LastRevision \in Nat
  BY SetupAssumption
<1>3. ASSUME NEW h \in Histories PROVE h \in Seq(Pids) /\ Len(h) <= LastRevision + 1
  <2>1. PICK m \in 0 .. LastRevision + 1 : h \in [1 .. m -> Pids]
    BY <1>1
  <2>2. m \in Nat
    BY <1>2
  <2>3. h \in Seq(Pids) /\ Len(h) = m
    BY <2>1, <2>2
  <2> QED BY <1>2, <2>3
<1>4. ASSUME NEW h \in Seq(Pids), Len(h) <= LastRevision + 1 PROVE h \in Histories
  <2>1. Len(h) \in 0 .. LastRevision + 1 /\ h \in [1 .. Len(h) -> Pids]
    BY <1>2, <1>4, LenProperties
  <2> QED BY <1>1, <2>1
<1> QED BY <1>3, <1>4

\* Recording one entry.
LEMMA Recorded ==
  ASSUME NEW h \in Seq(Pids), NEW p \in Pids
  PROVE  /\ Append(h, p) \in Seq(Pids) /\ Append(h, p) # Missing
         /\ Len(Append(h, p)) = Len(h) + 1 /\ Front(Append(h, p)) = h
         /\ Append(h, p)[Len(h) + 1] = p
         /\ \A i \in 1 .. Len(h) : Append(h, p)[i] = h[i]
<1>1. /\ Append(h, p) \in Seq(Pids) /\ Len(Append(h, p)) = Len(h) + 1
      /\ Append(h, p)[Len(h) + 1] = p
      /\ \A i \in 1 .. Len(h) : Append(h, p)[i] = h[i]
  BY AppendProperties
<1>2. Append(h, p) # Missing
  BY <1>1 DEF Missing
<1>3. Front(Append(h, p)) = h
  BY <1>1, LenProperties DEF Front
<1> QED BY <1>1, <1>2, <1>3

LEMMA PrefixMeans ==
  ASSUME NEW g \in Seq(Pids), NEW h \in Seq(Pids)
  PROVE  IsPrefix(g, h) <=> Len(g) <= Len(h) /\ \A i \in 1 .. Len(g) : g[i] = h[i]
<1>1. Len(g) \in Nat /\ Len(h) \in Nat
  OBVIOUS
<1>2. SubSeq(g, 1, Len(g)) = [i \in 1 .. Len(g) |-> g[i]]
  BY <1>1
<1>3. Len(g) <= Len(h) => SubSeq(h, 1, Len(g)) = [i \in 1 .. Len(g) |-> h[i]]
  BY <1>1
<1>4. [i \in 1 .. Len(g) |-> g[i]] = [i \in 1 .. Len(g) |-> h[i]] <=> \A i \in 1 .. Len(g) : g[i] = h[i]
  OBVIOUS
<1> QED BY <1>2, <1>3, <1>4 DEF IsPrefix

LEMMA FollowsLonger ==
  ASSUME NEW g \in Seq(Pids), NEW h \in Seq(Pids), Follows(h, g)
  PROVE  Len(h) = Len(g) + 1 /\ g # Missing /\ h # Missing
<1>1. g # Missing /\ h # Missing /\ g = SubSeq(h, 1, Len(h) - 1) /\ Len(h) \in Nat
  BY DEF Follows, Front
<1>2. Len(h) # 0
  BY <1>1, EmptySeq DEF Missing
<1>3. Len(g) = Len(h) - 1
  <2>1. 1 \in Int /\ Len(h) - 1 \in Int /\ \A i \in 1 .. Len(h) - 1 : h[i] \in Pids
    BY <1>1, ElementOfSeq
  <2>2. Len(SubSeq(h, 1, Len(h) - 1)) = IF 1 <= Len(h) - 1 THEN (Len(h) - 1) - 1 + 1 ELSE 0
    BY <2>1, SubSeqProperties
  <2>3. Len(g) = IF 1 <= Len(h) - 1 THEN (Len(h) - 1) - 1 + 1 ELSE 0
    BY <1>1, <2>2, Zenon
  <2>4. Len(h) \in Nat \ {0}
    BY <1>1, <1>2
  <2>5. \A m \in Nat, n \in Nat \ {0} : m = (IF 1 <= n - 1 THEN (n - 1) - 1 + 1 ELSE 0) => m = n - 1
    OBVIOUS
  <2>6. Len(g) \in Nat
    OBVIOUS
  <2> QED BY <2>3, <2>4, <2>5, <2>6, Zenon
<1>4. Len(g) \in Nat
  OBVIOUS
<1>5. \A m \in Nat, n \in Nat : m = n - 1 => n = m + 1
  OBVIOUS
<1> QED BY <1>1, <1>3, <1>4, <1>5, Zenon

-----------------------------------------------------------------------------
(* The two files. *)

LEMMA FilesTyped ==
  ASSUME SetupInv
  PROVE  /\ journal \in Seq(Pids) /\ anchor \in Seq(Pids)
         /\ Len(anchor) \in Nat /\ Len(anchor) <= LastRevision + 1
BY HistoryTyped DEF SetupInv, TypeOK

\* The journal is never ahead of its anchor, so loadPair answers with the
\* anchor, and accepts the pair as soon as there is an anchor.
LEMMA TipIsAnchor ==
  ASSUME journal \in Seq(Pids), anchor \in Seq(Pids), PairOrdered
  PROVE  Tip = anchor /\ (Loads <=> anchor # Missing) /\ (anchor = Missing => Uninitialized)
<1>1. ~Follows(journal, anchor)
  <2> SUFFICES ASSUME Follows(journal, anchor) PROVE FALSE
    OBVIOUS
  <2>1. Len(journal) = Len(anchor) + 1 /\ anchor # Missing /\ journal # Missing
    BY FollowsLonger
  <2>2. Len(journal) \in Nat /\ Len(anchor) \in Nat
    OBVIOUS
  <2>3. ~Follows(anchor, journal)
    <3> SUFFICES ASSUME Follows(anchor, journal) PROVE FALSE
      OBVIOUS
    <3>1. Len(anchor) = Len(journal) + 1
      BY FollowsLonger
    <3> QED BY <2>1, <2>2, <3>1
  <2>4. journal # anchor
    BY <2>1, <2>2
  <2> QED BY <2>1, <2>3, <2>4 DEF PairOrdered
<1>2. Loads <=> anchor # Missing
  BY DEF Loads, PairOrdered
<1>3. anchor = Missing => Uninitialized
  BY DEF PairOrdered, Uninitialized, Follows
<1> QED BY <1>1, <1>2, <1>3 DEF Tip

-----------------------------------------------------------------------------
(* Processes. *)

Places == {"idle", "open", "busy", "probe", "stamp", "load", "anchor", "tip",
           "release", "handler", "save", "restore"} \cup Ended

LEMMA ProcessMoved ==
  ASSUME SetupInv, NEW p \in Pids, NEW step \in Places, Goto(p, step)
  PROVE  /\ pc' \in [Pids -> Places] /\ pc'[p] = step
         /\ \A q \in Pids : q # p => pc'[q] = pc[q]
BY DEF SetupInv, TypeOK, Places, Goto

\* A process that runs moves on or ends.
LEMMA AliveMoved ==
  ASSUME SetupInv, NEW p \in Pids, NEW step \in Places, Goto(p, step), step # "idle",
         pc[p] \notin Ended \cup {"idle"}
  PROVE  FewAlive'
<1>1. /\ pc'[p] = step /\ \A q \in Pids : q # p => pc'[q] = pc[q]
  BY ProcessMoved
<1>2. p \in Alive /\ \A q \in Alive' : q \in Alive
  BY <1>1 DEF Alive
<1>3. \A a, b, c \in Alive' : a = b \/ a = c \/ b = c
  BY <1>2 DEF SetupInv, FewAlive
<1>4. ASSUME \E q \in Pids : pc'[q] \in Ended, NEW a \in Alive', NEW b \in Alive'
      PROVE  a = b
  <2>1. PICK q \in Pids : pc'[q] \in Ended
    BY <1>4
  <2>2. CASE q # p
    BY <1>1, <1>2, <2>1, <2>2 DEF SetupInv, FewAlive
  <2>3. CASE q = p
    <3>1. a # p /\ b # p
      BY <2>1, <2>3 DEF Alive
    <3> QED BY <1>2, <3>1 DEF SetupInv, FewAlive
  <2> QED BY <2>2, <2>3
<1> QED BY <1>3, <1>4 DEF FewAlive

\* A process starts.
LEMMA AliveStarted ==
  ASSUME SetupInv, Overlap = 1, NEW p \in Pids, NEW step \in {"open", "save"}, pc[p] = "idle", MayStart,
         Goto(p, step)
  PROVE  FewAlive'
<1>1. pc'[p] = step /\ step \notin Ended /\ \A q \in Pids : q # p => pc'[q] = pc[q]
  <2>1. step \in Places /\ step \notin Ended
    BY DEF Places, Ended
  <2> QED BY <2>1, ProcessMoved
<1>2. \A q \in Alive' : q = p \/ q \in Alive
  BY <1>1 DEF Alive
<1>3. IsFiniteSet(Alive) /\ Cardinality(Alive) \in Nat
  <2>1. Alive \subseteq Pids /\ IsFiniteSet(Pids)
    BY SetupAssumption DEF Alive
  <2> QED BY <2>1, FS_Subset, FS_CardinalityType
<1>4. (\E q \in Pids : pc'[q] \in Ended) <=> (\E q \in Pids : pc[q] \in Ended)
  BY <1>1 DEF Ended
<1>5. CASE \E q \in Pids : pc[q] \in Ended
  <2>1. Cardinality(Alive) < 1
    BY <1>5 DEF MayStart
  <2>2. Alive = {}
    BY <1>3, <2>1, FS_EmptySet
  <2> QED BY <1>2, <2>2 DEF FewAlive
<1>6. CASE ~\E q \in Pids : pc[q] \in Ended
  <2>1. Cardinality(Alive) < 2
    BY <1>6 DEF MayStart
  <2>2. ASSUME NEW a \in Alive, NEW b \in Alive, a # b PROVE FALSE
    <3>1. {a, b} \in SUBSET Alive
      OBVIOUS
    <3>2. Cardinality({a, b}) <= Cardinality(Alive)
      BY <1>3, <3>1, FS_Subset
    <3>3. IsFiniteSet({a}) /\ Cardinality({a}) = 1
      BY FS_Singleton
    <3>4. Cardinality({a} \cup {b}) = 2
      <4>1. Cardinality({a} \cup {b}) = IF b \in {a} THEN Cardinality({a}) ELSE Cardinality({a}) + 1
        BY <3>3, FS_AddElement
      <4>2. b \notin {a}
        BY <2>2
      <4> QED BY <3>3, <4>1, <4>2
    <3>5. {a} \cup {b} = {a, b}
      OBVIOUS
    <3> QED BY <1>3, <2>1, <3>2, <3>4, <3>5
  <2> QED BY <1>2, <1>4, <1>6, <2>2 DEF FewAlive
<1> QED BY <1>5, <1>6

\* A process past the lock has the files to itself.
LEMMA HolderAlone ==
  ASSUME SetupInv, NEW p \in Pids, pc[p] \in LockSteps
  PROVE  /\ \A q \in Pids : q # p => pc[q] \notin LockSteps
         /\ lock.by = p /\ pc[p] \notin Ended \cup {"idle"}
BY DEF SetupInv, LockHeld, LockSteps, Ended

\* Work that was done stays done while no process puts a configuration back.
LEMMA DidKept ==
  ASSUME SetupInv, NEW p \in Pids, NEW step \in Places, Goto(p, step), pc[p] # "undone",
         NEW q, NEW k \in Revisions, Did(q, k), q \in ran[k] => q \in ran'[k]
  PROVE  Did(q, k)'
<1>1. \A r \in Pids : r # p => pc'[r] = pc[r]
  BY ProcessMoved
<1>2. CASE q \in ran[k]
  BY <1>2 DEF Did
<1>3. CASE k = Prepared /\ pc[q] = "undone"
  <2>1. q # p
    BY <1>3
  <2>2. pc'[q] = pc[q]
    BY <2>1 DEF SetupInv, TypeOK, Goto
  <2> QED BY <1>3, <2>2 DEF Did
<1> QED BY <1>2, <1>3 DEF Did

LEMMA EntriesKept ==
  ASSUME SetupInv, NEW p \in Pids, NEW step \in Places, Goto(p, step), pc[p] # "undone", anchor' = anchor,
         \A k \in Revisions : /\ ran[k] \subseteq ran'[k]
                             /\ \A q \in ran'[k] : cmd'[q] = "continue" => k <= Len(anchor)
  PROVE  EntriesWorked'
<1> SUFFICES ASSUME NEW k \in Revisions, k < Len(anchor) PROVE Did(anchor[k + 1], k)'
  BY DEF EntriesWorked
<1>1. PICK q : q = anchor[k + 1] /\ Did(q, k)
  BY DEF SetupInv, EntriesWorked
<1>2. Did(q, k)'
  BY <1>1, DidKept
<1> QED BY <1>1, <1>2 DEF Did

\* Once a setup has saved its configuration that stays known.
LEMMA ConfigKept ==
  ASSUME SetupInv, NEW p \in Pids, NEW step \in Places, Goto(p, step), pc[p] # "undone",
         \A q \in Pids : q # p => before'[q] = before[q],
         config' = config \/ config' \in Pids, NeverSaved'
  PROVE  NeverSaved
<1>1. \A q \in Pids : q # p => pc'[q] = pc[q]
  BY ProcessMoved
<1>2. config = "nobody"
  BY SetupAssumption DEF NeverSaved
<1>3. ASSUME NEW q \in Pids, pc[q] = "undone", before[q] = "nobody" PROVE FALSE
  <2>1. q # p
    BY <1>3
  <2> QED BY <1>1, <1>3, <2>1 DEF NeverSaved
<1> QED BY <1>2, <1>3 DEF NeverSaved

\* An error: a setup goes on to its catch block.
LEMMA FailMeans ==
  ASSUME NEW p \in Pids, Fail(p)
  PROVE  \E step \in {"restore", "ended"} : Goto(p, step) /\ (step = "restore" => cmd[p] = "setup")
BY DEF Fail

-----------------------------------------------------------------------------
(* Steps at the lock file. *)

\* What stays when only the lock, the pid read from it and one process move.
LEMMA LockOnly ==
  ASSUME SetupInv, NEW p \in Pids, NEW step \in Places, Goto(p, step),
         pc[p] \notin Ended \cup {"idle"},
         step \notin {"idle", "anchor", "tip", "release", "handler", "save", "undone"},
         step \in Working \cup {"restore"} => pc[p] \in Working, step = "restore" => cmd[p] = "setup",
         LockHeld', lock' \in [by : Pids, stamped : BOOLEAN] \cup {NoLock}, holder' \in [Pids -> Pids],
         UNCHANGED <<files, cmd, op, target, view, known, ran, settings>>
  PROVE  SetupInv'
<1>1. /\ pc' \in [Pids -> Places] /\ pc'[p] = step
      /\ \A q \in Pids : q # p => pc'[q] = pc[q]
  BY ProcessMoved
<1>2. UNCHANGED <<journal, anchor, cmd, op, target, view, known, ran, config, before>>
  BY DEF files, settings
<1>3. TypeOK'
  BY <1>1, <1>2 DEF SetupInv, TypeOK, Places
<1>4. FewAlive'
  BY AliveMoved
<1>5. PairOrdered' /\ AnsweredKept'
  BY <1>2 DEF SetupInv, PairOrdered, Follows, AnsweredKept
<1>6. HolderKnows'
  BY <1>1, <1>2 DEF SetupInv, HolderKnows, KnowsFiles
<1>7. WorkDone'
  <2> SUFFICES ASSUME NEW q \in Pids
               PROVE  /\ pc'[q] = "idle" => pc[q] = "idle"
                      /\ pc'[q] \in Working => pc[q] \in Working
                      /\ pc'[q] = "handler" => pc[q] = "handler"
                      /\ pc'[q] \in {"save", "restore", "undone"} => cmd[q] = "setup"
    BY <1>2 DEF SetupInv, WorkDone, WorkOf
  <2>1. CASE q = p
    BY <1>1, <2>1
  <2>2. CASE q # p
    BY <1>1, <2>2 DEF SetupInv, WorkDone, WorkOf
  <2> QED BY <2>1, <2>2
<1>8. pc[p] # "undone"
  BY DEF Ended
<1>9. EntriesWorked'
  <2>1. \A k \in Revisions : \A q \in ran[k] : cmd[q] = "continue" => k <= Len(anchor)
    BY DEF SetupInv, EntriesWorked
  <2> QED BY <1>2, <1>8, <2>1, EntriesKept
<1>10. ConfigFirst'
  <2> SUFFICES ASSUME NeverSaved'
               PROVE  anchor = Missing /\ \A q \in Pids : cmd[q] = "setup" => pc'[q] \in {"save"} \cup Ended
    BY <1>2 DEF ConfigFirst
  <2>1. NeverSaved
    BY <1>2, <1>8, ConfigKept
  <2>2. anchor = Missing /\ \A q \in Pids : cmd[q] = "setup" => pc[q] \in {"save"} \cup Ended
    BY <2>1 DEF SetupInv, ConfigFirst
  <2>3. ASSUME cmd[p] = "setup" PROVE step \in Ended
    <3>1. pc[p] = "save"
      BY <2>2, <2>3
    <3>2. "save" \notin Working
      BY DEF Working, LockSteps
    <3>3. step \notin Working \cup {"restore"}
      BY <3>1, <3>2
    <3> QED BY <3>3 DEF Places, Working, LockSteps
  <2> QED BY <1>1, <2>2, <2>3
<1> QED BY <1>3, <1>4, <1>5, <1>6, <1>7, <1>9, <1>10 DEF SetupInv

LEMMA LockTyped ==
  ASSUME SetupInv
  PROVE  /\ lock \in [by : Pids, stamped : BOOLEAN] \cup {NoLock} /\ holder \in [Pids -> Pids]
         /\ NoLock \in [by : Pids, stamped : BOOLEAN] \cup {NoLock}
         /\ lock # NoLock => lock.by \in Pids /\ lock.stamped \in BOOLEAN
         /\ lock.stamped => lock.by \in Pids
         /\ NoLock.by \notin Pids
BY SetupAssumption DEF SetupInv, TypeOK, NoLock

LEMMA OpenLockStep == ASSUME SetupInv, NEW p \in Pids, OpenLock(p) PROVE SetupInv'
<1>1. /\ pc[p] = "open" /\ UNCHANGED <<files, cmd, op, holder, target, view, known, ran, settings>>
      /\ \/ lock = NoLock /\ lock' = [by |-> p, stamped |-> FALSE] /\ Goto(p, "stamp")
         \/ lock # NoLock /\ lock' = lock /\ Goto(p, "busy")
  BY DEF OpenLock
<1>2. /\ {"stamp", "busy"} \subseteq Places /\ "busy" \notin LockSteps
      /\ pc[p] \notin Ended \cup {"idle"} /\ pc[p] \in Working /\ pc[p] \notin LockSteps
  BY <1>1 DEF Places, LockSteps, Ended, Working
<1>3. CASE lock = NoLock /\ lock' = [by |-> p, stamped |-> FALSE] /\ Goto(p, "stamp")
  <2>1. lock' \in [by : Pids, stamped : BOOLEAN] /\ lock'.by = p
    BY <1>3
  <2>2. pc'[p] = "stamp" /\ \A q \in Pids : q # p => pc'[q] = pc[q]
    BY <1>2, <1>3, ProcessMoved
  <2>3. \A q \in Pids : pc[q] \notin LockSteps
    BY <1>3, LockTyped DEF SetupInv, LockHeld
  <2>4. LockHeld'
    BY <2>1, <2>2, <2>3 DEF LockHeld
  <2> QED BY <1>1, <1>2, <1>3, <2>1, <2>4, LockTyped, LockOnly
<1>4. CASE lock # NoLock /\ lock' = lock /\ Goto(p, "busy")
  <2>1. pc'[p] = "busy" /\ \A q \in Pids : q # p => pc'[q] = pc[q]
    BY <1>2, <1>4, ProcessMoved
  <2>2. LockHeld'
    BY <1>2, <1>4, <2>1 DEF SetupInv, LockHeld
  <2> QED BY <1>1, <1>2, <1>4, <2>2, LockTyped, LockOnly
<1> QED BY <1>1, <1>3, <1>4

LEMMA ReadLockStep == ASSUME SetupInv, NEW p \in Pids, ReadLock(p) PROVE SetupInv'
<1>1. /\ pc[p] = "busy" /\ UNCHANGED <<files, lock, cmd, op, target, view, known, ran, settings>>
      /\ \/ lock.stamped /\ holder' = [holder EXCEPT ![p] = lock.by] /\ Goto(p, "probe")
         \/ holder' = holder /\ Fail(p)
  BY DEF ReadLock
<1>2. PICK step \in {"probe", "restore", "ended"} :
        /\ Goto(p, step) /\ (step = "restore" => cmd[p] = "setup")
        /\ holder' = holder \/ (lock.stamped /\ holder' = [holder EXCEPT ![p] = lock.by])
  BY <1>1, FailMeans
<1>3. /\ step \in Places /\ step \notin LockSteps
      /\ step \notin {"idle", "anchor", "tip", "release", "handler", "save", "undone"}
      /\ pc[p] \notin Ended \cup {"idle"} /\ pc[p] \in Working
  BY <1>1 DEF Places, LockSteps, Ended, Working
<1>4. LockHeld'
  <2>1. pc'[p] = step /\ \A q \in Pids : q # p => pc'[q] = pc[q]
    BY <1>2, <1>3, ProcessMoved
  <2> QED BY <1>1, <1>3, <2>1 DEF SetupInv, LockHeld
<1>5. holder' \in [Pids -> Pids]
  BY <1>2, LockTyped
<1> QED BY <1>1, <1>2, <1>3, <1>4, <1>5, LockTyped, LockOnly

\* The lock file of a dead process is removed: the process that removes it is
\* the only one running, so it is nobody else's by now.
LEMMA ProbeStep == ASSUME SetupInv, NEW p \in Pids, Probe(p) PROVE SetupInv'
<1>1. /\ pc[p] = "probe" /\ UNCHANGED <<files, cmd, op, holder, target, view, known, ran, settings>>
      /\ \/ pc[holder[p]] \in Ended /\ lock' = NoLock /\ Goto(p, "open")
         \/ lock' = lock /\ Fail(p)
  BY DEF Probe
<1>2. /\ {"open", "restore", "ended"} \subseteq Places
      /\ "open" \notin LockSteps /\ "restore" \notin LockSteps /\ "ended" \notin LockSteps
      /\ "ended" \notin Working /\ pc[p] \notin Ended \cup {"idle"} /\ pc[p] \in Working
      /\ pc[p] \notin LockSteps
  BY <1>1 DEF Places, LockSteps, Ended, Working
<1>3. CASE pc[holder[p]] \in Ended /\ lock' = NoLock /\ Goto(p, "open")
  <2>1. pc'[p] = "open" /\ \A q \in Pids : q # p => pc'[q] = pc[q]
    BY <1>2, <1>3, ProcessMoved
  <2>2. \A q \in Pids : pc[q] \notin LockSteps
    <3> SUFFICES ASSUME NEW q \in Pids, pc[q] \in LockSteps PROVE FALSE
      OBVIOUS
    <3>1. q \in Alive /\ p \in Alive
      BY <1>2, HolderAlone DEF Alive
    <3>2. holder[p] \in Pids
      BY LockTyped
    <3>3. q = p
      BY <1>3, <3>1, <3>2 DEF SetupInv, FewAlive
    <3> QED BY <1>2, <3>3
  <2>3. LockHeld'
    BY <1>2, <2>1, <2>2 DEF LockHeld
  <2> QED BY <1>1, <1>2, <1>3, <2>3, LockTyped, LockOnly
<1>4. CASE lock' = lock /\ Fail(p)
  <2>1. PICK step \in {"restore", "ended"} : Goto(p, step) /\ (step = "restore" => cmd[p] = "setup")
    BY <1>4, FailMeans
  <2>2. pc'[p] = step /\ \A q \in Pids : q # p => pc'[q] = pc[q]
    BY <1>2, <2>1, ProcessMoved
  <2>3. LockHeld'
    BY <1>2, <1>4, <2>2 DEF SetupInv, LockHeld
  <2> QED BY <1>1, <1>2, <1>4, <2>1, <2>3, LockTyped, LockOnly
<1> QED BY <1>1, <1>3, <1>4

LEMMA StampStep == ASSUME SetupInv, NEW p \in Pids, Stamp(p) PROVE SetupInv'
<1>1. /\ pc[p] = "stamp" /\ UNCHANGED <<files, cmd, op, holder, target, view, known, ran, settings>>
      /\ Goto(p, "load") \/ Fail(p)
      /\ lock' = IF lock.by = p THEN [lock EXCEPT !.stamped = TRUE] ELSE lock
  BY DEF Stamp
<1>2. PICK step \in {"load", "restore", "ended"} : Goto(p, step) /\ (step = "restore" => cmd[p] = "setup")
  BY <1>1, FailMeans
<1>3. /\ step \in Places /\ pc[p] \in LockSteps /\ pc[p] \in Working
      /\ step \notin {"idle", "anchor", "tip", "release", "handler", "save", "undone"}
  BY <1>1 DEF Places, LockSteps, Working, Ended
<1>4. lock.by = p /\ pc[p] \notin Ended \cup {"idle"} /\ \A q \in Pids : q # p => pc[q] \notin LockSteps
  BY <1>3, HolderAlone
<1>5. lock \in [by : Pids, stamped : BOOLEAN]
  BY <1>4, LockTyped
<1>6. lock' \in [by : Pids, stamped : BOOLEAN] /\ lock'.by = p
  BY <1>1, <1>4, <1>5
<1>7. LockHeld'
  <2>1. \A q \in Pids : q # p => pc'[q] = pc[q]
    BY <1>2, <1>3, ProcessMoved
  <2> QED BY <1>4, <1>6, <2>1 DEF LockHeld
<1> QED BY <1>1, <1>2, <1>3, <1>4, <1>6, <1>7, LockTyped, LockOnly

\* A process throws, past the lock or on its way to it, or any process is
\* killed: whatever it had written stays.
LEMMA ThrowStep == ASSUME SetupInv, NEW p \in Pids, Throw(p) PROVE SetupInv'
<1>1. /\ \/ pc[p] \in {"load", "anchor", "tip", "release"} /\ lock' = NoLock
         \/ pc[p] \in Working /\ lock' = lock
      /\ Fail(p) /\ UNCHANGED <<files, cmd, op, holder, target, view, known, ran, settings>>
  BY DEF Throw, Working, LockSteps
<1>2. PICK step \in {"restore", "ended"} : Goto(p, step) /\ (step = "restore" => cmd[p] = "setup")
  BY <1>1, FailMeans
<1>3. /\ step \in Places /\ pc[p] \in Working /\ pc[p] \notin Ended \cup {"idle"}
      /\ step \notin LockSteps
      /\ step \notin {"idle", "anchor", "tip", "release", "handler", "save", "undone"}
      /\ pc[p] \in LockSteps \/ lock' = lock
  BY <1>1 DEF Places, LockSteps, Working, Ended
<1>4. pc'[p] = step /\ \A q \in Pids : q # p => pc'[q] = pc[q]
  BY <1>2, <1>3, ProcessMoved
<1>5. LockHeld'
  <2>1. CASE pc[p] \in LockSteps
    BY <1>3, <1>4, <2>1, HolderAlone DEF LockHeld
  <2>2. CASE lock' = lock
    BY <1>3, <1>4, <2>2 DEF SetupInv, LockHeld
  <2> QED BY <1>3, <2>1, <2>2
<1>6. lock' \in [by : Pids, stamped : BOOLEAN] \cup {NoLock}
  BY <1>1, LockTyped
<1> QED BY <1>1, <1>2, <1>3, <1>5, <1>6, LockTyped, LockOnly

LEMMA KillStep == ASSUME SetupInv, NEW p \in Pids, Kill(p) PROVE SetupInv'
<1>1. /\ pc[p] \notin Ended \cup {"idle"} /\ Goto(p, "killed")
      /\ UNCHANGED <<files, lock, cmd, op, holder, target, view, known, ran, settings>>
  BY DEF Kill, Alive
<1>2. "killed" \in Places /\ "killed" \notin LockSteps /\ "killed" \notin Working
  BY DEF Places, LockSteps, Working, Ended
<1>3. pc'[p] = "killed" /\ \A q \in Pids : q # p => pc'[q] = pc[q]
  BY <1>1, <1>2, ProcessMoved
<1>4. LockHeld'
  BY <1>1, <1>2, <1>3 DEF SetupInv, LockHeld
<1> QED BY <1>1, <1>2, <1>4, LockTyped, LockOnly

-----------------------------------------------------------------------------
(* Steps on the files. *)

\* A process past the lock moves on: what has to be shown of its step.
LEMMA FileOnly ==
  ASSUME SetupInv, NEW p \in Pids, NEW step \in {"anchor", "tip", "release"}, pc[p] \in LockSteps,
         Goto(p, step), UNCHANGED <<lock, cmd, op, holder, target, known, ran, settings>>,
         anchor' = anchor \/ anchor # Missing \/ cmd[p] = "setup",
         journal' \in Histories, anchor' \in Histories, view' \in [Pids -> Histories],
         PairOrdered', AnsweredKept', EntriesWorked', KnowsFiles(p)'
  PROVE  SetupInv'
<1>1. /\ step \in Places /\ step # "idle" /\ step \in LockSteps /\ step \in Working
      /\ pc[p] \in Working /\ pc[p] \notin Ended \cup {"idle"}
  BY HolderAlone DEF Places, LockSteps, Working
<1> UNCHANGED <<config, before>>
  BY DEF settings
<1>2. /\ pc' \in [Pids -> Places] /\ pc'[p] = step
      /\ \A q \in Pids : q # p => pc'[q] = pc[q]
  BY <1>1, ProcessMoved
<1>3. TypeOK'
  BY <1>2 DEF SetupInv, TypeOK, Places
<1>4. FewAlive'
  BY <1>1, AliveMoved
<1>5. LockHeld' /\ \A q \in Pids : q # p => pc'[q] \notin LockSteps
  BY <1>1, <1>2, HolderAlone DEF LockHeld
<1>6. HolderKnows'
  <2> SUFFICES ASSUME NEW q \in Pids, q # p PROVE KnowsFiles(q)'
    BY DEF HolderKnows
  <2>1. pc'[q] \notin {"anchor", "tip", "release"}
    BY <1>5 DEF LockSteps
  <2> QED BY <2>1 DEF KnowsFiles
<1>7. WorkDone'
  <2> SUFFICES ASSUME NEW q \in Pids
               PROVE  /\ pc'[q] = "idle" => pc[q] = "idle"
                      /\ pc'[q] \in Working => pc[q] \in Working
                      /\ pc'[q] = "handler" => pc[q] = "handler"
                      /\ pc'[q] \in {"save", "restore", "undone"} => pc'[q] = pc[q]
    BY DEF SetupInv, WorkDone, WorkOf
  <2> QED BY <1>1, <1>2
<1>8. ConfigFirst'
  <2> SUFFICES ASSUME NeverSaved'
               PROVE  anchor' = Missing /\ \A q \in Pids : cmd[q] = "setup" => pc'[q] \in {"save"} \cup Ended
    BY DEF ConfigFirst
  <2>1. pc[p] # "undone" /\ pc[p] # "save"
    BY DEF LockSteps
  <2>2. NeverSaved
    BY <1>1, <2>1, ConfigKept
  <2>3. anchor = Missing /\ \A q \in Pids : cmd[q] = "setup" => pc[q] \in {"save"} \cup Ended
    BY <2>2 DEF SetupInv, ConfigFirst
  <2>4. cmd[p] # "setup"
    BY <1>1, <2>1, <2>3
  <2> QED BY <1>2, <2>3, <2>4
<1> QED BY <1>3, <1>4, <1>5, <1>6, <1>7, <1>8 DEF SetupInv

\* loadPair finishes the write that was cut off: the journal is the anchor.
LEMMA LoadStep == ASSUME SetupInv, NEW p \in Pids, Load(p) PROVE SetupInv'
<1>1. journal \in Seq(Pids) /\ anchor \in Seq(Pids) /\ Len(anchor) \in Nat /\ Len(anchor) <= LastRevision + 1
  BY FilesTyped
<1>2. Tip = anchor /\ (Loads <=> anchor # Missing)
  BY <1>1, TipIsAnchor DEF SetupInv
<1>3. /\ pc[p] = "load" /\ anchor # Missing /\ journal' = anchor /\ anchor' = anchor
      /\ UNCHANGED <<lock, cmd, op, holder, target, known, ran, settings>>
      /\ \/ /\ op[p] = "transition" /\ target[p] = Len(anchor)
            /\ view' = [view EXCEPT ![p] = Append(anchor, p)] /\ Goto(p, "anchor")
         \/ view' = [view EXCEPT ![p] = anchor] /\ Goto(p, "release")
  BY <1>2 DEF Load
<1>4. pc[p] \in LockSteps /\ {"anchor", "release"} \subseteq Places /\ pc[p] \in Working
  BY <1>3 DEF LockSteps, Places, Working
<1>5. journal' \in Histories /\ anchor' \in Histories /\ view \in [Pids -> Histories]
  BY <1>3 DEF SetupInv, TypeOK
<1>6. PairOrdered' /\ AnsweredKept' /\ EntriesWorked'
  <2>1. \A k \in Revisions : \A q \in ran[k] : cmd[q] = "continue" => k <= Len(anchor)
    BY DEF SetupInv, EntriesWorked
  <2>2. PICK step \in Places : Goto(p, step)
    BY <1>3, <1>4
  <2>3. EntriesWorked'
    BY <1>3, <2>1, <2>2, EntriesKept
  <2> QED BY <1>3, <2>3 DEF SetupInv, PairOrdered, AnsweredKept
<1>7. CASE /\ op[p] = "transition" /\ target[p] = Len(anchor)
           /\ view' = [view EXCEPT ![p] = Append(anchor, p)] /\ Goto(p, "anchor")
  <2>1. target[p] <= LastRevision
    BY <1>4, <1>7, SetupAssumption DEF SetupInv, WorkDone, WorkOf, TypeOK, Revisions
  <2>2. Append(anchor, p) \in Seq(Pids) /\ Len(Append(anchor, p)) = Len(anchor) + 1
    BY <1>1, Recorded
  <2>3. Len(anchor) + 1 <= LastRevision + 1
    BY <1>1, <1>7, <2>1, SetupAssumption
  <2>4. Append(anchor, p) \in Histories
    BY <2>2, <2>3, HistoryTyped
  <2>5. view' \in [Pids -> Histories] /\ view'[p] = Append(anchor, p)
    BY <1>5, <1>7, <2>4
  <2>6. pc'[p] = "anchor"
    BY <1>4, <1>7, ProcessMoved
  <2>7. KnowsFiles(p)'
    BY <1>3, <1>7, <2>5, <2>6 DEF KnowsFiles
  <2> QED BY <1>3, <1>4, <1>5, <1>6, <1>7, <2>5, <2>7, FileOnly
<1>8. CASE view' = [view EXCEPT ![p] = anchor] /\ Goto(p, "release")
  <2>1. view' \in [Pids -> Histories] /\ view'[p] = anchor
    BY <1>3, <1>5, <1>8
  <2>2. pc'[p] = "release"
    BY <1>4, <1>8, ProcessMoved
  <2>3. KnowsFiles(p)'
    BY <1>3, <2>1, <2>2 DEF KnowsFiles
  <2> QED BY <1>3, <1>4, <1>5, <1>6, <1>8, <2>1, <2>3, FileOnly
<1> QED BY <1>3, <1>7, <1>8

LEMMA CreateStep == ASSUME SetupInv, NEW p \in Pids, Create(p) PROVE SetupInv'
<1>1. /\ pc[p] = "load" /\ op[p] = "initialize" /\ journal = Missing /\ anchor = Missing
      /\ view' = [view EXCEPT ![p] = <<p>>] /\ Goto(p, "anchor")
      /\ UNCHANGED <<journal, anchor, lock, cmd, op, holder, target, known, ran, settings>>
  BY DEF Create, Uninitialized, files
<1>2. pc[p] \in LockSteps /\ "anchor" \in Places
  BY <1>1 DEF LockSteps, Places
<1>3. <<p>> = Append(<<>>, p)
  OBVIOUS
<1>4. <<p>> \in Histories
  <2>1. <<p>> \in Seq(Pids) /\ Len(<<p>>) = 1
    OBVIOUS
  <2>2. 1 <= LastRevision + 1
    BY SetupAssumption
  <2> QED BY <2>1, <2>2, HistoryTyped
<1>5. journal' \in Histories /\ anchor' \in Histories /\ view' \in [Pids -> Histories] /\ view'[p] = <<p>>
  BY <1>1, <1>4 DEF SetupInv, TypeOK
<1>6. PairOrdered' /\ AnsweredKept' /\ EntriesWorked'
  <2>1. \A k \in Revisions : \A q \in ran[k] : cmd[q] = "continue" => k <= Len(anchor)
    BY DEF SetupInv, EntriesWorked
  <2>2. EntriesWorked'
    BY <1>1, <1>2, <2>1, EntriesKept
  <2> QED BY <1>1, <2>2 DEF SetupInv, PairOrdered, AnsweredKept
<1>7. pc'[p] = "anchor"
  BY <1>1, <1>2, ProcessMoved
<1>8. KnowsFiles(p)'
  BY <1>1, <1>3, <1>5, <1>7 DEF KnowsFiles, Missing
<1> QED BY <1>1, <1>2, <1>5, <1>6, <1>8, FileOnly

\* The anchor gets the entry of p: p did the work of that state.
LEMMA WriteAnchorStep == ASSUME SetupInv, NEW p \in Pids, WriteAnchor(p) PROVE SetupInv'
<1>1. /\ pc[p] = "anchor" /\ anchor' = view[p] /\ Goto(p, "tip")
      /\ UNCHANGED <<journal, lock, cmd, op, holder, target, view, known, ran, settings>>
  BY DEF WriteAnchor
<1>2. pc[p] \in LockSteps /\ "tip" \in Places /\ pc[p] \in Working
  BY <1>1 DEF LockSteps, Places, Working
<1>3. anchor \in Seq(Pids) /\ Len(anchor) \in Nat /\ Len(anchor) <= LastRevision + 1
  BY FilesTyped
<1>4. /\ journal = anchor /\ view[p] = Append(anchor, p)
      /\ \/ op[p] = "initialize" /\ anchor = Missing
         \/ op[p] = "transition" /\ target[p] = Len(anchor) /\ anchor # Missing
  BY <1>1 DEF SetupInv, HolderKnows, KnowsFiles
<1>5. /\ anchor' \in Seq(Pids) /\ anchor' # Missing
      /\ Len(anchor') = Len(anchor) + 1 /\ Front(anchor') = anchor
      /\ anchor'[Len(anchor) + 1] = p
      /\ \A i \in 1 .. Len(anchor) : anchor'[i] = anchor[i]
  BY <1>1, <1>3, <1>4, Recorded
<1>6. journal' \in Histories /\ anchor' \in Histories /\ view' \in [Pids -> Histories]
  BY <1>1 DEF SetupInv, TypeOK
<1>7. PairOrdered'
  BY <1>1, <1>4, <1>5 DEF PairOrdered, Follows
<1>8. AnsweredKept'
  <2> SUFFICES ASSUME NEW q \in Pids, known[q] # Missing PROVE IsPrefix(known[q], anchor')
    BY <1>1, <1>5 DEF AnsweredKept
  <2>1. known[q] \in Seq(Pids)
    BY HistoryTyped DEF SetupInv, TypeOK
  <2>2. IsPrefix(known[q], anchor)
    BY DEF SetupInv, AnsweredKept
  <2>3. Len(known[q]) <= Len(anchor) /\ \A i \in 1 .. Len(known[q]) : known[q][i] = anchor[i]
    BY <1>3, <2>1, <2>2, PrefixMeans
  <2>4. Len(known[q]) \in Nat /\ Len(known[q]) <= Len(anchor') /\ 1 .. Len(known[q]) \subseteq 1 .. Len(anchor)
    BY <1>3, <1>5, <2>1, <2>3
  <2>5. \A i \in 1 .. Len(known[q]) : known[q][i] = anchor'[i]
    BY <1>5, <2>3, <2>4, Zenon
  <2> QED BY <1>5, <2>1, <2>4, <2>5, PrefixMeans
<1>9. EntriesWorked'
  <2> SUFFICES ASSUME NEW k \in Revisions
               PROVE  /\ k < Len(anchor') => Did(anchor[k + 1], k)'
                      /\ \A q \in ran[k] : cmd[q] = "continue" => k <= Len(anchor')
    BY <1>1 DEF EntriesWorked, Did
  <2>1. k \in Nat /\ k >= 1
    BY SetupAssumption DEF Revisions
  <2>2. /\ k < Len(anchor) => Did(anchor[k + 1], k)
        /\ \A q \in ran[k] : cmd[q] = "continue" => k <= Len(anchor)
    BY DEF SetupInv, EntriesWorked
  <2>3. \A q \in ran[k] : cmd[q] = "continue" => k <= Len(anchor')
    BY <1>3, <1>5, <2>1, <2>2
  <2>4. CASE k < Len(anchor)
    <3>1. k + 1 \in 1 .. Len(anchor)
      BY <1>3, <2>1, <2>4
    <3>2. PICK q : q = anchor[k + 1] /\ Did(q, k)
      BY <2>2, <2>4
    <3>3. Did(q, k)'
      BY <1>1, <1>2, <3>2, DidKept
    <3>4. q = anchor'[k + 1]
      BY <1>5, <3>1, <3>2, Zenon
    <3> QED BY <2>3, <3>3, <3>4 DEF Did
  <2>5. CASE k = Len(anchor)
    <3>1. op[p] = "transition" /\ target[p] = k
      BY <1>4, <2>1, <2>5 DEF Missing
    <3>2. p \in ran[k]
      <4>1. cmd[p] \in {"setup", "continue"}
        BY <1>2 DEF SetupInv, WorkDone, WorkOf, TypeOK
      <4>2. CASE cmd[p] = "setup"
        BY <1>2, <3>1, <4>2 DEF SetupInv, WorkDone, WorkOf
      <4>3. CASE cmd[p] = "continue"
        BY <1>2, <3>1, <4>3 DEF SetupInv, WorkDone, WorkOf
      <4> QED BY <4>1, <4>2, <4>3
    <3>3. anchor'[k + 1] = p
      BY <1>5, <2>5
    <3> QED BY <1>1, <2>3, <3>2, <3>3 DEF Did
  <2>6. CASE k > Len(anchor)
    <3>1. ~(k < Len(anchor'))
      BY <1>3, <1>5, <2>1, <2>6
    <3> QED BY <2>3, <3>1, Zenon
  <2> QED BY <1>3, <2>1, <2>4, <2>5, <2>6
<1>10. KnowsFiles(p)'
  <2>1. pc'[p] = "tip"
    BY <1>1, <1>2, ProcessMoved
  <2> QED BY <1>1, <1>5, <2>1 DEF KnowsFiles
<1>11. anchor # Missing \/ cmd[p] = "setup"
  BY <1>2, <1>4 DEF SetupInv, WorkDone, WorkOf, TypeOK
<1> QED BY <1>1, <1>2, <1>6, <1>7, <1>8, <1>9, <1>10, <1>11, FileOnly

LEMMA WriteTipStep == ASSUME SetupInv, NEW p \in Pids, WriteTip(p) PROVE SetupInv'
<1>1. /\ pc[p] = "tip" /\ journal' = view[p] /\ Goto(p, "release")
      /\ UNCHANGED <<anchor, lock, cmd, op, holder, target, view, known, ran, settings>>
  BY DEF WriteTip
<1>2. pc[p] \in LockSteps /\ "release" \in Places
  BY <1>1 DEF LockSteps, Places
<1>3. anchor = view[p] /\ anchor # Missing
  BY <1>1 DEF SetupInv, HolderKnows, KnowsFiles
<1>4. journal' \in Histories /\ anchor' \in Histories /\ view' \in [Pids -> Histories]
  BY <1>1 DEF SetupInv, TypeOK
<1>5. PairOrdered' /\ AnsweredKept' /\ EntriesWorked'
  <2>1. \A k \in Revisions : \A q \in ran[k] : cmd[q] = "continue" => k <= Len(anchor)
    BY DEF SetupInv, EntriesWorked
  <2>2. EntriesWorked'
    BY <1>1, <1>2, <2>1, EntriesKept
  <2> QED BY <1>1, <1>3, <2>2 DEF SetupInv, PairOrdered, AnsweredKept
<1>6. pc'[p] = "release"
  BY <1>1, <1>2, ProcessMoved
<1>7. KnowsFiles(p)'
  BY <1>1, <1>3, <1>6 DEF KnowsFiles
<1> QED BY <1>1, <1>2, <1>4, <1>5, <1>7, FileOnly

-----------------------------------------------------------------------------
(* Steps of the commands. *)

Operations == {"none", "initialize", "read", "preflight", "status", "recheck", "transition", "final"}
Owners == Pids \cup {"nobody"}

\* A process leaves the lock, or works without it: what has to be shown of
\* its step.
LEMMA CommandOnly ==
  ASSUME SetupInv, NEW p \in Pids, NEW step \in {"open", "handler", "save", "restore", "undone", "ended"},
         Goto(p, step), FewAlive',
         lock' = lock \/ pc[p] \in LockSteps, lock' \in [by : Pids, stamped : BOOLEAN] \cup {NoLock},
         UNCHANGED <<files, holder, view>>,
         cmd' \in [Pids -> {"none", "setup", "continue"}],
         op' \in [Pids -> Operations], config' \in Owners, before' \in [Pids -> Owners],
         target' \in [Pids -> 0 .. LastRevision + 1], known' \in [Pids -> Histories],
         ran' \in [Revisions -> SUBSET Pids],
         \A q \in Pids : q # p => /\ cmd'[q] = cmd[q] /\ op'[q] = op[q] /\ target'[q] = target[q]
                                  /\ known'[q] = known[q]
                                  /\ \A k \in Revisions : q \in ran'[k] <=> q \in ran[k],
         AnsweredKept', EntriesWorked', ConfigFirst', WorkOf(p)'
  PROVE  SetupInv'
<1>1. step \in Places /\ step \notin LockSteps
  BY DEF Places, LockSteps, Ended
<1>2. /\ pc' \in [Pids -> Places] /\ pc'[p] = step
      /\ \A q \in Pids : q # p => pc'[q] = pc[q]
  BY <1>1, ProcessMoved
<1>3. journal' = journal /\ anchor' = anchor
  BY DEF files
<1>4. TypeOK'
  BY <1>2, <1>3 DEF SetupInv, TypeOK, Places, Operations, Owners
<1>5. LockHeld'
  <2>1. CASE lock' = lock
    BY <1>1, <1>2, <2>1 DEF SetupInv, LockHeld
  <2>2. CASE pc[p] \in LockSteps
    BY <1>1, <1>2, <2>2, HolderAlone DEF LockHeld
  <2> QED BY <2>1, <2>2
<1>6. PairOrdered'
  BY <1>3 DEF SetupInv, PairOrdered, Follows
<1>7. HolderKnows'
  <2> SUFFICES ASSUME NEW q \in Pids PROVE KnowsFiles(q)'
    BY DEF HolderKnows
  <2>1. CASE q = p
    BY <1>2, <2>1 DEF KnowsFiles
  <2>2. CASE q # p
    <3>1. KnowsFiles(q) /\ op'[q] = op[q] /\ target'[q] = target[q] /\ pc'[q] = pc[q] /\ view' = view
      BY <1>2, <2>2 DEF SetupInv, HolderKnows
    <3> QED BY <1>3, <3>1 DEF KnowsFiles
  <2> QED BY <2>1, <2>2
<1>8. WorkDone'
  <2> SUFFICES ASSUME NEW q \in Pids, q # p PROVE WorkOf(q)'
    BY DEF WorkDone
  <2>1. /\ WorkOf(q) /\ cmd'[q] = cmd[q] /\ op'[q] = op[q] /\ target'[q] = target[q] /\ pc'[q] = pc[q]
        /\ known'[q] = known[q] /\ \A k \in Revisions : q \in ran'[k] <=> q \in ran[k]
    BY <1>2 DEF SetupInv, WorkDone
  <2> QED BY <2>1 DEF WorkOf
<1> QED BY <1>4, <1>5, <1>6, <1>7, <1>8 DEF SetupInv

\* What a step without the journal leaves alone.
LEMMA AnswersKept ==
  ASSUME SetupInv, UNCHANGED <<files, known>>
  PROVE  AnsweredKept' /\ journal' = journal /\ anchor' = anchor
BY DEF SetupInv, AnsweredKept, files

\* Until a configuration is saved no setup leaves the step that saves it.
LEMMA ConfigFirstKept ==
  ASSUME SetupInv, NEW p \in Pids, NEW step \in Places, Goto(p, step), pc[p] # "undone",
         \A q \in Pids : q # p => before'[q] = before[q] /\ cmd'[q] = cmd[q],
         config' = config \/ config' \in Pids, anchor' = anchor,
         cmd'[p] = "setup" => step \in {"save"} \cup Ended \/ config' \in Pids \/ (cmd[p] = "setup" /\ pc[p] \notin {"save"} \cup Ended)
  PROVE  ConfigFirst'
<1> SUFFICES ASSUME NeverSaved'
             PROVE  anchor = Missing /\ \A q \in Pids : cmd'[q] = "setup" => pc'[q] \in {"save"} \cup Ended
  BY DEF ConfigFirst
<1>1. NeverSaved
  BY ConfigKept
<1>2. anchor = Missing /\ \A q \in Pids : cmd[q] = "setup" => pc[q] \in {"save"} \cup Ended
  BY <1>1 DEF SetupInv, ConfigFirst
<1>3. config' \notin Pids
  BY SetupAssumption DEF NeverSaved
<1>4. pc'[p] = step /\ \A q \in Pids : q # p => pc'[q] = pc[q]
  BY ProcessMoved
<1> QED BY <1>2, <1>3, <1>4

\* An invocation of setup starts by reading the configuration.
LEMMA SetupStep == ASSUME SetupInv, Overlap = 1, NEW p \in Pids, Setup(p) PROVE SetupInv'
<1>1. /\ pc[p] = "idle" /\ MayStart /\ Goto(p, "save")
      /\ cmd' = [cmd EXCEPT ![p] = "setup"] /\ before' = [before EXCEPT ![p] = config]
      /\ UNCHANGED <<files, lock, op, holder, target, view, known, ran, config>>
  BY DEF Setup
<1>2. FewAlive'
  BY <1>1, AliveStarted
<1>3. "save" \in Places /\ pc'[p] = "save" /\ "save" \notin Working
  BY <1>1, ProcessMoved DEF Places, Working, LockSteps
<1>4. /\ cmd' \in [Pids -> {"none", "setup", "continue"}] /\ cmd'[p] = "setup"
      /\ op' \in [Pids -> Operations] /\ target' \in [Pids -> 0 .. LastRevision + 1]
      /\ known' \in [Pids -> Histories] /\ ran' \in [Revisions -> SUBSET Pids]
      /\ config' \in Owners /\ before' \in [Pids -> Owners]
      /\ \A q \in Pids : q # p => cmd'[q] = cmd[q] /\ before'[q] = before[q]
  BY <1>1 DEF SetupInv, TypeOK, Operations, Owners
<1>5. AnsweredKept' /\ anchor' = anchor
  BY <1>1, AnswersKept
<1>6. EntriesWorked'
  <2>1. \A k \in Revisions : \A q \in ran[k] : q \in Pids /\ (cmd[q] = "continue" => k <= Len(anchor))
    BY DEF SetupInv, EntriesWorked, TypeOK
  <2>2. \A k \in Revisions : \A q \in ran[k] : cmd'[q] = "continue" => k <= Len(anchor)
    BY <1>4, <2>1
  <2> QED BY <1>1, <1>3, <1>5, <2>2, EntriesKept
<1>7. ConfigFirst'
  BY <1>1, <1>3, <1>4, <1>5, ConfigFirstKept
<1>8. WorkOf(p)'
  BY <1>3, <1>4 DEF WorkOf
<1>9. lock' \in [by : Pids, stamped : BOOLEAN] \cup {NoLock} /\ lock' = lock
  BY <1>1, LockTyped
<1> QED BY <1>1, <1>2, <1>4, <1>5, <1>6, <1>7, <1>8, <1>9, CommandOnly

\* It saves its own: with it the states up to "native_bridge_selected" are
\* worked for, and perhaps the one after it.
LEMMA SaveConfigStep == ASSUME SetupInv, NEW p \in Pids, SaveConfig(p) PROVE SetupInv'
<1>1. PICK step \in {"open", "restore", "ended"}, new \in {"initialize", op[p]}, goal \in {1, target[p]},
           worked \in {0, Prepared, Prepared + 1} :
        /\ pc[p] = "save" /\ Goto(p, step) /\ op' = [op EXCEPT ![p] = new] /\ target' = [target EXCEPT ![p] = goal]
        /\ ran' = [k \in Revisions |-> IF k <= worked THEN ran[k] \cup {p} ELSE ran[k]]
        /\ step = "open" => new = "initialize" /\ goal = 1 /\ worked # 0
        /\ step \in {"open", "restore"} => config' = p
        /\ config' \in {config, p}
        /\ UNCHANGED <<files, lock, cmd, holder, view, known, before>>
  <2>1. op = [op EXCEPT ![p] = op[p]] /\ target = [target EXCEPT ![p] = target[p]] /\ Prepared # 0
    BY SetupAssumption DEF SetupInv, TypeOK
  <2> pc[p] = "save" /\ UNCHANGED <<files, lock, cmd, holder, view, known, before>>
    BY DEF SaveConfig
  <2>2. ran = [k \in Revisions |-> IF k <= 0 THEN ran[k] \cup {p} ELSE ran[k]]
    <3>1. \A k \in Revisions : ~(k <= 0)
      BY SetupAssumption DEF Revisions
    <3>2. ran \in [Revisions -> SUBSET Pids]
      BY DEF SetupInv, TypeOK
    <3> QED BY <3>1, <3>2
  <2>3. CASE /\ config' = p /\ target' = [target EXCEPT ![p] = 1]
             /\ \E last \in {Prepared, Prepared + 1} :
                   ran' = [k \in Revisions |-> IF k <= last THEN ran[k] \cup {p} ELSE ran[k]]
             /\ Operation(p, "initialize") \/ Die(p, "restore")
    <3>1. PICK last \in {Prepared, Prepared + 1} :
             ran' = [k \in Revisions |-> IF k <= last THEN ran[k] \cup {p} ELSE ran[k]]
      BY <2>3
    <3>2. last # 0
      BY SetupAssumption
    <3>3. CASE Operation(p, "initialize")
      <4>1. op' = [op EXCEPT ![p] = "initialize"] /\ Goto(p, "open")
        BY <3>3 DEF Operation
      <4>2. config' = p /\ target' = [target EXCEPT ![p] = 1]
        BY <2>3
      <4> WITNESS "open" \in {"open", "restore", "ended"}, "initialize" \in {"initialize", op[p]},
                  1 \in {1, target[p]}, last \in {0, Prepared, Prepared + 1}
      <4> QED BY <3>1, <3>2, <4>1, <4>2, Zenon
    <3>4. CASE Die(p, "restore")
      <4>1. op' = [op EXCEPT ![p] = op[p]] /\ Goto(p, "restore")
        BY <2>1, <3>4 DEF Die
      <4>2. config' = p /\ target' = [target EXCEPT ![p] = 1]
        BY <2>3
      <4> QED BY <3>1, <3>2, <4>1, <4>2, Zenon
    <3> QED BY <2>3, <3>3, <3>4
  <2>4. CASE config' \in {config, p} /\ target' = target /\ ran' = ran /\ Die(p, "ended")
    <3>1. op' = [op EXCEPT ![p] = op[p]] /\ Goto(p, "ended") /\ target' = [target EXCEPT ![p] = target[p]]
      BY <2>1, <2>4 DEF Die
    <3> QED BY <2>2, <2>4, <3>1, Zenon
  <2> QED BY <2>3, <2>4 DEF SaveConfig
<1>2. /\ step \in Places /\ step # "idle" /\ pc[p] \notin Ended \cup {"idle"} /\ pc[p] # "undone"
      /\ pc[p] \notin LockSteps
  BY <1>1 DEF Places, Ended, LockSteps
<1>3. FewAlive' /\ pc'[p] = step /\ cmd[p] = "setup"
  BY <1>1, <1>2, AliveMoved, ProcessMoved DEF SetupInv, WorkDone, WorkOf
<1>4. /\ cmd' \in [Pids -> {"none", "setup", "continue"}] /\ cmd' = cmd
      /\ op' \in [Pids -> Operations] /\ op'[p] = new
      /\ target' \in [Pids -> 0 .. LastRevision + 1] /\ target'[p] = goal
      /\ known' \in [Pids -> Histories] /\ config' \in Owners /\ before' \in [Pids -> Owners]
      /\ \A q \in Pids : q # p => op'[q] = op[q] /\ target'[q] = target[q]
  BY <1>1, SetupAssumption DEF SetupInv, TypeOK, Operations, Owners
<1>5. /\ ran' \in [Revisions -> SUBSET Pids]
      /\ \A k \in Revisions : ran[k] \subseteq ran'[k] /\ \A q \in ran'[k] : q = p \/ q \in ran[k]
  BY <1>1 DEF SetupInv, TypeOK
<1>6. AnsweredKept' /\ anchor' = anchor
  BY <1>1, AnswersKept
<1>7. EntriesWorked'
  <2>1. \A k \in Revisions : \A q \in ran'[k] : cmd[q] = "continue" => k <= Len(anchor)
    BY <1>3, <1>5 DEF SetupInv, EntriesWorked
  <2> QED BY <1>1, <1>2, <1>4, <1>5, <1>6, <2>1, EntriesKept
<1>8. ConfigFirst'
  <2>1. "ended" \in Ended
    BY DEF Ended
  <2> QED BY <1>1, <1>2, <1>4, <1>6, <2>1, ConfigFirstKept
<1>9. WorkOf(p)'
  <2>1. "restore" \notin Working /\ "ended" \notin Working
    BY DEF Working, LockSteps
  <2>2. step = "open" => goal \in Revisions /\ p \in ran'[goal]
    <3> SUFFICES ASSUME step = "open" PROVE 1 \in Revisions /\ p \in ran'[1]
      BY <1>1
    <3>1. 1 \in Revisions /\ 1 <= worked
      BY <1>1, SetupAssumption DEF Revisions
    <3> QED BY <1>1, <3>1
  <2>3. CASE step = "open"
    BY <1>1, <1>3, <1>4, <2>2, <2>3 DEF WorkOf
  <2>4. CASE step # "open"
    BY <1>1, <1>3, <1>4, <2>1, <2>4 DEF WorkOf
  <2> QED BY <2>3, <2>4
<1>10. lock' \in [by : Pids, stamped : BOOLEAN] \cup {NoLock} /\ lock' = lock
  BY <1>1, LockTyped
<1>11. \A q \in Pids : q # p => \A k \in Revisions : q \in ran'[k] <=> q \in ran[k]
  BY <1>5
<1> QED BY <1>1, <1>3, <1>4, <1>5, <1>6, <1>7, <1>8, <1>9, <1>10, <1>11, CommandOnly

\* The catch block puts a configuration back: the entries the process has
\* recorded stay, and where it leaves no configuration it is the witness.
LEMMA RestoreStep == ASSUME SetupInv, NEW p \in Pids, Restore(p) PROVE SetupInv'
<1>1. PICK step \in {"undone", "ended"} :
        /\ pc[p] = "restore" /\ Goto(p, step)
        /\ \/ step = "undone" /\ config' = before[p] /\ ran' = [ran EXCEPT ![Prepared] = @ \ {p}]
           \/ config' = config /\ ran' = ran
        /\ UNCHANGED <<files, lock, cmd, op, holder, target, view, known, before>>
  BY DEF Restore
<1>2. /\ step \in Places /\ step # "idle" /\ pc[p] \notin Ended \cup {"idle"} /\ pc[p] # "undone"
      /\ step \in Ended /\ step \notin Working
  BY <1>1 DEF Places, Ended, Working, LockSteps
<1>3. /\ FewAlive' /\ pc'[p] = step /\ cmd[p] = "setup"
      /\ \A q \in Pids : q # p => pc'[q] = pc[q]
  BY <1>1, <1>2, AliveMoved, ProcessMoved DEF SetupInv, WorkDone, WorkOf
<1>4. /\ cmd' \in [Pids -> {"none", "setup", "continue"}] /\ cmd' = cmd
      /\ op' \in [Pids -> Operations] /\ target' \in [Pids -> 0 .. LastRevision + 1]
      /\ known' \in [Pids -> Histories] /\ config' \in Owners /\ before' \in [Pids -> Owners]
  BY <1>1 DEF SetupInv, TypeOK, Operations, Owners
<1>5. /\ ran' \in [Revisions -> SUBSET Pids]
      /\ \A k \in Revisions : \A q : q \in ran'[k] => q \in ran[k]
      /\ \A k \in Revisions : \A q : q \in ran[k] => q \in ran'[k] \/ (q = p /\ k = Prepared /\ step = "undone")
  <2>1. ran \in [Revisions -> SUBSET Pids] /\ Prepared \in Revisions
    BY SetupAssumption DEF SetupInv, TypeOK, Revisions
  <2> QED BY <1>1, <2>1
<1>6. AnsweredKept' /\ anchor' = anchor
  BY <1>1, AnswersKept
<1>7. EntriesWorked'
  <2>1. \A k \in Revisions : \A q \in ran'[k] : cmd[q] = "continue" => k <= Len(anchor)
    BY <1>5 DEF SetupInv, EntriesWorked
  <2>2. ASSUME NEW k \in Revisions, k < Len(anchor) PROVE Did(anchor[k + 1], k)'
    <3>1. PICK q : q = anchor[k + 1] /\ Did(q, k)
      BY <2>2 DEF SetupInv, EntriesWorked
    <3>2. CASE q \in ran[k] /\ q \notin ran'[k]
      BY <1>3, <1>5, <1>6, <3>1, <3>2 DEF Did
    <3>3. CASE q \in ran[k] => q \in ran'[k]
      <4>1. Did(q, k)'
        BY <1>1, <1>2, <3>1, <3>3, DidKept
      <4> QED BY <1>6, <3>1, <4>1 DEF Did
    <3> QED BY <3>2, <3>3
  <2> QED BY <1>4, <1>6, <2>1, <2>2 DEF EntriesWorked
<1>8. ConfigFirst'
  <2>1. CASE step = "undone" /\ config' = before[p]
    <3>1. ~NeverSaved'
      BY <1>1, <1>3, <2>1 DEF NeverSaved
    <3> QED BY <3>1 DEF ConfigFirst
  <2>2. CASE config' = config
    BY <1>1, <1>2, <1>4, <1>6, <2>2, ConfigFirstKept
  <2> QED BY <1>1, <2>1, <2>2
<1>9. WorkOf(p)'
  BY <1>1, <1>2, <1>3, <1>4 DEF WorkOf
<1>10. lock' \in [by : Pids, stamped : BOOLEAN] \cup {NoLock} /\ lock' = lock
  BY <1>1, LockTyped
<1>11. \A q \in Pids : q # p => \A k \in Revisions : q \in ran'[k] <=> q \in ran[k]
  BY <1>5
<1> QED BY <1>1, <1>3, <1>4, <1>5, <1>6, <1>7, <1>8, <1>9, <1>10, <1>11, CommandOnly

LEMMA ContinueStep == ASSUME SetupInv, Overlap = 1, NEW p \in Pids, Continue(p) PROVE SetupInv'
<1>1. /\ pc[p] = "idle" /\ MayStart /\ Goto(p, "open")
      /\ cmd' = [cmd EXCEPT ![p] = "continue"] /\ op' = [op EXCEPT ![p] = "read"]
      /\ UNCHANGED <<files, lock, holder, target, view, known, ran, config, before>>
  BY DEF Continue, Operation, settings
<1>2. FewAlive'
  BY <1>1, AliveStarted
<1>3. "open" \in Places /\ pc'[p] = "open" /\ "open" \in Working
  BY <1>1, ProcessMoved DEF Places, Working
<1>4. /\ cmd' \in [Pids -> {"none", "setup", "continue"}] /\ cmd'[p] = "continue"
      /\ op' \in [Pids -> Operations] /\ op'[p] = "read"
      /\ target' \in [Pids -> 0 .. LastRevision + 1]
      /\ known' \in [Pids -> Histories] /\ ran' \in [Revisions -> SUBSET Pids]
      /\ config' \in Owners /\ before' \in [Pids -> Owners]
      /\ \A q \in Pids : q # p => cmd'[q] = cmd[q] /\ op'[q] = op[q]
  BY <1>1 DEF SetupInv, TypeOK, Operations, Owners
<1>5. AnsweredKept' /\ anchor' = anchor
  BY <1>1, AnswersKept
<1>6. EntriesWorked'
  <2>1. \A k \in Revisions : \A q \in ran[k] : q \in Pids /\ q # p /\ (cmd[q] = "continue" => k <= Len(anchor))
    BY <1>1 DEF SetupInv, EntriesWorked, TypeOK, WorkDone, WorkOf
  <2>2. \A k \in Revisions : \A q \in ran[k] : cmd'[q] = "continue" => k <= Len(anchor)
    BY <1>4, <2>1
  <2> QED BY <1>1, <1>3, <1>5, <2>2, EntriesKept
<1>7. ConfigFirst'
  BY <1>1, <1>3, <1>4, <1>5, ConfigFirstKept
<1>8. WorkOf(p)'
  BY <1>3, <1>4 DEF WorkOf
<1>9. lock' \in [by : Pids, stamped : BOOLEAN] \cup {NoLock} /\ lock' = lock
  BY <1>1, LockTyped
<1> QED BY <1>1, <1>2, <1>4, <1>5, <1>6, <1>7, <1>8, <1>9, CommandOnly

\* The handler works on the state the journal answered with, which the anchor
\* still has.
LEMMA HandlerStep == ASSUME SetupInv, NEW p \in Pids, Handler(p) PROVE SetupInv'
<1>1. PICK step \in {"open", "ended"}, new \in {"recheck", op[p]} :
        /\ pc[p] = "handler" /\ Goto(p, step) /\ op' = [op EXCEPT ![p] = new]
        /\ step = "open" => new = "recheck" /\ ran' = [ran EXCEPT ![target[p]] = @ \cup {p}]
        /\ ran' = ran \/ ran' = [ran EXCEPT ![target[p]] = @ \cup {p}]
        /\ UNCHANGED <<files, lock, cmd, holder, target, view, known, config, before>>
  <2>1. op = [op EXCEPT ![p] = op[p]]
    BY DEF SetupInv, TypeOK
  <2> QED BY <2>1 DEF Handler, Operation, Die, settings
<1>2. cmd[p] = "continue" /\ target[p] \in Revisions /\ known[p] # Missing /\ target[p] = Len(known[p])
  <2>1. cmd[p] # "none" /\ cmd[p] # "setup"
    BY <1>1 DEF SetupInv, WorkDone, WorkOf
  <2> QED BY <1>1, <2>1 DEF SetupInv, WorkDone, WorkOf, TypeOK
<1>3. {"open", "ended"} \subseteq Places /\ pc[p] \notin Ended \cup {"idle"} /\ "idle" \notin {"open", "ended"}
  BY <1>1 DEF Places, Ended
<1>4. step \in Places /\ step # "idle" /\ step \in {"open", "handler", "ended"}
  BY <1>3
<1>5. FewAlive' /\ pc'[p] = step
  BY <1>1, <1>3, <1>4, AliveMoved, ProcessMoved
<1>6. /\ op' \in [Pids -> Operations] /\ op'[p] = new
      /\ cmd' \in [Pids -> {"none", "setup", "continue"}] /\ cmd' = cmd
      /\ target' \in [Pids -> 0 .. LastRevision + 1] /\ target' = target
      /\ known' \in [Pids -> Histories] /\ known' = known
      /\ config' \in Owners /\ before' \in [Pids -> Owners]
      /\ \A q \in Pids : q # p => op'[q] = op[q]
  BY <1>1 DEF SetupInv, TypeOK, Operations, Owners
<1>7. /\ ran' \in [Revisions -> SUBSET Pids]
      /\ \A k \in Revisions : ran'[k] = ran[k] \/ (k = target[p] /\ ran'[k] = ran[k] \cup {p})
      /\ step = "open" => p \in ran'[target[p]]
  <2>1. ran \in [Revisions -> SUBSET Pids]
    BY DEF SetupInv, TypeOK
  <2> QED BY <1>1, <1>2, <2>1
<1>8. journal' = journal /\ anchor' = anchor
  BY <1>1, AnswersKept
<1>9. AnsweredKept' /\ ConfigFirst'
  BY <1>1, <1>2, <1>4, <1>6, <1>8, AnswersKept, ConfigFirstKept
<1>10. target[p] <= Len(anchor)
  <2>1. known[p] \in Seq(Pids) /\ anchor \in Seq(Pids)
    BY FilesTyped, HistoryTyped DEF SetupInv, TypeOK
  <2>2. IsPrefix(known[p], anchor)
    BY <1>2 DEF SetupInv, AnsweredKept
  <2> QED BY <1>2, <2>1, <2>2, PrefixMeans
<1>11. EntriesWorked'
  <2>1. \A k \in Revisions : \A q \in ran[k] : cmd[q] = "continue" => k <= Len(anchor)
    BY DEF SetupInv, EntriesWorked
  <2>2. \A k \in Revisions : ran[k] \subseteq ran'[k] /\ \A q \in ran'[k] : cmd[q] = "continue" => k <= Len(anchor)
    BY <1>7, <1>10, <2>1
  <2> QED BY <1>1, <1>4, <1>6, <1>8, <2>2, EntriesKept
<1>12. WorkOf(p)'
  <2>1. "ended" \notin Working
    BY DEF Working, LockSteps
  <2>2. CASE step = "ended"
    BY <1>2, <1>5, <1>6, <2>1, <2>2 DEF WorkOf
  <2>3. CASE step = "open"
    BY <1>1, <1>2, <1>5, <1>6, <1>7, <2>3 DEF WorkOf
  <2> QED BY <2>2, <2>3
<1>13. lock' \in [by : Pids, stamped : BOOLEAN] \cup {NoLock} /\ lock' = lock
  BY <1>1, LockTyped
<1>14. \A q \in Pids : q # p => \A k \in Revisions : q \in ran'[k] <=> q \in ran[k]
  BY <1>7
<1> QED BY <1>1, <1>4, <1>5, <1>6, <1>7, <1>9, <1>11, <1>12, <1>13, <1>14, CommandOnly

\* An operation answered and the lock file is removed.
LEMMA ReleaseStep == ASSUME SetupInv, NEW p \in Pids, Release(p) PROVE SetupInv'
<1>1. /\ pc[p] = "release" /\ lock' = NoLock /\ known' = [known EXCEPT ![p] = view[p]]
      /\ UNCHANGED <<files, cmd, holder, view, ran, config>>
  BY DEF Release
<1>2. pc[p] \in LockSteps /\ pc[p] \in Working /\ pc[p] \notin Ended \cup {"idle"}
  BY <1>1 DEF LockSteps, Working, Ended
<1>3. view[p] = anchor /\ anchor # Missing
  BY <1>1 DEF SetupInv, HolderKnows, KnowsFiles
<1>4. journal' = journal /\ anchor' = anchor /\ anchor \in Seq(Pids) /\ Len(anchor) \in Nat /\ Len(anchor) # 0
      /\ Len(anchor) <= LastRevision + 1
  BY <1>1, <1>3, FilesTyped, EmptySeq DEF files, Missing
<1>5. /\ known' \in [Pids -> Histories] /\ known'[p] = anchor
      /\ cmd' \in [Pids -> {"none", "setup", "continue"}] /\ cmd' = cmd
      /\ ran' \in [Revisions -> SUBSET Pids] /\ ran' = ran
      /\ \A q \in Pids : q # p => known'[q] = known[q]
  BY <1>1, <1>3 DEF SetupInv, TypeOK
<1>6. AnsweredKept'
  <2>1. IsPrefix(anchor, anchor)
    BY <1>4, PrefixMeans
  <2>2. \A q \in Pids : known'[q] = anchor \/ known'[q] = known[q]
    BY <1>5
  <2> QED BY <1>3, <1>4, <2>1, <2>2 DEF SetupInv, AnsweredKept
<1>7. PICK step \in {"open", "handler", "ended"}, new \in Operations, goal \in 0 .. LastRevision + 1,
           saw \in {before[p], config} :
        /\ Goto(p, step) /\ op' = [op EXCEPT ![p] = new] /\ target' = [target EXCEPT ![p] = goal]
        /\ before' = [before EXCEPT ![p] = saw]
        /\ cmd[p] = "setup" =>
             /\ step # "handler"
             /\ step = "open" => new \in {"status", "transition", "final"}
             /\ step = "open" /\ new # "final" => goal \in Revisions /\ p \in ran[goal]
        /\ cmd[p] = "continue" =>
             /\ step = "open" => new \in {"preflight", "status", "transition"}
             /\ step = "open" /\ new = "transition" => goal \in Revisions /\ p \in ran[goal]
             /\ step = "handler" => goal = Len(anchor) /\ goal \in Revisions
  <2>1. op = [op EXCEPT ![p] = op[p]] /\ target = [target EXCEPT ![p] = target[p]]
        /\ before = [before EXCEPT ![p] = before[p]]
    BY DEF SetupInv, TypeOK
  <2>2. /\ op[p] \in Operations /\ {"preflight", "status", "transition", "final"} \subseteq Operations
        /\ target[p] \in 0 .. LastRevision + 1 /\ LastRevision \in Nat
        /\ \A k \in Revisions : k \in 0 .. LastRevision + 1 /\ k + 1 \in 0 .. LastRevision + 1
    BY SetupAssumption DEF SetupInv, TypeOK, Operations, Revisions
  <2>3. CASE cmd[p] = "setup"
    <3>1. /\ op[p] \in {"initialize", "status", "transition", "final"}
          /\ op[p] # "final" => target[p] \in Revisions /\ p \in ran[target[p]]
      BY <1>2, <2>3 DEF SetupInv, WorkDone, WorkOf
    <3>2. AfterSetup(p, anchor) /\ before' = before
      BY <1>3, <2>3 DEF Release, AfterSetup
    <3>3. CASE op[p] = "initialize"
      <4>1. target' = target /\ op' = [op EXCEPT ![p] = "status"] /\ Goto(p, "open")
        BY <3>2, <3>3 DEF AfterSetup, Operation
      <4> QED BY <2>1, <2>2, <2>3, <3>1, <3>2, <3>3, <4>1, Zenon
    <3>4. CASE op[p] = "status" /\ Len(anchor) <= target[p]
      <4>1. target' = target /\ op' = [op EXCEPT ![p] = "transition"] /\ Goto(p, "open")
        <5>1. op[p] \notin {"initialize", "transition", "final"} /\ ~(Len(anchor) > target[p])
          BY <1>4, <2>2, <3>4
        <5> QED BY <3>2, <3>4, <5>1, Zenon DEF AfterSetup, Operation
      <4> QED BY <2>1, <2>2, <2>3, <3>1, <3>2, <3>4, <4>1, Zenon
    <3>5. CASE op[p] = "transition" \/ (op[p] = "status" /\ Len(anchor) > target[p])
      <4>1. target[p] \in Revisions /\ target[p] + 1 \in 0 .. LastRevision + 1
        BY <2>2, <3>1, <3>5
      <4>2. PICK new \in {"status", "final"} :
              /\ target' = [target EXCEPT ![p] = target[p] + 1]
              /\ op' = [op EXCEPT ![p] = new] /\ Goto(p, "open")
              /\ new = "status" => target[p] + 1 \in Revisions /\ p \in ran[target[p] + 1]
        <5>1. ~(op[p] = "status" /\ Len(anchor) <= target[p]) /\ op[p] # "initialize"
          BY <1>4, <3>5, <4>1 DEF Revisions
        <5>2. /\ target' = [target EXCEPT ![p] = target[p] + 1]
              /\ Operation(p, IF target[p] + 1 \in Revisions /\ p \in ran[target[p] + 1] THEN "status" ELSE "final")
          BY <3>2, <3>5, <5>1, Zenon DEF AfterSetup
        <5>3. CASE target[p] + 1 \in Revisions /\ p \in ran[target[p] + 1]
          BY <5>2, <5>3, Zenon DEF Operation
        <5>4. CASE ~(target[p] + 1 \in Revisions /\ p \in ran[target[p] + 1])
          BY <5>2, <5>4, Zenon DEF Operation
        <5> QED BY <5>3, <5>4
      <4>3. new \in Operations /\ new \in {"status", "transition", "final"}
        BY <2>2, <4>2
      <4> QED BY <2>1, <2>3, <3>2, <4>1, <4>2, <4>3, Zenon
    <3>6. CASE op[p] = "final"
      <4>1. target' = target /\ op' = op /\ Goto(p, "ended")
        BY <3>2, <3>6 DEF AfterSetup, Die
      <4> QED BY <2>1, <2>2, <2>3, <3>2, <4>1, Zenon
    <3>7. \/ op[p] \in {"initialize", "transition", "final"}
          \/ op[p] = "status" /\ (Len(anchor) <= target[p] \/ Len(anchor) > target[p])
      BY <1>4, <2>2, <3>1
    <3> QED BY <3>3, <3>4, <3>5, <3>6, <3>7
  <2>4. CASE cmd[p] = "continue"
    <3>1. /\ op[p] \in {"read", "preflight", "status", "recheck", "transition"}
          /\ op[p] \in {"recheck", "transition"} => target[p] \in Revisions /\ p \in ran[target[p]]
      BY <1>2, <2>4 DEF SetupInv, WorkDone, WorkOf
    <3>2. /\ op[p] \in {"read", "preflight"} => Preflight(p)
          /\ op[p] \notin {"read", "preflight"} => Execute(p, anchor)
      BY <1>3, <2>4 DEF Release
    <3>3. CASE op[p] = "status"
      <4>1. /\ target' = [target EXCEPT ![p] = Len(anchor)] /\ op' = op /\ before' = before
            /\ \/ Goto(p, "ended")
               \/ ~(Len(anchor) > LastRevision) /\ Goto(p, "handler")
        BY <3>2, <3>3 DEF Execute
      <4>2. /\ Len(anchor) \in 0 .. LastRevision + 1
            /\ ~(Len(anchor) > LastRevision) => Len(anchor) \in Revisions
        BY <1>4, <2>2 DEF Revisions
      <4> QED BY <2>1, <2>2, <2>4, <4>1, <4>2, Zenon
    <3>4. CASE op[p] = "recheck"
      <4>1. /\ target' = target /\ before' = before
            /\ \/ op' = [op EXCEPT ![p] = "transition"] /\ Goto(p, "open")
               \/ op' = op /\ Goto(p, "ended")
        BY <3>2, <3>4 DEF Execute, Operation, Die
      <4>2. target[p] \in Revisions /\ p \in ran[target[p]]
        BY <3>1, <3>4
      <4> QED BY <2>1, <2>2, <2>4, <4>1, <4>2, Zenon
    <3>5. CASE op[p] = "transition"
      <4>1. target' = target /\ op' = op /\ before' = before /\ Goto(p, "ended")
        BY <3>2, <3>5 DEF Execute, Die
      <4> QED BY <2>1, <2>2, <2>4, <4>1, Zenon
    <3>6. CASE op[p] \in {"read", "preflight"}
      <4>1. /\ target' = target
            /\ before' = before \/ before' = [before EXCEPT ![p] = config]
            /\ \/ op' = [op EXCEPT ![p] = "preflight"] /\ Goto(p, "open")
               \/ op' = [op EXCEPT ![p] = "status"] /\ Goto(p, "open")
               \/ op' = op /\ Goto(p, "ended")
        <5>1. CASE op[p] = "read"
          BY <3>2, <5>1 DEF Preflight, Operation, Die
        <5>2. CASE op[p] = "preflight"
          BY <3>2, <5>2 DEF Preflight, Operation, Die
        <5> QED BY <3>6, <5>1, <5>2
      <4>2. PICK saw \in {before[p], config} : before' = [before EXCEPT ![p] = saw]
        BY <2>1, <4>1, Zenon
      <4>3. PICK step \in {"open", "ended"}, new \in {"preflight", "status", op[p]} :
              /\ op' = [op EXCEPT ![p] = new] /\ Goto(p, step)
              /\ step = "open" => new \in {"preflight", "status"}
        BY <2>1, <4>1, Zenon
      <4>4. new \in Operations /\ new # "transition"
        BY <2>2, <3>6, <4>3
      <4> QED BY <2>1, <2>2, <2>4, <4>1, <4>2, <4>3, <4>4, Zenon
    <3> QED BY <3>1, <3>3, <3>4, <3>5, <3>6
  <2>5. cmd[p] \in {"setup", "continue"}
    BY <1>2 DEF SetupInv, WorkDone, WorkOf, TypeOK
  <2> QED BY <2>3, <2>4, <2>5
<1>8. /\ op' \in [Pids -> Operations] /\ op'[p] = new
      /\ target' \in [Pids -> 0 .. LastRevision + 1] /\ target'[p] = goal
      /\ config' \in Owners /\ before' \in [Pids -> Owners]
      /\ \A q \in Pids : q # p => op'[q] = op[q] /\ target'[q] = target[q] /\ before'[q] = before[q]
  BY <1>1, <1>7 DEF SetupInv, TypeOK, Operations, Owners
<1>9. step \in Places /\ step # "idle" /\ pc[p] # "undone" /\ pc[p] \notin {"save"} \cup Ended
  BY <1>1 DEF Places, Ended
<1>10. FewAlive' /\ pc'[p] = step
  BY <1>2, <1>7, <1>9, AliveMoved, ProcessMoved
<1>11. EntriesWorked' /\ ConfigFirst'
  <2>1. \A k \in Revisions : \A q \in ran[k] : cmd[q] = "continue" => k <= Len(anchor)
    BY DEF SetupInv, EntriesWorked
  <2>2. EntriesWorked'
    BY <1>4, <1>5, <1>7, <1>9, <2>1, EntriesKept
  <2> QED BY <1>1, <1>4, <1>5, <1>7, <1>8, <1>9, <2>2, ConfigFirstKept
<1>12. WorkOf(p)'
  <2>1. "ended" \notin Working /\ "handler" \notin Working
    BY DEF Working, LockSteps
  <2>2. cmd[p] # "none"
    BY <1>2 DEF SetupInv, WorkDone, WorkOf
  <2>3. CASE step = "ended"
    BY <1>5, <1>8, <1>10, <2>1, <2>2, <2>3 DEF WorkOf
  <2>4. CASE step = "handler"
    BY <1>3, <1>5, <1>7, <1>8, <1>10, <2>1, <2>2, <2>4 DEF WorkOf
  <2>5. CASE step = "open"
    BY <1>5, <1>7, <1>8, <1>10, <2>2, <2>5 DEF WorkOf
  <2> QED BY <2>3, <2>4, <2>5
<1>13. lock' \in [by : Pids, stamped : BOOLEAN] \cup {NoLock}
  BY <1>1
<1> QED BY <1>1, <1>2, <1>5, <1>6, <1>7, <1>8, <1>10, <1>11, <1>12, <1>13, CommandOnly

-----------------------------------------------------------------------------
(* The theorems. *)

LEMMA SetupStarts == Init => SetupInv
<1> SUFFICES ASSUME Init PROVE SetupInv
  OBVIOUS
<1>1. Missing \in Histories
  <2>1. <<>> \in Seq(Pids) /\ Len(<<>>) = 0 /\ 0 <= LastRevision + 1
    BY SetupAssumption
  <2> QED BY <2>1, HistoryTyped DEF Missing
<1>2. \A p \in Pids : pc[p] = "idle" /\ cmd[p] = "none" /\ known[p] = Missing
  BY DEF Init
<1>3. TypeOK
  BY <1>1, SetupAssumption DEF Init, TypeOK, Ended
<1>4. FewAlive
  BY <1>2 DEF FewAlive, Alive, Ended
<1>5. LockHeld /\ HolderKnows
  BY <1>2 DEF LockHeld, LockSteps, HolderKnows, KnowsFiles
<1>6. PairOrdered /\ AnsweredKept
  BY <1>2 DEF Init, PairOrdered, AnsweredKept
<1>7. \A k \in Revisions : ran[k] = {}
  BY DEF Init
<1>8. WorkDone
  BY <1>2, <1>7 DEF WorkDone, WorkOf, Working, LockSteps
<1>9. EntriesWorked
  <2>1. Len(anchor) = 0
    BY DEF Init, Missing
  <2>2. \A k \in Revisions : k \in Nat /\ ~(k < 0)
    BY SetupAssumption DEF Revisions
  <2> QED BY <1>7, <2>1, <2>2 DEF EntriesWorked
<1>10. ConfigFirst
  BY <1>2 DEF Init, ConfigFirst
<1> QED BY <1>3, <1>4, <1>5, <1>6, <1>8, <1>9, <1>10 DEF SetupInv

LEMMA SetupKept == ASSUME SetupInv, Overlap = 1, [Next]_vars PROVE SetupInv'
<1>1. ASSUME NEW p \in Pids, LockStep(p) PROVE SetupInv'
  BY <1>1, OpenLockStep, ReadLockStep, ProbeStep, StampStep, ReleaseStep, ThrowStep DEF LockStep
<1>2. ASSUME NEW p \in Pids, FileStep(p) PROVE SetupInv'
  BY <1>2, LoadStep, CreateStep, WriteAnchorStep, WriteTipStep DEF FileStep
<1>3. ASSUME NEW p \in Pids, CommandStep(p) PROVE SetupInv'
  BY <1>3, SetupStep, SaveConfigStep, RestoreStep, ContinueStep, HandlerStep, KillStep DEF CommandStep
<1>4. CASE UNCHANGED vars
  <2>1. UNCHANGED <<journal, anchor, lock, cmd, op, pc, holder, target, view, known, ran, config, before>>
    BY <1>4 DEF vars
  <2>2. TypeOK'
    BY <2>1 DEF SetupInv, TypeOK
  <2>3. FewAlive' /\ LockHeld'
    BY <2>1 DEF SetupInv, FewAlive, LockHeld, Alive
  <2>4. PairOrdered' /\ AnsweredKept' /\ EntriesWorked'
    BY <2>1 DEF SetupInv, PairOrdered, Follows, AnsweredKept, EntriesWorked, Did
  <2>5. HolderKnows'
    BY <2>1 DEF SetupInv, HolderKnows, KnowsFiles
  <2>6. WorkDone'
    BY <2>1 DEF SetupInv, WorkDone, WorkOf
  <2>7. ConfigFirst'
    BY <2>1 DEF SetupInv, ConfigFirst, NeverSaved
  <2> QED BY <2>2, <2>3, <2>4, <2>5, <2>6, <2>7 DEF SetupInv
<1> QED BY <1>1, <1>2, <1>3, <1>4 DEF Next

(* The lock, the two files and the answers of the journal stay related by  *)
(* SetupInv through every operation, failure and kill of runLocked,        *)
(* loadPair, write and the orchestrator, when a command that may meet the  *)
(* lock file of a dead one runs alone.                                     *)
THEOREM SetupInvariance == ASSUME Overlap = 1 PROVE Spec => []SetupInv
<1>1. SetupInv /\ [Next]_vars => SetupInv'
  BY SetupKept
<1> QED BY <1>1, SetupStarts, PTL DEF Spec

(* Every variable keeps its type; in particular no journal is longer than  *)
(* the setup has states.                                                   *)
THEOREM SetupTyping == ASSUME Overlap = 1 PROVE Spec => []TypeOK
<1>1. SetupInv => TypeOK
  BY DEF SetupInv
<1>2. Spec => []SetupInv
  BY SetupInvariance
<1> QED BY <1>1, <1>2, PTL

(* Wherever a command is cut off, loadPair accepts the two files that are  *)
(* left, or finds neither.                                                 *)
THEOREM SetupRecoverable == ASSUME Overlap = 1 PROVE Spec => []Recoverable
<1>1. SetupInv => Recoverable
  <2> SUFFICES ASSUME SetupInv PROVE Recoverable
    OBVIOUS
  <2>1. (Loads <=> anchor # Missing) /\ (anchor = Missing => Uninitialized)
    BY FilesTyped, TipIsAnchor DEF SetupInv
  <2> QED BY <2>1 DEF Recoverable
<1>2. Spec => []SetupInv
  BY SetupInvariance
<1> QED BY <1>1, <1>2, PTL

(* A history that status, initialize or transition has answered with is a  *)
(* prefix of the one every later load returns.                             *)
THEOREM SetupNothingRolledBack == ASSUME Overlap = 1 PROVE Spec => []NothingRolledBack
<1>1. SetupInv => NothingRolledBack
  <2> SUFFICES ASSUME SetupInv PROVE NothingRolledBack
    OBVIOUS
  <2>1. Tip = anchor /\ (Loads <=> anchor # Missing)
    BY FilesTyped, TipIsAnchor DEF SetupInv
  <2> QED BY <2>1 DEF SetupInv, AnsweredKept, NothingRolledBack
<1>2. Spec => []SetupInv
  BY SetupInvariance
<1> QED BY <1>1, <1>2, PTL

(* A state is recorded only by a process that did its work, of which only  *)
(* the configuration is ever undone; a handler of `setup continue`         *)
(* works on a state only when the one before it is recorded; and a journal *)
(* is without a setup's configuration only if the catch block of a setup   *)
(* that had found none ran (bin/agentpass.mjs:439-442).                    *)
THEOREM SetupStepsInOrder == ASSUME Overlap = 1 PROVE Spec => []StepsInOrder
<1>1. SetupInv => StepsInOrder
  <2> SUFFICES ASSUME SetupInv PROVE StepsInOrder
    OBVIOUS
  <2>1. Tip = anchor
    BY FilesTyped, TipIsAnchor DEF SetupInv
  <2>2. ~Uninitialized => anchor # Missing
    BY FilesTyped, TipIsAnchor DEF SetupInv
  <2>3. \A k \in Revisions : /\ k < Len(Tip) => Did(Tip[k + 1], k)
                            /\ \A p \in ran[k] : cmd[p] = "continue" => k <= Len(Tip)
    BY <2>1 DEF SetupInv, EntriesWorked
  <2>4. ASSUME ~Uninitialized, config = "nobody"
        PROVE  \E p \in Pids : pc[p] = "undone" /\ before[p] = "nobody"
    BY <2>2, <2>4 DEF SetupInv, ConfigFirst, NeverSaved
  <2> QED BY <2>3, <2>4 DEF StepsInOrder
<1>2. Spec => []SetupInv
  BY SetupInvariance
<1> QED BY <1>1, <1>2, PTL

=============================================================================
