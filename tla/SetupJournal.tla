---------------------------- MODULE SetupJournal ----------------------------
(***************************************************************************)
(* The local setup protocol of the agentpass command: a journal of setup   *)
(* states (setup-journal.mjs) kept in two files under a lock file, and the *)
(* orchestrator (setup-orchestrator.mjs) that runs the handler of the next *)
(* state and records it.  `agentpass setup` writes the configuration too,  *)
(* outside the lock, and puts the one it had read back when it fails.      *)
(* Every invocation of the command is a process; it can be killed between  *)
(* any two file operations, and each file operation can fail.              *)
(*                                                                         *)
(* A journal is its history.  An entry is the process that recorded it:    *)
(* entries of different processes differ in time or evidence.  The hash of *)
(* a journal stands for its history, so its previous hash is the history   *)
(* without the last entry, and an anchor, which holds a tip and the tip    *)
(* before it, is the history of its tip.  A configuration is the setup     *)
(* that wrote it: it names the application and project of that setup.      *)
(***************************************************************************)
EXTENDS Naturals, Sequences, FiniteSets, SequencesExt

CONSTANTS
    Pids,           \* invocations of the command
    LastRevision,   \* revision of the state "complete"
    Prepared,       \* revision of "native_bridge_selected", whose work is the configuration
    Overlap         \* invocations at a time, once one has ended

ASSUME SetupAssumption ==
    /\ IsFiniteSet(Pids) /\ "nobody" \notin Pids
    /\ LastRevision \in Nat \ {0}
    /\ Prepared \in 1 .. LastRevision - 1
    /\ Overlap \in Nat \ {0}

VARIABLES
    journal,    \* setup-journal.json
    anchor,     \* setup-journal.anchor.json
    lock,       \* setup-journal.json.lock: who created it, and whether its pid is in it
    cmd,        \* the command of a process
    op,         \* its current operation on the journal
    pc,         \* where it is in that operation
    holder,     \* the pid it read from the lock file of another process
    target,     \* revision it wants to record
    view,       \* the history it works on while it has the lock
    known,      \* the last history the journal answered it with
    ran,        \* for each revision the processes that did its work and did not undo it
    config,     \* config.json: the setup whose native bridge is selected in it
    before      \* the configuration a process read when it started

files == <<journal, anchor>>
settings == <<config, before>>
vars == <<journal, anchor, lock, cmd, op, pc, holder, target, view, known, ran, config, before>>

Missing == <<>>
NoLock == [by |-> "nobody", stamped |-> FALSE]
Revisions == 1 .. LastRevision
Histories == BoundedSeq(Pids, LastRevision + 1)
Ended == {"ended", "undone", "killed"}
Alive == {p \in Pids : pc[p] \notin Ended \cup {"idle"}}

Init ==
    /\ journal = Missing
    /\ anchor = Missing
    /\ lock = NoLock
    /\ cmd = [p \in Pids |-> "none"]
    /\ op = [p \in Pids |-> "none"]
    /\ pc = [p \in Pids |-> "idle"]
    /\ holder = [p \in Pids |-> p]
    /\ target = [p \in Pids |-> 0]
    /\ view = [p \in Pids |-> Missing]
    /\ known = [p \in Pids |-> Missing]
    /\ ran = [k \in Revisions |-> {}]
    /\ config = "nobody"
    /\ before = [p \in Pids |-> "nobody"]

-----------------------------------------------------------------------------
(* loadPair *)

\* h was written as the successor of g.
Follows(h, g) == g # Missing /\ h # Missing /\ Front(h) = g

Uninitialized == journal = Missing /\ anchor = Missing

\* The pairs loadPair accepts, and the journal it answers with.
Loads ==
    /\ anchor # Missing
    /\ \/ journal \in {Missing, anchor}
       \/ Follows(anchor, journal)
       \/ Follows(journal, anchor)

Tip == IF Follows(journal, anchor) THEN journal ELSE anchor

-----------------------------------------------------------------------------
(* Where a process goes *)

Goto(p, step) == pc' = [pc EXCEPT ![p] = step]

Operation(p, o) == op' = [op EXCEPT ![p] = o] /\ Goto(p, "open")

Die(p, how) == Goto(p, how) /\ UNCHANGED op

\* An error ends the command; a setup that has saved its configuration goes
\* through the catch block first.
Fail(p) == Goto(p, IF cmd[p] = "setup" THEN "restore" ELSE "ended")

\* An operation of p that answered h: the next operation of the command.
\* Each state is recorded unless the journal has it, the service_registered
\* state only if the service was found enabled; a last status ends the setup.
AfterSetup(p, h) ==
    /\ UNCHANGED before
    /\ CASE op[p] = "initialize" -> UNCHANGED target /\ Operation(p, "status")
         [] op[p] = "status" /\ Len(h) <= target[p] -> UNCHANGED target /\ Operation(p, "transition")
         [] op[p] = "transition" \/ (op[p] = "status" /\ Len(h) > target[p]) ->
              LET next == target[p] + 1
              IN  /\ target' = [target EXCEPT ![p] = next]
                  /\ Operation(p, IF next \in Revisions /\ p \in ran[next] THEN "status" ELSE "final")
         [] op[p] = "final" -> UNCHANGED target /\ Die(p, "ended")

\* A continue reads the configuration once it has the journal, and looks at
\* the journal again any number of times before it executes; it may refuse
\* to go on each time, and does without a configuration.
Preflight(p) ==
    /\ UNCHANGED target
    /\ IF op[p] = "read"
       THEN /\ before' = [before EXCEPT ![p] = config]
            /\ Operation(p, "preflight") \/ Die(p, "ended")
       ELSE /\ UNCHANGED before
            /\ \/ Operation(p, "preflight")
               \/ before[p] # "nobody" /\ Operation(p, "status")
               \/ Die(p, "ended")

\* The orchestrator runs the handler of the state after h, and records that
\* state if the journal is where it was.
Execute(p, h) ==
    /\ UNCHANGED before
    /\ CASE op[p] = "status" ->
              /\ target' = [target EXCEPT ![p] = Len(h)]
              /\ UNCHANGED op
              /\ Goto(p, IF Len(h) > LastRevision THEN "ended" ELSE "handler")
         [] op[p] = "recheck" ->
              /\ UNCHANGED target
              /\ IF Len(h) = Len(known[p]) THEN Operation(p, "transition") ELSE Die(p, "ended")
         [] op[p] = "transition" -> UNCHANGED target /\ Die(p, "ended")

-----------------------------------------------------------------------------
(* acquireLock and runLocked *)

OpenLock(p) ==
    /\ pc[p] = "open"
    /\ IF lock = NoLock
       THEN lock' = [by |-> p, stamped |-> FALSE] /\ Goto(p, "stamp")
       ELSE UNCHANGED lock /\ Goto(p, "busy")
    /\ UNCHANGED <<files, cmd, op, holder, target, view, known, ran, settings>>

\* A lock file that is gone or has no pid in it yet is reported as busy.
ReadLock(p) ==
    /\ pc[p] = "busy"
    /\ IF lock.stamped
       THEN holder' = [holder EXCEPT ![p] = lock.by] /\ Goto(p, "probe")
       ELSE UNCHANGED holder /\ Fail(p)
    /\ UNCHANGED <<files, lock, cmd, op, target, view, known, ran, settings>>

\* Mutant: takes the lock of a live process.
Probe_AnyPid(p) ==
    /\ pc[p] = "probe"
    /\ IF lock # NoLock
       THEN lock' = NoLock /\ Goto(p, "open")
       ELSE UNCHANGED lock /\ Fail(p)
    /\ UNCHANGED <<files, cmd, op, holder, target, view, known, ran, settings>>

\* pidIsAlive, and the removal of whatever lock file is there by then.
Probe(p) ==
    /\ pc[p] = "probe"
    /\ IF pc[holder[p]] \in Ended /\ lock # NoLock
       THEN lock' = NoLock /\ Goto(p, "open")
       ELSE UNCHANGED lock /\ Fail(p)
    /\ UNCHANGED <<files, cmd, op, holder, target, view, known, ran, settings>>

\* The pid is written to the file p created, if that is still the lock file;
\* the file stays when making it durable fails.
Stamp(p) ==
    /\ pc[p] = "stamp"
    /\ lock' = IF lock.by = p THEN [lock EXCEPT !.stamped = TRUE] ELSE lock
    /\ Goto(p, "load") \/ Fail(p)
    /\ UNCHANGED <<files, cmd, op, holder, target, view, known, ran, settings>>

\* The finally block unlinks the lock file, whoever created it; the
\* operation answered with the history it worked on.
Release(p) ==
    /\ pc[p] = "release"
    /\ lock' = NoLock
    /\ known' = [known EXCEPT ![p] = view[p]]
    /\ \/ cmd[p] = "setup" /\ AfterSetup(p, view[p])
       \/ cmd[p] = "continue" /\ op[p] \in {"read", "preflight"} /\ Preflight(p)
       \/ cmd[p] = "continue" /\ op[p] \notin {"read", "preflight"} /\ Execute(p, view[p])
    /\ UNCHANGED <<files, cmd, holder, view, ran, config>>

\* It threw instead, and the finally block removed the lock; or acquireLock
\* or that removal threw, and the lock file is as it was.
Throw(p) ==
    /\ \/ pc[p] \in {"load", "anchor", "tip", "release"} /\ lock' = NoLock
       \/ pc[p] \in {"open", "busy", "probe", "stamp", "load", "anchor", "tip", "release"} /\ UNCHANGED lock
    /\ Fail(p)
    /\ UNCHANGED <<files, cmd, op, holder, target, view, known, ran, settings>>

-----------------------------------------------------------------------------
(* The operations under the lock *)

\* Mutant: advances by one whatever state was asked for.
Load_AnyTarget(p) ==
    /\ pc[p] = "load"
    /\ Loads
    /\ journal' = Tip
    /\ anchor' = Tip
    /\ IF op[p] = "transition" /\ Len(Tip) <= LastRevision
       THEN view' = [view EXCEPT ![p] = Append(Tip, p)] /\ Goto(p, "anchor")
       ELSE view' = [view EXCEPT ![p] = Tip] /\ Goto(p, "release")
    /\ UNCHANGED <<lock, cmd, op, holder, target, known, ran, settings>>

\* loadPair, which finishes a write that was cut off, and what the operation
\* does with the journal it returns.
Load(p) ==
    /\ pc[p] = "load"
    /\ Loads
    /\ journal' = Tip
    /\ anchor' = Tip
    /\ IF op[p] = "transition" /\ target[p] = Len(Tip)
       THEN view' = [view EXCEPT ![p] = Append(Tip, p)] /\ Goto(p, "anchor")
       ELSE /\ op[p] = "transition" => target[p] = Len(Tip) - 1
            /\ view' = [view EXCEPT ![p] = Tip]
            /\ Goto(p, "release")
    /\ UNCHANGED <<lock, cmd, op, holder, target, known, ran, settings>>

\* initialize() where nothing is on disk.
Create(p) ==
    /\ pc[p] = "load"
    /\ op[p] = "initialize"
    /\ Uninitialized
    /\ view' = [view EXCEPT ![p] = <<p>>]
    /\ Goto(p, "anchor")
    /\ UNCHANGED <<files, lock, cmd, op, holder, target, known, ran, settings>>

\* Mutant: the journal is written before its anchor.
WriteAnchor_JournalFirst(p) ==
    /\ pc[p] = "anchor"
    /\ journal' = view[p]
    /\ Goto(p, "tip")
    /\ UNCHANGED <<anchor, lock, cmd, op, holder, target, view, known, ran, settings>>

\* The anchor first, the journal second.
WriteAnchor(p) ==
    /\ pc[p] = "anchor"
    /\ anchor' = view[p]
    /\ Goto(p, "tip")
    /\ UNCHANGED <<journal, lock, cmd, op, holder, target, view, known, ran, settings>>

WriteTip(p) ==
    /\ pc[p] = "tip"
    /\ journal' = view[p]
    /\ anchor' = anchor
    /\ Goto(p, "release")
    /\ UNCHANGED <<lock, cmd, op, holder, target, view, known, ran, settings>>

-----------------------------------------------------------------------------
(* The commands *)

\* Two invocations may overlap from the start; once a process is gone, and
\* its lock file may be met, at most Overlap run at a time.
MayStart ==
    Cardinality(Alive) < IF \E p \in Pids : pc[p] \in Ended THEN Overlap ELSE 2

\* `agentpass setup --execute` has verified the application and reads the
\* configuration.
Setup(p) ==
    /\ pc[p] = "idle"
    /\ MayStart
    /\ cmd' = [cmd EXCEPT ![p] = "setup"]
    /\ before' = [before EXCEPT ![p] = config]
    /\ Goto(p, "save")
    /\ UNCHANGED <<files, lock, op, holder, target, view, known, ran, config>>

\* The application was verified and the service found enabled or not; the
\* native bridge is selected by saving the configuration, and the project
\* connected before the journal is opened.  An error of that save itself is
\* not caught.
SaveConfig(p) ==
    /\ pc[p] = "save"
    /\ \/ /\ config' = p
          /\ target' = [target EXCEPT ![p] = 1]
          /\ \E last \in {Prepared, Prepared + 1} :
                ran' = [k \in Revisions |-> IF k <= last THEN ran[k] \cup {p} ELSE ran[k]]
          /\ Operation(p, "initialize") \/ Die(p, "restore")
       \/ /\ config' \in {config, p}
          /\ UNCHANGED <<target, ran>>
          /\ Die(p, "ended")
    /\ UNCHANGED <<files, lock, cmd, holder, view, known, before>>

\* The catch block writes back the configuration read at the start, whatever
\* is there by now, unless that write fails as well.
Restore(p) ==
    /\ pc[p] = "restore"
    /\ \/ /\ config' = before[p]
          /\ ran' = [ran EXCEPT ![Prepared] = @ \ {p}]
          /\ Goto(p, "undone")
       \/ UNCHANGED <<config, ran>> /\ Goto(p, "ended")
    /\ UNCHANGED <<files, lock, cmd, op, holder, target, view, known, before>>

\* `agentpass setup continue`.
Continue(p) ==
    /\ pc[p] = "idle"
    /\ MayStart
    /\ cmd' = [cmd EXCEPT ![p] = "continue"]
    /\ Operation(p, "read")
    /\ UNCHANGED <<files, lock, holder, target, view, known, ran, settings>>

\* The handler of the next state works outside the lock and returns its
\* evidence, or fails before or after its work is done.
Handler(p) ==
    /\ pc[p] = "handler"
    /\ \/ ran' = [ran EXCEPT ![target[p]] = @ \cup {p}] /\ Operation(p, "recheck")
       \/ ran' = [ran EXCEPT ![target[p]] = @ \cup {p}] /\ Die(p, "ended")
       \/ UNCHANGED ran /\ Die(p, "ended")
    /\ UNCHANGED <<files, lock, cmd, holder, target, view, known, settings>>

Kill(p) ==
    /\ p \in Alive
    /\ Goto(p, "killed")
    /\ UNCHANGED <<files, lock, cmd, op, holder, target, view, known, ran, settings>>

LockStep(p) == OpenLock(p) \/ ReadLock(p) \/ Probe(p) \/ Stamp(p) \/ Release(p) \/ Throw(p)
FileStep(p) == Load(p) \/ Create(p) \/ WriteAnchor(p) \/ WriteTip(p)
CommandStep(p) ==
    Setup(p) \/ SaveConfig(p) \/ Restore(p) \/ Continue(p) \/ Handler(p) \/ Kill(p)

Next == \E p \in Pids : LockStep(p) \/ FileStep(p) \/ CommandStep(p)

Spec == Init /\ [][Next]_vars

-----------------------------------------------------------------------------
(* What can be relied on *)

TypeOK ==
    /\ journal \in Histories
    /\ anchor \in Histories
    /\ lock \in [by : Pids, stamped : BOOLEAN] \cup {NoLock}
    /\ cmd \in [Pids -> {"none", "setup", "continue"}]
    /\ op \in [Pids -> {"none", "initialize", "read", "preflight", "status", "recheck",
                        "transition", "final"}]
    /\ pc \in [Pids -> {"idle", "open", "busy", "probe", "stamp", "load", "anchor", "tip",
                        "release", "handler", "save", "restore"} \cup Ended]
    /\ holder \in [Pids -> Pids]
    /\ target \in [Pids -> 0 .. LastRevision + 1]
    /\ view \in [Pids -> Histories]
    /\ known \in [Pids -> Histories]
    /\ ran \in [Revisions -> SUBSET Pids]
    /\ config \in Pids \cup {"nobody"}
    /\ before \in [Pids -> Pids \cup {"nobody"}]

(* Whatever operation was cut off or failed, the two files are a pair that *)
(* loadPair accepts: the comment in initialize() says that either side of  *)
(* a crash is recoverable.                                                 *)
Recoverable == Uninitialized \/ Loads

(* What the journal has answered a process with stays true: no state that  *)
(* status() reported and no transition that was acknowledged is ever       *)
(* missing from the journal the next load returns.                         *)
NothingRolledBack == \A p \in Pids : known[p] # Missing => Loads /\ IsPrefix(known[p], Tip)

\* p did the work of revision k; a setup may have put the configuration back
\* since, which undoes the selection of the native bridge.
Did(p, k) == p \in ran[k] \/ (k = Prepared /\ pc[p] = "undone")

(* The journal records a state only for a process that did its work, and   *)
(* the work of a state starts only when the state before it is recorded,   *)
(* although the handler runs between two acquisitions of the lock and      *)
(* another process may have moved the journal meanwhile.  The journal and  *)
(* the configuration come apart in one way only: where there is a journal  *)
(* and no setup's configuration, a setup that had found none has failed    *)
(* and put that back, over its own or over that of another setup.          *)
StepsInOrder ==
    /\ \A k \in Revisions :
          /\ k < Len(Tip) => Did(Tip[k + 1], k)
          /\ \A p \in ran[k] : cmd[p] = "continue" => k <= Len(Tip)
    /\ ~Uninitialized /\ config = "nobody" =>
          \E p \in Pids : pc[p] = "undone" /\ before[p] = "nobody"

=============================================================================
