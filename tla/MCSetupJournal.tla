--------------------------- MODULE MCSetupJournal ---------------------------
EXTENDS SetupJournal, TLC

PidSymmetry == Permutations(Pids)

\* What the steps to come and the properties can still see: a process that is
\* gone leaves its answers and, if it put the configuration back, which one;
\* the pid from a lock file and the history under the lock are read only at
\* the steps that use them.
Seen(p) ==
    [cmd |-> cmd[p], pc |-> pc[p], known |-> known[p],
     op |-> IF pc[p] \in Ended THEN "none" ELSE op[p],
     target |-> IF pc[p] \in Ended THEN 0 ELSE target[p],
     before |-> IF pc[p] \in {"ended", "killed"} THEN "nobody" ELSE before[p],
     holder |-> IF pc[p] = "probe" THEN holder[p] ELSE p,
     view |-> IF pc[p] \in {"anchor", "tip", "release"} THEN view[p] ELSE Missing]

View == <<files, lock, ran, config, [p \in Pids |-> Seen(p)]>>

=============================================================================
