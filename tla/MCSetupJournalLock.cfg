\* Two invocations meet the lock file of a process that was killed.
SPECIFICATION Spec
CONSTANTS
  Pids = {p1, p2, p3}
  LastRevision = 3
  Prepared = 1
  Overlap = 2
SYMMETRY PidSymmetry
INVARIANT Recoverable
CHECK_DEADLOCK FALSE
