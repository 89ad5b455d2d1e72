\* Three invocations, the first two together, each killed or failing anywhere.
SPECIFICATION Spec
CONSTANTS
  Pids = {p1, p2, p3}
  LastRevision = 3
  Prepared = 1
  Overlap = 1
SYMMETRY PidSymmetry
VIEW View
INVARIANTS Recoverable NothingRolledBack StepsInOrder
CHECK_DEADLOCK FALSE
