\* Two processes and one operation, under two lifecycle changes.
SPECIFICATION Spec
CONSTANTS
  p1 = p1  p2 = p2
  Procs = {p1, p2}
  MaxKeys = 2
  MaxVersion = 3
  SigningKey = 1
  MaxRecoveryAttempts = 1
INVARIANTS ProviderCalledOnce BoundaryDurable CommittedBacked
PROPERTIES NeverReopened LifecycleFences
SYMMETRY ProcSymmetry
