\* A process that dies between the provider boundary and the commit.
SPECIFICATION Spec
CONSTANTS
  p1 = p1  p2 = p2
  Procs = {p1, p2}
  MaxKeys = 2
  MaxVersion = 3
  SigningKey = 1
  MaxRecoveryAttempts = 1
INVARIANT ExpiryIsUncertain
SYMMETRY ProcSymmetry
