\* The registry alone, under arbitrary callers.
SPECIFICATION RegistrySpec
CONSTANTS
  s1 = s1  s2 = s2  s3 = s3
  r1 = r1  r2 = r2  r3 = r3
  c1 = c1  c2 = c2
  NoRequest = NoRequest
  Sessions <- MCSessions
  Requests <- MCRequests
  Connections <- MCConnections
  SessionOf <- MCSessionOf
  CapabilityOf <- MCCapabilityOf
  NonceOf <- MCNonceOf
  OwnerOf <- MCOwnerOf
  AgentOf <- MCAgentOf
  WorktreeOf <- MCWorktreeOf
  MaxSignatures <- MCMaxSignatures
  LeaseUsed <- MCLeaseUsed
  GlobalLimit = 2
  PerAgentLimit = 1
  PerWorktreeLimit = 2
INVARIANTS RegistryTypeOK CapacityBound BudgetBound ReservationConsistent IdentitiesConsumedOnce
PROPERTY TerminalForever
