\* The ledger file after every step.
SPECIFICATION Spec
CONSTANTS
  s1 = s1  s2 = s2  r1 = r1  r2 = r2  r3 = r3  c1 = c1  c2 = c2
  NoRequest = NoRequest
  Sessions <- SharedSessions
  Requests <- SharedRequests
  Connections <- SharedConnections
  Dedicated <- SharedDedicated
  SessionOf <- SharedSessionOf
  CapabilityOf <- SharedCapabilityOf
  NonceOf <- SharedNonceOf
  OwnerOf <- SharedOwnerOf
  AgentOf <- SharedAgentOf
  WorktreeOf <- SharedAgentOf
  MaxSignatures <- SharedMaxSignatures
  LeaseUsed <- SharedLeaseUsed
  GlobalLimit = 1
  PerAgentLimit = 1
  PerWorktreeLimit = 1
  MaximumRecords = 2
INVARIANT OpensOwnFile
