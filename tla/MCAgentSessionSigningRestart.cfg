\* Two sessions, one after the other across crashes, under fair scheduling.
SPECIFICATION FairSpec
CONSTANTS
  s1 = s1  s2 = s2  r1 = r1  r2 = r2  r3 = r3  c1 = c1  c2 = c2
  NoRequest = NoRequest
  Sessions <- SplitSessions
  Requests <- SplitRequests
  Connections <- SplitConnections
  Dedicated <- SplitDedicated
  SessionOf <- SplitSessionOf
  CapabilityOf <- SplitCapabilityOf
  NonceOf <- SplitCapabilityOf
  OwnerOf <- SplitOwnerOf
  AgentOf <- SplitAgentOf
  WorktreeOf <- SplitAgentOf
  MaxSignatures <- SplitMaxSignatures
  LeaseUsed <- SplitLeaseUsed
  GlobalLimit = 1
  PerAgentLimit = 1
  PerWorktreeLimit = 1
  MaximumRecords = 2
INVARIANTS ProviderDurable ReplyDurable
PROPERTIES EveryRequestEnds ReservationEnds
