\* Three requests over a ledger with room for two, up to two failing writes.
SPECIFICATION Spec
CONSTANTS
  r1 = r1  r2 = r2  r3 = r3
  NoRequest = NoRequest
  Requests <- MCRequests
  MaximumRecords = 2
  MaxDiskFaults = 2
INVARIANTS KeyUsedOnceAudited ReplyAudited
PROPERTIES FailsClosed NoContradiction
