\* Both deployments, two failures; the outbox may refuse to open and stop.
SPECIFICATION FairSpec
CONSTANTS
  MaximumPendingEvents = 3
  BatchLimit = 2
  InboxModes = {TRUE, FALSE}
  MaxEvents = 4
  MaxFailures = 2
INVARIANTS TypeOK NothingLost CloudContinuous HeadConfirmed ExtendsNewest
PROPERTIES DrainsUnlessStuck
CHECK_DEADLOCK FALSE
