\* Three requests for a budget of two, two handlers at a time.
SPECIFICATION FairSpec
CONSTANTS
  Requests = {r1, r2, r3}
  Handlers = {h1, h2}
  MaxSignatures = 2
  MaxFaults = 1
  NoRequest = NoRequest
INVARIANTS BudgetCoversSignatures OutcomeIsFinal
PROPERTY ReservationsRecovered
CHECK_DEADLOCK FALSE
