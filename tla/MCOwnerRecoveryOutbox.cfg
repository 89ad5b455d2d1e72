\* One event, two replicas: every order of claims, answers and decisions.
CONSTANTS
  Events = {e1}
  Workers = {w1, w2}
  Tokens = {t1, t2, t3, t4}
  BatchSize = 1
  MAX_ATTEMPTS = 2
  MaxRedrive = 1
  Keys = {k1}
  MaxCrashes = 1
SPECIFICATION FairSpec
INVARIANTS NoBlindRetry PublishedWasAccepted DecisionsAudited
PROPERTIES ClaimsEnd AcceptedConverges
