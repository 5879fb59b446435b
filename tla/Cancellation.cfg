SPECIFICATION FairSpec
CONSTANTS
  w1 = w1
  w2 = w2
  Workers = {w1, w2}
  Idle = Idle
  MaxLease = 2
  MaxStops = 1
  MaxAttempts = 2
  Faults = {"crash", "expire", "startup", "transient", "unanswered", "undelivered"}
CONSTRAINT FirstClaim
INVARIANTS StopIsHonoured
PROPERTIES StaleAttemptsAreInert StopSettles
CHECK_DEADLOCK FALSE
