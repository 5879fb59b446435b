SPECIFICATION FairSpec
CONSTANTS
  NumRuns = 1
  MaxLease = 3
  CancelRuns = {}
  ScheduledRuns = {}
  k1 = k1
  k2 = k2
  k3 = k3
  Clients = {1, 2, 3, k1, k2, k3}
  MaxCommits = 0
  MaxAttempts = 1
  MaxFaults = 1
PROPERTIES FailedWriterIsClosed RunSettles
CHECK_DEADLOCK FALSE
