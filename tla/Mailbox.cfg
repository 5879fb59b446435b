SPECIFICATION Spec
CONSTANTS
  NumRuns = 2
  MaxLease = 3
  CancelRuns = {}
  ScheduledRuns = {2}
  k1 = k1
  k2 = k2
  k3 = k3
  Clients = {1, 2, 3, k1}
  MaxCommits = 1
  MaxAttempts = 1
  MaxFaults = 1
INVARIANTS WriterOrder LoadedHeadIsComplete ClosureBeforeSuccessor NoReexecution NativeIsCommitPrefix CommitsMaterialized
CHECK_DEADLOCK FALSE
