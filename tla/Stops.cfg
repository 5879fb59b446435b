SPECIFICATION Spec
CONSTANTS
  NumRuns = 1
  MaxLease = 2
  CancelRuns = {1}
  ScheduledRuns = {}
  k1 = k1
  k2 = k2
  k3 = k3
  Clients = {1, 2, k1, k2}
  MaxCommits = 1
  MaxAttempts = 2
  MaxFaults = 1
SYMMETRY ControlSymmetry
INVARIANTS NothingAfterClosure ProjectorNeverStalls OneTerminal
PROPERTIES TerminalStable
CHECK_DEADLOCK FALSE
