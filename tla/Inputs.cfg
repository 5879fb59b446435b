SPECIFICATION Spec
CONSTANTS
  m1 = m1
  m2 = m2
  i1 = i1
  i2 = i2
  o1 = o1
  NoKey = NoKey
  None = None
  Keys = {m1, m2}
  Uploads = {m1}
  Attempts = {i1, i2}
  Ops = {}
  NumRuns = 2
  MaxLease = 2
  Faults = {"crash", "fail", "stop", "prepare", "timeout"}
SYMMETRY Requests
INVARIANTS PlacedOnce AcceptedIsPlaced FilesAreKept ReturnIsExact
CHECK_DEADLOCK FALSE
