SPECIFICATION FairSpec
CONSTANTS
  m1 = m1
  m2 = m2
  i1 = i1
  i2 = i2
  o1 = o1
  NoKey = NoKey
  None = None
  Keys = {m1}
  Uploads = {m1}
  Attempts = {i1}
  Ops = {o1}
  NumRuns = 2
  MaxLease = 2
  Faults = {"crash", "fail", "stop", "refuse", "cancel", "expire", "repeat"}
PROPERTIES ChangesAreSeen QueuedIsTaken
CHECK_DEADLOCK FALSE
