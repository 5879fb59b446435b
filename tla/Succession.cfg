SPECIFICATION FairSpec
CONSTANTS
  i1 = i1
  i2 = i2
  u1 = u1
  Instances = {i1, i2}
  UrlOf <- SameUrl
  Lease = 3
  Heartbeat = 1
  Budget = 1
  MaxCalls = 2
PROPERTIES CommitUnderLease ImplementsOwnerLease SuccessorStarts
