SPECIFICATION Spec
CONSTANTS
  Instances = {i1, i2}
  Callers = {c1}
  Nobody = nobody
  MaxVersion = 2
  MaxEntries = 2
  MaxGeneration = 2
  MaxRequests = 2
  MaxFaults = 0
SYMMETRY InstanceSymmetry
INVARIANTS RevocationInstalled CloseConfirmed RevokedForGood
CHECK_DEADLOCK FALSE
