SPECIFICATION Spec
CONSTANTS
  w1 = w1
  w2 = w2
  w3 = w3
  Clients = {w1, w2, w3}
  NoOwner = NoOwner
  MaxSent = 2
INVARIANTS AcceptedPrefix
PROPERTIES ImplementsFencedLog
CHECK_DEADLOCK FALSE
