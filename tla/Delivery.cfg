SPECIFICATION DeliverySpec
CONSTANTS
  i1 = i1
  i2 = i2
  Instances = {i1, i2}
  Callers = {c1}
  Nobody = nobody
  MaxVersion = 3
  MaxEntries = 1
  MaxGeneration = 2
  MaxRequests = 2
  MaxFaults = 1
ACTION_CONSTRAINT InCourse
PROPERTIES ChangesConsumed ChangesPublished
CHECK_DEADLOCK FALSE
