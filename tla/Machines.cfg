SPECIFICATION FairSpec
CONSTANTS
  c1 = c1
  c2 = c2
  a1 = a1
  a2 = a2
  Controllers = {c1, c2}
  Allocations = {a1, a2}
  Nothing = nothing
  MaxFaults = 1
ACTION_CONSTRAINT FirstReserved
INVARIANTS OneMachine ReleasedIsGone
PROPERTIES RetirementEnds
CHECK_DEADLOCK FALSE
