SPECIFICATION FirstOwnerSpec
CONSTANTS
  o1 = o1
  o2 = o2
  p1 = p1
  p2 = p2
  Ops = {o1, o2}
  LastBinding = 2
  BindingOf <- Pair
  Projectors = {p1, p2}
  MaxFaults = 1
  Capacity = 1
  Faults = {"abort", "deadline", "retire", "worker", "handover", "crash", "commit", "loss", "slow", "reply", "scope", "retention", "close", "restart", "destroy"}
ACTION_CONSTRAINT Bounded
INVARIANTS AdmittedInLogOrder OutcomesAreHonest
PROPERTIES HandedOffOnce CancelFences RetiredToolsAreInterrupted EveryCommandIsAnswered
CHECK_DEADLOCK FALSE
