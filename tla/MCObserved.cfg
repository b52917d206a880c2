SPECIFICATION Spec
CONSTANTS
  N = 2
  Chains <- MCChains
  ExtKinds <- MCKinds
  Subscribers <- TwoSubscribers
  EventModules = {2}
  Keyed = {}
  ScheduleModules = {1}
  Heights = {1}
  MaxFailures = 2
  Window = 1
  MaxBackoff = 2
  StoreFaults = FALSE
  Outcomes = {"ok", "fault", "trap"}
  MaxTime = 2
  Capacity = 1
  Token = 1
  Refill = 1
PROPERTIES
  ObservesEveryTransition
