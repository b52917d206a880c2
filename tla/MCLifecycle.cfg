SPECIFICATION FairSpec
CONSTANTS
  N = 1
  Chains <- MCChains
  ExtKinds <- NoKinds
  Subscribers <- NoSubscriber
  EventModules = {}
  Keyed = {}
  ScheduleModules = {1}
  Heights = {1}
  MaxFailures = 3
  Window = 5
  MaxBackoff = 4
  StoreFaults = FALSE
  Outcomes = {"ok", "fault", "trap"}
  MaxTime = 8
  Capacity = 1
  Token = 1
  Refill = 1
INVARIANTS QuarantineExact BackoffGrows
PROPERTIES BackoffRetried
