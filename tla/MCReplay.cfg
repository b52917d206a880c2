SPECIFICATION FairReplaySpec
CONSTANTS
  N = 1
  Chains = {"eth"}
  ExtKinds = {}
  Subscribers <- MCSubscribers
  EventModules = {1}
  Keyed = {1}
  ScheduleModules = {}
  Heights <- MCHeights
  MaxFailures = 2
  Window = 1
  MaxBackoff = 2
  StoreFaults = TRUE
  Outcomes = {"ok", "fault"}
  MaxTime = 0
  Capacity = 20
  Token = 1
  Refill = 1
  Mod = 1
  Chain = "eth"
  Tip = 2
  LogsAt <- MCLogsAt
  Triggers <- MCTriggers
  ChunkBlocks = 2
  ChannelBuf = 2
  MaxRestarts = 2
INVARIANTS OnlyFailedSkipped PassesOverOnly
PROPERTIES FrontierNeverPassesMiss EveryLogDelivered
