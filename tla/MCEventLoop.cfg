SPECIFICATION EventLoopLiveSpec
CONSTANTS
  Sources = {s1, s2}
  Graceful = {loop}
  Critical = {}
  Loop = loop
  WakeBuf = 1
  ChannelBuf = 2
  s1 = s1
  s2 = s2
  Mixes <- MCMixes
INVARIANTS DrainCoversRun TerminalNeverMisread
PROPERTIES StopReturns BacklogDispatched
CHECK_DEADLOCK FALSE
