SPECIFICATION SourceLiveSpec
CONSTANTS
  Depth = 1
  ChunkBlocks = 2
  AbandonAfter = 2
  Lookbacks <- Unset
  MaxHead = 3
  MaxForks = 1
  MaxDepth = 3
PROPERTY CatchesUp
CHECK_DEADLOCK FALSE
