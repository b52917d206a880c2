SPECIFICATION SourceSpec
CONSTANTS
  Depth = 1
  ChunkBlocks = 2
  AbandonAfter = 2
  Lookbacks <- UnsetOrOne
  MaxHead = 4
  MaxForks = 1
  MaxDepth = 2
INVARIANT RetractedIsRestated
CHECK_DEADLOCK FALSE
