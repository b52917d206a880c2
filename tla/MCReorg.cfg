SPECIFICATION SourceSpec
CONSTANTS
  Depth = 2
  ChunkBlocks = 2
  AbandonAfter = 2
  Lookbacks <- UnsetOrOne
  MaxHead = 4
  MaxForks = 1
  MaxDepth = 3
INVARIANTS GaplessScan ViewExact BulkIsFinal
CHECK_DEADLOCK FALSE
