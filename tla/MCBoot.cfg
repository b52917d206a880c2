SPECIFICATION BootSpec
CONSTANTS
  Worlds <- L_Worlds
  Imports <- L_Imports
  Ambient = {"clocks"}
  WasiCaps = {"http", "wasi-sockets"}
  CoreCaps = {"chain", "local-store"}
  Disks <- L_Disks
  OverridePath = "po"
  MaxU64 = 8
  MaxRewrites = 1
  Texts <- E_Texts
  Expressions <- C_Expressions
  Starts <- C_Starts
  Froms <- C_Froms
  Namespaces = {"a", "b"}
  Keys = {1, 2, 3}
  Lens = {0, 4}
  Handles <- S_Handles
  Versions = {1, 3}
  Batches <- S_Batches
  Queries <- S_Queries
  Overhead = 1
  MaxApplyOps = 2
  MaxApplyBytes = 4
  ListCap = 2
  ScanCap = 3
  PageBytes = 7
  MaxWrites = 3
INVARIANTS
  VerifiedBytesRun NothingRunsBeforePrepass
  LooksUpLiveTokens
  LayoutIsStamped ScanComplete
PROPERTIES
  FirstMatch
  QuotaHeld Refines
CHECK_DEADLOCK FALSE
