SPECIFICATION HostSpec
CONSTANTS
  Graceful = {t1, t2, t3}
  Critical = {c1}
  WakeBuf = 1
  Period = 3
  Recheck = 2
  MaxWall = 7
  Records <- L_Records
  Chunks <- L_Chunks
  Console = 1
  Retain = 2
  TargetConsole = 2
  StdoutLevel = 2
  RecordCap = 5
  TargetAllowance = 2
  Marker = 3
  MaxSlack = 1
  RecordOverhead = 1
  FieldOverhead = 2
  Burst = 2
  RingBytes = 12
  RunsRetained = 1
  MaxAppends = 4
  MaxWritten = 4
  MaxRuns = 3
  Names <- H_Names
  Literals <- H_Literals
  AuthorAllow <- H_Author
  OperatorAllow <- H_Operator
  Addresses <- H_Addresses
  Mapped <- H_Mapped
  Prohibited <- H_Prohibited
  Permitted <- H_Permitted
  Denied <- H_Denied
  Timeouts <- H_Timeouts
  ConnectMax = 2
  FirstByteMax = 2
  Total = 3
  BodyCap = 3
  FrameSizes = {1, 2}
  MaxFrames = 2
  MaxClock = 4
  Tracked <- R_Tracked
  Balances = {0, 1, 3}
  Threshold = 2
  Methods = {"eth_getBalance", "eth_sendTransaction"}
  ChainMethod = {"eth_getBalance"}
  Configured = {1}
  Chains = {1, 2}
  Timeout = 2
  MaxRetries = 1
  ResponseCap = 1
  Sizes = {1, 2}
  MaxPacket = 2
  MaxPrograms = 2
INVARIANTS HostTypeOK GateHolds
PROPERTIES
  DrainEnds
  NoBurst ReachedMinuteFires
  PageExactlyOnce
  SocketCloses
  NoSilentMove RequestResolves
CHECK_DEADLOCK FALSE
