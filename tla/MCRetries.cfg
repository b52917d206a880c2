SPECIFICATION RetriesSpec
CONSTANTS
  Receipts = {r1, r2}
  MaxEpoch = 2
  MaxFaults = 2
  Owners = {c1}
  MaxU64 = 2
  Delays = {0, 1}
  MaxPuts = 2
  MaxRowFaults = 2
  Healthy = 3
  MaxPause = 12
  Rungs = 4
  ChannelSize = 2
INVARIANTS LandedIsMarked NoOrphan
PROPERTIES GuardSubmitsOnce LandedSettles NeverWedged PausesGrow
CHECK_DEADLOCK FALSE
