SPECIFICATION PlayLiveSpec
CONSTANTS
  Key = {k1}
  Rating = {}
  MaxTime = 0
  MaxCount = 0
  Thread = {t1, t2}
  NoThread = NoThread
  MaxCalls = 4
  MaxFaults = 1
  Imports = {0, 1}
  Reads = TRUE
  Deletes = TRUE
INVARIANT PositionsKept
PROPERTY CallsReturn
CHECK_DEADLOCK FALSE
