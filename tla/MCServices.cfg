SPECIFICATION MCSpec
CONSTANTS
  Dir = {"r", "b"}
  Root = {"r"}
  Parent <- MCParent
  EventBuffer = 1
  ReqBuffer = 1
  MaxWatchDirs = 0
  MaxTimers = 2
  Starts <- MCStarts
  MaxCalls = 4
  ChanRoom = 2
  MaxRows = 5
  Refusals <- MCRefusals
  MaxGiven = 2
INVARIANTS WatchSafe Pairing NoGapUnlessBlind ProxyHolds
PROPERTIES ServicesProgress KeepsPromise
CHECK_DEADLOCK FALSE
