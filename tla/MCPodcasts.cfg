SPECIFICATION MCSpec
CONSTANTS
  Worker = {"w1", "w2"}
  Episode = {1, 2}
  Name = {1, 2}
  KeepNewest = 1
  MaxOps = 2
  MaxFaults = 1
  MaxSyncs = 1
  Caller = {"c1", "c2"}
  Url = {"u1", "u2"}
  Login = {"ann"}
  MaxShows = 2
  MaxNews = 2
  MaxCalls = 3
  Key = {"k1"}
  Rating = {1}
  MaxTime = 4
  MaxCount = 2
  ListPid = {"p", "q"}
  Song = {"a", "b", "c", "d"}
  Member = {"u", "v"}
  PathOf <- MCPathOf
  Behind <- MCBehind
  Anchored = {"/x", "/x2", "/r"}
  LabelOf <- MCLabelOf
  TitleOf <- MCTitleOf
  SecsOf <- MCSecsOf
  BytesOf <- MCBytesOf
  SortOrder <- MCSortOrder
  ShuffleOrder <- MCShuffleOrder
  SmartRule <- MCSmartRule
  Choice <- MCChoice
  Scopes <- MCScopes
  Narrows <- MCNarrows
  OldList <- MCOldList
  Document <- MCDocument
  FetchCap = 3
  CandidateCap = 2
  ScanCeiling = 3
  MaxEntries = 4
  MaxListOps = 2
INVARIANT EpisodesHold
PROPERTIES FeedsHold PlayHolds ListsHold
CHECK_DEADLOCK FALSE
