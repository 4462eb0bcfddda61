SPECIFICATION MCSpec
CONSTANTS
  Path = {"a1", "a2", "b1"}
  Content = {"hi", "lo", "y"}
  FolderOf <- MCFolderOf
  Folders <- MCFolders
  PathOrder <- MCPathOrder
  KeyOf <- MCKeyOf
  EssenceOf <- MCEssenceOf
  RankOf <- MCRankOf
  MaxChanges = 2
  MaxScans = 2
  MaxScanFaults = 1
  StoredRule <- MCStoredRule
  Papers <- MCPapers
  Rows <- MCRows
  Alike <- MCAlike
  MaxAmount = 3500
  MaxDays = 5
  Now = 100
  KindFile = {1, 2, 3, 4}
  CopyFile = {4}
  AnchorOf <- MCAnchor
  BookKeyOf <- MCBookKey
  KindStart <- MCKindStart
  Asks <- MCAsks
  MaxPid = 6
  MaxKindJobs = 2
  MaxKindScans = 1
  MaxKindFaults = 1
INVARIANTS RulesHold KindsHold
PROPERTY ScanHolds
CHECK_DEADLOCK FALSE
