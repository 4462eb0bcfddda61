SPECIFICATION MCSpec
CONSTANTS
  Copy = {"p", "q"}
  Main = "p"
  Text = {"a"}
  Editor = {"u1"}
  MaxStamp = 3
  MaxRetags = 1
  Folder <- MCFolder
  Reach <- MCReach
  Walkable <- MCWalkable
  OnDisk <- MCOnDisk
  Configs <- MCConfigs
  RemoveSize = 1
  MaxLibs = 3
  MaxRootOps = 5
INVARIANT FieldsTold
PROPERTIES CurationKept RootsHold
CHECK_DEADLOCK FALSE
