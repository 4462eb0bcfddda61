SPECIFICATION Spec
CONSTANTS
  File = {f1, f2}
  Path = {p1, p2}
  Slot = {s1}
  Pid = {e1}
  Jid = {j1, j2}
  NoFile = NoFile
  NoPath = NoPath
  IOFaults = TRUE
  DBFaults = TRUE
  UserActs = TRUE
  UserRaces = FALSE
  PlansWait = {}
  Modes = {"trash", "permanent"}
SYMMETRY Symmetry
VIEW WithoutHistory
INVARIANTS NoBytesLost TrashRecorded
