SPECIFICATION FairSpec
CONSTANTS
  Server = Server
  Clis = {c1, c2}
  ServerJobs = {}
  None = None
  MaxFile = 0
  IOFaults = FALSE
  Procs <- HandoffProcs
  Workers <- HandoffWorkers
  ProcOf <- HandoffProcOf
INVARIANT
  HolderKeepsHandoff
PROPERTIES
  CommandEnds
