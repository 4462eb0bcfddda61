SPECIFICATION FairSpec
CONSTANTS
  Server = Server
  Clis = {c1}
  ServerJobs = {j1}
  None = None
  MaxFile = 1
  IOFaults = FALSE
  Procs <- HandoffProcs
  Workers <- HandoffWorkers
  ProcOf <- HandoffProcOf
INVARIANTS StoreSafe HandoffSafe
PROPERTIES HandoffEnds
