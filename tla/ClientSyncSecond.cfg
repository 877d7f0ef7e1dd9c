SPECIFICATION Spec
CONSTANTS
  NumKeys = 1
  NumNodes = 1
  TotalOps = 1
  HotPercents = {0}
  HotAccessPercent = 0
  HotThreads = 1
  RdmaThreads = 0
  Distributions = {"PARTITIONED"}
  Executed = {"PARTITIONED"}
  MaxPasses = 1
  Machines = {m1, m2}
  NumThreads = 1
  Roles <- ClientsThenServers
SYMMETRY Symmetric
INVARIANT SyncSucceeds
CHECK_DEADLOCK FALSE
