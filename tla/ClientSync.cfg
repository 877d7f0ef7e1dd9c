SPECIFICATION Spec
CONSTANTS
  NumKeys = 7
  NumNodes = 3
  TotalOps = 3
  HotPercents = {20, 50}
  HotAccessPercent = 80
  HotThreads = 2
  RdmaThreads = 1
  Distributions = {"RANDOM", "PARTITIONED", "ZIPFIAN", "ZIPFIAN_PARTITIONED", "SINGLE_NODE",
                   "SECOND_NODE_ONLY", "RDMA_ONLY", "SPLIT", "YCSB"}
  Executed = {"PARTITIONED"}
  MaxPasses = 1
  Machines = {m1, m2, m3}
  NumThreads = 2
  Roles <- ClientsThenServers
SYMMETRY Symmetric
INVARIANTS StartTogether FinishTogether OnlyDisplacedMiss FileHoldsOps
INVARIANTS OpsDivided RequestsReachHome
CHECK_DEADLOCK FALSE
