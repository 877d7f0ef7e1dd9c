SPECIFICATION FairSpec
CONSTANTS
  c1 = c1
  c2 = c2
  k1 = k1
  k2 = k2
  Clients = {c1, c2}
  Leaders = {c1}
  Gets = {1, 2, 3}
  ClientOf <- Asker
  Keys = {k1, k2}
  Nothing = Nothing
  NumServers = 2
  OneSided = TRUE
  RdmaAsync = TRUE
  DiskAsync = TRUE
  DbAsync = TRUE
  Pollute = FALSE
  Policy = "nchance"
  Preloaded <- SecondHasK1
  MaxForwards = 1
  MaxSyncs = 1
  MaxTasks = 2
  Operations <- Chunks
  MayTear = {k1}
INVARIANTS OwedOnce OwnValues
PROPERTIES ImplementsKVService EveryGetReturns
