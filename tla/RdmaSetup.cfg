SPECIFICATION ConnectionsFairSpec
CONSTANTS
    NumServers = 2
    UseLogs = TRUE
    NumClients = 2
    ServerThreads = 2
    ClientThreads = 1
    ClientsPerThread = 2
    NoMachine = NoMachine
    MaxOnWire = 2
    MaxAlike = 2
INVARIANTS LeavesConnected QpsInOrder
INVARIANTS ConnectionsOK NothingAstray ResponseIsAwaited
PROPERTIES EveryThreadStarts
CHECK_DEADLOCK FALSE
