SPECIFICATION FairSpec
CONSTANTS
    c1 = c1
    c2 = c2
    NumKeys = 7
    NumNodes = 3
    BlockBytes = 4
    ValueBytes = 2
    Clients = {c1, c2}
    Leaders = {c1}
    Gets = {1, 2, 3}
    ClientOf <- Asker
    MaxSyncs = 1
    KeysAsked <- Keys
    Ops = {o1, o2, o3, o4}
    Self = 1
    None = None
    CachePreloads = TRUE
INVARIANTS LoadedKeysStay OneAnswer NoNullOp RightBytes
PROPERTIES EveryGetReturns
