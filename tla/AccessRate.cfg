SPECIFICATION ClimbSpec
CONSTANTS
    NumKeys = 10
    CacheSize = 25
    NameOrder <- McNameOrder
    AccessCounts <- McAccessCounts
    Latencies <- McLatencies
    Word = 65536
    FineSteps <- McFineSteps
    CoarseStep = 3
    Precision = 256
INVARIANTS ClimbOK NoWrap CutoffMatchesWaterMark SearchedIsBest StopsAtPeak
CHECK_DEADLOCK FALSE
