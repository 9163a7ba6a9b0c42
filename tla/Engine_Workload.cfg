CONSTANTS
    Concurrency = 2
    Jobs <- EngineJobs
    Duration = 2
    Drain = 1
    FlushInterval = 2
    MaxOps = 2
SPECIFICATION EngineSpec
CHECK_DEADLOCK FALSE
INVARIANTS
    StatsAgree
    OkMeansAllDone
    PoolsSound
    RateCapped
PROPERTIES
    EngineEnds
