\* Failures, crashes, late checkpoints and restarts
CONSTANTS
    Count = 3
    Configs <- Sound
    TaskChunkSize = 2
    MaxErrors = 3
    MaxConsecutive = 3
    MaxRuns = 2
    MaxFaults = 3
    MaxWrites = 1
    NoCache = NoCache
    Torn = Torn
SPECIFICATION Spec
INVARIANTS
    TypeOK
    CacheSound
    ReadyMeansPresent
    ReportedArePresent
PROPERTIES
    PrepareEnds
\* the process ends after its last run
CHECK_DEADLOCK FALSE
