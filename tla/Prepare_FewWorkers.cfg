\* Three workers and failing PUTs below the thresholds
CONSTANTS
    Count = 2
    Configs <- FewWorkers
    TaskChunkSize = 4
    MaxErrors = 3
    MaxConsecutive = 3
    MaxRuns = 1
    MaxFaults = 1
    MaxWrites = 0
    NoCache = NoCache
    Torn = Torn
SPECIFICATION Spec
PROPERTY
    PrepareEnds
\* the process ends after its last run
CHECK_DEADLOCK FALSE
