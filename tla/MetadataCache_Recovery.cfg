\* Crashes and failed reads and writes around two endpoint caches
CONSTANTS
    NumEndpoints = 2
    NumFiles = 3
    Settings <- CacheSettings
    MaxRuns = 3
    MaxFaults = 2
SPECIFICATION CacheSpec
\* the runs of a prepare are bounded
CHECK_DEADLOCK FALSE
INVARIANTS
    CoverageTruthful
    Resumes
