CONSTANTS
    NumJobs = 2
    NumStages = 2
    MaxRetries = 1
    MaxAborts = 1
    Logs = {l1}
    NoLog = NoLog
    Adversity <- OneAtATime
SPECIFICATION LifecycleSpec
CHECK_DEADLOCK FALSE
INVARIANTS
    QueryTruthful
    LoggedWork
    CompletedMeansRan
PROPERTIES
    StoppedStaysStopped
    Freed
