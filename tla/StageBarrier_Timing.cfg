\* Timers, races with the stats writer; all_or_nothing
CONSTANTS
    a1 = a1
    a2 = a2
    Agents <- TwoAgents
    NumStages = 2
    BarrierType = "AllOrNothing"
    MaxBarrierRetries = 1
    MaxWaitPolls = 2
    BroadcastCap = 64
    MaxInFlight = 1
    Adversity <- Timing
SYMMETRY Swap2
SPECIFICATION Spec
INVARIANTS
    Synchronised
    ReleasedOnce
    SummariesExact
\* the run ends: every task returns once the controller is done
CHECK_DEADLOCK FALSE
