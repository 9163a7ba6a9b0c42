\* Failing stages, streams, agents and signals, lagging forwarders
CONSTANTS
    a1 = a1
    a2 = a2
    Agents <- TwoAgents
    NumStages = 2
    BarrierType = "AllOrNothing"
    MaxBarrierRetries = 1
    MaxWaitPolls = 2
    BroadcastCap = 2
    MaxInFlight = 1
    Adversity <- Failures
SYMMETRY Swap2
SPECIFICATION Spec
INVARIANTS
    TypeOK
    FinishedMeansAllDone
PROPERTIES
    Refinement
\* the run ends: every task returns once the controller is done
CHECK_DEADLOCK FALSE
