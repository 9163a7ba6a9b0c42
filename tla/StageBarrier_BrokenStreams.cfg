\* Stages, configurations, streams and agents fail: the run ends, agents are freed
CONSTANTS
    a1 = a1
    a2 = a2
    Agents <- TwoAgents
    NumStages = 2
    BarrierType = "AllOrNothing"
    MaxBarrierRetries = 1
    MaxWaitPolls = 2
    BroadcastCap = 64
    MaxInFlight = 1
    Adversity <- BrokenStreams
SPECIFICATION FairSpec
PROPERTIES
    ControllerEnds
    AgentsFreed
\* the run ends: every task returns once the controller is done
CHECK_DEADLOCK FALSE
