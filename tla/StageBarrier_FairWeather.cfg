\* Nothing goes wrong, a prepare stage included: the run ends
CONSTANTS
    a1 = a1
    a2 = a2
    Agents <- TwoAgents
    NumStages = 3
    BarrierType = "AllOrNothing"
    MaxBarrierRetries = 1
    MaxWaitPolls = 2
    BroadcastCap = 64
    MaxInFlight = 2
    Adversity <- PrepareStages
SPECIFICATION FairSpec
PROPERTIES
    Finishes
\* the run ends: every task returns once the controller is done
CHECK_DEADLOCK FALSE
