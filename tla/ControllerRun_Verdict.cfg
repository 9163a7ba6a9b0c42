CONSTANTS
    Agents = {a1, a2}
    Runs <- ThreeRuns
    MissedThreshold = 1
    MaxQueue = 1
    MaxFaults = 1
SPECIFICATION ControllerSpec
CHECK_DEADLOCK FALSE
INVARIANTS
    VerdictTruthful
    TrackerNotAhead
PROPERTIES
    PhaseSynchronised
    ControllerReturns
    CleanRunSucceeds
