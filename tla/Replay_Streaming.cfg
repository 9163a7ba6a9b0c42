CONSTANTS
    Replays <- ReplayLogs
    MaxRows = 5
    Window = 4
    MaxTime = 6
SPECIFICATION ReplaySpec
CHECK_DEADLOCK FALSE
INVARIANTS
    NothingLeftRunning
    InFlightBounded
    Accounted
    StickyKeys
PROPERTIES
    ReplayReturns
