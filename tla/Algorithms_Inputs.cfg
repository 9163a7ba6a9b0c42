SPECIFICATION Spec
CONSTANTS
  Buckets = {0, 1}
  RuntimeBound = 2
INVARIANTS
    TreesComplete
    MergesExact
    ConfigurationsRun
    ProbesSound
CHECK_DEADLOCK FALSE
