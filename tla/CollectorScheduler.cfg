SPECIFICATION FairSpec
CONSTANTS
    Collectors <- MCCollectors
    Streaming = {"logs"}
    Gated = {"audit", "logs"}
    Unreliable = {"logs"}
    Refreshers = {"user"}
    MaxExponent = 1023
    FailureCap = 2
INVARIANTS
    TypeOK
    RunningIsInFlight
    TasksOutliveFailures
PROPERTIES
    KeepsGate
    PeriodicRecurs
    StreamsReopen
    LifecycleCompletes
