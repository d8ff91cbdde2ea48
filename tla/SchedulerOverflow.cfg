SPECIFICATION FairSpec
CONSTANTS
    Collectors <- MCCollectors
    Streaming = {"logs"}
    Gated = {"audit", "logs"}
    Unreliable = {}
    Refreshers = {"user"}
    MaxExponent = 2
    FailureCap = 4
INVARIANT
    TasksOutliveFailures
