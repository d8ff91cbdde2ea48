SPECIFICATION AppSpec
CONSTANTS
    Collectors <- MCCollectors
    Streaming = {"logs"}
    Gated = {"audit", "logs"}
    Unreliable = {}
    Refreshers = {"user"}
    MaxExponent = 1023
    FailureCap = 2
INVARIANT
    LatestWins
