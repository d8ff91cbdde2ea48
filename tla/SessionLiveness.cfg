SPECIFICATION FairSpec
CONSTANTS
    Sections = {"Overview", "Logs"}
    Privileged = {"Logs"}
    CollectorOf <- MCCollectorOf
    Interactive = {"Logs"}
    Followable = {"Logs"}
    Home = "Overview"
    Collectors = {"Logs"}
    Streaming = {"Logs"}
    LeftOnDisk = {"absent"}
PROPERTIES
    InterfaceResponds
    ExpiryNoticed
CHECK_DEADLOCK FALSE
