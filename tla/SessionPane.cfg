SPECIFICATION FairSpec
CONSTANTS
    Sections = {"Overview", "Logs"}
    Privileged = {"Logs"}
    CollectorOf <- MCCollectorOf
    Interactive = {"Logs"}
    Followable = {"Logs"}
    Home = "Overview"
    Collectors = {"Logs"}
    Streaming = {"Logs"}
    LeftOnDisk = {"absent"}
CHECK_DEADLOCK FALSE
PROPERTY
    LockedPaneIsHidden
