SPECIFICATION Spec
CONSTANTS
    Sections = {"Overview", "Logs", "Audit"}
    Privileged = {"Logs", "Audit"}
    CollectorOf <- MCCollectorOf
    Interactive = {"Logs"}
    Followable = {"Logs"}
    Home = "Overview"
    Collectors = {"Logs", "Audit"}
    Streaming = {"Logs"}
    LeftOnDisk = {"absent", "corrupt", "redacted", "private"}
INVARIANTS
    NothingBeforeUnlock
PROPERTIES
    LockingClears
    KeepsGate
CHECK_DEADLOCK FALSE
