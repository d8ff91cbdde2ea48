SPECIFICATION Spec
CONSTANTS
    Runs = {"reporter", "other"}
    Sections <- MCSections
    Privileged <- MCPrivileged
    Subsystems <- MCSubsystems
    Collected <- MCCollected
    Streaming <- MCStreaming
    Deferred <- MCDeferred
    Redacted <- MCRedacted
    SubsystemOf <- MCSubsystemOf
    NoSubsystem = "none"
    PayloadOf <- MCPayloadOf
    RenderedOf <- MCRenderedOf
    StatusBar <- MCStatusBar
    RequestsOf <- MCRequestsOf
    HeldBefore <- MCHeldBefore
    MaxFaults = 1
INVARIANTS
    LockedReportsHideData
    PrivilegedDataIsFresh
    TemporariesAreCleaned
    RequestedIsCollected
PROPERTIES
    FilesAreAtomic
    SuccessMeansWritten
CHECK_DEADLOCK FALSE
