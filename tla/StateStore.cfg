SPECIFICATION FairSpec
CONSTANTS
    Subsystems <- MCSubsystems
    SubsystemOf <- MCSubsystemOf
    Collectors = {"hardware", "logs"}
    Waiters = {w1, w2}
    StateWaiters = {w2}
    EventLimit = 2
    LogLimit = 2
    MaxVersion = 3
INVARIANTS
    TypeOK
    NoLostWakeup
    SummaryCoversLastChange
    CurrentNoticeCoversOneStep
    RetainsNewest
PROPERTY
    KeepsPromise
