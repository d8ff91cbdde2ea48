SPECIFICATION Spec
CONSTANTS
    Sections <- MCSections
    Entries <- MCEntries
    Queries <- MCQueries
    KnownNoise <- MCKnownNoise
    LogWindow = 2
    ShowNoise = TRUE
    Collections <- MCCollections
    MaxVersion = 2
    MaxKeys = 2
INVARIANTS
    PaneShowsTheView
    PaneIsCurrent
PROPERTIES
    KeepsSelection
