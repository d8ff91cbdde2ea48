SPECIFICATION FairSpec
CONSTANTS
    Tools <- MCTools
    Collectors <- MCCollectors
    Hosts <- MCHosts
    Items = 2
    Removable = {"docker"}
INVARIANTS
    ChildrenAreReaped
    BackendsAgree
PROPERTIES
    TruncatedIsNotWhole
    AccessIsHonest
    AvailabilityIsHonest
    CollectionEnds
