SPECIFICATION FairSpec
CONSTANTS
    CategoryList <- MCCategoryList
    MaxKeys = 3
    MaxMessages = 2
INVARIANTS
    SelectionIsConsistent
    ListsShowTheSelection
PROPERTIES
    NavigationSettles
