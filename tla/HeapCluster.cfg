SPECIFICATION Spec
CONSTANTS
    Clusters <- TwoClusters
    Objects = {1, 2, 3}
    Pinnable = {1}
    SizeOf <- Sizes
    EventSizes = {4, 5}
    FastLists = 2
    RelocMax = 2
    MaxEvents = 1
    Null = Null
INVARIANTS
    ListsExact
    RefsFollow
PROPERTIES
    PinnedStays
    Compacts
CHECK_DEADLOCK FALSE
