SPECIFICATION Spec
CONSTANTS
    Null = Null
    Size = 3
    Fields <- FieldsOf
    Finalizable = {1, 2}
    Watched = {2}
    MinimumSpace = 1
    MaxStacks = 1
INVARIANT
    Consistent
PROPERTIES
    CollectionEnds
    KeepsReachable
CHECK_DEADLOCK FALSE
