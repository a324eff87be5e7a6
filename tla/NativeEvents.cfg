SPECIFICATION Spec
CONSTANTS
    d1 = d1
    d2 = d2
    Dispatchers <- Two
    Size = 2
    MaxEvents = 4
    Windows = {}
INVARIANTS
    OnceInOrder
    NoDanglingContext
PROPERTIES
    Delivered
CHECK_DEADLOCK FALSE
