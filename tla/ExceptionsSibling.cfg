SPECIFICATION Spec
CONSTANTS
    e1 = e1
    e2 = e2
    ThreadAbort = ThreadAbort
    None = None
    Thrown <- TwoExceptions
    Size <- SiblingSize
    Clauses <- SiblingClauses
    Calls <- SiblingCalls
    Main <- mainMethod
    MaxDepth = 4
    MaxNested = 6
INVARIANTS
    FilterOnly
CHECK_DEADLOCK FALSE
