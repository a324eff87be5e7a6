SPECIFICATION Spec
CONSTANTS
    e1 = e1
    e2 = e2
    ThreadAbort = ThreadAbort
    None = None
    Thrown <- TwoExceptions
    Size <- GuardedSize
    Clauses <- GuardedClauses
    Calls <- GuardedCalls
    Main <- mainMethod
    MaxDepth = 4
    MaxNested = 6
INVARIANTS
    EntryLasts
CHECK_DEADLOCK FALSE
