SPECIFICATION Spec
CONSTANTS
    e1 = e1
    e2 = e2
    ThreadAbort = ThreadAbort
    None = None
    Thrown <- TwoExceptions
    Size <- LayeredSize
    Clauses <- LayeredClauses
    Calls <- LayeredCalls
    Main <- mainMethod
    MaxDepth = 4
    MaxNested = 6
INVARIANTS
    EntriesMatch
    FinallyOnce
PROPERTIES
    NoFrameOwes
CHECK_DEADLOCK FALSE
