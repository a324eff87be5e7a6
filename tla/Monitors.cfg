SPECIFICATION Spec
CONSTANTS
    t1 = t1
    t2 = t2
    t3 = t3
    s1 = s1
    o1 = o1
    o2 = o2
    NoThread = NoThread
    NoWalk = NoWalk
    Threads <- TwoThreads
    SystemThreads = {}
    Objects <- TwoObjects
    MaxSub = 2
    MaxRecursion = 1
    MaxPending = 1
INVARIANTS
    NoSelfWait
    ListMatchesStatus
    LocksReleased
    RequestsReleased
CHECK_DEADLOCK FALSE
