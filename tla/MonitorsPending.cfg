SPECIFICATION Spec
CONSTANTS
    t1 = t1
    t2 = t2
    t3 = t3
    s1 = s1
    o1 = o1
    o2 = o2
    NoThread = NoThread
    NoWalk = NoWalk
    Threads <- WithSystem
    SystemThreads <- JustSystem
    Objects <- TwoObjects
    MaxSub = 1
    MaxRecursion = 1
    MaxPending = 2
INVARIANTS
    LockStructure
    RequestCounts
    NoLostWaiter
    WokenOwnsLock
CHECK_DEADLOCK FALSE
