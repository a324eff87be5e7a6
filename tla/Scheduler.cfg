SPECIFICATION Spec
CONSTANTS
    t1 = t1
    t2 = t2
    t3 = t3
    s1 = s1
    NoThread = NoThread
    Main = t1
    Threads <- WithSystem
    SystemThreads <- JustSystem
    SystemHighest = 2
    Normal = 1
    SystemPriority <- BelowNormal
    CounterMaximum = 10
    CounterAdjustment = 5
    MaxContextSwitch = 1
    Suspendable <- JustOne
INVARIANTS
    ReadyListed
    GlobalIsLowest
    CountersInRange
PROPERTIES
    NoStarvation
CHECK_DEADLOCK FALSE
