SPECIFICATION Spec
CONSTANTS
    t1 = t1
    t2 = t2
    t3 = t3
    s1 = s1
    NoThread = NoThread
    Main = t1
    Threads <- ThreeThreads
    SystemThreads = {}
    SystemHighest = 5
    Normal = 2
    SystemPriority <- NoSystem
    CounterMaximum = 1879048192
    CounterAdjustment = 1610612736
    MaxContextSwitch = 20
    Suspendable <- ThreeThreads
PROPERTY
    HighestIsChosen
CHECK_DEADLOCK FALSE
