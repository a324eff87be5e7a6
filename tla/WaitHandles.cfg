SPECIFICATION Spec
CONSTANTS
    t1 = t1
    t2 = t2
    t3 = t3
    a = a
    m = m
    NoWait = NoWait
    NoWalk = NoWalk
    End = End
    Threads <- ThreeThreads
    AutoReset <- OneAuto
    ManualReset <- OneManual
    HandleLists <- SingleAndPair
    Suspendable <- OneSuspendable
    SkipSuspended = FALSE
INVARIANTS
    NoMissedSignal
    WaitingListed
PROPERTIES
    WaitEndsOnce
    SetEnds
CHECK_DEADLOCK FALSE
