SPECIFICATION Spec
CONSTANTS
    t1 = t1
    t2 = t2
    t3 = t3
    a = a
    m = m
    NoWait = NoWait
    NoWalk = NoWalk
    End = End
    Threads <- ThreeThreads
    AutoReset <- OneAuto
    ManualReset <- OneManual
    HandleLists <- Singles
    Suspendable <- OneSuspendable
    SkipSuspended = TRUE
PROPERTY
    SignalFreesThread
CHECK_DEADLOCK FALSE
