SPECIFICATION Spec
CONSTANTS
    t1 = t1
    t2 = t2
    NoTimer = NoTimer
    Infinite = Infinite
    Wrapped = Wrapped
    Timers <- TwoTimers
    Arguments <- ShotsAndPeriods
    MaxLag = 2
PROPERTY
    NextInFuture
CHECK_DEADLOCK FALSE
