SPECIFICATION Spec
CONSTANTS
    t1 = t1
    t2 = t2
    NoTimer = NoTimer
    Infinite = Infinite
    Wrapped = Wrapped
    Timers <- TwoTimers
    Arguments <- AllKinds
    MaxLag = 3
INVARIANTS
    ExecutingAlone
    NoIdleTrigger
PROPERTIES
    KeepsPhase
    EnabledFires
CHECK_DEADLOCK FALSE
