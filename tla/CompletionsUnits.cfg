SPECIFICATION Spec
CONSTANTS
    c1 = c1
    c2 = c2
    c3 = c3
    Calls <- Three
    InIsr = {}
    Again <- Once
    Deltas = {1, 2}
    Timeouts = {1}
    Scale = 2
    Rounds = 10
    TailTicks = 100
    MaxTime = 4
    Idle = Idle
PROPERTY
    NeverEarly
CHECK_DEADLOCK FALSE
