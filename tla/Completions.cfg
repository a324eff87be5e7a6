SPECIFICATION Spec
CONSTANTS
    c1 = c1
    c2 = c2
    c3 = c3
    Calls <- Three
    InIsr = {}
    Again <- Periodic
    Deltas = {1, 4}
    Timeouts = {1}
    Scale = 2
    Rounds = 2
    TailTicks = 100
    MaxTime = 5
    Idle = Idle
INVARIANTS
    ListSorted
    ArmedForFirst
PROPERTY
    Served
CHECK_DEADLOCK FALSE
