\* What blockUser reports about common groups.
SPECIFICATION Spec
CONSTANTS
    u1 = u1
    u2 = u2
    u3 = u3
    c1 = c1
    c2 = c2
    User = {u1, u2}
    Carpool = {c1}
    NoCarpool = NoCarpool
    Organizer = {u1}
    Restarting = {}
    Failing = {}
    MaxTaps = 1
    MaxRefreshes = 1
\* All may stop once the taps are used up and the queues are empty.
CHECK_DEADLOCK FALSE
INVARIANTS
    SeparatedShareNoGroup
