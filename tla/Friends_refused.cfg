\* What the refusal of a repeated request tells the user.
SPECIFICATION Spec
CONSTANTS
    u1 = u1
    u2 = u2
    u3 = u3
    User = {u1, u2}
    NoUser = NoUser
    Befriended = {}
    Requested = {}
    Restarting = {u1, u2}
    MaxTaps = 3
    MaxLoads = 1
\* All may stop once the taps are used up and the queues are empty.
CHECK_DEADLOCK FALSE
INVARIANT
    RefusedMeansPending
