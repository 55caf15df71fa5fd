\* Two strangers: every interleaving of four operations.
SPECIFICATION Spec
CONSTANTS
    u1 = u1
    u2 = u2
    u3 = u3
    User = {u1, u2}
    NoUser = NoUser
    Befriended = {}
    Requested = {}
    Restarting = {}
    MaxTaps = 4
    MaxLoads = 1
SYMMETRY Symmetry
\* All may stop once the taps are used up and the queues are empty.
CHECK_DEADLOCK FALSE
INVARIANTS
    TypeOK
    EndsAgree
PROPERTIES
    FriendsConsented
