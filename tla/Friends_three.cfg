\* Three users: lists of more than one row, downloaded row by row.
SPECIFICATION Spec
CONSTANTS
    u1 = u1
    u2 = u2
    u3 = u3
    User = {u1, u2, u3}
    NoUser = NoUser
    Befriended <- TwoFriendships
    Requested = {}
    Restarting = {}
    MaxTaps = 2
    MaxLoads = 1
SYMMETRY FriendSymmetry
\* All may stop once the taps are used up and the queues are empty.
CHECK_DEADLOCK FALSE
INVARIANTS
    EndsAgree
