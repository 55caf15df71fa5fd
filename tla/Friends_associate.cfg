\* What the block alert promises about friendship.
SPECIFICATION Spec
CONSTANTS
    u1 = u1
    u2 = u2
    u3 = u3
    User = {u1, u2}
    NoUser = NoUser
    Befriended <- OneFriendship
    Requested <- LeftoverRequest
    Restarting = {}
    MaxTaps = 3
    MaxLoads = 1
\* All may stop once the taps are used up and the queues are empty.
CHECK_DEADLOCK FALSE
INVARIANT
    BlockedNotAssociated
