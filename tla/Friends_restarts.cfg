\* Two friends, whose phones may restart at any point.
SPECIFICATION Spec
CONSTANTS
    u1 = u1
    u2 = u2
    u3 = u3
    User = {u1, u2}
    NoUser = NoUser
    Befriended <- OneFriendship
    Requested = {}
    Restarting = {u1, u2}
    MaxTaps = 3
    MaxLoads = 1
INVARIANTS
    EndsAgree
    BlockListIsOwn
PROPERTIES
    BlockTakesHold
