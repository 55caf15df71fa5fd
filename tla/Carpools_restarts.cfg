\* One carpool on two phones that may restart at any point.
SPECIFICATION Spec
CONSTANTS
    u1 = u1
    u2 = u2
    u3 = u3
    c1 = c1
    c2 = c2
    User = {u1, u2}
    Carpool = {c1}
    NoCarpool = NoCarpool
    Organizer = {u1}
    Restarting = {u1, u2}
    Failing = {u1, u2}
    MaxTaps = 3
    MaxRefreshes = 2
\* All may stop once the taps are used up and the queues are empty.
CHECK_DEADLOCK FALSE
INVARIANTS
    TypeOK
    NoEntryOutlives
PROPERTIES
    PassengersGetToSee
