\* Three users and one carpool: deletions, blocks and clean-ups of all of them.
SPECIFICATION Spec
CONSTANTS
    u1 = u1
    u2 = u2
    u3 = u3
    c1 = c1
    c2 = c2
    User = {u1, u2, u3}
    Carpool = {c1}
    NoCarpool = NoCarpool
    Organizer = {u1}
    Restarting = {}
    Failing = {}
    MaxTaps = 2
    MaxRefreshes = 2
\* All may stop once the taps are used up and the queues are empty.
CHECK_DEADLOCK FALSE
INVARIANTS
    EntriesBelong
    NoEntryOutlives
PROPERTIES
    CarpoolsNeverReturn
