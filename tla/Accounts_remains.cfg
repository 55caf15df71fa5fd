\* What is left of a deleted account.
SPECIFICATION Spec
CONSTANTS
    a = a
    b = b
    c1 = c1
    Account = {a}
    Nobody = Nobody
    NoUser = NoUser
    NoField = NoField
    Other = Other
    Carpool = {c1}
    NoCarpool = NoCarpool
    Location <- MCLocation
    MaxTaps = 4
\* All may stop once the taps are used up and the queues are empty.
CHECK_DEADLOCK FALSE
INVARIANTS
    AccountDeleted
