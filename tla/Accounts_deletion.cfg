\* Two accounts on one phone: signups, logins, saved locations and deletions.
SPECIFICATION Spec
CONSTANTS
    a = a
    b = b
    c1 = c1
    Account = {a, b}
    Nobody = Nobody
    NoUser = NoUser
    NoField = NoField
    Other = Other
    Carpool = {c1}
    NoCarpool = NoCarpool
    Location <- MCLocation
    MaxTaps = 6
\* All may stop once the taps are used up and the queues are empty.
CHECK_DEADLOCK FALSE
INVARIANTS
    TypeOK
    SavedIsStored
    CollectedIsLeft
PROPERTIES
    GoneForGood
    LocationComesBack
