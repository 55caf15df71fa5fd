\* Two accounts on one phone, with failures, restarts and changes of account.
SPECIFICATION Spec
CONSTANTS
    a = a
    b = b
    Account = {a, b}
    FirstAccount = a
    NoToken = NoToken
    NoWire = NoWire
    Handshake = Handshake
    kMaxPendingWrites = 2
    MaxWrites = 3
    MaxChanges = 1
    MaxFaults = 1
CHECK_DEADLOCK FALSE
INVARIANTS
    TypeOK
    AssertionsHold
    PipelineIsHead
    ResponsesMatch
    OwnToken
    CompletionsTellTheTruth
    OnlyResentAgain
PROPERTIES
    KeepsPromise
    EveryWriteAnswered
