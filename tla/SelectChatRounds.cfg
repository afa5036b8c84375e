CONSTANTS
    Clients = {c1, c2}
    None = None
    Size = 2
    StreamCap = 3
    EchoCap = 2
SPECIFICATION FairSpec
INVARIANTS
    StaleOnlyToLeavers
    BlocksOnlyAfterEmpty
PROPERTIES
    StaleOnlyBehindUnended
    HeldByOne
    RoundsAccept
    RoundsSpec
CHECK_DEADLOCK FALSE
