CONSTANTS
    Conns = {c1, c2, c3}
    Main = Main
    Free = Free
    MaxSignals = 2
SPECIFICATION FairSpec
INVARIANTS
    TypeOK
    OneLeftOpen
PROPERTIES
    NoneAcceptedAfter
    InterruptEnds
CHECK_DEADLOCK FALSE
