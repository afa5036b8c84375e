CONSTANTS
    Clients = {c1, c2, c3}
    NoClient = NoClient
    Packets <- PacketTexts
    Hello = 3
    MarkLen = 2
    QueueLen = 1
SPECIFICATION FairSpec
INVARIANTS
    AnsweredOwnMarker
    UnansweredOnlyAtEnd
    EndedByOthers
PROPERTIES
    HeldByUnmarked
    AllAnswered
CHECK_DEADLOCK FALSE
