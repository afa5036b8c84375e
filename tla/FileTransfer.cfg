CONSTANTS
    Size = 5
    Buffer = 2
    Window = 3
    MaxSignals = 2
SPECIFICATION FairSpec
INVARIANTS CopyInOrder NoEarlyEnd CompleteWhenClean
PROPERTIES TransferEnds
