CONSTANTS
    MaxLines = 3
    MaxChats = 1
SPECIFICATION FairSpec
INVARIANTS ListSound OneListener
PROPERTIES PingReturns ResetNoticed
