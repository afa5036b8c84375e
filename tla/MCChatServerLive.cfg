CONSTANTS
    c1 = c1  c2 = c2  c3 = c3
    Conns <- TwoConns
    Fds <- TwoFds
    RecvBuf = 2
    Lines <- Requests
    MaxSends = 1
    NoConn = NoConn
    NoFd = NoFd
    Main = Main
    Free = Free
SPECIFICATION FairSpec
INVARIANTS SameOrder
PROPERTIES LeaverRetired RoundEnds
