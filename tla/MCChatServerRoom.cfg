CONSTANTS
    c1 = c1  c2 = c2  c3 = c3
    Conns <- TwoConns
    Fds <- TwoFds
    RecvBuf = 2
    Lines <- Requests
    MaxSends = 2
    NoConn = NoConn
    NoFd = NoFd
    Main = Main
    Free = Free
SPECIFICATION Spec
INVARIANTS IndInv
PROPERTIES RoomSpec
