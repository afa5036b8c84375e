CONSTANTS
    c1 = c1  c2 = c2  c3 = c3
    Conns <- ThreeConns
    Fds <- TwoFds
    RecvBuf = 1
    Lines <- ChatOnly
    MaxSends = 1
    NoConn = NoConn
    NoFd = NoFd
    Main = Main
    Free = Free
SPECIFICATION Spec
SYMMETRY ConnSymmetry
INVARIANTS OwnSocket RegistrySound ThreadsExact HolderInside LostOnlyByReuse
