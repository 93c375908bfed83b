\* Two threads, three connections.
CONSTANTS
    ThreadCount = 2
    Socks = {s1, s2, s3}
    NoSock = NoSock
SPECIFICATION Spec
CHECK_DEADLOCK FALSE
INVARIANTS
    TypeOK
    OneHome
    CountIsExact
    NoSocketLost
    Balanced
PROPERTIES
    ClosedLeaves
    StopReturns
