CONSTANTS
    AF_UNSPEC = 0
    AF_INET = 2
    AF_INET6 = 10
    PF_OTHER = 1
    V4Addrs <- MCV4Addrs
    V6Addrs <- MCV6Addrs
    MaxRes = 3
    NULL = NULL
SPECIFICATION Spec
INVARIANTS
    ResolveRoundTrip
