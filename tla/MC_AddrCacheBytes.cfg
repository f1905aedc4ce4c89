CONSTANTS
    a1 = a1
    a2 = a2
    a3 = a3
    c1 = c1
    c2 = c2
    NULL = NULL
    LittleEndian = TRUE
    Addrs <- MCAddrs
    Caches <- MCCaches
    Keys <- MCKeys
    TreeCmp <- BytesTreeCmp
    MaxRef = 2
    IntMax = 2
SPECIFICATION Spec
SYMMETRY Symmetry
INVARIANTS
    Interning
    HandleIntegrity
