CONSTANTS
    a1 = a1
    a2 = a2
    a3 = a3
    c1 = c1
    c2 = c2
    v1 = v1
    v2 = v2
    NULL = NULL
    Addrs <- MCAddrsTwo
    Caches <- MCCaches
    Keys <- MCKeys
    TreeCmp <- MCTreeCmp
    MaxRef = 2
    IntMax = 2
SPECIFICATION Spec
SYMMETRY Symmetry
PROPERTY
    InternRefinement
