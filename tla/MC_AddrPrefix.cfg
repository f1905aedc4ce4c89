CONSTANTS
    Addresses <- MCAddresses
    Lens <- MCLens
    OobWords <- MCOobWords
SPECIFICATION Spec
INVARIANTS
    PrefixExact
    InPrefixExact
    NetAddrExact
    PrefixHostsExact
    ClassifyExact
