CONSTANTS
    Addresses <- MCAddresses
SPECIFICATION Spec
INVARIANT
    CmpIsNetworkOrder
