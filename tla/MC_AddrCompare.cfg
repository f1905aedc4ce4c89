CONSTANTS
    Addresses <- MCAddresses
SPECIFICATION Spec
INVARIANTS
    CmpTotalOrder
    HumanCmpIsNetworkOrder
    RawCmpAgreesOnEquality
