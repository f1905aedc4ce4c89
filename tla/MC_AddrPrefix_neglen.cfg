CONSTANTS
    Addresses <- MCAddresses
    Lens <- MCLens
    OobWords <- MCOobWords
SPECIFICATION Spec
INVARIANT
    InPrefixRejectsNegative
