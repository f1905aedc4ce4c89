CONSTANTS
    Untouched = Untouched
    External = External
    Addresses <- MCAddresses
    Sizes <- MCSizes
SPECIFICATION Spec
INVARIANTS
    TostrFormat
