\* Three calls of either source, every failure.
SPECIFICATION FairSpec
CONSTANTS
    IdlePolls = 2
    MaxCalls = 3
    MaxSheets = 3
    Faults = {"net", "cancel"}
INVARIANT TypeOK
INVARIANT AllPagesReturned
PROPERTY ReturnsScanned
PROPERTY FlatbedNeedsNoDeadline
PROPERTY CallEnds
