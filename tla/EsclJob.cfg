\* Three calls of either source, every failure.
SPECIFICATION Spec
CONSTANTS
    MaxRetries = 1
    MaxCalls = 3
    MaxSheets = 3
    Faults = {"net", "reply", "abort"}
INVARIANT TypeOK
INVARIANT NothingCancelled
INVARIANT AllPagesReturned
INVARIANT OneJobPerCall
PROPERTY ReturnsScanned
