\* A printer and a user that do what the protocol expects.
SPECIFICATION FairSpec
CONSTANTS
    Faults = {}
    ChanCap = 2
    PollFailLimit = 2
    MaxSubs = 1
    MaxVisits = 3
    MaxPosts = 8
    MaxFeed = 3
INVARIANT OneWalkupPerPdf
INVARIANT JpegsNumbered
PROPERTY ScanIsServed
