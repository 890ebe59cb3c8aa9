\* Users as quick as they like; requests, replies and scans fail, but no save.
SPECIFICATION FairSpec
CONSTANTS
    Faults = {"net", "reply", "forget", "scan", "leave", "expire", "cancel"}
    PollFailLimit = 2
    MaxDests = 2
    MaxVisits = 2
    MaxPosts = 5
    MaxFeed = 1
INVARIANT TypeOK
INVARIANT PagesConserved
INVARIANT WalkupsKeptApart
INVARIANT JpegNumbersRight
INVARIANT OldEventsNotReplayed
INVARIANT EntriesKnown
PROPERTY OneScanPerStamp
PROPERTY ScanIsServed
PROPERTY DocumentIsClosed
