\* Everything the code handles goes wrong.
SPECIFICATION FairSpec
CONSTANTS
    Faults = {"net", "reply", "timeout", "evict", "scan", "leave", "expire", "write", "cancel"}
    ChanCap = 1
    PollFailLimit = 2
    MaxSubs = 3
    MaxVisits = 1
    MaxPosts = 3
    MaxFeed = 2
INVARIANT PagesConserved
INVARIANT OneEntryOnPanel
PROPERTY DeliversInOrder
PROPERTY ForgottenIsRestored
PROPERTY DocumentIsClosed
PROPERTY CancelEndsSession
PROPERTY TeardownClearsPanel
PROPERTY WedgedEndsSession
