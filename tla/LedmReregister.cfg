\* The printer reboots, and another computer's user is the next at the panel.
SPECIFICATION FairSpec
CONSTANTS
    Faults = {"forget"}
    PollFailLimit = 2
    MaxDests = 2
    MaxVisits = 2
    MaxPosts = 3
    MaxFeed = 1
PROPERTY EventRestoresEntry
