\* One printer, pinned to an address, and a router that gives it another one.
SPECIFICATION FairSpec
CONSTANTS
    p1 = p1
    a1 = a1
    a2 = a2
    Printers = {p1}
    Addrs = {a1, a2}
    None = None
    SaysHP = {p1}
    Terse = {}
    Systems = {{"dns", "multicast"}}
    Configs = {{a1}}
    FirstWait = 20
    LongWait = 60
    MaxTrouble = 1
    Faults = {"move", "cancel"}
PROPERTY MovedIsServed
