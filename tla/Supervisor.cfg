\* Two printers, named, pinned to an address, or found at the start; two
\* moves or failures.
SPECIFICATION FairSpec
CONSTANTS
    p1 = p1
    p2 = p2
    a1 = a1
    a2 = a2
    a3 = a3
    Printers = {p1, p2}
    Addrs = {a1, a2, a3}
    None = None
    SaysHP = {p1}
    Terse = {p2}
    Systems = {{"dns", "multicast"}, {}}
    Configs = {{}, {p1, p2}, {p1, a2}}
    FirstWait = 20
    LongWait = 60
    MaxTrouble = 2
    Faults = {"miss", "setup", "session", "off", "move", "cancel"}
INVARIANT NeverSubstitutes
INVARIANT ServedOnce
PROPERTY NamedIsServed
