\* No service manager: one daemon, run by hand.
SPECIFICATION FairSpec
CONSTANTS
    NoFile = NoFile
    Garbled = Garbled
    Hostname = "pc"
    Durations = {"120s"}
    c1 = c1
    d1 = d1
    h1 = h1
    Commands = {c1}
    Pids = {d1}
    None = None
    Hosts = {h1}
    Names = {"desk"}
    Resolutions = {200}
    Kinds = {"pidfile"}
    MaxCommands = 2
    MaxFaults = 0
PROPERTY PrinterRestarts
