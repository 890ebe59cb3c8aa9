\* One command line, which is given an empty name.
SPECIFICATION Spec
CONSTANTS
    NoFile = NoFile
    Garbled = Garbled
    Hostname = "pc"
    Durations = {"120s"}
    c1 = c1
    d1 = d1
    h1 = h1
    Commands = {c1}
    Pids = {d1}
    None = None
    Hosts = {h1}
    Names = {""}
    Resolutions = {200}
    Kinds = {"systemd"}
    MaxCommands = 2
    MaxFaults = 0
INVARIANT FileStaysLoadable
