\* Two command lines; no empty values.
SPECIFICATION FairSpec
CONSTANTS
    NoFile = NoFile
    Garbled = Garbled
    Hostname = "pc"
    Durations = {"120s"}
    c1 = c1
    c2 = c2
    d1 = d1
    d2 = d2
    h1 = h1
    Commands = {c1, c2}
    Pids = {d1, d2}
    None = None
    Hosts = {h1}
    Names = {"desk"}
    Resolutions = {50}
    Kinds = {"launchd", "systemd", "windows", "pidfile"}
    MaxCommands = 3
    MaxFaults = 1
INVARIANT FileStaysLoadable
INVARIANT PrinterListApplied
INVARIANT StatusFindsDaemon
PROPERTY RestartServes
