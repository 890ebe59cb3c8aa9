\* Two sessions that save in the same second, every failure the code handles
\* but a failing reservation, and a crash.
SPECIFICATION Spec
CONSTANTS
    Sessions = {a, b}
    Stems = {now}
    MaxSaves = 3
    None = None
    Empty = Empty
    Partial = Partial
    Faults = {"build", "disk", "crash"}
PROPERTY NoClobber
INVARIANT NoOrphanPlaceholder
PROPERTY FolderIsAtomic
