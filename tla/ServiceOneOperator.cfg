\* One command at a time: crashes, early reloads, bad files, slow deaths.
CONSTANTS
    Operators = {o1}
    Pids = {p1, p2, p3}
    NoPid = NoPid
    MaxConfig = 2
    BadConfigs = {2}
    SlowTerm = TRUE
    MaxCrashes = 1
SPECIFICATION Spec
SYMMETRY Symmetry
INVARIANTS
    TypeOK
    ServerIsManaged
    OneLiveServer
