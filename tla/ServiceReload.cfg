\* A reload after an edit.
CONSTANTS
    Operators = {o1}
    Pids = {p1}
    NoPid = NoPid
    MaxConfig = 2
    BadConfigs = {}
    SlowTerm = FALSE
    MaxCrashes = 0
SPECIFICATION Spec
SYMMETRY Symmetry
INVARIANT
    ReloadTakesEffect
