\* One page against the two maps: the handover shows as unknown.
CONSTANTS
    Requests = {r1}
    Workers = {w1, w2}
    Ids = {i1}
    None = None
    ResultSizes = {0, 1}
    UniqueIds = TRUE
    FlushMayFail = FALSE
    MaxCrashes = 0
    Pages = {r1}
    EagerDownload = FALSE
SPECIFICATION ApiSpec
INVARIANT
    StatusIsDocumented
