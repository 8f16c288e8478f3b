\* Fairness: a page and another caller, two workers, ids that may collide (or
\* not), a failing disk and one crash.
CONSTANTS
    Requests = {r1, r2}
    Workers = {w1, w2}
    Ids = {i1, i2}
    None = None
    ResultSizes = {1}
    UniqueIds = FALSE
    FlushMayFail = TRUE
    MaxCrashes = 1
    Pages = {r1}
    EagerDownload = FALSE
SPECIFICATION ApiFairSpec
PROPERTIES
    PageFinishes
    Settles
    KeepsPromise
