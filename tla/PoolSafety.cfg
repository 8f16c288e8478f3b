\* Three calls with distinct ids, two workers, last flushes that succeed, one crash.
CONSTANTS
    Requests = {r1, r2, r3}
    Workers = {w1, w2}
    Ids = {i1, i2, i3}
    None = None
    ResultSizes = {0, 2}
    UniqueIds = TRUE
    FlushMayFail = FALSE
    MaxCrashes = 1
SPECIFICATION Spec
SYMMETRY Symmetry
INVARIANTS
    TypeOK
    NoStrandedRequest
    OneWorkerPerReport
    CompleteMeansWholeCSV
    IInv
PROPERTIES
    TerminalStatusIsFinal
    ImplementsQueue
