\* Two pages, a direct download and one restart, and every last flush succeeds.
CONSTANTS
    Requests = {r1, r2}
    Workers = {w1, w2}
    Ids = {i1, i2}
    None = None
    ResultSizes = {0, 2}
    UniqueIds = TRUE
    FlushMayFail = FALSE
    MaxCrashes = 1
    Pages = {r1, r2}
    EagerDownload = TRUE
SPECIFICATION ApiSpec
SYMMETRY Symmetry
INVARIANTS
    ApiTypeOK
    BrowserGetsWholeCSV
    DownloadIsOwn
PROPERTIES
    StatusNeverRegresses
    UnknownIsHandover
