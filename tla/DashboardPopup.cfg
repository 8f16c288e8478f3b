CONSTANTS
    shop = shop
    ads = ads
    country = country
    brand = brand
    clicks = clicks
    fr = fr
    quoted = quoted
    pair = pair
    Time = time
    NoSchema = NoSchema
    NoDatasource = NoDatasource
    NoDim = NoDim
    NoReport = NoReport
    Datasources <- Both
    Dims <- AllDims
    Mets = {clicks}
    Values <- AllValues
    Schemas <- BothSchemas
    Offered <- Stored
    Boxed <- UpToQuotes
    Links <- SharedLinks
    Pieces <- AtCommas
    MaxPopups = 2
    MaxLoads = 2
    MaxReports = 1
SPECIFICATION Spec
INVARIANTS
    TypeOK
    FiltersWereOffered
    ReportFits
