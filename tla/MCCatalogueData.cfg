SPECIFICATION DataSpec
CHECK_DEADLOCK FALSE
CONSTANTS
    Sheets <- MCSheets
    ImportRuns <- MCImportRuns
    ImportBatch = 2
    ApiPages <- MCApiPages
    ApiPageSize = 2
    MaxBusy = 1
    Rebuilds <- MCRebuilds
    Tokens <- MCTokens
    CommonAbove = 3
    Minimum = 186
    CachedEans = {"e1"}
    Absent = "none"
    Submissions <- MCSubmissions
    FactoryTable <- MCFactoryTable
    FactoryItems <- MCFactoryItems
    Profiles <- MCProfiles
    Normal <- MCNormal
    Themes <- MCThemes
    AttributeRows <- MCAttributeRows
    Own <- MCOwn
    Taken = {"taken"}
    Updates <- MCUpdates
    MaxRows = 5
    Exports <- MCExports
    PoolEans <- MCPool
    StoredEans = {"e4"}
    NoValue = "none"
    SourceEans <- MCSourceEans
    Malformed = {2}
    MapSlots = 2
    NormalizeSlots = 1
    Contents <- MCContents
    GeneratedAttrs <- MCGeneratedAttrs
    Unknown = "none"
    BatchSkus <- MCBatchSkus
    CreateBatch = 2
    MaxPolls = 2
    Listings <- MCListings
    Languages <- MCLanguages
    InstrPage = 2
    InstrBatch = 1
    InstrRetries = 1
    InstrPolls = 2
    ScanLimit = 3
    MaxSellerEdits = 1
INVARIANTS
    DataTypeOK ClonesAreRight ReportsAreTrue
PROPERTIES
    SheetsAreTrue VariantsAreRight PreparationIsWhole DataSettles
