SPECIFICATION JobsSpec
CONSTANTS
    Skus <- MCSkus
    Unshippable = {2}
    AvailWorkers = {"w0", "w1"}
    None = "none"
    Catalogues <- MCCatalogues
    PageLimit = 2
    Stored <- MCStored
    Files <- MCFiles
    BatchSize = 2
    Requests <- MCRequests
    MaxJobs = 2
    Poisonous = {2}
    RouteClicks = {"c1", "c2", "c3"}
    Enriched = "task"
    Users = {1, 2, 3}
    Combinations <- MCCombinations
    VariantClicks = {"c1", "c2"}
    MaxVariants = 4
    ImportedIn <- MCImported
    PriceRequests <- MCPriceRequests
    NoPrice <- MCNoPrice
    Identifiers <- MCIdentifiers
    NotFound = "none"
    DeactivateConcurrency = 2
    CatalogueVersions <- MCVersions
    CataloguePage = 2
    LongNames = {"h"}
    Refreshers = {"r1", "r2"}
    LabelRequests = {"l1", "l2"}
    Callers <- MCCallers
    TokenLife = 5
    CallTime = 1
    SafetyMargin = 2
    Translators = {"t1", "t2"}
    Interval = 2
    MaxRetries = 2
    MediaSkus <- MCMediaSkus
    MediaRuns = {"m1", "m2"}
    MaxEdits = 2
    ImageEans <- MCImageEans
    ImageChunk = 2
    FactoryAnswers <- MCFactoryAnswers
    FactoryRequests = {"f1", "f2"}
    Addresses <- MCAddresses
    SignUps <- MCSignUps
INVARIANTS
    JobsTypeOK SecondCallersApart PromisedJobsExist ProgressIsTrue MarketAgrees CopiesAreGood
PROPERTIES
    EditsAreKept JobsSettle
CHECK_DEADLOCK FALSE
