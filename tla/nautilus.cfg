SPECIFICATION Spec
CONSTANTS
    Digits = 1
    PricePrecision = 1
    SizePrecision = 0
    CurrencyPrecision = 0
    ContractSizePrecision = 0
    None = None
    Jobs <- AllJobs
    Reports <- NativeReports
    OracleFills <- OraclesFills
    MaxReports = 3
    MaxFills = 2
CHECK_DEADLOCK FALSE
INVARIANTS
    EngineFollowsRequest
    DifferencesAccount
    DecodedWhole
    TranslationExact
