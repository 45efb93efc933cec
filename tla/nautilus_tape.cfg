SPECIFICATION Spec
CONSTANTS
    Digits = 1
    PricePrecision = 1
    SizePrecision = 0
    CurrencyPrecision = 0
    ContractSizePrecision = 0
    None = None
    Jobs <- Sessions
    Reports <- NativeReports
    OracleFills <- OraclesFills
    MaxReports = 2
    MaxFills = 2
CHECK_DEADLOCK FALSE
INVARIANT
    SameTape
