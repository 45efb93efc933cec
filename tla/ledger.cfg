SPECIFICATION Spec
CONSTANTS
    Unit = 1000
    Limit = 10000
    Scales <- PowersOfTen
    Configs <- RunConfigs
    Prices <- FillPrices
    Quantities <- FillQuantities
    MaxFills = 4
INVARIANTS
    BookBalances
    AverageWithinRange
    RefusedForCause
PROPERTIES
    ReductionRealizes
CHECK_DEADLOCK FALSE
