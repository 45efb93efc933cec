SPECIFICATION Spec
CONSTANTS
    Intents <- ReplayIntents
    Events <- ReplayEvents
    MaxOrders = 3
    MaxEvents = 4
    UniqueIds = TRUE
    None = None
    Unit = 1000
    Limit = 10000
    Scales <- PowersOfTen
    Configs <- RunConfigs
INVARIANTS
    PositionReconciles
    FillStreamMonotonic
    LiquidatedEquity
