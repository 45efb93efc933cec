SPECIFICATION Spec
CONSTANTS
    Intents <- ReplayIntents
    Events <- ReplayEvents
    MaxOrders = 2
    MaxEvents = 2
    UniqueIds = TRUE
    None = None
    Unit = 1000
    Limit = 10000
    Scales <- PowersOfTen
    Configs <- LiquidatingRun
INVARIANTS
    LiquidatesAtLastTradePrice
