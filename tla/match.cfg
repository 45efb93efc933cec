SPECIFICATION FamilySpec
CONSTANTS
    Intents <- AllIntents
    Events <- AllEvents
    MaxOrders = 3
    MaxEvents = 3
    UniqueIds = TRUE
    None = None
INVARIANTS
    TypeInvariant
    ResidualConsistent
    FillsReconcile
    LiquidityConserved
    CausalFills
    SingleShotResolved
    StopTriggerExact
    WorkConserving
PROPERTIES
    SequencePriority
    ImplementsLifecycle
