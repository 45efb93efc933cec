SPECIFICATION Spec
CONSTANTS
    Variants <- Family
    MaxVariants = 3
    Dataset <- Events
    Unit = 10
    InitialCash = 26
    OrderSize = 2
    FeeRate = 1
    FixedFee = 7
    SlippageRate = 2
    None = None
INVARIANTS
    EveryTrialOnce
    RankingCanonical
    PositionFollowsSignals
    CostsExplainProfit
    DrawdownExact
