SPECIFICATION Spec
CONSTANTS
    None = None
    Refused = Refused
    Uncaught = Uncaught
    Null = Null
    Malformed = Malformed
    Buy = Buy
    Sell = Sell
    Flat = Flat
    Long = Long
    Market = Market
    Limit = Limit
    Agree = Agree
    Differ = Differ
    Summary = Summary
    Manifest = Manifest
    Partial = Partial
    Other = Other
    Directories <- MisfitDirectories
    Selected <- SelectedCases
    Findings = {Agree, Differ}
CHECK_DEADLOCK FALSE
INVARIANTS
    NeverRaises
