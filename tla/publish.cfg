SPECIFICATION Spec
CONSTANTS
    Jobs = {first, second, rerun}
    Stamps = {t1, t2}
    Raw = Raw
    Files <- RunFiles
    Manifest = Manifest
    Output = Output
    None = None
INVARIANTS
    TypeInvariant
    PublishedComplete
    OutcomeTruthful
    StagingOwned
PROPERTIES
    PublishedForever
    ImplementsAtomicOutput
