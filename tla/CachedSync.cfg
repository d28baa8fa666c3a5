CONSTANTS
    Threads = {t1, tick}
    Pushers = {tick}
    MaxWrites = 1
SPECIFICATION FairSyncSpec
INVARIANTS
    TypeOK
    StaleNeedsOverlap
    FreshUnlessRaced
    PushCarriesSaves
PROPERTIES
    ReplicaCatchesUp
