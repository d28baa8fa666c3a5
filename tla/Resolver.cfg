CONSTANTS
    Handlers = {h1, h2}
    Local = {h1}
    QueueCap = 1
    MaxQueries = 2
SPECIFICATION FairSpec
INVARIANTS
    TypeOK
    Conservation
    BlockedOnce
    DecisionSound
PROPERTIES
    EveryRequestAnswered
    FullQueueDrains
