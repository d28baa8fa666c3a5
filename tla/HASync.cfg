CONSTANTS
    tick = tick
    push = push
    Exchanges = {tick, push}
    Ticker = tick
    Names <- MCDotted
    Editors = {"primary", "secondary"}
    Typed <- MCDottedTyped
    MaxOtherEdits = 1
    MaxOvertakes = 1
SPECIFICATION FairSpec
INVARIANTS
    TypeOK
    SyncedAgreeUnlessConflict
PROPERTIES
    ImportIsAuthoritative
    ImplementsReplica
    Converges
    LeavingStopsImports
