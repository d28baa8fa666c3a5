CONSTANTS
    tick = tick
    push = push
    Exchanges = {tick}
    Ticker = tick
    Names <- MCNames
    Editors = {"primary"}
    Typed <- MCTyped
    MaxOtherEdits = 0
    MaxOvertakes = 0
SPECIFICATION Spec
INVARIANTS
    SyncedNodesAgree
