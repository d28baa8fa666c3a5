CONSTANTS
    Presets = {p1}
    Urls = {u1}
    Refreshes = {r1}
    MaxEdits = 2
SPECIFICATION Spec
INVARIANTS
    EnforcedAreEnabled
