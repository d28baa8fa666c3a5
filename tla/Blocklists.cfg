CONSTANTS
    Presets = {p1}
    Urls = {u1, u2}
    Refreshes = {r1}
    MaxEdits = 3
SPECIFICATION Spec
SYMMETRY Symmetry
INVARIANTS
    TypeOK
    OrphansNeedOverlap
    OkMeansEnforced
    RefreshCoversEnabled
