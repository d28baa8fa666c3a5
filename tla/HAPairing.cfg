CONSTANTS
    Nodes = {n1, n2}
    Ids = {i1, i2, i3}
    Workers = {w1, w2}
    Probes = {}
    None = None
SPECIFICATION Spec
SYMMETRY Symmetry
INVARIANTS
    TypeOK
    AcceptedWerePaired
    AnswersKeptUnlessOverlap
