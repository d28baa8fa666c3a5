CONSTANTS
    Nodes = {n1, n2}
    Ids = {i1}
    Workers = {w1}
    Probes = {ticker, button}
    None = None
SPECIFICATION FairSpec
PROPERTIES
    PendingGetsPaired
    WrongHealthPasses
