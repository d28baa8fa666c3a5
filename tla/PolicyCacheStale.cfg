CONSTANTS
    Threads = {t1, t2}
    MaxWrites = 1
SPECIFICATION Spec
INVARIANTS
    ReadsSeeCompletedWrites
