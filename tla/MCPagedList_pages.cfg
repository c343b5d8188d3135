SPECIFICATION Spec
INVARIANTS
    TypeOK
    NoneMissed
    PagesExact
    ShownPage
SYMMETRY Perms
CONSTANTS
    r1 = r1  r2 = r2  r3 = r3  l1 = l1  l2 = l2
    Rows = {r1, r2, r3}
    Platforms = {"BPP", "BAP"}
    Limit = 1
    Batch = 2
    Loads = {l1, l2}
    MaxTurns = 4
    Faults = {"db"}
CHECK_DEADLOCK FALSE
