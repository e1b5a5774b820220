SPECIFICATION Spec
CONSTANTS
    FbIds = {f1, f2}
    Maps = {m1, m2}
    FdLimit = 3
    None = None
INVARIANTS
    LiveListed
