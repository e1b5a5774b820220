SPECIFICATION Spec
CONSTANTS
    FbIds = {f1, f2, f3}
    Maps = {m1, m2, m3}
    FdLimit = 3
    None = None
SYMMETRY Symmetry
INVARIANTS
    TypeOK
    ListedMapped
    ListedExists
    Handshake
PROPERTIES
    FlushOwn
