SPECIFICATION FairSpec
CONSTANTS
    FbIds = {f1, f2}
    Maps = {m1, m2}
    FdLimit = 2
    None = None
PROPERTIES
    EventAnswered
    HangUpExits
    ImplementsService
