SPECIFICATION Spec
CONSTANTS
    Masters <- MCThisMaster
    FrameBytes = 20
    BufChunk = 4
    ParamLens <- MCParamLens
    RamLens <- MCRamLens
INVARIANTS
    ReadsSurvive
