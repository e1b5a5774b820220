SPECIFICATION Spec
CONSTANTS
    Masters <- MCPlainMaster
    FrameBytes = 20
    BufChunk = 4
    ParamLens <- MCParamLens
    RamLens <- MCRamLens
INVARIANTS
    WordOrder
