SPECIFICATION Spec
CONSTANTS
    MaxDmaLen = 32
    ChunkArg = 40
    ParamLens <- MCParamLens
    RamLens <- MCRamLens
INVARIANTS
    PixelsComplete
