SPECIFICATION FairSpec
CONSTANTS
    Masters <- MCMasters
    FrameBytes = 20
    BufChunk = 4
    ParamLens <- MCParamLens
    RamLens <- MCRamLens
INVARIANTS
    TypeOK
    InPlace
    FaultIsLocal
    SwappedOrder
    WorkBufFits
PROPERTIES
    ImplementsBus
    Returns
