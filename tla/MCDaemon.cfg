SPECIFICATION DaemonFairSpec
CONSTANTS
    NConfig = 2
    Boards <- MCBoards
    Rotations = {0, 90, 45}
    NoEvent = NoEvent
INVARIANTS
    TypeOK
    DaemonTypeOK
    LitShowsFrame
    OnIsConfigured
    PreparedIsUp
    EnabledIsPrepared
    BusUsable
    ModeFitsPanel
    DisabledIsDark
    OnIsUp
    FlushedIsShown
PROPERTIES
    ImplementsLight
    EventAnswered
