SPECIFICATION Spec
CONSTANTS
    Width = 320
    Height = 240
    Rects <- MCRects
    MaxClips = 3
    KernelBuffer = TRUE
INVARIANTS
    TypeOK
    ClipInside
    CoversDamage
    WindowExact
    ReadsInside
    FullRowsExact
PROPERTIES
    EnabledByFullFrame
