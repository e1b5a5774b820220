SPECIFICATION Spec
CONSTANTS
    Width = 320
    Height = 240
    Rects <- MCRects
    MaxClips = 1
    KernelBuffer = TRUE
INVARIANTS
    WindowIsClip
