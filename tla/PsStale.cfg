SPECIFICATION Spec
CONSTANTS
    Layouts <- MCLayouts
    MaxFrames = 2
    RunOn = FALSE
    HeaderOffsets = {1, 2, 3}
    Mtu = 7
INVARIANTS MiddleOnlyStored
CHECK_DEADLOCK FALSE
