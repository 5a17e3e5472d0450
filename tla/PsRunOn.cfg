SPECIFICATION Spec
CONSTANTS
    Layouts <- MCLayouts
    MaxFrames = 2
    RunOn = TRUE
    HeaderOffsets = {1, 2, 3}
    Mtu = 7
INVARIANTS WholePictures
CHECK_DEADLOCK FALSE
