SPECIFICATION FairSpec
CONSTANTS
    Layouts <- MCLayouts
    MaxFrames = 3
    RunOn = FALSE
    HeaderOffsets = {1, 2, 3}
    Mtu = 7
INVARIANTS  WholePictures WholeAudio
PROPERTIES EveryPictureDecoded
CHECK_DEADLOCK FALSE
