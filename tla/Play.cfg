SPECIFICATION FairSpec
CONSTANTS
    NumWidgets = 2
    MaxPlays = 2
    MaxPictures = 1
    Ports = {1, 2}
INVARIANTS SessionTypeOK ThreadsOutlived PortsFreed PlayFreesOnce
PROPERTIES StoppedStaysDark StopTakesEffect UiReturns
CHECK_DEADLOCK FALSE
