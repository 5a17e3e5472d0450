SPECIFICATION FairSpec
CONSTANTS
    Sizes = {2, 3}
    MaxSent = 2
    RtpHeader = 1
    BufSize = 2
    MaxSize = 3
    SplitPrefix = TRUE
PROPERTIES InputDrained StopEnds
CHECK_DEADLOCK FALSE
