SPECIFICATION FairSpec
CONSTANTS
    Sizes = {0, 1, 4, 5, 6}
    MaxSent = 3
    RtpHeader = 1
    BufSize = 5
    MaxSize = 6
    SplitPrefix = FALSE
INVARIANTS StreamConserved CrashOnlyOversize
PROPERTIES PipeRefinement EveryPacketParsed
CHECK_DEADLOCK FALSE
