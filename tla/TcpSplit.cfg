SPECIFICATION Spec
CONSTANTS
    Sizes = {1, 2, 4}
    MaxSent = 2
    RtpHeader = 1
    BufSize = 5
    MaxSize = 6
    SplitPrefix = TRUE
INVARIANTS PacketsAsSent
CHECK_DEADLOCK FALSE
