SPECIFICATION UdpSpec
CONSTANTS
    Layouts <- Pictures
    MaxFrames = 3
    RunOn = FALSE
    HeaderOffsets = {1}
    Mtu = 4
    SeqModulus = 14
    FirstSeq = 11
    Window = 2
    MaxDup = 1
INVARIANTS UdpTypeOK AcceptedOnce Healed
CHECK_DEADLOCK FALSE
