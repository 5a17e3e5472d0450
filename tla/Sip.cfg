SPECIFICATION FairSipSpec
CONSTANTS
    Devices = {d1, d2}
    Channels = {c1}
    Addrs = {a1}
    Leases = {3}
    CheckInterval = 2
    MaxLate = 0
    MaxCatalog = 1
    MaxSignals = 1
    NoChannel = NoChannel
    ShortIds = {d2}
    NoAddr = NoAddr
    NoExpires = NoExpires
    NoEvent = NoEvent
    MaxLost = 1
PROPERTIES RequestsAnswered RegistryCalls AnswersTakeEffect LiveDeviceKept
