SPECIFICATION FairCallSpec
CONSTANTS
    Devices = {d1}
    Channels = {c1}
    Addrs = {a1, a2}
    Leases = {3}
    CheckInterval = 2
    MaxLate = 0
    MaxCatalog = 1
    MaxSignals = 1
    NoChannel = NoChannel
    ShortIds = {}
    NoAddr = NoAddr
    NoExpires = NoExpires
    NoEvent = NoEvent
    MaxLost = 0
    MaxWaiting = 1
INVARIANTS AddressKnown
PROPERTIES CallsSettle QueryFillsRegistry
