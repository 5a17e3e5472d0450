SPECIFICATION FairViewSpec
CONSTANTS
    Devices = {d1, d2}
    Channels = {c1}
    Addrs = {a1, a2}
    Leases = {2, 3}
    CheckInterval = 2
    MaxLate = 1
    MaxCatalog = 2
    MaxSignals = 2
    NoChannel = NoChannel
INVARIANTS ViewTypeOK UniqueIds LeaseClock NoStaleDevice NoDuplicateNodes ViewFollowsRegistry
PROPERTIES NoEarlyTimeout LeaseRefinement ViewConverges SilentDeviceHidden
