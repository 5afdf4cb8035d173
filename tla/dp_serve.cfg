SPECIFICATION FairSpec
CONSTANTS
    NetDevs <- Netdevs
    Apfs <- AllApfs
    Excluded <- ExcludedDevs
    Pods = {p, q}
    MaxContainers = 2
    MaxFaults = 2
    MaxStops = 2
    MaxRestarts = 2
INVARIANTS TypeOK AdvertisedIsCurrent RegisteredIsReachable PodsDisjoint
PROPERTY ComesToBeAdvertised
CHECK_DEADLOCK FALSE
