SPECIFICATION FairSpec
CONSTANTS
    p1 = p1
    p2 = p2
    p3 = p3
    Pods = {p1, p2}
    Conf <- Mixed
    None = None
    Overlap = TRUE
    MaxFaults = 2
    MaxKills = 1
    MaxTimeouts = 1
    MaxNsLosses = 1
    MaxRestarts = 1
PROPERTY DelTerminates
