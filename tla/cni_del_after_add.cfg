SPECIFICATION Spec
CONSTANTS
    p1 = p1
    p2 = p2
    p3 = p3
    Pods = {p1, p2}
    Conf <- Handover
    None = None
    Overlap = TRUE
    MaxFaults = 0
    MaxKills = 0
    MaxTimeouts = 0
    MaxNsLosses = 0
    MaxRestarts = 0
INVARIANTS RunningHasPort
