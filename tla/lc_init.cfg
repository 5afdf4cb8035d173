SPECIFICATION Spec
CONSTANTS
    Calls = {c1, c2}
    Sites <- AllSites
    MaxFaults = 1
    MaxLosses = 2
    MaxStops = 1
INVARIANTS TypeOK ConnectedMeansSet OneCarrier
