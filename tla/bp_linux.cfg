SPECIFICATION Spec
CONSTANTS
    PortMuxVsi = 5
    BridgeType = "linux"
    Calls = {c1, c2}
    Requests <- TwoPorts
    Serialised = TRUE
    MaxFaults = 1
    MaxStops = 1
SYMMETRY CallSymmetry
INVARIANTS TypeOK PortHasLink StoredIsConnected NoLeakAtRest OneFaultOneRule
PROPERTIES ErrorsAreFresh ServesPorts
