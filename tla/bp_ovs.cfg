SPECIFICATION Spec
CONSTANTS
    PortMuxVsi = 5
    BridgeType = "ovs"
    Calls = {c1, c2}
    Requests <- DisjointRequests
    Serialised = TRUE
    MaxFaults = 1
    MaxStops = 1
SYMMETRY CallSymmetry
INVARIANTS PortHasLink StoredIsConnected NoLeakAtRest
