SPECIFICATION FairSpec
CONSTANTS
    PortMuxVsi = 5
    BridgeType = "ovs"
    Calls = {c1}
    Requests <- OnePort
    Serialised = TRUE
    MaxFaults = 1
    MaxStops = 0
PROPERTY RetriedDeleteSucceeds
