--------------------------- MODULE MCDevicePlugin ---------------------------
(* An instance of DevicePlugin for TLC: a NIC, three APFs, one of them     *)
(* excluded (the one that carries the channel to the IPU).                 *)
EXTENDS DevicePlugin

Netdevs == {"eth0", "d0", "d1", "d2"}
AllApfs == {"d0", "d1", "d2"}
ExcludedDevs == {"d0", "eth0"}
============================================================================
