---------------------------- MODULE MCSriovCni ----------------------------
(* Instances of SriovCni for TLC.                                          *)
EXTENDS SriovCni, TLC

CONSTANTS p1, p2, p3

Vf(master, id, dpdk) == [master |-> master, id |-> id, dpdk |-> dpdk]
NetConf(vf, knobs, ipam) ==
    [vf |-> vf, knobs |-> knobs, ipam |-> ipam, vlan |-> 4094, qos |-> 7, proto |-> "802.1ad"]

Vf0 == Vf(<<10, 1>>, 0, FALSE)
DpdkVf == Vf(<<10, 1>>, 1, TRUE)

(* Pods that use one VF, one after the other; the configuration of the     *)
(* third, a priority without a VLAN, does not pass LoadConf.               *)
Handover ==
    (p1 :> NetConf(Vf0, {"spoofchk", "trust"}, TRUE))
    @@ (p2 :> NetConf(Vf0, {"rate", "trust"}, FALSE))
    @@ (p3 :> [NetConf(Vf0, {}, FALSE) EXCEPT !.vlan = 0])

(* The third asks for a MAC address of its own.                            *)
OwnMac ==
    (p1 :> NetConf(Vf0, {"spoofchk", "trust"}, TRUE))
    @@ (p2 :> NetConf(Vf0, {"rate", "trust"}, FALSE))
    @@ (p3 :> NetConf(Vf0, {"mac"}, FALSE))

(* The second pod has a VF with a userspace driver.                        *)
Mixed ==
    (p1 :> NetConf(Vf0, {"trust", "state"}, TRUE))
    @@ (p2 :> NetConf(DpdkVf, {}, TRUE))
============================================================================
