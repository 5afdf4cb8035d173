------------------------------ MODULE SriovCni ------------------------------
(***************************************************************************)
(* The SR-IOV CNI plugin: cmdAdd and cmdDel, the VF operations of package  *)
(* sriov, the PCI allocator and the cached NetConf.                        *)
(*                                                                         *)
(* The container runtime runs one CNI process at a time for a pod sandbox, *)
(* ADD and later DEL until it succeeds, and processes of different pods    *)
(* side by side.  They share the VF, the allocation files, and the bridge  *)
(* ports of the IPU plugin, which is seen here from outside, as the map of *)
(* ports of PortService: it creates or deletes a port or answers with an   *)
(* error, possibly after the client's ten seconds are over, and forgets    *)
(* the ports when it is restarted.                                         *)
(*                                                                         *)
(* A definition whose name ends in Seeded is the one after it with a       *)
(* plausible mistake; no action uses it.  It serves to see that the        *)
(* property it is meant for can fail.                                      *)
(***************************************************************************)
EXTENDS PortMap, Naturals, Sequences

CONSTANTS
    Pods,           \* pod sandboxes; each has a netns, an id, an interface
    Conf,           \* per pod: VF, configured knobs, IPAM, VLAN settings
    None,           \* no owner
    Overlap,        \* TRUE: the next pod of a VF starts before DEL is over
    MaxFaults,      \* bound on failing calls
    MaxKills,       \* bound on killed CNI processes
    MaxTimeouts,    \* bound on RPCs that outlive their client
    MaxNsLosses,    \* bound on namespaces that vanish before DEL
    MaxRestarts     \* bound on restarts of the IPU plugin

(* The VF attributes that NetConf can set, in the order ApplyVFConfig sets *)
(* and ResetVFConfig restores them.                                        *)
ApplyOrder == <<"mac", "rate", "spoofchk", "trust", "state">>
ResetOrder == <<"spoofchk", "mac", "trust", "rate", "state">>
Knobs == {"mac", "rate", "spoofchk", "trust", "state"}

(* A VF: the characters of its PF's name, its index, and whether it is     *)
(* bound to a userspace driver.                                            *)
ASSUME ConfAssumption ==
    /\ {None, "host", "orig"} \cap Pods = {}
    /\ \A p \in Pods : /\ DOMAIN Conf[p] = {"vf", "knobs", "ipam", "vlan", "qos", "proto"}
                       /\ Conf[p].vf.master \in Seq(Nat)
                       /\ Conf[p].vf.id \in Nat
                       /\ Conf[p].knobs \subseteq Knobs
                       /\ {Conf[p].vlan, Conf[p].qos} \subseteq Nat
ASSUME LimitsAssumption ==
    {MaxFaults, MaxKills, MaxTimeouts, MaxNsLosses, MaxRestarts} \subseteq Nat

VARIABLES
    loc,            \* per VF: "host", or the pod whose netns holds it
    name,           \* per VF: its interface name, "host", "temp" or "pod"
    eff,            \* per VF: effective MAC, "orig" or the pod that set it
    knob,           \* per VF and knob: "orig", "conf" or "zero"
    pci,            \* per VF: owner in the allocation file, or None
    cached,         \* pods with a complete cached NetConf
    leased,         \* pods with an address from IPAM
    alive,          \* pods whose network namespace exists
    ports,          \* bridge ports of the IPU plugin: name and MAC
    late,           \* RPCs given up by the client, still to be executed
    pc,             \* per pod: rest state or next step of its CNI process
    netConf,        \* per pod: OrigVfState: host interface and effective MAC
    faults, kills, timeouts, nsLosses, restarts

vfState == <<loc, name, eff, knob>>
disk == <<pci, cached>>
limits == <<faults, kills, timeouts, nsLosses, restarts>>
vars == <<vfState, disk, leased, alive, ports, late, pc, netConf, limits>>

VFs == {Conf[p].vf : p \in Pods}
VfOf(p) == Conf[p].vf

AddSteps == {"apply", "setup", "ipam", "ipamIface", "save", "allocate", "create",
             "print", "undo", "undoRelease", "undoReset"}
DelSteps == {"release", "free", "delete"}
AtRest == {"new", "running", "addErr", "delErr", "gone"}

(* netConf.Master + fmt.Sprint(netConf.VFID).                              *)
Decimal(n) ==
    IF n < 10 THEN <<n>>
    ELSE IF n < 100 THEN <<n \div 10, n % 10>>
    ELSE <<n \div 100, (n \div 10) % 10, n % 10>>
PortName(v) == v.master \o Decimal(v.id)

TypeOK ==
    /\ loc \in [VFs -> {"host"} \cup Pods]
    /\ name \in [VFs -> {"host", "temp", "pod"}]
    /\ eff \in [VFs -> {"orig"} \cup Pods]
    /\ knob \in [VFs -> [Knobs -> {"orig", "conf", "zero"}]]
    /\ pci \in [VFs -> {None} \cup Pods]
    /\ cached \subseteq Pods
    /\ leased \subseteq Pods
    /\ alive \subseteq Pods
    /\ ports \subseteq [name : {PortName(v) : v \in VFs}, mac : {"orig"} \cup Pods]
    /\ late \subseteq [op : {"create", "delete"}, name : {PortName(v) : v \in VFs},
                       mac : {"orig"} \cup Pods]
    /\ pc \in [Pods -> AtRest \cup AddSteps \cup DelSteps]
    /\ netConf \in [Pods -> [hostIf : {"host", "temp", "pod"}, mac : {"orig"} \cup Pods]]
    /\ faults \in 0..MaxFaults
    /\ kills \in 0..MaxKills
    /\ timeouts \in 0..MaxTimeouts
    /\ nsLosses \in 0..MaxNsLosses
    /\ restarts \in 0..MaxRestarts

Init ==
    /\ loc = [v \in VFs |-> "host"]
    /\ name = [v \in VFs |-> "host"]
    /\ eff = [v \in VFs |-> "orig"]
    /\ knob = [v \in VFs |-> [k \in Knobs |-> "orig"]]
    /\ pci = [v \in VFs |-> None]
    /\ cached = {}
    /\ leased = {}
    /\ alive = Pods
    /\ ports = {}
    /\ late = {}
    /\ pc = [p \in Pods |-> "new"]
    /\ netConf = [p \in Pods |-> [hostIf |-> "host", mac |-> "orig"]]
    /\ faults = 0
    /\ kills = 0
    /\ timeouts = 0
    /\ nsLosses = 0
    /\ restarts = 0

-----------------------------------------------------------------------------
Works == UNCHANGED limits
Fails == /\ faults < MaxFaults
         /\ faults' = faults + 1
         /\ UNCHANGED <<kills, timeouts, nsLosses, restarts>>

Goto(p, step) == pc' = [pc EXCEPT ![p] = step]

(* A sequence of calls either runs to its end or stops at one that fails.  *)
Outcome(n, last) == IF n = last THEN Works ELSE Fails

(* The first n of the calls that set the configured knobs of pod p.        *)
Configured(p, order) == SelectSeq(order, LAMBDA k : k \in Conf[p].knobs)
SetKnobs(p, calls, n, value) ==
    knob' = [knob EXCEPT ![VfOf(p)] =
                [k \in Knobs |-> IF \E i \in 1..n : calls[i] = k THEN value ELSE @[k]]]

(* Put the VF's netdevice in the state s = <<location, name, MAC>>.        *)
SetVf(v, s) ==
    /\ loc' = [loc EXCEPT ![v] = s[1]]
    /\ name' = [name EXCEPT ![v] = s[2]]
    /\ eff' = [eff EXCEPT ![v] = s[3]]
VfNow(v) == <<loc[v], name[v], eff[v]>>

(* SetVFEffectiveMAC: tried twenty times until the netdevice shows the new *)
(* address; only when a MAC is configured.                                 *)
SetVFEffectiveMAC(p, mac) == IF "mac" \in Conf[p].knobs THEN mac ELSE eff[VfOf(p)]

(* SetupVF: temporary name, move, pod name, MAC.  The state after each     *)
(* call that changes one.                                                  *)
SetupStages(p) ==
    LET v == VfOf(p)
        mac == SetVFEffectiveMAC(p, p)
    IN  << VfNow(v), <<"host", "temp", eff[v]>>, <<p, "temp", eff[v]>>,
           <<p, "pod", eff[v]>>, <<p, "pod", mac>> >>

(* ReleaseVF: host name, MAC as it was, move back.                         *)
ReleaseStages(p) ==
    LET v == VfOf(p)
        mac == SetVFEffectiveMAC(p, netConf[p].mac)
    IN  << VfNow(v), <<p, netConf[p].hostIf, eff[v]>>, <<p, netConf[p].hostIf, mac>>,
           <<"host", netConf[p].hostIf, mac>> >>
PodLinkPresent(p) == loc[VfOf(p)] = p /\ name[VfOf(p)] = "pod"

(* ResetVFConfig: OrigVfState was never filled in, so a knob is set to the *)
(* zero value of its type; the administrative MAC is the empty string,     *)
(* which SetVFHardwareMAC cannot parse, and the calls stop there.          *)
ResetCalls(p) == Configured(p, ResetOrder)
SetVFHardwareMACFails(call) == call = "mac"
ResetStops(p) == {i \in 1..Len(ResetCalls(p)) : SetVFHardwareMACFails(ResetCalls(p)[i])}

ResetPart(p, n) ==
    /\ n \in 0..Len(ResetCalls(p))
    /\ \A i \in ResetStops(p) : n < i
    /\ SetKnobs(p, ResetCalls(p), n, "zero")

ResetVFConfig(p, n, ok) ==
    /\ ResetPart(p, n)
    /\ \/ ok /\ n = Len(ResetCalls(p)) /\ Works
       \/ ~ok /\ n + 1 \in ResetStops(p) /\ Works
       \/ ~ok /\ (n = 0 \/ n < Len(ResetCalls(p))) /\ Fails

-----------------------------------------------------------------------------
(* cmdAdd                                                                  *)

(* The VF is handed to the next pod once the one before is terminating:    *)
(* its DEL has been called (Overlap) or is over.                           *)
MayStart(p) ==
    /\ pc[p] = "new"
    /\ \A q \in Pods \ {p} :
          VfOf(q) = VfOf(p) =>
              \/ pc[q] \in {"new", "gone"}
              \/ Overlap /\ pc[q] \in DelSteps \cup {"delErr"}

(* LoadConf, getEnvArgs and GetNS.  IsAllocated drops the allocation of a  *)
(* namespace that is gone; a netdevice that is not in the host namespace   *)
(* cannot be found.                                                        *)
IsAllocated(v) == pci[v] # None /\ pci[v] \in alive

(* sysfs: the VF has a netdevice in the host namespace, or its driver is   *)
(* one of the userspace drivers and it has none.                           *)
HasDpdkDriver(v) == v.dpdk
HasVFLinkName(v) == loc[v] = "host" /\ ~HasDpdkDriver(v)

(* The checks of the VLAN settings.                                        *)
ValidVlan(c) ==
    /\ c.vlan \in 0..4094
    /\ c.qos \in 0..7
    /\ c.proto \in {"802.1q", "802.1ad"}
    /\ (c.qos # 0 \/ c.proto = "802.1ad") => c.vlan # 0

LoadConf(p) ==
    LET v == VfOf(p)
        usable == /\ HasVFLinkName(v) \/ HasDpdkDriver(v)
                  /\ ValidVlan(Conf[p])
                  /\ p \in alive
    IN  /\ MayStart(p)
        /\ \/ /\ IsAllocated(v) /\ Works
              /\ Goto(p, "addErr")
              /\ UNCHANGED <<pci, netConf>>
           \/ /\ ~IsAllocated(v) /\ Works
              /\ pci' = [pci EXCEPT ![v] = None]
              /\ Goto(p, IF usable THEN "apply" ELSE "addErr")
              /\ netConf' = [netConf EXCEPT ![p].hostIf = name[v]]
           \/ /\ Fails                   \* before or after IsAllocated
              /\ \/ UNCHANGED pci
                 \/ ~IsAllocated(v) /\ pci' = [pci EXCEPT ![v] = None]
              /\ Goto(p, "addErr")
              /\ UNCHANGED netConf
        /\ UNCHANGED <<vfState, cached, leased, alive, ports, late>>

(* ApplyVFConfig.  Its error is a variable of its own, not the one that    *)
(* the deferred rollback looks at.                                         *)
ApplyVFConfig(p) ==
    LET calls == Configured(p, ApplyOrder)
    IN  /\ pc[p] = "apply"
        /\ \E n \in 0..Len(calls) :
              /\ SetKnobs(p, calls, n, "conf")
              /\ \/ n = Len(calls) /\ Works /\ Goto(p, "setup")
                 \/ (n = 0 \/ n < Len(calls)) /\ Fails /\ Goto(p, "addErr")
        /\ UNCHANGED <<loc, name, eff, disk, leased, alive, ports, late, netConf>>

(* The netdevice is where LoadConf saw it.                                 *)
SetupFinds(p) == loc[VfOf(p)] = "host" /\ name[VfOf(p)] = netConf[p].hostIf

(* SetupVF saves the effective MAC, then moves the netdevice.  A VF with a *)
(* userspace driver has none and keeps an empty effective MAC: it stays on *)
(* the host.                                                               *)
SetupVF(p) ==
    LET v == VfOf(p)
        stages == SetupStages(p)
    IN  /\ pc[p] = "setup"
        /\ \/ /\ HasDpdkDriver(v) /\ Works
              /\ Goto(p, "ipam")
              /\ UNCHANGED <<loc, name, eff, netConf>>
           \/ /\ ~HasDpdkDriver(v) /\ SetupFinds(p)
              /\ netConf' = [netConf EXCEPT ![p].mac = eff[v]]
              /\ \E n \in 1..Len(stages) :
                    /\ SetVf(v, stages[n])
                    /\ \/ n = Len(stages) /\ Works /\ Goto(p, "ipam")
                       \/ Fails /\ Goto(p, "undo")
           \/ /\ ~HasDpdkDriver(v) /\ ~SetupFinds(p) /\ Works
              /\ Goto(p, "undo")
              /\ UNCHANGED <<loc, name, eff, netConf>>
        /\ UNCHANGED <<knob, disk, leased, alive, ports, late>>

(* ipam.ExecAdd, when IPAM is configured.                                  *)
IpamAdd(p) ==
    /\ pc[p] = "ipam"
    /\ \/ ~Conf[p].ipam /\ Works /\ Goto(p, "save") /\ UNCHANGED leased
       \/ Conf[p].ipam /\ Works /\ Goto(p, "ipamIface") /\ leased' = leased \cup {p}
       \/ Conf[p].ipam /\ Fails /\ Goto(p, "undo") /\ UNCHANGED leased
    /\ UNCHANGED <<vfState, disk, alive, ports, late, netConf>>

(* The checks of the IPAM result and ConfigureIface.                       *)
ConfigureIface(p) ==
    /\ pc[p] = "ipamIface"
    /\ \/ Works /\ Goto(p, "save")
       \/ Fails /\ Goto(p, "undo")
    /\ UNCHANGED <<vfState, disk, leased, alive, ports, late, netConf>>

SaveNetConf(p) ==
    /\ pc[p] = "save"
    /\ \/ Works /\ Goto(p, "allocate") /\ cached' = cached \cup {p}
       \/ Fails /\ Goto(p, "undo") /\ UNCHANGED cached
    /\ UNCHANGED <<vfState, pci, leased, alive, ports, late, netConf>>

(* SaveAllocatedPCI, and ParseMAC of the effective MAC, which is empty for *)
(* a VF with a userspace driver.                                           *)
SaveAllocatedPCI(p) ==
    /\ pc[p] = "allocate"
    /\ \/ /\ Works
          /\ pci' = [pci EXCEPT ![VfOf(p)] = p]
          /\ Goto(p, IF HasDpdkDriver(VfOf(p)) THEN "undo" ELSE "create")
       \/ Fails /\ Goto(p, "undo") /\ UNCHANGED pci
    /\ UNCHANGED <<vfState, cached, leased, alive, ports, late, netConf>>

(* The requests to the IPU plugin.  The MAC address is the one the VF had   *)
(* before the pod's own was set.                                           *)
CreateRequestSeeded(p) ==
    [op |-> "create", name |-> VfOf(p).master, mac |-> netConf[p].mac]

CreateRequest(p) ==
    [op |-> "create", name |-> PortName(VfOf(p)), mac |-> netConf[p].mac]
DeleteRequest(p) ==
    [op |-> "delete", name |-> PortName(VfOf(p)), mac |-> netConf[p].mac]

(* The RPC m of pod p: answered, refused, or given up after ten seconds.   *)
(* The server does not look at the context: it may still execute it.       *)
Rpc(p, m, answered, failed) ==
    \/ /\ Works
       /\ ports' = Served(ports, m)
       /\ Goto(p, answered)
       /\ UNCHANGED late
    \/ /\ Fails
       /\ Goto(p, failed)
       /\ UNCHANGED <<ports, late>>
    \/ /\ timeouts < MaxTimeouts
       /\ timeouts' = timeouts + 1
       /\ late' = late \cup {m}
       /\ Goto(p, failed)
       /\ UNCHANGED <<ports, faults, kills, nsLosses, restarts>>

CreateBridgePort(p) ==
    /\ pc[p] = "create"
    /\ Rpc(p, CreateRequest(p), "print", "undo")
    /\ UNCHANGED <<vfState, disk, leased, alive, netConf>>

(* The result goes to the runtime.  An error here is returned directly and *)
(* undoes nothing.                                                         *)
PrintResult(p) ==
    /\ pc[p] = "print"
    /\ \/ Works /\ Goto(p, "running")
       \/ Fails /\ Goto(p, "addErr")
    /\ UNCHANGED <<vfState, disk, leased, alive, ports, late, netConf>>

(* The deferred calls after an error, last one first: ExecDel if ExecAdd   *)
(* had succeeded, ReleaseVF if the pod's interface is there, and           *)
(* ResetVFConfig.  Their errors are ignored.  The cached NetConf and the   *)
(* allocation stay.                                                        *)
UndoIpam(p) ==
    /\ pc[p] = "undo"
    /\ \/ Works /\ leased' = leased \ {p}
       \/ p \in leased /\ Fails /\ UNCHANGED leased
    /\ Goto(p, "undoRelease")
    /\ UNCHANGED <<vfState, disk, alive, ports, late, netConf>>

UndoRelease(p) ==
    /\ pc[p] = "undoRelease"
    /\ IF PodLinkPresent(p)
       THEN \E n \in 1..4 : SetVf(VfOf(p), ReleaseStages(p)[n]) /\ Outcome(n, 4)
       ELSE Works /\ UNCHANGED <<loc, name, eff>>
    /\ Goto(p, "undoReset")
    /\ UNCHANGED <<knob, disk, leased, alive, ports, late, netConf>>

UndoReset(p) ==
    /\ pc[p] = "undoReset"
    /\ \E n \in 0..Len(ResetCalls(p)), ok \in BOOLEAN : ResetVFConfig(p, n, ok)
    /\ Goto(p, "addErr")
    /\ UNCHANGED <<loc, name, eff, disk, leased, alive, ports, late, netConf>>

-----------------------------------------------------------------------------
(* cmdDel.  The cached NetConf is removed on return unless the outer err   *)
(* is set; the errors of GetVfid, ResetVFConfig, GetNS and ReleaseVF are   *)
(* variables of inner blocks.                                              *)
CleanCachedNetConf(p) == cached' = cached \ {p}
Return(p, step) == Goto(p, step) /\ CleanCachedNetConf(p)
ReturnKeep(p, step) == Goto(p, step) /\ UNCHANGED cached

MayDel(p) == pc[p] \in {"running", "addErr", "delErr"}

LoadConfFromCache(p) == p \in cached

(* LoadConfFromCache fails, because the file is not there, or cannot be    *)
(* read or parsed: success, with nothing done and nothing removed.         *)
DelNotCachedSeeded(p) ==
    /\ MayDel(p) /\ ~LoadConfFromCache(p)
    /\ Works
    /\ Goto(p, "delErr")
    /\ UNCHANGED <<vfState, disk, leased, alive, ports, late, netConf>>

DelNotCached(p) ==
    /\ MayDel(p)
    /\ IF LoadConfFromCache(p) THEN Fails ELSE Works
    /\ Goto(p, "gone")
    /\ UNCHANGED <<vfState, disk, leased, alive, ports, late, netConf>>

(* ExecDel, GetVfid and ResetVFConfig.                                     *)
DelCached(p) ==
    /\ MayDel(p) /\ LoadConfFromCache(p)
    /\ \/ /\ Conf[p].ipam /\ Fails                           \* ExecDel
          /\ ReturnKeep(p, "delErr")
          /\ UNCHANGED <<leased, knob>>
       \/ /\ p \notin alive /\ Works                         \* Netns is ""
          /\ Return(p, "gone")
          /\ leased' = leased \ {p}
          /\ UNCHANGED knob
       \/ /\ Fails                                           \* GetVfid
          /\ Return(p, "delErr")
          /\ leased' = leased \ {p}
          /\ UNCHANGED knob
       \/ /\ \E n \in 0..Len(ResetCalls(p)), ok \in BOOLEAN :
                /\ ResetVFConfig(p, n, ok)
                /\ IF ok THEN ReturnKeep(p, "release") ELSE Return(p, "delErr")
          /\ leased' = leased \ {p}
    /\ UNCHANGED <<loc, name, eff, pci, alive, ports, late, netConf>>

CmdDel(p) == DelNotCached(p) \/ DelCached(p)

(* GetNS and ReleaseVF.  DPDKMode is not part of the cached NetConf, so    *)
(* this step is taken for every VF.                                        *)
ReleaseVFSeeded(p) ==
    /\ pc[p] = "release"
    /\ SetVf(VfOf(p), ReleaseStages(p)[4])
    /\ Works
    /\ ReturnKeep(p, "free")
    /\ UNCHANGED <<knob, pci, leased, alive, ports, late, netConf>>

ReleaseVFIgnoredSeeded(p) ==
    /\ pc[p] = "release"
    /\ SetVf(VfOf(p), IF PodLinkPresent(p) THEN ReleaseStages(p)[4] ELSE VfNow(VfOf(p)))
    /\ Works
    /\ ReturnKeep(p, "free")
    /\ UNCHANGED <<knob, pci, leased, alive, ports, late, netConf>>

ReleaseVF(p) ==
    /\ pc[p] = "release"
    /\ \/ /\ p \notin alive /\ Works
          /\ Return(p, "gone")
          /\ UNCHANGED <<loc, name, eff>>
       \/ /\ Fails
          /\ Return(p, "delErr")
          /\ UNCHANGED <<loc, name, eff>>
       \/ /\ p \in alive /\ ~PodLinkPresent(p) /\ Works
          /\ Return(p, "delErr")
          /\ UNCHANGED <<loc, name, eff>>
       \/ /\ p \in alive /\ PodLinkPresent(p)
          /\ \E n \in 1..4 :
                /\ SetVf(VfOf(p), ReleaseStages(p)[n])
                /\ Outcome(n, 4)
                /\ IF n = 4 THEN ReturnKeep(p, "free") ELSE Return(p, "delErr")
    /\ UNCHANGED <<knob, pci, leased, alive, ports, late, netConf>>

DeleteAllocatedPCISeeded(p) ==
    /\ pc[p] = "free"
    /\ Works
    /\ Goto(p, "delete")
    /\ UNCHANGED <<vfState, disk, leased, alive, ports, late, netConf>>

DeleteAllocatedPCI(p) ==
    LET v == VfOf(p)
    IN  /\ pc[p] = "free"
        /\ \/ pci[v] # None /\ Works /\ Goto(p, "delete") /\ pci' = [pci EXCEPT ![v] = None]
           \/ pci[v] = None /\ Works /\ Goto(p, "delErr") /\ UNCHANGED pci
           \/ Fails /\ Goto(p, "delErr") /\ UNCHANGED pci
        /\ UNCHANGED <<vfState, cached, leased, alive, ports, late, netConf>>

DeleteBridgePortSeeded(p) ==
    /\ pc[p] = "delete"
    /\ Rpc(p, DeleteRequest(p), "gone", "delErr")
    /\ SetKnobs(p, ResetCalls(p), Len(ResetCalls(p)), "zero")
    /\ cached' = IF pc'[p] = "gone" THEN cached \ {p} ELSE cached
    /\ UNCHANGED <<loc, name, eff, pci, leased, alive, netConf>>

DeleteBridgePort(p) ==
    /\ pc[p] = "delete"
    /\ Rpc(p, DeleteRequest(p), "gone", "delErr")
    /\ IF pc'[p] = "gone" THEN CleanCachedNetConf(p) ELSE UNCHANGED cached
    /\ UNCHANGED <<vfState, pci, leased, alive, netConf>>

-----------------------------------------------------------------------------
(* The surroundings                                                        *)

(* A request that the client gave up is executed after all, or lost.       *)
LateRpc ==
    \E m \in late :
        /\ late' = late \ {m}
        /\ ports' \in {ports, Served(ports, m)}
        /\ UNCHANGED <<vfState, disk, leased, alive, pc, netConf, limits>>

(* The IPU plugin is restarted: its map of ports is empty, and what it was *)
(* still to execute is lost.                                               *)
PluginRestart ==
    /\ restarts < MaxRestarts
    /\ restarts' = restarts + 1
    /\ ports' = {}
    /\ late' = {}
    /\ UNCHANGED <<vfState, disk, leased, alive, pc, netConf>>
    /\ UNCHANGED <<faults, kills, timeouts, nsLosses>>

(* What a CNI process that is killed has done of its step.  Nothing, when  *)
(* it dies between two steps or as it starts.                              *)
CutBetween(p) ==
    /\ pc[p] # "gone" /\ (pc[p] = "new" => MayStart(p))
    /\ UNCHANGED <<vfState, leased, ports, late, timeouts>>

(* Some of the calls that set or reset the knobs; cmdDel has called        *)
(* ExecDel before.                                                         *)
CutInKnobs(p) ==
    LET calls == Configured(p, ApplyOrder)
    IN  /\ \/ /\ pc[p] = "apply"
              /\ \E n \in 0..Len(calls) : SetKnobs(p, calls, n, "conf")
              /\ UNCHANGED leased
           \/ /\ pc[p] = "undoReset"
              /\ \E n \in 0..Len(ResetCalls(p)) : ResetPart(p, n)
              /\ UNCHANGED leased
           \/ /\ MayDel(p) /\ LoadConfFromCache(p)
              /\ \E n \in 0..Len(ResetCalls(p)) : ResetPart(p, n)
              /\ leased' = leased \ {p}
        /\ UNCHANGED <<loc, name, eff, ports, late, timeouts>>

(* Some of the calls that move the netdevice.                              *)
CutInMove(p) ==
    LET v == VfOf(p)
        entering == pc[p] = "setup" /\ ~HasDpdkDriver(v) /\ SetupFinds(p)
        leaving == pc[p] \in {"undoRelease", "release"} /\ p \in alive /\ PodLinkPresent(p)
    IN  /\ \/ entering /\ \E n \in 1..Len(SetupStages(p)) : SetVf(v, SetupStages(p)[n])
           \/ leaving /\ \E n \in 1..4 : SetVf(v, ReleaseStages(p)[n])
        /\ UNCHANGED <<knob, leased, ports, late, timeouts>>

(* The request to the IPU plugin, which was executed or outlives it.       *)
CutInRpc(p) ==
    LET m == IF pc[p] = "create" THEN CreateRequest(p) ELSE DeleteRequest(p)
    IN  /\ pc[p] \in {"create", "delete"}
        /\ \/ ports' = Served(ports, m) /\ UNCHANGED <<late, timeouts>>
           \/ /\ timeouts < MaxTimeouts
              /\ timeouts' = timeouts + 1
              /\ late' = late \cup {m}
              /\ UNCHANGED ports
        /\ UNCHANGED <<vfState, leased>>

(* The runtime kills a CNI process, or log.Fatalf ends it when grpc.Dial   *)
(* refuses the address: nothing deferred runs.                             *)
Kill(p) ==
    /\ kills < MaxKills
    /\ kills' = kills + 1
    /\ CutBetween(p) \/ CutInKnobs(p) \/ CutInMove(p) \/ CutInRpc(p)
    /\ Goto(p, IF pc[p] \in AddSteps \cup {"new"} THEN "addErr" ELSE "delErr")
    /\ UNCHANGED <<disk, alive, netConf, faults, nsLosses, restarts>>

(* The namespace of a pod goes away between two CNI calls, after DEL or    *)
(* (a node restart) before; the kernel moves its netdevices to the host    *)
(* namespace under the name they have.                                     *)
DestroyNs(p) ==
    /\ p \in alive
    /\ \/ pc[p] = "gone" /\ Works
       \/ /\ pc[p] \in {"running", "addErr", "delErr"}
          /\ nsLosses < MaxNsLosses
          /\ nsLosses' = nsLosses + 1
          /\ UNCHANGED <<faults, kills, timeouts, restarts>>
    /\ alive' = alive \ {p}
    /\ loc' = [v \in VFs |-> IF loc[v] = p THEN "host" ELSE loc[v]]
    /\ UNCHANGED <<name, eff, knob, disk, leased, ports, late, pc, netConf>>

CniStep(p) ==
    \/ ApplyVFConfig(p) \/ SetupVF(p) \/ IpamAdd(p) \/ ConfigureIface(p)
    \/ SaveNetConf(p) \/ SaveAllocatedPCI(p) \/ CreateBridgePort(p) \/ PrintResult(p)
    \/ UndoIpam(p) \/ UndoRelease(p) \/ UndoReset(p)
    \/ ReleaseVF(p) \/ DeleteAllocatedPCI(p) \/ DeleteBridgePort(p)

(* Every pod has come and gone, and so has its namespace.                  *)
Finished ==
    /\ \A p \in Pods : pc[p] = "gone" /\ p \notin alive
    /\ late = {}
    /\ UNCHANGED vars

Next ==
    \/ \E p \in Pods : LoadConf(p) \/ CmdDel(p) \/ CniStep(p) \/ Kill(p) \/ DestroyNs(p)
    \/ LateRpc
    \/ PluginRestart
    \/ Finished

Spec == Init /\ [][Next]_vars

(* A CNI process runs to its end, and the runtime calls DEL after a failed *)
(* ADD and after a failed DEL.                                             *)
Fairness ==
    \A p \in Pods : /\ WF_vars(CniStep(p))
                   /\ WF_vars(pc[p] # "running" /\ CmdDel(p))
FairSpec == Spec /\ Fairness

-----------------------------------------------------------------------------
(* Properties                                                              *)

(* A pod whose ADD succeeded and whose DEL has not been called.            *)
Running(p) == pc[p] = "running" /\ p \in alive
HasPort(v) == \E x \in ports : x.name = PortName(v)
Calm == limits = <<0, 0, 0, 0, 0>>

(* A running pod keeps what cmdAdd gave it, whatever other CNI processes   *)
(* do, fail to do or repeat: the VF in its namespace under the pod's       *)
(* interface name, its cached NetConf, and its IPAM lease.  A late cmdDel  *)
(* of the VF's former pod runs ReleaseVF on the same VF and must not reach *)
(* it.                                                                     *)
RunningKeepsVf ==
    \A p \in Pods :
        Running(p) =>
            /\ PodLinkPresent(p)
            /\ p \in cached
            /\ Conf[p].ipam => p \in leased

(* "The function will return an error if the pci is still allocated to a   *)
(* running pod": IsAllocated holds for the VF of every running pod.        *)
RunningIsAllocated == \A p \in Pods : Running(p) => IsAllocated(VfOf(p))

(* The late cmdDel of a VF's former pod does not free what the new pod has *)
(* allocated: it frees only after it has itself taken the VF back.  One    *)
(* failing call does not break this, nor do requests given up, lost        *)
(* namespaces or restarts; an ADD killed before SaveAllocatedPCI does, and *)
(* so does one whose SaveAllocatedPCI and ReleaseVF both fail.             *)
AllocationOutlivesDel == (kills = 0 /\ faults <= 1) => RunningIsAllocated

(* A running pod has its bridge port at the IPU plugin.  LoadConf's check  *)
(* of the PCI allocation is there to keep the cmdDel of the old pod from   *)
(* being called after the cmdAdd of the new one.                           *)
RunningHasPort == \A p \in Pods : Running(p) => HasPort(VfOf(p))

(* When every call worked, a successful cmdDel leaves nothing of the pod:  *)
(* no lease, no cached NetConf, no allocation, the VF back on the host     *)
(* under its own name and MAC, and no bridge port unless the VF has a new  *)
(* user.                                                                   *)
DelLeavesNothing ==
    \A p \in Pods :
        (Calm /\ pc[p] = "gone") =>
            /\ p \notin leased \cup cached
            /\ pci[VfOf(p)] # p
            /\ loc[VfOf(p)] # p
            /\ (\A q \in Pods : VfOf(q) = VfOf(p) => pc[q] \in {"new", "gone"}) =>
                  VfNow(VfOf(p)) = <<"host", "host", "orig">> /\ ~HasPort(VfOf(p))

(* When every call worked, cmdDel of one pod never touches the VF of       *)
(* another one that runs: the VF is administratively reset and taken from  *)
(* the old namespace before its PCI address is released.                   *)
DelKeepsOff ==
    [][\A p, q \in Pods :
          (/\ Calm' /\ p # q
           /\ Running(q) /\ pc[p] \in DelSteps \cup {"delErr"} /\ pc[p] # pc'[p])
              => UNCHANGED <<loc[VfOf(q)], name[VfOf(q)], eff[VfOf(q)], knob[VfOf(q)]>>]_vars

(* DEL, repeated after an error, succeeds in the end: the comment in       *)
(* cmdDel fears that "subsequence calls of cmdDel() from kubelet fail in a *)
(* dead loop".                                                             *)
DelTerminates ==
    \A p \in Pods : (pc[p] \in DelSteps \cup {"delErr", "addErr"}) ~> (pc[p] = "gone")

(* A bridge port whose deletion cmdDel has come to is gone in the end:     *)
(* after a failure "CNI Agent [...] will repeatedly call DeleteBridgePort  *)
(* as retry", says the IPU plugin.                                         *)
DeleteIsRepeated ==
    \A p \in Pods : (pc[p] = "delete") ~> ~HasPort(VfOf(p))

(* "ResetVFConfig reset a VF to its original state": when every call       *)
(* worked, the netdevice of a VF whose pods are all gone is back on the    *)
(* host, under its own name and with its own MAC address.                  *)
DelRestoresVf ==
    \A v \in VFs :
        (Calm /\ \A p \in Pods : VfOf(p) = v => pc[p] \in {"new", "gone"}) =>
            VfNow(v) = <<"host", "host", "orig">>

(* An ADD that failed before the NetConf was cached leaves no configured   *)
(* attribute on the VF, as the comment on the deferred ResetVFConfig says: *)
(* "Reset the VF if failure occurs before the netconf is cached".          *)
FailedAddIsReset ==
    \A p \in Pods :
        (pc[p] = "addErr" /\ p \notin cached) =>
            \A k \in Knobs : knob[VfOf(p)][k] # "conf"
=============================================================================
