--------------------------- MODULE SriovCniProofs ---------------------------
(***************************************************************************)
(* Theorems about SriovCni, for any set of pods and VFs, any configuration *)
(* and any number of failures, kills and lost namespaces.                  *)
(***************************************************************************)
EXTENDS SriovCni, TLAPS

Places == {"host"} \cup Pods
LinkNames == {"host", "temp", "pod"}
Macs == {"orig"} \cup Pods

(* A step of one pod's CNI process, or of the runtime upon it.             *)
PodStep(p) == LoadConf(p) \/ CmdDel(p) \/ CniStep(p) \/ Kill(p) \/ DestroyNs(p)

-----------------------------------------------------------------------------
(* Types                                                                   *)

LEMMA VfIsVF == \A p \in Pods : VfOf(p) \in VFs
BY DEF VfOf, VFs

LEMMA LimitsType ==
    ASSUME TypeOK, Works \/ Fails
    PROVE  /\ faults' \in 0..MaxFaults
           /\ kills' \in 0..MaxKills
           /\ timeouts' \in 0..MaxTimeouts
           /\ nsLosses' \in 0..MaxNsLosses
           /\ restarts' \in 0..MaxRestarts
<1>1. MaxFaults \in Nat
  BY LimitsAssumption
<1> QED
  BY <1>1 DEF TypeOK, Works, Fails, limits

(* Putting a netdevice somewhere.                                          *)
LEMMA SetVfType ==
    ASSUME TypeOK, NEW v \in VFs, NEW s \in Places \X LinkNames \X Macs, SetVf(v, s)
    PROVE  /\ loc' \in [VFs -> Places]
           /\ name' \in [VFs -> LinkNames]
           /\ eff' \in [VFs -> Macs]
           /\ loc'[v] = s[1] /\ name'[v] = s[2] /\ eff'[v] = s[3]
           /\ \A w \in VFs \ {v} : loc'[w] = loc[w] /\ name'[w] = name[w] /\ eff'[w] = eff[w]
BY DEF TypeOK, SetVf, Places, LinkNames, Macs

LEMMA SetupStagesType ==
    ASSUME TypeOK, NEW p \in Pods, NEW n \in 1..Len(SetupStages(p))
    PROVE  SetupStages(p)[n] \in Places \X LinkNames \X Macs
<1>1. VfOf(p) \in VFs
  BY VfIsVF
<1>2. eff[VfOf(p)] \in Macs /\ SetVFEffectiveMAC(p, p) \in Macs
  BY <1>1 DEF TypeOK, SetVFEffectiveMAC, Macs
<1>3. VfNow(VfOf(p)) \in Places \X LinkNames \X Macs
  BY <1>1 DEF TypeOK, VfNow, Places, LinkNames, Macs
<1>4. n \in 1..5
  BY DEF SetupStages
<1> QED
  BY <1>2, <1>3, <1>4 DEF SetupStages, Places, LinkNames

LEMMA ReleaseStagesType ==
    ASSUME TypeOK, NEW p \in Pods, NEW n \in 1..4
    PROVE  ReleaseStages(p)[n] \in Places \X LinkNames \X Macs
<1>1. VfOf(p) \in VFs
  BY VfIsVF
<1>2. /\ eff[VfOf(p)] \in Macs
      /\ SetVFEffectiveMAC(p, netConf[p].mac) \in Macs
      /\ netConf[p].hostIf \in LinkNames
  BY <1>1 DEF TypeOK, SetVFEffectiveMAC, Macs, LinkNames
<1>3. VfNow(VfOf(p)) \in Places \X LinkNames \X Macs
  BY <1>1 DEF TypeOK, VfNow, Places, LinkNames, Macs
<1> QED
  BY <1>2, <1>3 DEF ReleaseStages, Places

LEMMA KnobsType ==
    ASSUME TypeOK, NEW p \in Pods, NEW calls, NEW n, NEW value \in {"conf", "zero"},
           SetKnobs(p, calls, n, value)
    PROVE  knob' \in [VFs -> [Knobs -> {"orig", "conf", "zero"}]]
<1>1. VfOf(p) \in VFs
  BY VfIsVF
<1>2. [k \in Knobs |-> IF \E i \in 1..n : calls[i] = k THEN value ELSE knob[VfOf(p)][k]]
        \in [Knobs -> {"orig", "conf", "zero"}]
  BY <1>1 DEF TypeOK
<1> QED
  BY <1>1, <1>2 DEF TypeOK, SetKnobs

LEMMA TypeInit == Init => TypeOK
<1> SUFFICES ASSUME Init PROVE TypeOK
  OBVIOUS
<1>1. {MaxFaults, MaxKills, MaxTimeouts, MaxNsLosses, MaxRestarts} \subseteq Nat
  BY LimitsAssumption
<1>2. /\ faults \in 0..MaxFaults /\ kills \in 0..MaxKills /\ timeouts \in 0..MaxTimeouts
      /\ nsLosses \in 0..MaxNsLosses /\ restarts \in 0..MaxRestarts
  BY <1>1 DEF Init
<1> QED
  BY <1>2 DEF Init, TypeOK, AtRest

(* cmdAdd up to its end or to the deferred calls.                          *)
LEMMA AddTypes ==
    ASSUME TypeOK, NEW p \in Pods,
           \/ LoadConf(p) \/ ApplyVFConfig(p) \/ SetupVF(p) \/ IpamAdd(p) \/ ConfigureIface(p)
           \/ SaveNetConf(p) \/ SaveAllocatedPCI(p) \/ PrintResult(p)
    PROVE  TypeOK'
<1> DEFINE v == VfOf(p)
<1>1. v \in VFs
  BY VfIsVF
<1> USE DEF vfState, disk, Goto, AddSteps, DelSteps, AtRest
<1>2. CASE LoadConf(p)
  <2>1. Works \/ Fails
    BY <1>2 DEF LoadConf
  <2>2. pci' \in [VFs -> {None} \cup Pods]
    BY <1>1, <1>2 DEF LoadConf, TypeOK
  <2>3. netConf' \in [Pods -> [hostIf : LinkNames, mac : Macs]]
    <3>1. netConf \in [Pods -> [hostIf : LinkNames, mac : Macs]] /\ name[v] \in LinkNames
      BY <1>1 DEF TypeOK, LinkNames, Macs
    <3>2. netConf' = netConf \/ netConf' = [netConf EXCEPT ![p].hostIf = name[v]]
      BY <1>2 DEF LoadConf
    <3> QED
      BY <3>1, <3>2
  <2>4. pc' \in [Pods -> AtRest \cup AddSteps \cup DelSteps]
    BY <1>2 DEF LoadConf, TypeOK
  <2> QED
    BY <1>2, <2>1, <2>2, <2>3, <2>4, LimitsType DEF LoadConf, TypeOK, LinkNames, Macs
<1>3. CASE ApplyVFConfig(p)
  <2>1. knob' \in [VFs -> [Knobs -> {"orig", "conf", "zero"}]]
    BY <1>3, KnobsType DEF ApplyVFConfig
  <2>2. Works \/ Fails
    BY <1>3 DEF ApplyVFConfig
  <2>3. pc' \in [Pods -> AtRest \cup AddSteps \cup DelSteps]
    BY <1>3 DEF ApplyVFConfig, TypeOK
  <2>4. UNCHANGED <<loc, name, eff, disk, leased, alive, ports, late, netConf>>
    BY <1>3 DEF ApplyVFConfig
  <2> QED
    BY <2>1, <2>2, <2>3, <2>4, LimitsType DEF TypeOK
<1>4. CASE SetupVF(p)
  <2>1. Works \/ Fails
    BY <1>4 DEF SetupVF
  <2>2. loc' \in [VFs -> Places] /\ name' \in [VFs -> LinkNames] /\ eff' \in [VFs -> Macs]
    <3>1. CASE UNCHANGED <<loc, name, eff>>
      BY <3>1 DEF TypeOK, Places, LinkNames, Macs
    <3>2. CASE \E n \in 1..Len(SetupStages(p)) : SetVf(v, SetupStages(p)[n])
      BY <1>1, <3>2, SetVfType, SetupStagesType
    <3> QED
      BY <1>4, <3>1, <3>2 DEF SetupVF
  <2>3. netConf' \in [Pods -> [hostIf : LinkNames, mac : Macs]]
    BY <1>1, <1>4 DEF SetupVF, TypeOK, LinkNames, Macs
  <2>4. pc' \in [Pods -> AtRest \cup AddSteps \cup DelSteps]
    BY <1>4 DEF SetupVF, TypeOK
  <2>5. UNCHANGED <<knob, disk, leased, alive, ports, late>>
    BY <1>4 DEF SetupVF
  <2> QED
    BY <2>1, <2>2, <2>3, <2>4, <2>5, LimitsType DEF TypeOK, Places, LinkNames, Macs
<1>5. CASE IpamAdd(p) \/ ConfigureIface(p) \/ PrintResult(p)
  <2>1. Works \/ Fails
    BY <1>5 DEF IpamAdd, ConfigureIface, PrintResult
  <2> QED
    BY <1>5, <2>1, LimitsType DEF IpamAdd, ConfigureIface, PrintResult, TypeOK
<1>6. CASE SaveNetConf(p)
  BY <1>6, LimitsType DEF SaveNetConf, TypeOK
<1>7. CASE SaveAllocatedPCI(p)
  BY <1>1, <1>7, LimitsType DEF SaveAllocatedPCI, TypeOK
<1> QED
  BY <1>2, <1>3, <1>4, <1>5, <1>6, <1>7

(* The deferred calls of cmdAdd.                                           *)
LEMMA UndoTypes ==
    ASSUME TypeOK, NEW p \in Pods, UndoIpam(p) \/ UndoRelease(p) \/ UndoReset(p)
    PROVE  TypeOK'
<1>1. VfOf(p) \in VFs
  BY VfIsVF
<1> USE DEF vfState, disk, Goto, AddSteps, DelSteps, AtRest
<1>2. CASE UndoIpam(p)
  BY <1>2, LimitsType DEF UndoIpam, TypeOK
<1>3. CASE UndoRelease(p)
  <2>1. loc' \in [VFs -> Places] /\ name' \in [VFs -> LinkNames] /\ eff' \in [VFs -> Macs]
    <3>1. CASE UNCHANGED <<loc, name, eff>>
      BY <3>1 DEF TypeOK, Places, LinkNames, Macs
    <3>2. CASE \E n \in 1..4 : SetVf(VfOf(p), ReleaseStages(p)[n])
      BY <1>1, <3>2, SetVfType, ReleaseStagesType
    <3> QED
      BY <1>3, <3>1, <3>2 DEF UndoRelease
  <2>2. Works \/ Fails
    BY <1>3 DEF UndoRelease, Outcome
  <2>3. UNCHANGED <<knob, disk, leased, alive, ports, late, netConf>>
    BY <1>3 DEF UndoRelease
  <2>4. pc' \in [Pods -> AtRest \cup AddSteps \cup DelSteps]
    BY <1>3 DEF UndoRelease, TypeOK
  <2> QED
    BY <2>1, <2>2, <2>3, <2>4, LimitsType DEF TypeOK, Places, LinkNames, Macs
<1>4. CASE UndoReset(p)
  <2>1. knob' \in [VFs -> [Knobs -> {"orig", "conf", "zero"}]]
    BY <1>4, KnobsType DEF UndoReset, ResetVFConfig, ResetPart
  <2>2. Works \/ Fails
    BY <1>4 DEF UndoReset, ResetVFConfig
  <2> QED
    BY <1>4, <2>1, <2>2, LimitsType DEF UndoReset, TypeOK
<1> QED
  BY <1>2, <1>3, <1>4

(* cmdDel without its request.                                             *)
LEMMA DelTypes ==
    ASSUME TypeOK, NEW p \in Pods, CmdDel(p) \/ ReleaseVF(p) \/ DeleteAllocatedPCI(p)
    PROVE  TypeOK'
<1>1. VfOf(p) \in VFs
  BY VfIsVF
<1> USE DEF vfState, disk, Goto, AddSteps, DelSteps, AtRest,
            CleanCachedNetConf, Return, ReturnKeep
<1>2. CASE DelNotCached(p)
  BY <1>2, LimitsType DEF DelNotCached, TypeOK
<1>3. CASE DelCached(p)
  <2>1. knob' \in [VFs -> [Knobs -> {"orig", "conf", "zero"}]]
    <3>1. CASE UNCHANGED knob
      BY <3>1 DEF TypeOK
    <3>2. CASE \E n : SetKnobs(p, ResetCalls(p), n, "zero")
      BY <3>2, KnobsType
    <3> QED
      BY <1>3, <3>1, <3>2 DEF DelCached, ResetVFConfig, ResetPart
  <2>2. Works \/ Fails
    BY <1>3 DEF DelCached, ResetVFConfig
  <2>3. UNCHANGED <<loc, name, eff, pci, alive, ports, late, netConf>>
    BY <1>3 DEF DelCached
  <2>4. /\ pc' \in [Pods -> AtRest \cup AddSteps \cup DelSteps]
        /\ cached' \subseteq Pods
        /\ leased' \subseteq Pods
    BY <1>3 DEF DelCached, TypeOK
  <2> QED
    BY <2>1, <2>2, <2>3, <2>4, LimitsType DEF TypeOK
<1>4. CASE ReleaseVF(p)
  <2>1. loc' \in [VFs -> Places] /\ name' \in [VFs -> LinkNames] /\ eff' \in [VFs -> Macs]
    <3>1. CASE UNCHANGED <<loc, name, eff>>
      BY <3>1 DEF TypeOK, Places, LinkNames, Macs
    <3>2. CASE \E n \in 1..4 : SetVf(VfOf(p), ReleaseStages(p)[n])
      BY <1>1, <3>2, SetVfType, ReleaseStagesType
    <3> QED
      BY <1>4, <3>1, <3>2 DEF ReleaseVF
  <2>2. Works \/ Fails
    BY <1>4 DEF ReleaseVF, Outcome
  <2>3. UNCHANGED <<knob, pci, leased, alive, ports, late, netConf>>
    BY <1>4 DEF ReleaseVF
  <2>4. Return(p, "gone") \/ Return(p, "delErr") \/ ReturnKeep(p, "free")
    BY ONLY <1>4 DEF ReleaseVF
  <2>5. pc' \in [Pods -> AtRest \cup AddSteps \cup DelSteps] /\ cached' \subseteq Pods
    BY ONLY <2>4, TypeOK, p \in Pods
       DEF TypeOK, Return, ReturnKeep, Goto, CleanCachedNetConf, AtRest, AddSteps, DelSteps
  <2> QED
    BY <2>1, <2>2, <2>3, <2>5, LimitsType DEF TypeOK, Places, LinkNames, Macs
<1>5. CASE DeleteAllocatedPCI(p)
  BY <1>1, <1>5, LimitsType DEF DeleteAllocatedPCI, TypeOK
<1> QED
  BY <1>2, <1>3, <1>4, <1>5 DEF CmdDel

(* The ports, after a request with a name and a MAC that are known.        *)
LEMMA ServedType ==
    ASSUME NEW N, NEW M, NEW stored \in SUBSET [name : N, mac : M],
           NEW m, m.name \in N, m.mac \in M
    PROVE  Served(stored, m) \subseteq [name : N, mac : M]
BY DEF Served

LEMMA RpcTypes ==
    ASSUME TypeOK, NEW p \in Pods, CreateBridgePort(p) \/ DeleteBridgePort(p)
    PROVE  TypeOK'
<1> DEFINE PortNames == {PortName(v) : v \in VFs}
<1> DEFINE m == IF CreateBridgePort(p) THEN CreateRequest(p) ELSE DeleteRequest(p)
<1>1. m \in [op : {"create", "delete"}, name : PortNames, mac : Macs]
  <2>1. netConf[p].mac \in Macs /\ PortName(VfOf(p)) \in PortNames
    BY VfIsVF DEF TypeOK, Macs
  <2> QED
    BY <2>1 DEF CreateRequest, DeleteRequest
<1>2. PICK answered \in {"print", "gone"}, failed \in {"undo", "delErr"} :
        Rpc(p, m, answered, failed)
  <2>1. CASE CreateBridgePort(p)
    BY <2>1 DEF CreateBridgePort
  <2>2. CASE DeleteBridgePort(p) /\ ~CreateBridgePort(p)
    BY <2>2 DEF DeleteBridgePort
  <2> QED
    BY <2>1, <2>2
<1>3. UNCHANGED <<vfState, pci, leased, alive, netConf>> /\ cached' \subseteq Pods
  BY DEF CreateBridgePort, DeleteBridgePort, disk, CleanCachedNetConf, TypeOK
<1>4. ports \in SUBSET [name : PortNames, mac : Macs]
  BY DEF TypeOK, Macs
<1>5. Served(ports, m) \subseteq [name : PortNames, mac : Macs]
  BY <1>1, <1>4, ServedType
<1>6. ports' \subseteq [name : PortNames, mac : Macs]
  BY <1>2, <1>4, <1>5 DEF Rpc
<1>7. late' \subseteq [op : {"create", "delete"}, name : PortNames, mac : Macs]
  BY <1>1, <1>2 DEF Rpc, TypeOK, Macs
<1>8. pc' \in [Pods -> AtRest \cup AddSteps \cup DelSteps]
  BY <1>2 DEF Rpc, Goto, TypeOK, AtRest, AddSteps, DelSteps
<1>9. /\ faults' \in 0..MaxFaults /\ kills' \in 0..MaxKills /\ timeouts' \in 0..MaxTimeouts
      /\ nsLosses' \in 0..MaxNsLosses /\ restarts' \in 0..MaxRestarts
  <2>1. CASE Works \/ Fails
    BY <2>1, LimitsType
  <2>2. CASE /\ timeouts < MaxTimeouts /\ timeouts' = timeouts + 1
             /\ UNCHANGED <<faults, kills, nsLosses, restarts>>
    <3>1. MaxTimeouts \in Nat
      BY LimitsAssumption
    <3> QED
      BY <2>2, <3>1 DEF TypeOK
  <2> QED
    BY <1>2, <2>1, <2>2 DEF Rpc
<1> QED
  BY <1>3, <1>6, <1>7, <1>8, <1>9 DEF TypeOK, vfState, Macs

(* What a killed process has done of its step.                             *)
LEMMA KillTypes ==
    ASSUME TypeOK, NEW p \in Pods, Kill(p)
    PROVE  TypeOK'
<1> DEFINE PortNames == {PortName(v) : v \in VFs}
<1>1. VfOf(p) \in VFs
  BY VfIsVF
<1>2. MaxKills \in Nat /\ MaxTimeouts \in Nat
  BY LimitsAssumption
<1>3. /\ UNCHANGED <<disk, alive, netConf, faults, nsLosses, restarts>>
      /\ kills' \in 0..MaxKills
      /\ pc' \in [Pods -> AtRest \cup AddSteps \cup DelSteps]
  BY <1>2 DEF Kill, Goto, TypeOK, AtRest, AddSteps, DelSteps
<1>4. CASE CutBetween(p)
  BY <1>3, <1>4 DEF CutBetween, vfState, disk, TypeOK
<1>5. CASE CutInKnobs(p)
  <2>1. knob' \in [VFs -> [Knobs -> {"orig", "conf", "zero"}]]
    BY <1>5, KnobsType DEF CutInKnobs, ResetPart
  <2>2. leased' \subseteq Pods /\ UNCHANGED <<loc, name, eff, ports, late, timeouts>>
    BY <1>5 DEF CutInKnobs, TypeOK
  <2> QED
    BY <1>3, <2>1, <2>2 DEF disk, TypeOK
<1>6. CASE CutInMove(p)
  <2>1. loc' \in [VFs -> Places] /\ name' \in [VFs -> LinkNames] /\ eff' \in [VFs -> Macs]
    BY <1>1, <1>6, SetVfType, SetupStagesType, ReleaseStagesType DEF CutInMove
  <2>2. UNCHANGED <<knob, leased, ports, late, timeouts>>
    BY <1>6 DEF CutInMove
  <2> QED
    BY <1>3, <2>1, <2>2 DEF disk, TypeOK, Places, LinkNames, Macs
<1>7. CASE CutInRpc(p)
  <2> DEFINE m == IF pc[p] = "create" THEN CreateRequest(p) ELSE DeleteRequest(p)
  <2>1. m \in [op : {"create", "delete"}, name : PortNames, mac : Macs]
    <3>1. netConf[p].mac \in Macs /\ PortName(VfOf(p)) \in PortNames
      BY <1>1 DEF TypeOK, Macs
    <3> QED
      BY <3>1 DEF CreateRequest, DeleteRequest
  <2>2. /\ UNCHANGED <<vfState, leased>>
        /\ \/ ports' = Served(ports, m) /\ UNCHANGED <<late, timeouts>>
           \/ /\ timeouts < MaxTimeouts /\ timeouts' = timeouts + 1
              /\ late' = late \cup {m} /\ UNCHANGED ports
    BY <1>7 DEF CutInRpc
  <2>3. ports \in SUBSET [name : PortNames, mac : Macs]
    BY DEF TypeOK, Macs
  <2>4. Served(ports, m) \subseteq [name : PortNames, mac : Macs]
    BY <2>1, <2>3, ServedType
  <2>5. /\ ports' \subseteq [name : PortNames, mac : Macs]
        /\ late' \subseteq [op : {"create", "delete"}, name : PortNames, mac : Macs]
        /\ timeouts' \in 0..MaxTimeouts
    BY <1>2, <2>1, <2>2, <2>3, <2>4 DEF TypeOK, Macs
  <2> QED
    BY <1>3, <2>2, <2>5 DEF vfState, disk, TypeOK, Macs
<1> QED
  BY <1>4, <1>5, <1>6, <1>7 DEF Kill

(* What surrounds the CNI processes.                                       *)
LEMMA SurroundingTypes ==
    ASSUME TypeOK,
           \/ LateRpc \/ PluginRestart
           \/ \E p \in Pods : Kill(p) \/ DestroyNs(p)
    PROVE  TypeOK'
<1> DEFINE PortNames == {PortName(v) : v \in VFs}
<1>1. MaxNsLosses \in Nat /\ MaxRestarts \in Nat
  BY LimitsAssumption
<1> USE DEF vfState, disk, Goto, AddSteps, DelSteps, AtRest
<1>2. CASE LateRpc
  <2>1. PICK m \in late : late' = late \ {m} /\ ports' \in {ports, Served(ports, m)}
    BY <1>2 DEF LateRpc
  <2>2. ports \in SUBSET [name : PortNames, mac : Macs]
    BY DEF TypeOK, Macs
  <2>3. Served(ports, m) \subseteq [name : PortNames, mac : Macs]
    <3>1. m.name \in PortNames /\ m.mac \in Macs
      BY DEF TypeOK, Macs
    <3> QED
      BY <2>2, <3>1, ServedType
  <2>4. ports' \subseteq [name : PortNames, mac : Macs]
    BY <2>1, <2>2, <2>3
  <2>5. UNCHANGED <<vfState, disk, leased, alive, pc, netConf, limits>>
    BY <1>2 DEF LateRpc
  <2> QED
    BY <2>1, <2>4, <2>5 DEF TypeOK, Macs, limits
<1>3. CASE PluginRestart
  BY <1>1, <1>3 DEF PluginRestart, TypeOK
<1>4. CASE \E p \in Pods : Kill(p)
  BY <1>4, KillTypes
<1>5. CASE \E p \in Pods : DestroyNs(p)
  <2>1. PICK p \in Pods : DestroyNs(p)
    BY <1>5
  <2>2. alive' \subseteq Pods /\ loc' \in [VFs -> Places]
    BY <2>1 DEF DestroyNs, TypeOK, Places
  <2>3. /\ faults' \in 0..MaxFaults /\ kills' \in 0..MaxKills /\ timeouts' \in 0..MaxTimeouts
        /\ nsLosses' \in 0..MaxNsLosses /\ restarts' \in 0..MaxRestarts
    BY <1>1, <2>1 DEF DestroyNs, Works, limits, TypeOK
  <2>4. UNCHANGED <<name, eff, knob, disk, leased, ports, late, pc, netConf>>
    BY <2>1 DEF DestroyNs
  <2> QED
    BY <2>2, <2>3, <2>4 DEF TypeOK, Places
<1> QED
  BY <1>2, <1>3, <1>4, <1>5

LEMMA TypeNext == TypeOK /\ [Next]_vars => TypeOK'
<1> SUFFICES ASSUME TypeOK, [Next]_vars PROVE TypeOK'
  OBVIOUS
<1>1. CASE \E p \in Pods : LoadConf(p) \/ CmdDel(p) \/ CniStep(p)
  BY <1>1, AddTypes, UndoTypes, DelTypes, RpcTypes DEF CniStep
<1>2. CASE LateRpc \/ PluginRestart \/ \E p \in Pods : Kill(p) \/ DestroyNs(p)
  BY <1>2, SurroundingTypes
<1>3. CASE UNCHANGED vars
  BY <1>3 DEF vars, vfState, disk, limits, TypeOK
<1> QED
  BY <1>1, <1>2, <1>3 DEF Next, Finished

(* No value ever leaves its type, whatever fails, is killed or repeated:   *)
(* in particular a port and a late request always carry the name of a VF   *)
(* of this node.                                                           *)
THEOREM TypeCorrect == Spec => []TypeOK
<1>1. Init => TypeOK
  BY TypeInit
<1>2. TypeOK /\ [Next]_vars => TypeOK'
  BY TypeNext
<1> QED
  BY <1>1, <1>2, PTL DEF Spec

-----------------------------------------------------------------------------
(* A running pod keeps its VF                                              *)

HasNetdev == {"ipam", "ipamIface", "save", "allocate", "create", "print", "running"}
IsCached == {"allocate", "create", "print", "running"}
IsServed == {"create", "print", "running"}

(* What the ADD of p has reached so far, and keeps.                        *)
Kept(p) ==
    /\ (pc[p] \in HasNetdev /\ p \in alive) =>
          HasDpdkDriver(VfOf(p)) \/ PodLinkPresent(p)
    /\ pc[p] \in IsServed => ~HasDpdkDriver(VfOf(p))
    /\ pc[p] \in IsCached => p \in cached
    /\ (Conf[p].ipam /\ pc[p] \in IsCached \cup {"ipamIface", "save"}) => p \in leased

KeptInv == TypeOK /\ \A p \in Pods : Kept(p)

(* What a pod's process does to the netdevice of a VF: nothing, unless it  *)
(* is on the host or in that pod's namespace.                              *)
LEMMA LinksMove ==
    ASSUME TypeOK, NEW q \in Pods, PodStep(q), NEW v \in VFs
    PROVE  (loc'[v] = loc[v] /\ name'[v] = name[v]) \/ loc[v] \in {"host", q}
<1> DEFINE w == VfOf(q)
<1>1. w \in VFs
  BY VfIsVF
<1> USE DEF vfState
<1>2. CASE \E s \in Places \X LinkNames \X Macs : SetVf(w, s) /\ loc[w] \in {"host", q}
  BY <1>1, <1>2, SetVfType
<1>3. CASE SetupVF(q)
  <2>1. CASE UNCHANGED <<loc, name>>
    BY <2>1
  <2>2. CASE /\ loc[w] = "host"
             /\ \E n \in 1..Len(SetupStages(q)) : SetVf(w, SetupStages(q)[n])
    BY <1>2, <2>2, SetupStagesType
  <2> QED
    BY <1>3, <2>1, <2>2 DEF SetupVF, SetupFinds
<1>4. CASE UndoRelease(q) \/ ReleaseVF(q)
  <2>1. CASE UNCHANGED <<loc, name>>
    BY <2>1
  <2>2. CASE loc[w] = q /\ \E n \in 1..4 : SetVf(w, ReleaseStages(q)[n])
    BY <1>2, <2>2, ReleaseStagesType
  <2> QED
    BY <1>4, <2>1, <2>2 DEF UndoRelease, ReleaseVF, PodLinkPresent
<1>5. CASE DestroyNs(q)
  BY <1>5 DEF DestroyNs
<1>6. CASE UNCHANGED <<loc, name>>
  BY <1>6
<1>7. CASE Kill(q)
  <2>1. CASE CutBetween(q) \/ CutInKnobs(q) \/ CutInRpc(q)
    BY <1>6, <2>1 DEF CutBetween, CutInKnobs, CutInRpc
  <2>2. CASE CutInMove(q)
    BY <1>2, <2>2, SetupStagesType, ReleaseStagesType DEF CutInMove, SetupFinds, PodLinkPresent
  <2> QED
    BY <1>7, <2>1, <2>2 DEF Kill
<1> QED
  BY <1>3, <1>4, <1>5, <1>6, <1>7
     DEF PodStep, CmdDel, CniStep, LoadConf, DelNotCached, DelCached, ApplyVFConfig,
         IpamAdd, ConfigureIface, SaveNetConf, SaveAllocatedPCI, CreateBridgePort, PrintResult,
         UndoIpam, UndoReset, DeleteAllocatedPCI, DeleteBridgePort

(* A step of one pod takes nothing from another.                           *)
LEMMA OthersKeep ==
    ASSUME TypeOK, NEW p \in Pods, NEW q \in Pods, p # q, PodStep(q)
    PROVE  /\ pc'[p] = pc[p]
           /\ p \in cached => p \in cached'
           /\ p \in leased => p \in leased'
           /\ p \in alive' => p \in alive
           /\ PodLinkPresent(p) => PodLinkPresent(p)'
<1> DEFINE Keeps == /\ pc'[p] = pc[p]
                    /\ p \in cached => p \in cached'
                    /\ p \in leased => p \in leased'
                    /\ p \in alive' => p \in alive
<1>1. Keeps
  <2> USE DEF Goto, CleanCachedNetConf, Return, ReturnKeep, disk
  <2>1. CASE LoadConf(q) \/ ApplyVFConfig(q) \/ SetupVF(q)
    BY <2>1 DEF TypeOK, LoadConf, ApplyVFConfig, SetupVF
  <2>2. CASE \/ IpamAdd(q) \/ ConfigureIface(q) \/ SaveNetConf(q) \/ SaveAllocatedPCI(q)
             \/ PrintResult(q)
    BY <2>2 DEF TypeOK, IpamAdd, ConfigureIface, SaveNetConf, SaveAllocatedPCI, PrintResult
  <2>3. CASE UndoIpam(q) \/ UndoRelease(q) \/ UndoReset(q)
    BY <2>3 DEF TypeOK, UndoIpam, UndoRelease, UndoReset
  <2>4. CASE CmdDel(q) \/ ReleaseVF(q)
    BY <2>4 DEF TypeOK, CmdDel, DelNotCached, DelCached, ReleaseVF
  <2>5. CASE DeleteAllocatedPCI(q) \/ CreateBridgePort(q) \/ DeleteBridgePort(q)
    BY <2>5 DEF TypeOK, DeleteAllocatedPCI, CreateBridgePort, DeleteBridgePort, Rpc
  <2>6. CASE Kill(q)
    <3>1. p \in leased => p \in leased'
      BY <2>6 DEF Kill, CutBetween, CutInKnobs, CutInMove, CutInRpc
    <3> QED
      BY <2>6, <3>1 DEF TypeOK, Kill
  <2>7. CASE DestroyNs(q)
    BY <2>7 DEF TypeOK, DestroyNs
  <2> QED
    BY <2>1, <2>2, <2>3, <2>4, <2>5, <2>6, <2>7 DEF PodStep, CniStep
<1>2. PodLinkPresent(p) => PodLinkPresent(p)'
  <2>1. VfOf(p) \in VFs /\ p # "host"
    BY VfIsVF, ConfAssumption
  <2> QED
    BY <2>1, LinksMove DEF PodLinkPresent, VfOf
<1> QED
  BY <1>1, <1>2

(* cmdAdd obtains what Kept names, one after the other, and loses none of  *)
(* it on its way to "running".                                             *)
LEMMA AddKeeps ==
    ASSUME TypeOK, NEW p \in Pods, Kept(p), PodStep(p)
    PROVE  Kept(p)'
<1> USE DEF Goto, HasNetdev, IsCached, IsServed, vfState, disk, CleanCachedNetConf, Return,
            ReturnKeep
<1>1. VfOf(p) \in VFs /\ p # "host"
  BY VfIsVF, ConfAssumption
<1>2. UNCHANGED <<loc, name, alive>> => PodLinkPresent(p)' = PodLinkPresent(p)
  BY DEF PodLinkPresent, VfOf
<1>3. CASE pc'[p] \notin HasNetdev
  BY <1>3 DEF Kept
<1>4. CASE SetupVF(p) /\ pc'[p] = "ipam"
  <2>1. CASE HasDpdkDriver(VfOf(p))
    BY <1>4, <2>1 DEF Kept, VfOf, HasDpdkDriver
  <2>2. CASE ~HasDpdkDriver(VfOf(p))
    <3>1. SetVf(VfOf(p), SetupStages(p)[5])
      BY <1>4, <2>2 DEF SetupVF, SetupStages, TypeOK
    <3>2. PodLinkPresent(p)'
      BY <1>1, <3>1 DEF SetVf, SetupStages, PodLinkPresent, VfOf, TypeOK
    <3> QED
      BY <1>4, <3>2 DEF Kept
  <2> QED
    BY <2>1, <2>2
<1>5. CASE IpamAdd(p) \/ ConfigureIface(p)
  BY <1>2, <1>5 DEF IpamAdd, ConfigureIface, Kept, TypeOK, HasDpdkDriver, VfOf
<1>6. CASE SaveNetConf(p) \/ PrintResult(p)
  BY <1>2, <1>6 DEF SaveNetConf, PrintResult, Kept, TypeOK, HasDpdkDriver, VfOf
<1>7. CASE SaveAllocatedPCI(p)
  BY <1>2, <1>7 DEF SaveAllocatedPCI, Kept, TypeOK, HasDpdkDriver, VfOf
<1>8. CASE CreateBridgePort(p)
  BY <1>2, <1>8 DEF CreateBridgePort, Rpc, Kept, TypeOK, HasDpdkDriver, VfOf
<1>9. CASE DestroyNs(p)
  BY <1>9 DEF DestroyNs, Kept, TypeOK, HasDpdkDriver, VfOf
<1>10. CASE LoadConf(p) \/ CmdDel(p) \/ Kill(p)
  BY <1>3, <1>10 DEF TypeOK, LoadConf, CmdDel, DelNotCached, DelCached, Kill
<1>11. CASE ApplyVFConfig(p)
  BY <1>3, <1>11 DEF TypeOK, ApplyVFConfig
<1>12. CASE SetupVF(p)
  <2>1. CASE pc'[p] # "ipam"
    BY <1>3, <1>12, <2>1 DEF TypeOK, SetupVF
  <2> QED
    BY <1>4, <1>12, <2>1
<1>13. CASE UndoIpam(p) \/ UndoRelease(p) \/ UndoReset(p)
  BY <1>3, <1>13 DEF TypeOK, UndoIpam, UndoRelease, UndoReset
<1>14. CASE ReleaseVF(p) \/ DeleteAllocatedPCI(p) \/ DeleteBridgePort(p)
  BY <1>3, <1>14 DEF TypeOK, ReleaseVF, DeleteAllocatedPCI, DeleteBridgePort, Rpc
<1> QED
  BY <1>5, <1>6, <1>7, <1>8, <1>9, <1>10, <1>11, <1>12, <1>13, <1>14 DEF PodStep, CniStep

LEMMA KeptNext == KeptInv /\ [Next]_vars => KeptInv'
<1> SUFFICES ASSUME KeptInv, [Next]_vars PROVE KeptInv'
  OBVIOUS
<1> USE DEF KeptInv
<1>1. TypeOK'
  BY TypeNext
<1>2. ASSUME NEW q \in Pods, PodStep(q), NEW p \in Pods PROVE Kept(p)'
  <2>1. CASE p = q
    BY <1>2, <2>1, AddKeeps
  <2>2. CASE p # q
    BY <1>2, <2>2, OthersKeep DEF Kept, HasDpdkDriver, VfOf
  <2> QED
    BY <2>1, <2>2
<1>3. CASE LateRpc \/ PluginRestart \/ UNCHANGED vars
  BY <1>1, <1>3 DEF LateRpc, PluginRestart, vars, vfState, disk, Kept, PodLinkPresent,
                    HasDpdkDriver, VfOf
<1> QED
  BY <1>1, <1>2, <1>3 DEF Next, PodStep, Finished

(* Whatever other CNI processes do, fail to do or repeat, and whatever     *)
(* happens to them: a running pod has its VF in its namespace under its    *)
(* name, its cached NetConf and its lease.                                 *)
THEOREM RunningPodKeepsVf == Spec => []RunningKeepsVf
<1>1. Init => KeptInv
  BY TypeInit DEF Init, KeptInv, Kept, HasNetdev, IsCached, IsServed
<1>2. KeptInv /\ [Next]_vars => KeptInv'
  BY KeptNext
<1>3. KeptInv => RunningKeepsVf
  BY DEF KeptInv, Kept, RunningKeepsVf, Running, HasNetdev, IsCached, IsServed
<1> QED
  BY <1>1, <1>2, <1>3, PTL DEF Spec

-----------------------------------------------------------------------------
(* The allocation outlives the late DEL                                    *)

Adding(p) == pc[p] \in AddSteps \cup {"running"}
HoldsLink(p) == p \in alive /\ PodLinkPresent(p)
Rivals(p, q) == p # q /\ VfOf(p) = VfOf(q)

(* cmdAdd past SetupVF and before SaveAllocatedPCI, or on its way back.    *)
Settled == AtRest \cup DelSteps \cup {"create", "print", "undoReset"}

(* No two pods of a VF are past LoadConf at a time, and none has the VF    *)
(* before SetupVF.                                                         *)
OneAdder == \A p, q \in Pods : Rivals(p, q) => ~(Adding(p) /\ Adding(q))
NotYet == \A p \in Pods : pc[p] \in {"new", "apply", "setup"} => loc[VfOf(p)] # p

(* A pod that holds its VF is in the allocation file, except for the pod   *)
(* in cmdAdd that comes to be or, after a failure, ceases to hold it.      *)
RecordedFor(p) ==
    /\ pc[p] \in {"create", "print", "running"} => pci[VfOf(p)] = p
    /\ (HoldsLink(p) /\ pc[p] \in Settled) => pci[VfOf(p)] = p
    /\ (HoldsLink(p) /\ pc[p] \in {"undo", "undoRelease"}) =>
          pci[VfOf(p)] = p \/ faults # 0
    /\ pc[p] = "free" => pci[VfOf(p)] = p /\ p \in alive /\ loc[VfOf(p)] # p
Recorded == \A p \in Pods : RecordedFor(p)

(* While a pod holds its VF or frees it, no other one is past LoadConf.    *)
SoleHolder ==
    \A p, q \in Pods : (Rivals(p, q) /\ (HoldsLink(p) \/ pc[p] = "free")) => ~Adding(q)

FewFailures == kills = 0 /\ faults <= 1

(* The inductive invariant behind AllocationOutlivesDel.                   *)
AllocInv ==
    /\ TypeOK
    /\ OneAdder
    /\ NotYet
    /\ FewFailures => Recorded /\ SoleHolder

(* Only LoadConf, on a VF that is not allocated, lets a pod past it.       *)
LEMMA AddingStarts ==
    ASSUME TypeOK, NEW q \in Pods, PodStep(q), Adding(q)', ~Adding(q)
    PROVE  MayStart(q) /\ ~IsAllocated(VfOf(q))
<1> USE DEF Goto, Adding, AddSteps
<1>1. CASE LoadConf(q)
  BY <1>1 DEF LoadConf, TypeOK
<1>2. ~CmdDel(q) /\ ~Kill(q) /\ ~DestroyNs(q)
  BY DEF TypeOK, CmdDel, DelNotCached, DelCached, MayDel, Return, ReturnKeep, Kill, DestroyNs
<1>3. ~ApplyVFConfig(q) /\ ~SetupVF(q) /\ ~IpamAdd(q) /\ ~ConfigureIface(q)
  BY DEF ApplyVFConfig, SetupVF, IpamAdd, ConfigureIface
<1>4. ~SaveNetConf(q) /\ ~SaveAllocatedPCI(q) /\ ~CreateBridgePort(q) /\ ~PrintResult(q)
  BY DEF SaveNetConf, SaveAllocatedPCI, CreateBridgePort, PrintResult
<1>5. ~UndoIpam(q) /\ ~UndoRelease(q) /\ ~UndoReset(q)
  BY DEF UndoIpam, UndoRelease, UndoReset
<1>6. ~ReleaseVF(q) /\ ~DeleteAllocatedPCI(q) /\ ~DeleteBridgePort(q)
  BY DEF TypeOK, ReleaseVF, DeleteAllocatedPCI, DeleteBridgePort, Rpc, Return, ReturnKeep
<1> QED
  BY <1>1, <1>2, <1>3, <1>4, <1>5, <1>6 DEF PodStep, CniStep

LEMMA OneAdderNext ==
    ASSUME TypeOK, OneAdder, NEW q \in Pods, PodStep(q)
    PROVE  OneAdder'
<1>1. \A p \in Pods \ {q} : pc'[p] = pc[p]
  BY OthersKeep
<1>2. \A p \in Pods : Rivals(p, q) /\ Adding(p) => ~MayStart(q)
  BY DEF Rivals, Adding, MayStart, AddSteps, DelSteps
<1>3. Adding(q)' => Adding(q) \/ MayStart(q)
  BY AddingStarts
<1>4. \A p \in Pods : Rivals(p, q) => ~(Adding(p)' /\ Adding(q)')
  BY <1>1, <1>2, <1>3 DEF OneAdder, Rivals, Adding
<1> QED
  BY <1>1, <1>4 DEF OneAdder, Rivals, Adding, VfOf

(* A pod's process moves a VF to its own namespace or to the host.         *)
LEMMA LocMoves ==
    ASSUME TypeOK, NEW q \in Pods, PodStep(q), NEW v \in VFs
    PROVE  loc'[v] \in {loc[v], "host", q}
<1> DEFINE w == VfOf(q)
<1>1. w \in VFs
  BY VfIsVF
<1>2. ASSUME NEW s \in Places \X LinkNames \X Macs, SetVf(w, s), s[1] \in {loc[w], "host", q}
      PROVE  loc'[v] \in {loc[v], "host", q}
  BY <1>1, <1>2, SetVfType
<1>3. ASSUME NEW n \in 1..Len(SetupStages(q)), SetVf(w, SetupStages(q)[n])
      PROVE  loc'[v] \in {loc[v], "host", q}
  <2>1. SetupStages(q)[n][1] \in {loc[w], "host", q}
    BY DEF SetupStages, VfNow
  <2> QED
    BY <1>2, <1>3, <2>1, SetupStagesType
<1>4. ASSUME NEW n \in 1..4, SetVf(w, ReleaseStages(q)[n])
      PROVE  loc'[v] \in {loc[v], "host", q}
  <2>1. ReleaseStages(q)[n][1] \in {loc[w], "host", q}
    BY DEF ReleaseStages, VfNow
  <2> QED
    BY <1>2, <1>4, <2>1, ReleaseStagesType
<1>5. CASE SetupVF(q)
  BY <1>3, <1>5 DEF SetupVF
<1>6. CASE UndoRelease(q) \/ ReleaseVF(q)
  BY <1>4, <1>6 DEF UndoRelease, ReleaseVF
<1>7. CASE DestroyNs(q)
  BY <1>7 DEF DestroyNs
<1>8. CASE UNCHANGED loc
  BY <1>8
<1>9. CASE Kill(q)
  BY <1>3, <1>4, <1>8, <1>9 DEF Kill, CutBetween, CutInKnobs, CutInRpc, CutInMove, vfState
<1> QED
  BY <1>5, <1>6, <1>7, <1>8, <1>9
     DEF PodStep, CmdDel, CniStep, LoadConf, DelNotCached, DelCached, ApplyVFConfig,
         IpamAdd, ConfigureIface, SaveNetConf, SaveAllocatedPCI, CreateBridgePort, PrintResult,
         UndoIpam, UndoReset, DeleteAllocatedPCI, DeleteBridgePort, vfState

LEMMA NotYetNext ==
    ASSUME TypeOK, NotYet, NEW q \in Pods, PodStep(q)
    PROVE  NotYet'
<1> SUFFICES ASSUME NEW p \in Pods, pc'[p] \in {"new", "apply", "setup"}
             PROVE  loc'[VfOf(p)] # p
  BY DEF NotYet, VfOf
<1>1. VfOf(p) \in VFs /\ p # "host"
  BY VfIsVF, ConfAssumption
<1>2. CASE p # q
  BY <1>1, <1>2, OthersKeep, LocMoves DEF NotYet
<1>3. CASE p = q
  <2> USE DEF Goto
  <2>1. CASE LoadConf(q) \/ ApplyVFConfig(q)
    BY <1>3, <2>1 DEF LoadConf, ApplyVFConfig, MayStart, NotYet, vfState
  <2>2. ~CmdDel(q) /\ ~Kill(q) /\ ~DestroyNs(q)
    BY <1>3 DEF TypeOK, CmdDel, DelNotCached, DelCached, MayDel, Return, ReturnKeep, Kill, DestroyNs
  <2>3. ~SetupVF(q) /\ ~IpamAdd(q) /\ ~ConfigureIface(q) /\ ~SaveNetConf(q)
    BY <1>3 DEF TypeOK, SetupVF, IpamAdd, ConfigureIface, SaveNetConf
  <2>4. ~SaveAllocatedPCI(q) /\ ~CreateBridgePort(q) /\ ~PrintResult(q)
    BY <1>3 DEF TypeOK, SaveAllocatedPCI, CreateBridgePort, Rpc, PrintResult
  <2>5. ~UndoIpam(q) /\ ~UndoRelease(q) /\ ~UndoReset(q)
    BY <1>3 DEF TypeOK, UndoIpam, UndoRelease, UndoReset
  <2>6. ~ReleaseVF(q) /\ ~DeleteAllocatedPCI(q) /\ ~DeleteBridgePort(q)
    BY <1>3 DEF TypeOK, ReleaseVF, DeleteAllocatedPCI, DeleteBridgePort, Rpc, Return, ReturnKeep
  <2> QED
    BY <2>1, <2>2, <2>3, <2>4, <2>5, <2>6 DEF PodStep, CniStep
<1> QED
  BY <1>2, <1>3

(* No step of another pod brings a netdevice into the namespace of p.      *)
LEMMA OthersGive ==
    ASSUME TypeOK, NEW p \in Pods, NEW q \in Pods, p # q, PodStep(q)
    PROVE  /\ HoldsLink(p)' => HoldsLink(p)
           /\ p \in alive <=> p \in alive'
           /\ loc'[VfOf(p)] = p => loc[VfOf(p)] = p
<1>1. VfOf(p) \in VFs /\ p # "host"
  BY VfIsVF, ConfAssumption
<1>2. loc'[VfOf(p)] = p => loc[VfOf(p)] = p
  BY <1>1, LocMoves
<1>3. loc'[VfOf(p)] = p => name'[VfOf(p)] = name[VfOf(p)]
  BY <1>1, <1>2, LinksMove
<1>4. p \in alive => p \in alive'
  <2>1. CASE DestroyNs(q)
    BY <2>1 DEF DestroyNs
  <2>2. CASE UNCHANGED alive
    BY <2>2
  <2> QED
    BY <2>1, <2>2
       DEF PodStep, CmdDel, CniStep, LoadConf, DelNotCached, DelCached, Kill, ApplyVFConfig,
           SetupVF, IpamAdd, ConfigureIface, SaveNetConf, SaveAllocatedPCI, CreateBridgePort,
           PrintResult, UndoIpam, UndoRelease, UndoReset, ReleaseVF, DeleteAllocatedPCI,
           DeleteBridgePort
<1> QED
  BY <1>2, <1>3, <1>4, OthersKeep DEF HoldsLink, PodLinkPresent, VfOf

(* The allocation file of a VF is written for the pods of that VF only.    *)
LEMMA OwnFile ==
    ASSUME TypeOK, NEW q \in Pods, PodStep(q), NEW v \in VFs, v # VfOf(q)
    PROVE  pci'[v] = pci[v]
<1>1. VfOf(q) \in VFs
  BY VfIsVF
<1>2. CASE LoadConf(q)
  BY <1>1, <1>2 DEF LoadConf, TypeOK
<1>3. CASE SaveAllocatedPCI(q) \/ DeleteAllocatedPCI(q)
  BY <1>1, <1>3 DEF SaveAllocatedPCI, DeleteAllocatedPCI, TypeOK
<1>4. CASE UNCHANGED pci
  BY <1>4
<1> QED
  BY <1>2, <1>3, <1>4
     DEF PodStep, CmdDel, DelNotCached, DelCached, CniStep, Kill, DestroyNs, ApplyVFConfig,
         SetupVF, IpamAdd, ConfigureIface, SaveNetConf, CreateBridgePort, PrintResult, UndoIpam,
         UndoRelease, UndoReset, ReleaseVF, DeleteBridgePort, disk

(* Nobody else frees or overwrites the allocation of a pod past LoadConf,  *)
(* or of one that holds its VF or is about to free it.                     *)
LEMMA FileStays ==
    ASSUME AllocInv, Recorded, SoleHolder,
           NEW p \in Pods, NEW q \in Pods, p # q, PodStep(q), pci[VfOf(p)] = p,
           Adding(p) \/ HoldsLink(p) \/ (pc[p] = "free" /\ p \in alive)
    PROVE  pci'[VfOf(p)] = p
<1> USE DEF AllocInv
<1>1. VfOf(p) \in VFs /\ p # None
  BY VfIsVF, ConfAssumption
<1>2. CASE VfOf(p) # VfOf(q)
  BY <1>1, <1>2, OwnFile
<1>3. CASE VfOf(p) = VfOf(q)
  <2>1. Rivals(p, q) /\ Rivals(q, p)
    BY <1>3 DEF Rivals
  <2>2. CASE LoadConf(q)
    <3>1. ~Adding(p)
      BY <1>3, <2>2 DEF LoadConf, MayStart, Adding, AddSteps, DelSteps
    <3>2. IsAllocated(VfOf(q))
      BY <1>1, <1>3, <3>1 DEF HoldsLink, IsAllocated
    <3> QED
      BY <2>2, <3>2 DEF LoadConf
  <2>3. ~SaveAllocatedPCI(q)
    <3>1. SaveAllocatedPCI(q) => Adding(q)
      BY DEF SaveAllocatedPCI, Adding, AddSteps
    <3> QED
      BY <2>1, <3>1 DEF OneAdder, SoleHolder
  <2>4. ~DeleteAllocatedPCI(q)
    BY <1>3 DEF DeleteAllocatedPCI, Recorded, RecordedFor
  <2>5. CASE UNCHANGED pci
    BY <2>5
  <2> QED
    BY <2>2, <2>3, <2>4, <2>5
       DEF PodStep, CmdDel, DelNotCached, DelCached, CniStep, Kill, DestroyNs, ApplyVFConfig,
           SetupVF, IpamAdd, ConfigureIface, SaveNetConf, CreateBridgePort, PrintResult,
           UndoIpam, UndoRelease, UndoReset, ReleaseVF, DeleteBridgePort, disk
<1> QED
  BY <1>2, <1>3

(* A step without a kill and with at most one failure so far.              *)
LEMMA FewSoFar ==
    ASSUME TypeOK, NEW q \in Pods, PodStep(q), FewFailures'
    PROVE  /\ FewFailures /\ ~Kill(q)
           /\ faults # 0 => faults' # 0
           /\ Fails => faults = 0 /\ faults' # 0
<1>1. /\ faults' \in {faults, faults + 1} /\ kills' \in {kills, kills + 1}
      /\ Kill(q) => kills' = kills + 1
  BY DEF PodStep, CmdDel, CniStep, LoadConf, DelNotCached, DelCached, Kill, DestroyNs,
         ApplyVFConfig, SetupVF, IpamAdd, ConfigureIface, SaveNetConf, SaveAllocatedPCI,
         CreateBridgePort, PrintResult, UndoIpam, UndoRelease, UndoReset, ReleaseVF,
         DeleteAllocatedPCI, DeleteBridgePort, Rpc, Outcome, ResetVFConfig, Works, Fails, limits
<1>2. kills \in Nat /\ faults \in Nat
  BY LimitsAssumption DEF TypeOK
<1> QED
  BY <1>1, <1>2 DEF FewFailures, Fails

(* A pod comes to hold its VF in SetupVF, and to free it after having held *)
(* it.                                                                     *)
LEMMA LinkComes ==
    ASSUME TypeOK, NEW q \in Pods, PodStep(q), ~Kill(q)
    PROVE  /\ HoldsLink(q)' => HoldsLink(q) \/ SetupVF(q)
           /\ pc'[q] = "free" => pc[q] = "free" \/ ReleaseVF(q)
<1> USE DEF Goto
<1>1. CASE UNCHANGED <<loc, name, alive>> /\ pc'[q] # "free"
  BY <1>1 DEF HoldsLink, PodLinkPresent, VfOf
<1>2. CASE UndoRelease(q)
  <2>1. UNCHANGED <<loc, name, alive>> \/ (PodLinkPresent(q) /\ UNCHANGED alive)
    BY <1>2 DEF UndoRelease
  <2>2. pc'[q] # "free"
    BY <1>2 DEF UndoRelease, TypeOK
  <2> QED
    BY <2>1, <2>2 DEF HoldsLink, PodLinkPresent, VfOf
<1>3. CASE ReleaseVF(q)
  <2>1. UNCHANGED <<loc, name, alive>> \/ (PodLinkPresent(q) /\ UNCHANGED alive)
    BY <1>3 DEF ReleaseVF
  <2> QED
    BY <1>3, <2>1 DEF HoldsLink, PodLinkPresent, VfOf
<1>4. CASE SetupVF(q)
  BY <1>4 DEF SetupVF, TypeOK
<1>5. CASE DestroyNs(q)
  BY <1>5 DEF DestroyNs, HoldsLink
<1>6. CASE LoadConf(q) \/ CmdDel(q)
  BY <1>1, <1>6 DEF TypeOK, LoadConf, CmdDel, DelNotCached, DelCached, vfState, Return, ReturnKeep
<1>7. CASE ApplyVFConfig(q) \/ IpamAdd(q) \/ ConfigureIface(q) \/ SaveNetConf(q)
  BY <1>1, <1>7 DEF TypeOK, ApplyVFConfig, IpamAdd, ConfigureIface, SaveNetConf, vfState
<1>8. CASE SaveAllocatedPCI(q) \/ CreateBridgePort(q) \/ PrintResult(q)
  BY <1>1, <1>8 DEF TypeOK, SaveAllocatedPCI, CreateBridgePort, Rpc, PrintResult, vfState
<1>9. CASE UndoIpam(q) \/ UndoReset(q)
  BY <1>1, <1>9 DEF TypeOK, UndoIpam, UndoReset, vfState
<1>10. CASE DeleteAllocatedPCI(q) \/ DeleteBridgePort(q)
  BY <1>1, <1>10 DEF TypeOK, DeleteAllocatedPCI, DeleteBridgePort, Rpc, vfState
<1> QED
  BY <1>2, <1>3, <1>4, <1>5, <1>6, <1>7, <1>8, <1>9, <1>10 DEF PodStep, CniStep

LEMMA SoleHolderNext ==
    ASSUME AllocInv, Recorded, SoleHolder, NEW q \in Pods, PodStep(q), ~Kill(q)
    PROVE  SoleHolder'
<1> USE DEF AllocInv
<1> SUFFICES ASSUME NEW p \in Pods, NEW r \in Pods, Rivals(p, r),
                    HoldsLink(p)' \/ pc'[p] = "free", Adding(r)'
             PROVE  FALSE
  BY DEF SoleHolder, Rivals, VfOf
<1>1. \A x \in Pods \ {q} : pc'[x] = pc[x]
  BY OthersKeep
<1>2. p # q => HoldsLink(p) \/ pc[p] = "free"
  BY <1>1, OthersGive
<1>3. CASE r # q /\ p # q
  BY <1>1, <1>2, <1>3 DEF SoleHolder, Adding
<1>4. CASE r # q /\ p = q
  <2>1. Adding(r) /\ ~Adding(q) /\ ~HoldsLink(q) /\ pc[q] # "free"
    BY <1>1, <1>4 DEF SoleHolder, OneAdder, Adding
  <2>2. ~SetupVF(q)
    BY <2>1 DEF SetupVF, Adding, AddSteps
  <2>3. pc'[q] = "free" => ~ReleaseVF(q)
    BY <2>1 DEF ReleaseVF, HoldsLink, Return, Goto, TypeOK
  <2> QED
    BY <1>4, <2>1, <2>2, <2>3, LinkComes
<1>5. CASE r = q
  <2>1. p # q /\ (HoldsLink(p) \/ pc[p] = "free")
    BY <1>2, <1>5 DEF Rivals
  <2>2. ~Adding(q)
    BY <1>5, <2>1 DEF SoleHolder
  <2>3. MayStart(q) /\ ~IsAllocated(VfOf(q))
    BY <1>5, <2>2, AddingStarts
  <2>4. pc[p] \in {"new", "gone"} \cup DelSteps \cup {"delErr"}
    BY <1>5, <2>1, <2>3 DEF MayStart, Rivals
  <2>5. pci[VfOf(p)] = p /\ p \in alive
    BY <2>1, <2>4
       DEF Recorded, RecordedFor, NotYet, HoldsLink, PodLinkPresent, Settled, AtRest, DelSteps
  <2> QED
    BY <1>5, <2>3, <2>5, ConfAssumption DEF Rivals, IsAllocated
<1> QED
  BY <1>3, <1>4, <1>5

(* The process of p itself.                                                *)
LEMMA OwnRecord ==
    ASSUME AllocInv, Recorded, NEW p \in Pods, PodStep(p), FewFailures'
    PROVE  RecordedFor(p)'
<1>1. VfOf(p) \in VFs /\ p # "host"
  BY VfIsVF, ConfAssumption
<1>2. /\ ~Kill(p)
      /\ faults # 0 => faults' # 0
      /\ Fails => faults = 0 /\ faults' # 0
  BY FewSoFar DEF AllocInv
<1>3. RecordedFor(p)
  BY DEF Recorded, RecordedFor
<1>4. pc[p] \in {"new", "apply", "setup"} => loc[VfOf(p)] # p
  BY DEF AllocInv, NotYet
<1>5. TypeOK
  BY DEF AllocInv
<1> USE DEF Goto, Settled, AtRest, DelSteps
<1>6. UNCHANGED <<loc, name, alive>> => HoldsLink(p)' = HoldsLink(p)
  BY DEF HoldsLink, PodLinkPresent, VfOf
<1>7. CASE LoadConf(p) \/ ApplyVFConfig(p)
  <2>1. UNCHANGED <<loc, name, alive>> /\ pc'[p] \in {"apply", "setup", "addErr"} /\ ~HoldsLink(p)
    BY <1>4, <1>5, <1>7
       DEF LoadConf, ApplyVFConfig, MayStart, vfState, TypeOK, HoldsLink, PodLinkPresent
  <2> QED
    BY <1>6, <2>1 DEF RecordedFor
<1>8. CASE SetupVF(p)
  <2>1. pc'[p] \in {"ipam", "undo"}
    BY <1>5, <1>8 DEF SetupVF, TypeOK
  <2>2. pc'[p] = "undo" => (faults' # 0 \/ UNCHANGED <<loc, name, alive>>)
    BY <1>2, <1>5, <1>8 DEF SetupVF, TypeOK
  <2>3. ~HoldsLink(p)
    BY <1>4, <1>8 DEF SetupVF, HoldsLink, PodLinkPresent
  <2> QED
    BY <1>6, <2>1, <2>2, <2>3 DEF RecordedFor
<1>9. CASE IpamAdd(p) \/ ConfigureIface(p) \/ SaveNetConf(p)
  <2>1. /\ pc'[p] \in {"ipamIface", "save", "allocate", "undo"}
        /\ pc'[p] = "undo" => faults' # 0
    BY <1>2, <1>5, <1>9 DEF IpamAdd, ConfigureIface, SaveNetConf, TypeOK
  <2> QED
    BY <2>1 DEF RecordedFor
<1>10. CASE SaveAllocatedPCI(p)
  <2>1. pc'[p] \in {"create", "undo"} /\ (pci'[VfOf(p)] = p \/ (pc'[p] = "undo" /\ faults' # 0))
    BY <1>1, <1>2, <1>5, <1>10 DEF SaveAllocatedPCI, TypeOK
  <2> QED
    BY <2>1 DEF RecordedFor, VfOf
<1>11. CASE CreateBridgePort(p) \/ PrintResult(p)
  <2>1. pci[VfOf(p)] = p /\ UNCHANGED pci
    BY <1>3, <1>11 DEF CreateBridgePort, PrintResult, disk, RecordedFor
  <2>2. pc'[p] # "free"
    BY <1>5, <1>11 DEF CreateBridgePort, Rpc, PrintResult, TypeOK
  <2> QED
    BY <2>1, <2>2 DEF RecordedFor, VfOf
<1>12. CASE UndoIpam(p)
  <2>1. pc[p] = "undo" /\ pc'[p] = "undoRelease" /\ UNCHANGED <<loc, name, alive, pci>>
    BY <1>5, <1>12 DEF UndoIpam, TypeOK, vfState, disk
  <2> QED
    BY <1>2, <1>3, <1>6, <2>1 DEF RecordedFor, VfOf
<1>13. CASE UndoRelease(p)
  <2>1. pc[p] = "undoRelease" /\ pc'[p] = "undoReset" /\ UNCHANGED <<alive, pci>>
    BY <1>5, <1>13 DEF UndoRelease, TypeOK, disk
  <2>2. CASE ~PodLinkPresent(p)
    <3>1. UNCHANGED <<loc, name>> /\ ~HoldsLink(p)
      BY <1>13, <2>2 DEF UndoRelease, HoldsLink
    <3> QED
      BY <1>6, <2>1, <3>1 DEF RecordedFor
  <2>3. CASE PodLinkPresent(p)
    <3>1. PICK n \in 1..4 : SetVf(VfOf(p), ReleaseStages(p)[n]) /\ Outcome(n, 4)
      BY <1>13, <2>3 DEF UndoRelease
    <3>2. CASE n = 4
      <4>1. loc'[VfOf(p)] = "host"
        BY <1>1, <1>5, <3>1, <3>2 DEF SetVf, ReleaseStages, TypeOK
      <4> QED
        BY <1>1, <2>1, <4>1 DEF RecordedFor, HoldsLink, PodLinkPresent, VfOf
    <3>3. CASE n # 4
      <4>1. faults = 0
        BY <1>2, <3>1, <3>3 DEF Outcome
      <4> QED
        BY <1>3, <2>1, <2>3, <4>1 DEF RecordedFor, HoldsLink, VfOf
    <3> QED
      BY <3>2, <3>3
  <2> QED
    BY <2>2, <2>3
<1>14. CASE UndoReset(p)
  <2>1. /\ pc[p] = "undoReset" /\ pc'[p] = "addErr"
        /\ UNCHANGED <<loc, name, alive, pci>>
    BY <1>5, <1>14 DEF UndoReset, TypeOK, disk
  <2> QED
    BY <1>3, <1>6, <2>1 DEF RecordedFor, VfOf
<1>15. CASE CmdDel(p)
  <2>1. /\ pc[p] \in {"running", "addErr", "delErr"} /\ pc'[p] \in {"gone", "delErr", "release"}
        /\ UNCHANGED <<loc, name, alive, pci>>
    BY <1>5, <1>15
       DEF CmdDel, DelNotCached, DelCached, MayDel, Return, ReturnKeep, TypeOK, vfState, disk
  <2> QED
    BY <1>3, <1>6, <2>1 DEF RecordedFor, VfOf
<1>16. CASE ReleaseVF(p)
  <2>1. pc[p] = "release" /\ UNCHANGED <<alive, pci>> /\ pc'[p] \in {"gone", "delErr", "free"}
    BY <1>5, <1>16 DEF ReleaseVF, Return, ReturnKeep, TypeOK
  <2>2. CASE UNCHANGED <<loc, name>> /\ pc'[p] # "free"
    BY <1>3, <1>6, <2>1, <2>2 DEF RecordedFor, VfOf
  <2>3. CASE p \in alive /\ PodLinkPresent(p) /\ \E n \in 1..4 :
                 /\ SetVf(VfOf(p), ReleaseStages(p)[n])
                 /\ pc'[p] = "free" => n = 4
    <3>1. pci[VfOf(p)] = p
      BY <1>3, <2>1, <2>3 DEF RecordedFor, HoldsLink
    <3>2. pc'[p] = "free" => loc'[VfOf(p)] = "host"
      BY <1>1, <1>5, <2>3 DEF SetVf, ReleaseStages, TypeOK
    <3> QED
      BY <1>1, <2>1, <2>3, <3>1, <3>2 DEF RecordedFor, VfOf
  <2> QED
    BY <1>5, <1>16, <2>2, <2>3 DEF ReleaseVF, Return, TypeOK
<1>17. CASE DeleteAllocatedPCI(p)
  <2>1. /\ pc[p] = "free" /\ pc'[p] \in {"delete", "delErr"}
        /\ UNCHANGED <<loc, name, alive>>
    BY <1>5, <1>17 DEF DeleteAllocatedPCI, TypeOK, vfState
  <2> QED
    BY <1>3, <2>1 DEF RecordedFor, HoldsLink, PodLinkPresent, VfOf
<1>18. CASE DeleteBridgePort(p)
  <2>1. /\ pc[p] = "delete" /\ pc'[p] \in {"gone", "delErr"}
        /\ UNCHANGED <<loc, name, alive, pci>>
    BY <1>5, <1>18 DEF DeleteBridgePort, Rpc, TypeOK, vfState
  <2> QED
    BY <1>3, <1>6, <2>1 DEF RecordedFor, VfOf
<1>19. CASE DestroyNs(p)
  <2>1. pc'[p] = pc[p] /\ pc[p] # "free" /\ p \notin alive' /\ UNCHANGED pci
    BY <1>19 DEF DestroyNs, disk
  <2> QED
    BY <1>3, <2>1 DEF RecordedFor, HoldsLink, VfOf
<1> QED
  BY <1>2, <1>7, <1>8, <1>9, <1>10, <1>11, <1>12, <1>13, <1>14, <1>15, <1>16, <1>17, <1>18, <1>19
  DEF PodStep, CniStep

LEMMA RecordedNext ==
    ASSUME AllocInv, Recorded, SoleHolder, NEW q \in Pods, PodStep(q), FewFailures'
    PROVE  Recorded'
<1> SUFFICES ASSUME NEW p \in Pods, p # q PROVE RecordedFor(p)'
  BY OwnRecord DEF Recorded, RecordedFor, VfOf
<1>1. RecordedFor(p)
  BY DEF Recorded, RecordedFor
<1>2. /\ pc'[p] = pc[p]
      /\ HoldsLink(p)' => HoldsLink(p)
      /\ p \in alive <=> p \in alive'
      /\ loc'[VfOf(p)] = p => loc[VfOf(p)] = p
      /\ faults # 0 => faults' # 0
  BY OthersKeep, OthersGive, FewSoFar DEF AllocInv
<1>3. (pci[VfOf(p)] = p /\ (Adding(p) \/ HoldsLink(p) \/ (pc[p] = "free" /\ p \in alive)))
        => pci'[VfOf(p)] = p
  BY FileStays
<1> QED
  BY <1>1, <1>2, <1>3 DEF RecordedFor, Adding, AddSteps, VfOf

LEMMA AllocNext == AllocInv /\ [Next]_vars => AllocInv'
<1> SUFFICES ASSUME AllocInv, [Next]_vars PROVE AllocInv'
  OBVIOUS
<1>1. TypeOK'
  BY TypeNext DEF AllocInv
<1>2. CASE \E q \in Pods : PodStep(q)
  <2>1. PICK q \in Pods : PodStep(q)
    BY <1>2
  <2>2. OneAdder' /\ NotYet'
    BY <2>1, OneAdderNext, NotYetNext DEF AllocInv
  <2>3. ASSUME FewFailures' PROVE Recorded' /\ SoleHolder'
    <3>1. Recorded /\ SoleHolder /\ ~Kill(q)
      BY <2>1, <2>3, FewSoFar DEF AllocInv
    <3> QED
      BY <2>1, <2>3, <3>1, RecordedNext, SoleHolderNext
  <2> QED
    BY <1>1, <2>2, <2>3 DEF AllocInv
<1>3. CASE LateRpc \/ PluginRestart \/ UNCHANGED vars
  <2>1. UNCHANGED <<vfState, disk, alive, pc, faults, kills>>
    BY <1>3 DEF LateRpc, PluginRestart, vars, limits
  <2> QED
    BY <1>1, <2>1
       DEF AllocInv, OneAdder, NotYet, FewFailures, Recorded, RecordedFor, SoleHolder, Rivals,
           Adding, HoldsLink, PodLinkPresent, VfOf, vfState, disk
<1> QED
  BY <1>2, <1>3 DEF Next, PodStep, Finished

(* The next pod of a VF may start while the DEL of the former one is under *)
(* way, fails, is repeated or outlives its requests: as long as no process *)
(* was killed and one call failed at most, IsAllocated holds for the VF of *)
(* a running pod.                                                          *)
THEOREM RunningStaysAllocated == Spec => []AllocationOutlivesDel
<1>1. Init => AllocInv
  <2> SUFFICES ASSUME Init PROVE AllocInv
    OBVIOUS
  <2>1. \A p \in Pods : pc[p] = "new" /\ loc[VfOf(p)] # p
    BY VfIsVF, ConfAssumption DEF Init
  <2> QED
    BY <2>1, TypeInit
       DEF AllocInv, OneAdder, NotYet, Recorded, RecordedFor, SoleHolder, Adding, HoldsLink,
           PodLinkPresent, AddSteps
<1>2. AllocInv /\ [Next]_vars => AllocInv'
  BY AllocNext
<1>3. AllocInv => AllocationOutlivesDel
  BY ConfAssumption
     DEF AllocInv, FewFailures, Recorded, RecordedFor, AllocationOutlivesDel,
         RunningIsAllocated, Running, IsAllocated
<1> QED
  BY <1>1, <1>2, <1>3, PTL DEF Spec

-----------------------------------------------------------------------------
(* Unless it is killed, only the two requests of a pod touch the ports.    *)
LEMMA PortsStay ==
    ASSUME TypeOK, NEW q \in Pods, PodStep(q),
           ~CreateBridgePort(q), ~DeleteBridgePort(q), ~Kill(q)
    PROVE  /\ UNCHANGED <<ports, late>>
           /\ pc'[q] \in {"print", "running"} => pc[q] \in {"print", "running"}
<1> USE DEF Goto
<1>1. CASE LoadConf(q) \/ CmdDel(q) \/ DestroyNs(q)
  BY <1>1 DEF TypeOK, LoadConf, CmdDel, DelNotCached, DelCached, DestroyNs, Return, ReturnKeep
<1>2. CASE ApplyVFConfig(q) \/ SetupVF(q) \/ IpamAdd(q) \/ ConfigureIface(q)
  BY <1>2 DEF TypeOK, ApplyVFConfig, SetupVF, IpamAdd, ConfigureIface
<1>3. CASE SaveNetConf(q) \/ SaveAllocatedPCI(q) \/ PrintResult(q)
  BY <1>3 DEF TypeOK, SaveNetConf, SaveAllocatedPCI, PrintResult
<1>4. CASE UndoIpam(q) \/ UndoRelease(q) \/ UndoReset(q)
  BY <1>4 DEF TypeOK, UndoIpam, UndoRelease, UndoReset
<1>5. CASE ReleaseVF(q) \/ DeleteAllocatedPCI(q)
  BY <1>5 DEF TypeOK, ReleaseVF, DeleteAllocatedPCI, Return, ReturnKeep
<1> QED
  BY <1>1, <1>2, <1>3, <1>4, <1>5 DEF PodStep, CniStep

=============================================================================
