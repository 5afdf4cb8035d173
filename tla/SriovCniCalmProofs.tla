------------------------- MODULE SriovCniCalmProofs -------------------------
(***************************************************************************)
(* What cmdAdd and cmdDel make of VF, disk and ports when every call       *)
(* works, for any set of pods and VFs, whether or not the next pod of a VF *)
(* starts before the DEL of the former is over.                            *)
(***************************************************************************)
EXTENDS SriovCniProofs

(* A pod that may touch its VF: from LoadConf to DeleteAllocatedPCI, and   *)
(* before a DEL that finds a cached NetConf.                               *)
Holding == {"apply", "setup", "ipam", "ipamIface", "save", "allocate", "create", "print",
            "undo", "undoRelease", "undoReset", "running", "release", "free"}
Holds(p) == pc[p] \in Holding \/ (pc[p] = "addErr" /\ p \in cached)

Exclusive ==
    \A p, q \in Pods : (p # q /\ VfOf(p) = VfOf(q)) => ~Holds(p) \/ ~Holds(q)

(* The pod's namespace, its cached NetConf and its allocation.             *)
Accounted(p) ==
    /\ pc[p] # "gone" => p \in alive
    /\ pc[p] \in {"new", "gone", "delErr"} => p \notin cached
    /\ pc[p] \in DelSteps => p \in cached
    /\ (p \in cached /\ pc[p] \notin {"allocate", "delete"}) => pci[VfOf(p)] = p

CalmInv == Calm => Exclusive /\ \A p \in Pods : Accounted(p)

-----------------------------------------------------------------------------
(* A calm state follows a calm state only, by a step in which every call   *)
(* worked.                                                                 *)
LEMMA CalmStep ==
    ASSUME TypeOK, NEW q \in Pods, PodStep(q), Calm'
    PROVE  /\ Calm /\ Works /\ ~Fails /\ timeouts' # timeouts + 1
           /\ ~Kill(q)
           /\ DestroyNs(q) => pc[q] = "gone"
<1>1. /\ faults' = 0 /\ kills' = 0 /\ timeouts' = 0 /\ nsLosses' = 0 /\ restarts' = 0
      /\ faults \in Nat /\ kills \in Nat /\ timeouts \in Nat /\ nsLosses \in Nat
  BY LimitsAssumption DEF TypeOK, Calm, limits
<1>2. ~Fails /\ ~Kill(q) /\ timeouts' # timeouts + 1 /\ nsLosses' # nsLosses + 1
  BY <1>1 DEF Fails, Kill
<1>3. DestroyNs(q) => pc[q] = "gone"
  BY <1>2 DEF DestroyNs
<1>4. Works
  <2>1. CASE LoadConf(q) \/ ApplyVFConfig(q) \/ SetupVF(q) \/ IpamAdd(q) \/ ConfigureIface(q)
    BY <1>2, <2>1 DEF LoadConf, ApplyVFConfig, SetupVF, IpamAdd, ConfigureIface
  <2>2. CASE SaveNetConf(q) \/ SaveAllocatedPCI(q) \/ PrintResult(q) \/ UndoIpam(q)
    BY <1>2, <2>2 DEF SaveNetConf, SaveAllocatedPCI, PrintResult, UndoIpam
  <2>3. CASE UndoRelease(q) \/ UndoReset(q) \/ CmdDel(q)
    BY <1>2, <2>3 DEF UndoRelease, UndoReset, CmdDel, DelNotCached, DelCached, ResetVFConfig,
                      Outcome
  <2>4. CASE ReleaseVF(q) \/ DeleteAllocatedPCI(q)
    BY <1>2, <2>4 DEF ReleaseVF, DeleteAllocatedPCI, Outcome
  <2>5. CASE CreateBridgePort(q) \/ DeleteBridgePort(q)
    BY <1>2, <2>5 DEF CreateBridgePort, DeleteBridgePort, Rpc
  <2>6. CASE DestroyNs(q)
    BY <1>2, <2>6 DEF DestroyNs
  <2> QED
    BY <1>2, <2>1, <2>2, <2>3, <2>4, <2>5, <2>6 DEF PodStep, CniStep
<1>5. Calm
  BY <1>4 DEF Works, Calm
<1> QED
  BY <1>2, <1>3, <1>4, <1>5

(* A step of one pod gives nothing to another.                             *)
LEMMA OthersSame ==
    ASSUME TypeOK, NEW p \in Pods, NEW q \in Pods, p # q, PodStep(q)
    PROVE  /\ pc'[p] = pc[p] /\ netConf'[p] = netConf[p]
           /\ p \in cached' <=> p \in cached
           /\ p \in leased' <=> p \in leased
           /\ p \in alive' <=> p \in alive
<1> USE DEF Goto, CleanCachedNetConf, Return, ReturnKeep, disk
<1>1. CASE LoadConf(q) \/ ApplyVFConfig(q) \/ SetupVF(q)
  BY <1>1 DEF TypeOK, LoadConf, ApplyVFConfig, SetupVF
<1>2. CASE IpamAdd(q) \/ ConfigureIface(q) \/ SaveNetConf(q) \/ SaveAllocatedPCI(q) \/ PrintResult(q)
  BY <1>2 DEF TypeOK, IpamAdd, ConfigureIface, SaveNetConf, SaveAllocatedPCI, PrintResult
<1>3. CASE UndoIpam(q) \/ UndoRelease(q) \/ UndoReset(q)
  BY <1>3 DEF TypeOK, UndoIpam, UndoRelease, UndoReset
<1>4. CASE CmdDel(q) \/ ReleaseVF(q)
  BY <1>4 DEF TypeOK, CmdDel, DelNotCached, DelCached, ReleaseVF
<1>5. CASE DeleteAllocatedPCI(q) \/ CreateBridgePort(q) \/ DeleteBridgePort(q)
  BY <1>5 DEF TypeOK, DeleteAllocatedPCI, CreateBridgePort, DeleteBridgePort, Rpc
<1>6. CASE Kill(q)
  <2>1. p \in leased' <=> p \in leased
    BY <1>6 DEF Kill, CutBetween, CutInKnobs, CutInMove, CutInRpc
  <2> QED
    BY <1>6, <2>1 DEF TypeOK, Kill
<1>7. CASE DestroyNs(q)
  BY <1>7 DEF TypeOK, DestroyNs
<1> QED
  BY <1>1, <1>2, <1>3, <1>4, <1>5, <1>6, <1>7 DEF PodStep, CniStep

(* A VF is taken up by an ADD that finds no pod of it but idle ones and    *)
(* ones whose DEL is under way, and no allocation for a living one.        *)
Starts(q) == pc[q] = "new" /\ MayStart(q) /\ ~IsAllocated(VfOf(q)) /\ LoadConf(q)

(* The pod's own step.                                                     *)
LEMMA AccountedStep ==
    ASSUME TypeOK, NEW q \in Pods, Accounted(q), PodStep(q), Calm'
    PROVE  /\ Accounted(q)'
           /\ Holds(q)' => Holds(q) \/ Starts(q)
<1>1. VfOf(q) \in VFs /\ q # None
  BY VfIsVF, ConfAssumption
<1>2. /\ ~Fails /\ timeouts' # timeouts + 1 /\ ~Kill(q)
      /\ DestroyNs(q) => pc[q] = "gone"
  BY CalmStep
<1>3. VfOf(q)' = VfOf(q)
  BY DEF VfOf
<1> USE DEF Goto, CleanCachedNetConf, Return, ReturnKeep, disk, Accounted, Holds, Holding,
            DelSteps, TypeOK
<1>4. CASE LoadConf(q)
  BY <1>1, <1>2, <1>3, <1>4 DEF LoadConf, MayStart, Starts
<1>5. CASE ApplyVFConfig(q) \/ SetupVF(q) \/ IpamAdd(q) \/ ConfigureIface(q)
  BY <1>2, <1>3, <1>5 DEF ApplyVFConfig, SetupVF, IpamAdd, ConfigureIface
<1>6. CASE SaveNetConf(q) \/ SaveAllocatedPCI(q) \/ PrintResult(q)
  BY <1>1, <1>2, <1>3, <1>6 DEF SaveNetConf, SaveAllocatedPCI, PrintResult
<1>7. CASE UndoIpam(q) \/ UndoRelease(q) \/ UndoReset(q)
  BY <1>2, <1>3, <1>7 DEF UndoIpam, UndoRelease, UndoReset
<1>8. CASE CmdDel(q)
  BY <1>2, <1>3, <1>8 DEF CmdDel, DelNotCached, DelCached, MayDel, LoadConfFromCache
<1>9. CASE ReleaseVF(q)
  BY <1>2, <1>3, <1>9 DEF ReleaseVF
<1>10. CASE DeleteAllocatedPCI(q)
  BY <1>1, <1>2, <1>3, <1>10 DEF DeleteAllocatedPCI
<1>11. CASE CreateBridgePort(q) \/ DeleteBridgePort(q)
  BY <1>2, <1>3, <1>11 DEF CreateBridgePort, DeleteBridgePort, Rpc
<1>12. CASE DestroyNs(q)
  BY <1>2, <1>3, <1>12 DEF DestroyNs
<1> QED
  BY <1>2, <1>4, <1>5, <1>6, <1>7, <1>8, <1>9, <1>10, <1>11, <1>12 DEF PodStep, CniStep

(* The allocation of a pod whose NetConf is cached stays until its own     *)
(* DeleteAllocatedPCI: IsAllocated refuses the VF to others.               *)
LEMMA AllocationStays ==
    ASSUME TypeOK, Exclusive, NEW p \in Pods, Accounted(p), NEW q \in Pods, p # q, PodStep(q),
           p \in cached, pc[p] \notin {"allocate", "delete"}
    PROVE  pci'[VfOf(p)] = pci[VfOf(p)]
<1>1. VfOf(p) \in VFs /\ p # None
  BY VfIsVF, ConfAssumption
<1>2. pci[VfOf(p)] = p /\ p \in alive /\ Holds(p)
  BY DEF Accounted, Holds, Holding, TypeOK, AtRest, AddSteps, DelSteps
<1>3. CASE VfOf(q) # VfOf(p)
  BY <1>1, <1>3, OwnFile
<1>4. CASE VfOf(q) = VfOf(p)
  <2>1. ~Holds(q)
    BY <1>2, <1>4 DEF Exclusive
  <2>2. CASE LoadConf(q)
    BY <1>1, <1>2, <1>4, <2>2 DEF LoadConf, IsAllocated
  <2>3. ~SaveAllocatedPCI(q) /\ ~DeleteAllocatedPCI(q)
    BY <2>1 DEF SaveAllocatedPCI, DeleteAllocatedPCI, Holds, Holding
  <2>4. CASE UNCHANGED pci
    BY <2>4
  <2> QED
    BY <2>2, <2>3, <2>4
       DEF PodStep, CmdDel, DelNotCached, DelCached, CniStep, Kill, DestroyNs, ApplyVFConfig,
           SetupVF, IpamAdd, ConfigureIface, SaveNetConf, CreateBridgePort, PrintResult, UndoIpam,
           UndoRelease, UndoReset, ReleaseVF, DeleteBridgePort, disk
<1> QED
  BY <1>3, <1>4

(* A VF that somebody holds, cached or not, is not taken up by another.    *)
LEMMA HeldIsRefused ==
    ASSUME NEW p \in Pods, Accounted(p), Holds(p), NEW q \in Pods, p # q, VfOf(p) = VfOf(q)
    PROVE  ~Starts(q)
<1>1. p # None
  BY ConfAssumption
<1>2. pc[p] \in {"release", "free"} => IsAllocated(VfOf(p))
  BY <1>1 DEF Accounted, DelSteps, IsAllocated
<1> QED
  BY <1>2 DEF Starts, MayStart, Holds, Holding, DelSteps

LEMMA CalmNext ==
    ASSUME TypeOK, CalmInv, [Next]_vars
    PROVE  CalmInv'
<1> SUFFICES ASSUME Calm' PROVE Exclusive' /\ \A p \in Pods : Accounted(p)'
  BY DEF CalmInv
<1>1. ASSUME NEW q \in Pods, PodStep(q)
      PROVE  Exclusive' /\ \A p \in Pods : Accounted(p)'
  <2>1. Calm /\ Exclusive /\ \A p \in Pods : Accounted(p)
    BY <1>1, CalmStep DEF CalmInv
  <2>2. Accounted(q)' /\ (Holds(q)' => Holds(q) \/ Starts(q))
    BY <1>1, <2>1, AccountedStep
  <2>3. ASSUME NEW p \in Pods \ {q} PROVE Accounted(p)' /\ (Holds(p)' <=> Holds(p))
    <3>1. /\ pc'[p] = pc[p]
          /\ p \in cached' <=> p \in cached
          /\ p \in alive' <=> p \in alive
      BY <1>1, OthersSame
    <3>2. (p \in cached /\ pc[p] \notin {"allocate", "delete"}) => pci'[VfOf(p)] = pci[VfOf(p)]
      BY <1>1, <2>1, AllocationStays
    <3> QED
      BY <2>1, <3>1, <3>2 DEF Accounted, Holds, VfOf
  <2>4. ASSUME NEW p \in Pods, NEW r \in Pods, p # r, VfOf(p) = VfOf(r), Holds(p)', Holds(r)'
        PROVE  FALSE
    <3>1. CASE p = q
      <4>1. Holds(r)
        BY <2>3, <2>4, <3>1
      <4> QED
        BY <2>1, <2>2, <2>4, <3>1, <4>1, HeldIsRefused DEF Exclusive
    <3>2. CASE r = q
      <4>1. Holds(p)
        BY <2>3, <2>4, <3>2
      <4> QED
        BY <2>1, <2>2, <2>4, <3>2, <4>1, HeldIsRefused DEF Exclusive
    <3>3. CASE p # q /\ r # q
      BY <2>1, <2>3, <2>4, <3>3 DEF Exclusive
    <3> QED
      BY <3>1, <3>2, <3>3
  <2>5. Exclusive'
    BY <2>4 DEF Exclusive, VfOf
  <2> QED
    BY <2>2, <2>3, <2>5
<1>2. CASE LateRpc \/ UNCHANGED vars
  <2>1. UNCHANGED <<limits, pc, cached, alive, pci>>
    BY <1>2 DEF LateRpc, vars, disk
  <2>2. Calm
    BY <2>1 DEF Calm
  <2>3. Exclusive /\ \A p \in Pods : Accounted(p)
    BY <2>2 DEF CalmInv
  <2> QED
    BY <2>1, <2>3 DEF Exclusive, Accounted, Holds, VfOf
<1>3. ~PluginRestart
  BY LimitsAssumption DEF PluginRestart, Calm, limits, TypeOK
<1> QED
  BY <1>1, <1>2, <1>3 DEF Next, PodStep, Finished

LEMMA CalmInit == Init => CalmInv
BY DEF Init, CalmInv, Exclusive, Accounted, Holds, Holding, DelSteps

-----------------------------------------------------------------------------
(* cmdDel keeps off the VF of another pod                                  *)

(* A CNI process works on its own VF.                                      *)
LEMMA OtherVfs ==
    ASSUME TypeOK, NEW p \in Pods, PodStep(p), pc[p] # pc'[p], NEW v \in VFs, v # VfOf(p)
    PROVE  UNCHANGED <<loc[v], name[v], eff[v], knob[v]>>
<1>1. VfOf(p) \in VFs
  BY VfIsVF
<1>2. ASSUME NEW s, SetVf(VfOf(p), s)
      PROVE  UNCHANGED <<loc[v], name[v], eff[v]>>
  BY <1>1, <1>2 DEF SetVf, TypeOK
<1>3. ASSUME NEW calls, NEW n, NEW value, SetKnobs(p, calls, n, value)
      PROVE  UNCHANGED knob[v]
  BY <1>1, <1>3 DEF SetKnobs, TypeOK
<1> USE DEF vfState
<1>4. CASE ApplyVFConfig(p)
  BY <1>3, <1>4 DEF ApplyVFConfig
<1>5. CASE SetupVF(p)
  BY <1>2, <1>5 DEF SetupVF
<1>6. CASE UndoRelease(p) \/ ReleaseVF(p)
  BY <1>2, <1>6 DEF UndoRelease, ReleaseVF
<1>7. CASE UndoReset(p) \/ DelCached(p)
  BY <1>3, <1>7 DEF UndoReset, DelCached, ResetVFConfig, ResetPart
<1>8. CASE UNCHANGED vfState
  BY <1>8
<1>9. ~DestroyNs(p)
  BY DEF DestroyNs
<1>10. CASE Kill(p)
  BY <1>2, <1>3, <1>10 DEF Kill, CutBetween, CutInKnobs, CutInMove, CutInRpc, ResetPart
<1> QED
  BY <1>4, <1>5, <1>6, <1>7, <1>8, <1>9, <1>10
     DEF PodStep, CmdDel, CniStep, LoadConf, DelNotCached, IpamAdd, ConfigureIface,
         SaveNetConf, SaveAllocatedPCI, CreateBridgePort, PrintResult, UndoIpam,
         DeleteAllocatedPCI, DeleteBridgePort

LEMMA KeepsOffStep ==
    ASSUME TypeOK, CalmInv, [Next]_vars, Calm', NEW p \in Pods, NEW q \in Pods, p # q,
           Running(q), pc[p] \in DelSteps \cup {"delErr"}, pc[p] # pc'[p]
    PROVE  UNCHANGED <<loc[VfOf(q)], name[VfOf(q)], eff[VfOf(q)], knob[VfOf(q)]>>
<1>1. PodStep(p)
  <2>1. ~LateRpc /\ ~PluginRestart /\ ~UNCHANGED vars
    BY DEF LateRpc, PluginRestart, vars
  <2> QED
    BY <2>1, OthersSame DEF Next, PodStep, Finished
<1>2. Exclusive /\ Accounted(p) /\ Holds(q)
  BY <1>1, CalmStep DEF CalmInv, Running, Holds, Holding
<1>3. VfOf(q) \in VFs /\ VfOf(q)' = VfOf(q)
  BY VfIsVF DEF VfOf
<1>4. CASE VfOf(p) # VfOf(q)
  BY <1>1, <1>3, <1>4, OtherVfs
<1>5. CASE VfOf(p) = VfOf(q)
  <2>1. pc[p] \in {"free", "delete", "delErr"} /\ (pc[p] = "delErr" => p \notin cached)
    BY <1>2, <1>5 DEF Exclusive, Holds, Holding, DelSteps, Accounted
  <2>2. ~LoadConf(p) /\ ~DelCached(p) /\ ~DestroyNs(p)
    BY <2>1 DEF LoadConf, MayStart, DelCached, MayDel, LoadConfFromCache, DestroyNs
  <2>3. ~ApplyVFConfig(p) /\ ~SetupVF(p) /\ ~IpamAdd(p) /\ ~ConfigureIface(p)
    BY <2>1 DEF ApplyVFConfig, SetupVF, IpamAdd, ConfigureIface
  <2>4. ~SaveNetConf(p) /\ ~SaveAllocatedPCI(p) /\ ~CreateBridgePort(p) /\ ~PrintResult(p)
    BY <2>1 DEF SaveNetConf, SaveAllocatedPCI, CreateBridgePort, PrintResult
  <2>5. ~UndoIpam(p) /\ ~UndoRelease(p) /\ ~UndoReset(p) /\ ~ReleaseVF(p)
    BY <2>1 DEF UndoIpam, UndoRelease, UndoReset, ReleaseVF
  <2>6. ~Kill(p)
    BY <1>1, CalmStep
  <2>7. UNCHANGED vfState
    BY <1>1, <2>2, <2>3, <2>4, <2>5, <2>6
       DEF PodStep, CmdDel, CniStep, DelNotCached, DeleteAllocatedPCI, DeleteBridgePort
  <2> QED
    BY <1>3, <2>7 DEF vfState
<1> QED
  BY <1>4, <1>5

(* When every call works, cmdDel leaves the VF of another, running pod as  *)
(* it is, also if the next pod of the VF starts while cmdDel is under way: *)
(* the allocation is deleted only after ReleaseVF, and no ADD gets past    *)
(* IsAllocated before.  For any pods and VFs, those with a userspace       *)
(* driver or a MAC address of the pod's own included.                      *)
THEOREM CmdDelKeepsOff == Spec => DelKeepsOff
<1> DEFINE Off == \A p, q \in Pods :
              (/\ Calm' /\ p # q
               /\ Running(q) /\ pc[p] \in DelSteps \cup {"delErr"} /\ pc[p] # pc'[p])
              => UNCHANGED <<loc[VfOf(q)], name[VfOf(q)], eff[VfOf(q)], knob[VfOf(q)]>>
<1>1. TypeOK /\ CalmInv /\ [Next]_vars => CalmInv'
  BY CalmNext
<1>2. TypeOK /\ CalmInv /\ [Next]_vars => [Off]_vars
  BY KeepsOffStep
<1> QED
  BY TypeCorrect, CalmInit, <1>1, <1>2, PTL DEF Spec, DelKeepsOff
-----------------------------------------------------------------------------
(* A calm life leaves nothing behind                                       *)

(* No VF is bound to a userspace driver, and none gets a MAC address of    *)
(* the pod's own: the two kinds that cmdDel does not free.  That the reset *)
(* stops nowhere follows from the absence of "mac", by SelectSeq, which no *)
(* prover unfolds.                                                         *)
Resettable ==
    \A p \in Pods : /\ ~HasDpdkDriver(VfOf(p))
                   /\ "mac" \notin Conf[p].knobs
                   /\ ResetStops(p) = {}

(* Different VFs have different port names.  VF 11 of a PF eth1 and VF 1   *)
(* of a PF eth11 do not.                                                   *)
DistinctPortNames == \A v, w \in VFs : PortName(v) = PortName(w) => v = w

(* What a pod has at each step, and nothing else.                          *)
Moved == {"ipam", "ipamIface", "save", "allocate", "create", "print", "running", "release"}
Clean(p) ==
    /\ netConf[p].hostIf = "host"
    /\ pc[p] \notin {"undo", "undoRelease", "undoReset", "delErr"}
    /\ p \in leased =>
          pc[p] \in {"ipamIface", "save", "allocate", "create", "print", "running"}
    /\ p \in cached => pc[p] \in IsCached \cup DelSteps
    /\ pci[VfOf(p)] = p => pc[p] \in IsServed \cup {"release", "free"}
    /\ pc[p] \in Moved => PodLinkPresent(p)
VfsClean ==
    \A v \in VFs :
        /\ eff[v] = "orig"
        /\ \/ loc[v] = "host" /\ name[v] = "host"
           \/ \E p \in Pods : VfOf(p) = v /\ pc[p] \in Moved
PortsClean ==
    /\ late = {}
    /\ \A x \in ports : \E p \in Pods :
          x.name = PortName(VfOf(p)) /\ pc[p] \in {"print", "running"} \cup DelSteps
CleanInv == Calm => (\A p \in Pods : Clean(p)) /\ VfsClean /\ PortsClean

CleanBase ==
    /\ KeptInv
    /\ Exclusive
    /\ \A p \in Pods : Accounted(p)
    /\ \A p \in Pods : Clean(p)
    /\ VfsClean
    /\ PortsClean

(* A VF that a pod may touch has not been moved by another one.            *)
LEMMA AtHome ==
    ASSUME CleanBase, NEW q \in Pods, pc[q] \notin Moved, Holds(q) \/ Starts(q)
    PROVE  loc[VfOf(q)] = "host" /\ name[VfOf(q)] = "host" /\ eff[VfOf(q)] = "orig"
<1> USE DEF CleanBase
<1>1. VfOf(q) \in VFs
  BY VfIsVF
<1>2. ASSUME NEW p \in Pods, VfOf(p) = VfOf(q), pc[p] \in Moved
      PROVE  FALSE
  <2>1. p # q /\ Holds(p)
    BY <1>2 DEF Holds, Holding, Moved
  <2> QED
    BY <1>2, <2>1, HeldIsRefused DEF Exclusive
<1> QED
  BY <1>1, <1>2 DEF VfsClean

(* SetupVF finds the netdevice and moves it.                               *)
LEMMA SetupWorks ==
    ASSUME CleanBase, Resettable, NEW q \in Pods, SetupVF(q), Calm'
    PROVE  /\ pc[q] = "setup" /\ pc' = [pc EXCEPT ![q] = "ipam"]
           /\ SetVf(VfOf(q), <<q, "pod", "orig">>)
           /\ netConf'[q].hostIf = "host"
           /\ UNCHANGED <<pci, cached, leased, ports, late>>
<1> USE DEF CleanBase, KeptInv
<1>1. pc[q] = "setup"
  BY DEF SetupVF
<1>2. loc[VfOf(q)] = "host" /\ name[VfOf(q)] = "host" /\ eff[VfOf(q)] = "orig"
  BY <1>1, AtHome DEF Holds, Holding, Moved
<1>3. netConf[q].hostIf = "host" /\ ~HasDpdkDriver(VfOf(q))
  BY DEF Clean, Resettable
<1>4. ~Fails
  BY CalmStep DEF PodStep, CniStep
<1>5. /\ SetVf(VfOf(q), SetupStages(q)[5])
      /\ pc' = [pc EXCEPT ![q] = "ipam"]
      /\ netConf' = [netConf EXCEPT ![q].mac = eff[VfOf(q)]]
  BY <1>2, <1>3, <1>4 DEF SetupVF, SetupFinds, SetupStages, Goto
<1>6. SetupStages(q)[5] = <<q, "pod", "orig">>
  BY <1>2 DEF SetupStages, SetVFEffectiveMAC, Resettable
<1>7. netConf'[q].hostIf = "host"
  BY <1>3, <1>5 DEF TypeOK
<1> QED
  BY <1>1, <1>5, <1>6, <1>7 DEF SetupVF, disk

(* ReleaseVF puts it back.                                                 *)
LEMMA ReleaseWorks ==
    ASSUME CleanBase, Resettable, NEW q \in Pods, ReleaseVF(q), Calm'
    PROVE  /\ pc[q] = "release" /\ pc' = [pc EXCEPT ![q] = "free"]
           /\ SetVf(VfOf(q), <<"host", "host", "orig">>)
           /\ UNCHANGED <<pci, cached, leased, ports, late, netConf>>
<1> USE DEF CleanBase, KeptInv
<1>1. pc[q] = "release"
  BY DEF ReleaseVF
<1>2. PodLinkPresent(q) /\ q \in alive /\ netConf[q].hostIf = "host"
  BY <1>1 DEF Clean, Moved, Accounted
<1>3. eff[VfOf(q)] = "orig"
  BY VfIsVF DEF VfsClean
<1>4. ~Fails
  BY CalmStep DEF PodStep, CniStep
<1>5. SetVf(VfOf(q), ReleaseStages(q)[4]) /\ ReturnKeep(q, "free")
  BY <1>2, <1>4 DEF ReleaseVF, Outcome
<1>6. ReleaseStages(q)[4] = <<"host", "host", "orig">>
  BY <1>2, <1>3 DEF ReleaseStages, SetVFEffectiveMAC, Resettable
<1> QED
  BY <1>1, <1>5, <1>6 DEF ReleaseVF, ReturnKeep, Goto

(* No other step moves a netdevice.                                        *)
LEMMA NothingMoves ==
    ASSUME CleanBase, NEW q \in Pods, PodStep(q), Calm', ~SetupVF(q), ~ReleaseVF(q)
    PROVE  UNCHANGED <<loc, name, eff>>
<1> USE DEF CleanBase, KeptInv
<1>1. ~UndoRelease(q)
  BY DEF UndoRelease, Clean
<1>2. CASE DestroyNs(q)
  <2>1. pc[q] = "gone" /\ q # "host"
    BY <1>2, CalmStep, ConfAssumption
  <2>2. ASSUME NEW v \in VFs PROVE loc[v] # q
    <3>1. ASSUME NEW p \in Pods, VfOf(p) = v, pc[p] \in Moved
          PROVE  loc[v] # q
      BY <2>1, <3>1 DEF Clean, PodLinkPresent, Moved
    <3> QED
      BY <2>1, <3>1 DEF VfsClean
  <2>3. loc' = loc
    BY <1>2, <2>2 DEF DestroyNs, TypeOK
  <2> QED
    BY <1>2, <2>3 DEF DestroyNs
<1>3. CASE UNCHANGED <<loc, name, eff>>
  BY <1>3
<1>4. ~Kill(q)
  BY CalmStep
<1> QED
  BY <1>1, <1>2, <1>3, <1>4
     DEF PodStep, CmdDel, CniStep, LoadConf, DelNotCached, DelCached, ApplyVFConfig,
         IpamAdd, ConfigureIface, SaveNetConf, SaveAllocatedPCI, CreateBridgePort, PrintResult,
         UndoIpam, UndoReset, DeleteAllocatedPCI, DeleteBridgePort, vfState

(* The pod's own step: it goes on to the next one of cmdAdd or cmdDel, and *)
(* has what it should have there.                                          *)
LEMMA CleanOwnStep ==
    ASSUME CleanBase, Resettable, NEW q \in Pods, PodStep(q), Calm'
    PROVE  /\ Clean(q)'
           /\ (pc[q] \in Moved /\ ~ReleaseVF(q)) => pc'[q] \in Moved
           /\ (pc[q] \in {"print", "running"} \cup DelSteps /\ ~DeleteBridgePort(q)) =>
                 pc'[q] \in {"print", "running"} \cup DelSteps
<1> USE DEF CleanBase, KeptInv
<1>1. VfOf(q) \in VFs /\ q # None /\ VfOf(q)' = VfOf(q)
  BY VfIsVF, ConfAssumption DEF VfOf
<1>2. /\ ~Fails /\ timeouts' # timeouts + 1 /\ ~Kill(q)
      /\ DestroyNs(q) => pc[q] = "gone"
  BY CalmStep
<1>3. Clean(q) /\ Accounted(q) /\ Kept(q)
  OBVIOUS
<1>4. ~SetupVF(q) /\ ~ReleaseVF(q) => PodLinkPresent(q)' = PodLinkPresent(q)
  BY <1>1, NothingMoves DEF PodLinkPresent
<1> USE DEF Goto, CleanCachedNetConf, Return, ReturnKeep, disk, Clean, Moved, IsServed, IsCached,
            DelSteps, TypeOK
<1>5. CASE LoadConf(q)
  <2>1. pc[q] = "new" /\ pc'[q] \in {"addErr", "apply"} /\ UNCHANGED <<cached, leased>>
    BY <1>5 DEF LoadConf, MayStart
  <2>2. netConf' = netConf \/ name[VfOf(q)] = "host"
    <3>1. IsAllocated(VfOf(q)) => netConf' = netConf
      BY <1>2, <1>5 DEF LoadConf
    <3>2. ~IsAllocated(VfOf(q)) => name[VfOf(q)] = "host"
      BY <1>5, <2>1, AtHome DEF Starts, LoadConf
    <3> QED
      BY <3>1, <3>2
  <2>3. netConf'[q].hostIf = "host"
    BY <1>2, <1>3, <1>5, <2>2 DEF LoadConf
  <2>4. pci'[VfOf(q)] # q
    BY <1>1, <1>3, <1>5, <2>1 DEF LoadConf
  <2> QED
    BY <1>1, <1>3, <2>1, <2>3, <2>4 DEF Accounted, AddSteps, AtRest
<1>6. CASE SetupVF(q)
  <2>1. /\ pc[q] = "setup" /\ pc'[q] = "ipam" /\ netConf'[q].hostIf = "host"
        /\ UNCHANGED <<pci, cached, leased>>
        /\ SetVf(VfOf(q), <<q, "pod", "orig">>)
    BY <1>6, SetupWorks
  <2>2. PodLinkPresent(q)'
    BY <1>1, <2>1 DEF SetVf, PodLinkPresent
  <2> QED
    BY <1>1, <1>3, <2>1, <2>2
<1>7. CASE ReleaseVF(q)
  <2>1. /\ pc[q] = "release" /\ pc'[q] = "free"
        /\ UNCHANGED <<pci, cached, leased, netConf>>
    BY <1>7, ReleaseWorks
  <2> QED
    BY <1>1, <1>3, <1>7, <2>1
<1>8. CASE ApplyVFConfig(q) \/ IpamAdd(q) \/ ConfigureIface(q)
  BY <1>1, <1>2, <1>3, <1>4, <1>8
     DEF ApplyVFConfig, SetupVF, ReleaseVF, IpamAdd, ConfigureIface
<1>9. CASE SaveNetConf(q) \/ PrintResult(q)
  BY <1>1, <1>2, <1>3, <1>4, <1>9 DEF SaveNetConf, PrintResult, SetupVF, ReleaseVF
<1>10. CASE SaveAllocatedPCI(q)
  BY <1>1, <1>2, <1>3, <1>4, <1>10 DEF SaveAllocatedPCI, SetupVF, ReleaseVF, Resettable
<1>11. CASE DelNotCached(q)
  BY <1>1, <1>2, <1>3, <1>4, <1>11
     DEF DelNotCached, MayDel, LoadConfFromCache, Kept, SetupVF, ReleaseVF
<1>12. CASE DelCached(q)
  <2>1. pc[q] = "running" /\ q \in alive /\ q \in cached
    BY <1>3, <1>12 DEF DelCached, MayDel, LoadConfFromCache, Accounted
  <2>2. \A n, ok : ResetVFConfig(q, n, ok) => ok
    BY <1>2 DEF ResetVFConfig, Resettable
  <2>3. /\ pc' = [pc EXCEPT ![q] = "release"] /\ cached' = cached /\ leased' = leased \ {q}
        /\ UNCHANGED <<pci, netConf, ports, late, alive>>
    BY <1>2, <1>12, <2>1, <2>2 DEF DelCached
  <2>4. ~SetupVF(q) /\ ~ReleaseVF(q)
    BY <2>1 DEF SetupVF, ReleaseVF
  <2> QED
    BY <1>1, <1>3, <1>4, <2>1, <2>3, <2>4
<1>13. CASE DeleteAllocatedPCI(q)
  BY <1>1, <1>2, <1>3, <1>4, <1>13 DEF DeleteAllocatedPCI, Accounted, SetupVF, ReleaseVF
<1>14. CASE CreateBridgePort(q)
  BY <1>1, <1>2, <1>3, <1>4, <1>14 DEF CreateBridgePort, Rpc, SetupVF, ReleaseVF
<1>15. CASE DeleteBridgePort(q)
  BY <1>1, <1>2, <1>3, <1>4, <1>15 DEF DeleteBridgePort, Rpc, SetupVF, ReleaseVF
<1>16. CASE DestroyNs(q)
  BY <1>1, <1>2, <1>3, <1>4, <1>16 DEF DestroyNs, SetupVF, ReleaseVF
<1>17. ~UndoIpam(q) /\ ~UndoRelease(q) /\ ~UndoReset(q)
  BY <1>3 DEF UndoIpam, UndoRelease, UndoReset
<1> QED
  BY <1>2, <1>5, <1>6, <1>7, <1>8, <1>9, <1>10, <1>11, <1>12, <1>13, <1>14, <1>15, <1>16, <1>17
     DEF PodStep, CniStep, CmdDel

(* No pod writes another's name into the allocation file.                  *)
LEMMA FileIsOwn ==
    ASSUME TypeOK, NEW p \in Pods, NEW q \in Pods, p # q, PodStep(q), pci'[VfOf(p)] = p
    PROVE  pci[VfOf(p)] = p
<1>1. VfOf(p) \in VFs /\ VfOf(q) \in VFs /\ p # None
  BY VfIsVF, ConfAssumption
<1>2. CASE VfOf(p) # VfOf(q)
  BY <1>1, <1>2, OwnFile
<1>3. CASE VfOf(p) = VfOf(q)
  <2>1. pci' \in {pci, [pci EXCEPT ![VfOf(q)] = None], [pci EXCEPT ![VfOf(q)] = q]}
    <3>1. CASE LoadConf(q)
      BY <3>1 DEF LoadConf
    <3>2. CASE SaveAllocatedPCI(q) \/ DeleteAllocatedPCI(q)
      BY <3>2 DEF SaveAllocatedPCI, DeleteAllocatedPCI
    <3>3. CASE UNCHANGED pci
      BY <3>3
    <3> QED
      BY <3>1, <3>2, <3>3
         DEF PodStep, CmdDel, DelNotCached, DelCached, CniStep, Kill, DestroyNs, ApplyVFConfig,
             SetupVF, IpamAdd, ConfigureIface, SaveNetConf, CreateBridgePort, PrintResult,
             UndoIpam, UndoRelease, UndoReset, ReleaseVF, DeleteBridgePort, disk
  <2> QED
    BY <1>1, <1>3, <2>1 DEF TypeOK
<1> QED
  BY <1>2, <1>3

LEMMA CleanOtherStep ==
    ASSUME CleanBase, NEW p \in Pods, NEW q \in Pods, p # q, PodStep(q)
    PROVE  Clean(p)' /\ pc'[p] = pc[p]
<1> USE DEF CleanBase, KeptInv
<1>1. /\ pc'[p] = pc[p] /\ netConf'[p] = netConf[p]
      /\ p \in cached' <=> p \in cached
      /\ p \in leased' <=> p \in leased
  BY OthersSame
<1>2. PodLinkPresent(p) => PodLinkPresent(p)'
  BY OthersKeep
<1>3. pci'[VfOf(p)] = p => pci[VfOf(p)] = p
  BY FileIsOwn
<1> QED
  BY <1>1, <1>2, <1>3 DEF Clean, VfOf

(* The netdevices.                                                         *)
LEMMA VfsStep ==
    ASSUME CleanBase, Resettable, NEW q \in Pods, PodStep(q), Calm'
    PROVE  VfsClean'
<1> USE DEF CleanBase, KeptInv
<1>1. VfOf(q) \in VFs
  BY VfIsVF
<1>2. \A p \in Pods \ {q} : pc'[p] = pc[p]
  BY CleanOtherStep
<1>3. CASE ReleaseVF(q)
  <2>1. SetVf(VfOf(q), <<"host", "host", "orig">>)
    BY <1>3, ReleaseWorks
  <2>2. /\ loc'[VfOf(q)] = "host" /\ name'[VfOf(q)] = "host" /\ eff'[VfOf(q)] = "orig"
        /\ \A v \in VFs \ {VfOf(q)} : loc'[v] = loc[v] /\ name'[v] = name[v] /\ eff'[v] = eff[v]
    BY <1>1, <2>1 DEF SetVf, TypeOK
  <2> QED
    BY <1>2, <2>2 DEF VfsClean, VfOf
<1>4. CASE SetupVF(q)
  <2>1. SetVf(VfOf(q), <<q, "pod", "orig">>) /\ pc'[q] \in Moved /\ pc[q] \notin Moved
    BY <1>4, SetupWorks DEF TypeOK, Moved
  <2>2. /\ eff'[VfOf(q)] = "orig"
        /\ \A v \in VFs \ {VfOf(q)} : loc'[v] = loc[v] /\ name'[v] = name[v] /\ eff'[v] = eff[v]
    BY <1>1, <2>1 DEF SetVf, TypeOK
  <2> QED
    BY <1>2, <2>1, <2>2 DEF VfsClean, VfOf
<1>5. CASE ~ReleaseVF(q) /\ ~SetupVF(q)
  <2>1. UNCHANGED <<loc, name, eff>>
    BY <1>5, NothingMoves
  <2>2. pc[q] \in Moved => pc'[q] \in Moved
    BY <1>5, CleanOwnStep
  <2> QED
    BY <1>2, <2>1, <2>2 DEF VfsClean, VfOf
<1> QED
  BY <1>3, <1>4, <1>5

(* The ports: the name of a port is that of a pod that has one.            *)
LEMMA PortsStep ==
    ASSUME CleanBase, Resettable, NEW q \in Pods, PodStep(q), Calm'
    PROVE  PortsClean'
<1> USE DEF CleanBase, KeptInv
<1> DEFINE HavePort == {"print", "running"} \cup DelSteps
<1>1. \A p \in Pods \ {q} : pc'[p] = pc[p]
  BY CleanOtherStep
<1>2. ~Fails /\ timeouts' # timeouts + 1 /\ ~Kill(q)
  BY CalmStep
<1>3. ~DeleteBridgePort(q) => (pc[q] \in HavePort => pc'[q] \in HavePort)
  BY CleanOwnStep
<1>4. \A p \in Pods : PortName(VfOf(p))' = PortName(VfOf(p))
  BY DEF PortName, Decimal, VfOf
<1>5. CASE CreateBridgePort(q)
  <2> DEFINE m == CreateRequest(q)
  <2>1. ports' = Served(ports, m) /\ late' = late /\ pc'[q] = "print"
    BY <1>2, <1>5 DEF CreateBridgePort, Rpc, Goto, TypeOK
  <2>2. m.name = PortName(VfOf(q)) /\ m.op = "create"
    BY DEF CreateRequest
  <2>3. \A x \in ports' : x \in ports \/ x.name = PortName(VfOf(q))
    BY <2>1, <2>2 DEF Served
  <2>4. ~DeleteBridgePort(q)
    BY <1>5 DEF CreateBridgePort, DeleteBridgePort
  <2> QED
    BY <1>1, <1>3, <1>4, <2>1, <2>3, <2>4 DEF PortsClean
<1>6. CASE DeleteBridgePort(q)
  <2> DEFINE m == DeleteRequest(q)
  <2>1. ports' = Served(ports, m) /\ late' = late
    BY <1>2, <1>6 DEF DeleteBridgePort, Rpc
  <2>2. m.name = PortName(VfOf(q)) /\ m.op = "delete"
    BY DEF DeleteRequest
  <2>3. \A x \in ports' : x \in ports /\ x.name # PortName(VfOf(q))
    BY <2>1, <2>2 DEF Served
  <2> QED
    BY <1>1, <1>4, <2>1, <2>3 DEF PortsClean
<1>7. CASE ~CreateBridgePort(q) /\ ~DeleteBridgePort(q)
  <2>1. UNCHANGED <<ports, late>>
    BY <1>2, <1>7, PortsStay
  <2> QED
    BY <1>1, <1>3, <1>4, <1>7, <2>1 DEF PortsClean
<1> QED
  BY <1>5, <1>6, <1>7

LEMMA CleanNext ==
    ASSUME KeptInv, CalmInv, CleanInv, Resettable, [Next]_vars
    PROVE  CleanInv'
<1> SUFFICES ASSUME Calm' PROVE (\A p \in Pods : Clean(p)') /\ VfsClean' /\ PortsClean'
  BY DEF CleanInv
<1>1. ASSUME NEW q \in Pods, PodStep(q)
      PROVE  (\A p \in Pods : Clean(p)') /\ VfsClean' /\ PortsClean'
  <2>1. Calm
    BY <1>1, CalmStep DEF KeptInv
  <2>2. CleanBase
    BY <2>1 DEF CleanBase, CalmInv, CleanInv
  <2>3. \A p \in Pods : Clean(p)'
    BY <1>1, <2>2, CleanOwnStep, CleanOtherStep
  <2> QED
    BY <1>1, <2>2, <2>3, VfsStep, PortsStep
<1>2. CASE UNCHANGED vars
  <2>1. UNCHANGED <<loc, name, eff, pci, cached, leased, ports, late, pc, netConf>> /\ Calm
    BY <1>2 DEF vars, vfState, disk, Calm
  <2>2. (\A p \in Pods : Clean(p)) /\ VfsClean /\ PortsClean
    BY <2>1 DEF CleanInv
  <2>3. \A p \in Pods : Clean(p)'
    BY <2>1, <2>2 DEF Clean, PodLinkPresent, VfOf
  <2>4. VfsClean' /\ PortsClean'
    BY <2>1, <2>2 DEF VfsClean, PortsClean, VfOf, PortName, Decimal
  <2> QED
    BY <2>3, <2>4
<1>3. ~PluginRestart
  BY LimitsAssumption DEF PluginRestart, Calm, limits, KeptInv, TypeOK
<1>4. ~LateRpc
  BY DEF LateRpc, Calm, CleanInv, PortsClean
<1> QED
  BY <1>1, <1>2, <1>3, <1>4 DEF Next, PodStep, Finished

LEMMA CleanInit == Init => CleanInv
<1> SUFFICES ASSUME Init PROVE (\A p \in Pods : Clean(p)) /\ VfsClean /\ PortsClean
  BY DEF CleanInv
<1>1. \A p \in Pods : pci[VfOf(p)] # p
  BY VfIsVF, ConfAssumption DEF Init
<1> QED
  BY <1>1 DEF Init, Clean, Moved, VfsClean, PortsClean

(* When every call works, a DEL that succeeded leaves nothing of the pod,  *)
(* and once the VF has no other user, it is back on the host under its own *)
(* name and MAC address, without a bridge port: for any pods and VFs, also *)
(* if the next pod of a VF starts before the DEL is over, except for VFs   *)
(* with a userspace driver and pods with a MAC address of their own, and   *)
(* as long as no two VFs have one port name.                               *)
THEOREM CmdDelLeavesNothing ==
    (Resettable /\ DistinctPortNames) => (Spec => []DelLeavesNothing)
<1> SUFFICES ASSUME Resettable, DistinctPortNames PROVE Spec => []DelLeavesNothing
  OBVIOUS
<1>1. Init => KeptInv /\ CalmInv /\ CleanInv
  <2>1. Init => KeptInv
    BY TypeInit DEF Init, KeptInv, Kept, HasNetdev, IsCached, IsServed
  <2> QED
    BY <2>1, CalmInit, CleanInit
<1>2. KeptInv /\ CalmInv /\ CleanInv /\ [Next]_vars => KeptInv' /\ CalmInv' /\ CleanInv'
  BY KeptNext, CalmNext, CleanNext DEF KeptInv
<1>3. KeptInv /\ CalmInv /\ CleanInv => DelLeavesNothing
  <2> SUFFICES ASSUME KeptInv, CalmInv, CleanInv, Calm, NEW p \in Pods, pc[p] = "gone"
               PROVE  /\ p \notin leased \cup cached
                      /\ pci[VfOf(p)] # p
                      /\ loc[VfOf(p)] # p
                      /\ (\A q \in Pods : VfOf(q) = VfOf(p) => pc[q] \in {"new", "gone"}) =>
                            VfNow(VfOf(p)) = <<"host", "host", "orig">> /\ ~HasPort(VfOf(p))
    BY DEF DelLeavesNothing
  <2>1. (\A q \in Pods : Clean(q)) /\ VfsClean /\ PortsClean
    BY DEF CleanInv
  <2>2. VfOf(p) \in VFs /\ p # "host"
    BY VfIsVF, ConfAssumption
  <2>3. p \notin leased \cup cached /\ pci[VfOf(p)] # p
    BY <2>1 DEF Clean, IsCached, IsServed, DelSteps
  <2>4. loc[VfOf(p)] # p
    <3>1. ASSUME NEW q \in Pods, VfOf(q) = VfOf(p), pc[q] \in Moved
          PROVE  loc[VfOf(p)] # p
      BY <2>1, <3>1 DEF Clean, PodLinkPresent, Moved
    <3> QED
      BY <2>1, <2>2, <3>1 DEF VfsClean
  <2>5. ASSUME \A q \in Pods : VfOf(q) = VfOf(p) => pc[q] \in {"new", "gone"}
        PROVE  VfNow(VfOf(p)) = <<"host", "host", "orig">> /\ ~HasPort(VfOf(p))
    <3>1. VfNow(VfOf(p)) = <<"host", "host", "orig">>
      BY <2>1, <2>2, <2>5 DEF VfsClean, VfNow, Moved
    <3>2. ASSUME NEW x \in ports, x.name = PortName(VfOf(p)) PROVE FALSE
      <4>1. PICK q \in Pods : x.name = PortName(VfOf(q)) /\ pc[q] \in {"print", "running"} \cup DelSteps
        BY <2>1 DEF PortsClean
      <4>2. VfOf(q) = VfOf(p)
        BY <3>2, <4>1, VfIsVF DEF DistinctPortNames
      <4> QED
        BY <2>5, <4>1, <4>2 DEF DelSteps
    <3> QED
      BY <3>1, <3>2 DEF HasPort
  <2> QED
    BY <2>3, <2>4, <2>5
<1> QED
  BY <1>1, <1>2, <1>3, PTL DEF Spec
=============================================================================
