------------------------- MODULE DevicePluginProofs -------------------------
(***************************************************************************)
(* Theorems about DevicePlugin, for every set of devices and pods and any  *)
(* number of failures, stops and restarts.                                 *)
(***************************************************************************)
EXTENDS DevicePlugin, SequenceTheorems, TLAPS

(* What is in use, in terms of one pod.                                    *)
UsedBy(p) == UNION {asked[p][i] : i \in DOMAIN asked[p]}

(* Devices go from the plugin to the kubelet to the pods: none is excluded *)
(* and none is lost or added on the way.                                   *)
Flow ==
    /\ devices \subseteq Eligible
    /\ shown \subseteq Eligible
    /\ \A p \in Pods : UsedBy(p) \subseteq Eligible
    /\ (endpoint = "streaming" /\ stream = "sent") => shown = devices

(* A pod's environment names its own devices, and no two pods share one.   *)
Allocated ==
    /\ \A p \in Pods : \A i \in DOMAIN env[p] : env[p][i] \subseteq UsedBy(p)
    /\ \A p, q \in Pods : p # q => UsedBy(p) \cap UsedBy(q) = {}

(* The server and its socket, along main and Start.                        *)
Serving ==
    /\ stream # "none" => proc = "waiting" /\ endpoint # "registered"
    /\ proc = "dial" => server
    /\ proc = "down" => ~server
    /\ (proc = "register" /\ ~missed) => socket = "live" /\ server
    /\ endpoint = "registered" => proc \in {"waiting", "down"}
    /\ kubelet = "down" => endpoint = "none"
    /\ RegisteredIsReachable

PluginInv == TypeOK /\ Flow /\ Allocated /\ Serving

-----------------------------------------------------------------------------
(* Eligible devices are devices of the node.                               *)
LEMMA EligibleType ==
    Eligible \subseteq NetDevs /\ \A unread : Discovered(unread) \subseteq Eligible
<1>1. Eligible \subseteq NetDevs
  BY DevicesAssumption DEF Eligible
<1>2. \A unread : Discovered(unread) \subseteq Eligible
  BY DEF Eligible, Discovered
<1> QED
  BY <1>1, <1>2

LEMMA PluginInvInit == Init => PluginInv
<1> SUFFICES ASSUME Init PROVE PluginInv
  OBVIOUS
<1>1. \A p \in Pods : asked[p] = << >> /\ env[p] = << >> /\ UsedBy(p) = {}
  BY DEF Init, UsedBy
<1>2. TypeOK
  <2>1. asked \in [Pods -> Seq(SUBSET NetDevs)] /\ env \in [Pods -> Seq(SUBSET NetDevs)]
    BY DEF Init
  <2>2. faults \in 0..MaxFaults /\ stops \in 0..MaxStops /\ restarts \in 0..MaxRestarts
    BY LimitsAssumption DEF Init
  <2> QED
    BY <2>1, <2>2 DEF Init, TypeOK
<1>3. Flow
  BY <1>1 DEF Init, Flow
<1>4. Allocated
  BY <1>1 DEF Allocated
<1>5. Serving
  BY DEF Init, Serving, RegisteredIsReachable
<1> QED
  BY <1>2, <1>3, <1>4, <1>5 DEF PluginInv

(* The bounds are respected.                                               *)
LEMMA LimitsType ==
    ASSUME TypeOK, Works \/ Fails
    PROVE  faults' \in 0..MaxFaults /\ stops' \in 0..MaxStops /\ restarts' \in 0..MaxRestarts
BY LimitsAssumption DEF TypeOK, Works, Fails, limits

(* Only pods that start or end change what pods have.                      *)
LEMMA PodsStay ==
    ASSUME Allocated, UNCHANGED pods
    PROVE  Allocated' /\ \A p \in Pods : UsedBy(p)' = UsedBy(p)
BY DEF pods, Allocated, UsedBy

(* The plugin's steps, by the part of the invariant.                       *)
LEMMA PluginTypes ==
    ASSUME TypeOK, devices \subseteq Eligible, PluginStep \/ Stop \/ Crash
    PROVE  TypeOK'
<1> USE DEF Exit, Continue, node, pods
<1>1. CASE Main
  BY <1>1, LimitsType DEF Main, TypeOK, MainSteps
<1>2. CASE DiscoverHostDevices
  <2>1. devices' \subseteq NetDevs
    BY <1>2, EligibleType DEF DiscoverHostDevices
  <2> QED
    BY <1>2, <2>1, LimitsType DEF DiscoverHostDevices, TypeOK, MainSteps
<1>3. CASE Listen
  BY <1>3, LimitsType DEF Listen, TypeOK, MainSteps
<1>4. CASE SelfDial
  BY <1>4, LimitsType DEF SelfDial, TypeOK, MainSteps
<1>5. CASE Register
  BY <1>5, LimitsType DEF Register, TypeOK, MainSteps
<1>6. CASE ListAndWatch
  BY <1>6, LimitsType DEF ListAndWatch, TypeOK
<1>7. CASE Stop \/ Crash
  <2>1. stops' \in 0..MaxStops
    BY <1>7, LimitsAssumption DEF Stop, Crash, TypeOK
  <2>2. CASE Stop
    BY <2>1, <2>2 DEF Stop, TypeOK
  <2>3. CASE Crash
    BY <2>1, <2>3 DEF Crash, TypeOK
  <2> QED
    BY <1>7, <2>2, <2>3
<1> QED
  BY <1>1, <1>2, <1>3, <1>4, <1>5, <1>6, <1>7 DEF PluginStep

LEMMA PluginFlow ==
    ASSUME TypeOK, Flow, Allocated, Serving, PluginStep \/ Stop \/ Crash
    PROVE  Flow' /\ Allocated'
<1> USE DEF Flow, Exit, Continue
<1>1. UNCHANGED pods
  BY DEF PluginStep, Main, DiscoverHostDevices, Listen, SelfDial, Register, ListAndWatch,
         Stop, Crash
<1>2. Allocated' /\ \A p \in Pods : UsedBy(p)' = UsedBy(p)
  BY <1>1, PodsStay
<1>3. CASE DiscoverHostDevices
  BY <1>2, <1>3, EligibleType DEF DiscoverHostDevices, Serving, node
<1>4. CASE Main \/ Listen \/ SelfDial
  BY <1>2, <1>4 DEF Main, KubeletHasTried, Listen, SelfDial, Serving, node
<1>5. CASE Register \/ ListAndWatch
  BY <1>2, <1>5 DEF Register, ListAndWatch
<1>6. CASE Stop \/ Crash
  BY <1>2, <1>6 DEF Stop, Crash, node
<1> QED
  BY <1>2, <1>3, <1>4, <1>5, <1>6 DEF PluginStep

LEMMA PluginServing ==
    ASSUME TypeOK, Serving, PluginStep \/ Stop \/ Crash
    PROVE  Serving'
<1> USE DEF Serving, RegisteredIsReachable, Exit, Continue
<1>1. CASE Main
  BY <1>1 DEF Main, KubeletHasTried, node
<1>2. CASE DiscoverHostDevices \/ Listen
  BY <1>2 DEF DiscoverHostDevices, Listen, node
<1>3. CASE SelfDial
  BY <1>3 DEF SelfDial, node
<1>4. CASE Register
  BY <1>4 DEF Register
<1>5. CASE ListAndWatch
  BY <1>5 DEF ListAndWatch
<1>6. CASE Stop \/ Crash
  BY <1>6 DEF Stop, Crash, node
<1> QED
  BY <1>1, <1>2, <1>3, <1>4, <1>5, <1>6 DEF PluginStep

-----------------------------------------------------------------------------
(* The kubelet's steps that touch no pod.                                  *)
LEMMA KubeletKeeps ==
    ASSUME PluginInv, KubeletStep \/ KubeletDown
    PROVE  PluginInv'
<1> USE DEF PluginInv
<1>1. UNCHANGED pods
  BY DEF KubeletStep, KubeletDown, KubeletUp, Connect, StreamEnds
<1>2. Allocated' /\ \A p \in Pods : UsedBy(p)' = UsedBy(p)
  BY <1>1, PodsStay
<1>3. CASE KubeletDown
  <2>1. restarts' \in 0..MaxRestarts
    BY <1>3, LimitsAssumption DEF KubeletDown, TypeOK
  <2>2. TypeOK'
    BY <1>3, <2>1 DEF KubeletDown, TypeOK, process, pods
  <2>3. Flow' /\ Serving'
    BY <1>2, <1>3 DEF KubeletDown, Flow, Serving, RegisteredIsReachable, process
  <2> QED
    BY <1>2, <2>2, <2>3
<1>4. CASE KubeletUp
  <2>1. TypeOK'
    BY <1>4 DEF KubeletUp, TypeOK, process, pods, limits
  <2>2. Flow' /\ Serving'
    BY <1>2, <1>4 DEF KubeletUp, TypeOK, Flow, Serving, RegisteredIsReachable, process
  <2> QED
    BY <1>2, <2>1, <2>2
<1>5. CASE Connect
  <2>1. TypeOK'
    BY <1>5 DEF Connect, TypeOK, pods, limits
  <2>2. Flow'
    BY <1>2, <1>5 DEF Connect, Flow, Serving
  <2>3. Serving'
    BY <1>5 DEF Connect, Serving, RegisteredIsReachable, TypeOK
  <2> QED
    BY <1>2, <2>1, <2>2, <2>3
<1>6. CASE StreamEnds
  <2>1. TypeOK'
    BY <1>6 DEF StreamEnds, TypeOK, process, pods, limits
  <2>2. Flow' /\ Serving'
    BY <1>2, <1>6 DEF StreamEnds, Flow, Serving, RegisteredIsReachable, process
  <2> QED
    BY <1>2, <2>1, <2>2
<1> QED
  BY <1>3, <1>4, <1>5, <1>6 DEF KubeletStep

(* A pod starts with devices that are shown and free, and its environment  *)
(* is made of them.                                                        *)
LEMMA StartPodKeeps ==
    ASSUME NEW p \in Pods, PluginInv, StartPod(p)
    PROVE  PluginInv'
<1> USE DEF PluginInv
<1>1. PICK n \in 1..MaxContainers :
        \E reqs \in [1..n -> SUBSET (shown \ InUse) \ {{}}] :
           /\ asked' = [asked EXCEPT ![p] = reqs]
           /\ env' = [env EXCEPT ![p] = Allocate(reqs)]
  BY DEF StartPod
<1>2. PICK reqs \in [1..n -> SUBSET (shown \ InUse) \ {{}}] :
        /\ asked' = [asked EXCEPT ![p] = reqs]
        /\ env' = [env EXCEPT ![p] = Allocate(reqs)]
  BY <1>1
<1>3. n \in Nat /\ shown \subseteq NetDevs /\ shown \subseteq Eligible
  BY LimitsAssumption DEF TypeOK, Flow
<1>4. DOMAIN reqs = 1..n /\ \A i \in 1..n : reqs[i] \subseteq shown \ InUse
  BY <1>2
<1>5. \A i \in 1..n : Allocate(reqs)[i] = UNION {reqs[j] : j \in 1..i}
  BY <1>4 DEF Allocate
<1>6. \A i \in 1..n : Allocate(reqs)[i] \subseteq UNION {reqs[j] : j \in 1..n}
  <2> SUFFICES ASSUME NEW i \in 1..n, NEW d \in Allocate(reqs)[i]
               PROVE  d \in UNION {reqs[j] : j \in 1..n}
    OBVIOUS
  <2>1. PICK j \in 1..i : d \in reqs[j]
    BY <1>5
  <2>2. j \in 1..n
    BY <1>3
  <2> QED
    BY <2>1, <2>2
<1>7. UNION {reqs[j] : j \in 1..n} \subseteq shown \ InUse
  BY <1>4
<1>8. reqs \in Seq(SUBSET NetDevs) /\ Allocate(reqs) \in Seq(SUBSET NetDevs)
  <2>1. reqs \in [1..n -> SUBSET NetDevs]
    BY <1>3, <1>4
  <2>2. Allocate(reqs) \in [1..n -> SUBSET NetDevs]
    BY <1>3, <1>4, <1>6, <1>7 DEF Allocate
  <2> QED
    BY <1>3, <2>1, <2>2, SeqDef
<1>9. TypeOK'
  <2>1. asked' \in [Pods -> Seq(SUBSET NetDevs)] /\ env' \in [Pods -> Seq(SUBSET NetDevs)]
    BY <1>2, <1>8 DEF TypeOK
  <2> QED
    BY <2>1 DEF StartPod, TypeOK, process, node, limits
<1>10. UsedBy(p)' = UNION {reqs[j] : j \in 1..n}
  BY <1>2, <1>4 DEF UsedBy, TypeOK
<1>11. \A q \in Pods \ {p} : UsedBy(q)' = UsedBy(q) /\ env'[q] = env[q]
  BY <1>2 DEF UsedBy, TypeOK
<1>12. \A q \in Pods : UsedBy(q) \subseteq InUse
  BY DEF UsedBy, InUse
<1>13. Flow'
  BY <1>3, <1>7, <1>10, <1>11 DEF StartPod, Flow, process, node
<1>14. \A q \in Pods : \A i \in DOMAIN env'[q] : env'[q][i] \subseteq UsedBy(q)'
  <2>1. env'[p] = Allocate(reqs) /\ DOMAIN Allocate(reqs) = 1..n
    BY <1>2, <1>4 DEF TypeOK, Allocate
  <2> QED
    BY <1>6, <1>10, <1>11, <2>1 DEF Allocated
<1>15. Allocated'
  BY <1>7, <1>10, <1>11, <1>12, <1>14 DEF Allocated
<1>16. Serving'
  BY DEF StartPod, Serving, RegisteredIsReachable, process, node
<1> QED
  BY <1>9, <1>13, <1>15, <1>16

LEMMA EndPodKeeps ==
    ASSUME NEW p \in Pods, PluginInv, EndPod(p)
    PROVE  PluginInv'
<1> USE DEF PluginInv
<1>1. asked'[p] = << >> /\ env'[p] = << >> /\ UsedBy(p)' = {}
  BY DEF EndPod, TypeOK, UsedBy
<1>2. \A q \in Pods \ {p} : UsedBy(q)' = UsedBy(q) /\ env'[q] = env[q]
  BY DEF EndPod, UsedBy, TypeOK
<1>3. TypeOK'
  <2>1. asked' \in [Pods -> Seq(SUBSET NetDevs)] /\ env' \in [Pods -> Seq(SUBSET NetDevs)]
    BY DEF EndPod, TypeOK
  <2> QED
    BY <2>1 DEF EndPod, TypeOK, process, node, limits
<1>4. Flow'
  BY <1>1, <1>2 DEF EndPod, Flow, process, node
<1>5. Allocated'
  BY <1>1, <1>2 DEF Allocated
<1>6. Serving'
  BY DEF EndPod, Serving, RegisteredIsReachable, process, node
<1> QED
  BY <1>3, <1>4, <1>5, <1>6

LEMMA PluginInvNext == PluginInv /\ [Next]_vars => PluginInv'
<1> SUFFICES ASSUME PluginInv, [Next]_vars PROVE PluginInv'
  OBVIOUS
<1>1. CASE PluginStep \/ Stop \/ Crash
  BY <1>1, PluginTypes, PluginFlow, PluginServing DEF PluginInv, Flow
<1>2. CASE KubeletStep \/ KubeletDown
  BY <1>2, KubeletKeeps
<1>3. CASE \E p \in Pods : StartPod(p) \/ EndPod(p)
  BY <1>3, StartPodKeeps, EndPodKeeps
<1>4. CASE UNCHANGED vars
  BY <1>4 DEF vars, process, node, pods, limits, PluginInv, TypeOK, Flow, Allocated, UsedBy,
              Serving, RegisteredIsReachable
<1> QED
  BY <1>1, <1>2, <1>3, <1>4 DEF Next

LEMMA PluginInvAlways == Spec => []PluginInv
<1>1. Init => PluginInv
  BY PluginInvInit
<1>2. PluginInv /\ [Next]_vars => PluginInv'
  BY PluginInvNext
<1> QED
  BY <1>1, <1>2, PTL DEF Spec

-----------------------------------------------------------------------------
(* No device goes astray: what the kubelet advertises, and what a pod has  *)
(* in its environment, was discovered and is not excluded, and the list    *)
(* behind an open stream is the running process's own.                     *)
THEOREM OnlyDiscoveredDevices == Spec => []AdvertisedIsCurrent
<1>1. PluginInv => AdvertisedIsCurrent
  BY DEF PluginInv, Flow, Allocated, AdvertisedIsCurrent
<1> QED
  BY <1>1, PluginInvAlways, PTL

(* The self-dial of Start does what it is for: short of a restart of the   *)
(* kubelet, a registered plugin serves its socket.                         *)
THEOREM RegisteredPluginServes == Spec => []RegisteredIsReachable
<1>1. PluginInv => RegisteredIsReachable
  BY DEF PluginInv, Serving
<1> QED
  BY <1>1, PluginInvAlways, PTL

(* Although Allocate carries devices over from one container to the next,  *)
(* none reaches another pod.                                               *)
THEOREM PodsHaveTheirOwn == Spec => []PodsDisjoint
<1>1. PluginInv => PodsDisjoint
  BY DEF PluginInv, Allocated, PodsDisjoint
<1> QED
  BY <1>1, PluginInvAlways, PTL

(* Every variable keeps its type, the environments of containers included. *)
THEOREM TypeCorrect == Spec => []TypeOK
<1>1. PluginInv => TypeOK
  BY DEF PluginInv
<1> QED
  BY <1>1, PluginInvAlways, PTL
=============================================================================
