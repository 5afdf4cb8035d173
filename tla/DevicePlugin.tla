---------------------------- MODULE DevicePlugin ----------------------------
(***************************************************************************)
(* The IPU device plugin and the kubelet it serves.  The plugin discovers  *)
(* the APFs of the node, listens on a socket in the kubelet's directory,   *)
(* registers once, and then waits for a signal; the kubelet connects back, *)
(* receives the list of devices and asks for allocations.                  *)
(*                                                                         *)
(* The kubelet is external: when it starts it removes every socket in the  *)
(* directory and knows no plugin; it forgets a plugin whose stream ends;   *)
(* it allocates devices that are advertised and in no other pod, and       *)
(* remembers that across restarts.                                         *)
(*                                                                         *)
(* A definition whose name ends in Seeded is the one after it with a       *)
(* plausible mistake; no action uses it.                                   *)
(***************************************************************************)
EXTENDS Naturals, Sequences

CONSTANTS
    NetDevs,        \* entries of /sys/class/net
    Apfs,           \* those with the device code 0x1452
    Excluded,       \* those the configuration file excludes
    Pods,           \* pods that ask for devices
    MaxContainers,  \* containers of a pod that one Allocate is asked for
    MaxFaults,      \* bound on failing calls of the plugin
    MaxStops,       \* bound on signals and crashes of the plugin
    MaxRestarts     \* bound on restarts of the kubelet

ASSUME DevicesAssumption == Apfs \subseteq NetDevs /\ Excluded \subseteq NetDevs
ASSUME LimitsAssumption ==
    {MaxContainers, MaxFaults, MaxStops, MaxRestarts} \subseteq Nat

VARIABLES
    proc,           \* the plugin process: next step of main, or "down"
    devices,        \* sm.devices
    server,         \* the gRPC server accepts connections
    socket,         \* the socket file: "absent", "live" or "stale"
    stream,         \* ListAndWatch: "none", "first" (send to come) or "sent"
    kubelet,        \* "up" or "down"
    endpoint,       \* what the kubelet knows: "none", "registered", "streaming"
    shown,          \* devices the kubelet advertises
    asked,          \* per pod: the devices of each of its containers
    env,            \* per pod: APF-DEV in each of its containers
    missed,         \* history: the kubelet has lost the process (see below)
    faults, stops, restarts

process == <<proc, devices, server, stream>>
node == <<kubelet, endpoint, shown>>
pods == <<asked, env>>
limits == <<faults, stops, restarts>>
vars == <<process, socket, node, pods, missed, limits>>

Eligible == Apfs \ Excluded
MainSteps == {"discover", "listen", "dial", "register", "waiting"}

TypeOK ==
    /\ proc \in {"down"} \cup MainSteps
    /\ devices \subseteq NetDevs
    /\ server \in BOOLEAN
    /\ socket \in {"absent", "live", "stale"}
    /\ stream \in {"none", "first", "sent"}
    /\ kubelet \in {"up", "down"}
    /\ endpoint \in {"none", "registered", "streaming"}
    /\ shown \subseteq NetDevs
    /\ asked \in [Pods -> Seq(SUBSET NetDevs)]
    /\ env \in [Pods -> Seq(SUBSET NetDevs)]
    /\ missed \in BOOLEAN
    /\ faults \in 0..MaxFaults
    /\ stops \in 0..MaxStops
    /\ restarts \in 0..MaxRestarts

Init ==
    /\ proc = "down"
    /\ devices = {}
    /\ server = FALSE
    /\ socket \in {"absent", "stale"}
    /\ stream = "none"
    /\ kubelet = "up"
    /\ endpoint = "none"
    /\ shown = {}
    /\ asked = [p \in Pods |-> << >>]
    /\ env = [p \in Pods |-> << >>]
    /\ missed = FALSE
    /\ faults = 0
    /\ stops = 0
    /\ restarts = 0

-----------------------------------------------------------------------------
Works == UNCHANGED limits
Fails == faults < MaxFaults /\ faults' = faults + 1 /\ UNCHANGED <<stops, restarts>>

(* The process ends.  Its socket file stays, with nobody behind it.        *)
Exit ==
    /\ proc' = "down"
    /\ devices' = {}
    /\ server' = FALSE
    /\ stream' = "none"
    /\ socket' = IF socket = "live" THEN "stale" ELSE socket

Continue(step) == proc' = step /\ UNCHANGED <<server, stream>>

(* The kubelet connects as soon as Register has returned and gives up in   *)
(* seconds; a container that ends is restarted later than that.  Nothing   *)
(* in the plugin ensures it: it is assumed of the kubelet.                 *)
KubeletHasTried == endpoint # "registered"

(* main: newAPFManager and cleanup, whose error is ignored.                *)
MainSeeded ==
    /\ proc = "down"
    /\ KubeletHasTried
    /\ Continue("discover")
    /\ devices' = {}
    /\ missed' = FALSE
    /\ Works
    /\ UNCHANGED <<socket, node, pods>>

Main ==
    /\ proc = "down"
    /\ KubeletHasTried
    /\ Continue("discover")
    /\ devices' = {}
    /\ missed' = FALSE
    /\ \/ socket' = "absent" /\ Works
       \/ socket # "absent" /\ Fails /\ UNCHANGED socket
    /\ UNCHANGED <<node, pods>>

(* discoverHostDevices: no configuration, no plugin.  A directory that     *)
(* cannot be read has no devices; a device file that cannot be read is not *)
(* the one of an APF.                                                      *)
DiscoveredSeeded(unread) == Apfs \ unread
Discovered(unread) == (Apfs \ unread) \ Excluded

DiscoverHostDevices ==
    /\ proc = "discover"
    /\ \/ /\ Works
          /\ devices' = Discovered({})
          /\ Continue("listen") /\ UNCHANGED socket
       \/ /\ Fails
          /\ \E unread \in {{d} : d \in Apfs} \cup {Apfs} : devices' = Discovered(unread)
          /\ Continue("listen") /\ UNCHANGED socket
       \/ Fails /\ Exit
    /\ UNCHANGED <<node, pods, missed>>

(* Listen fails if the socket file is still there.  The error is only      *)
(* printed, and Serve of no listener ends the process.                     *)
Listen ==
    /\ proc = "listen"
    /\ \/ /\ socket = "absent" /\ Works
          /\ socket' = "live"
          /\ server' = TRUE
          /\ proc' = "dial"
          /\ UNCHANGED <<devices, stream>>
       \/ socket # "absent" /\ Works /\ Exit
       \/ Fails /\ Exit
    /\ UNCHANGED <<node, pods, missed>>

(* The blocking connection to its own socket, for five seconds.            *)
SelfDialSeeded ==
    /\ proc = "dial"
    /\ Works
    /\ Continue("register") /\ UNCHANGED <<devices, socket>>
    /\ UNCHANGED <<node, pods, missed>>

SelfDial ==
    /\ proc = "dial"
    /\ \/ socket = "live" /\ Works /\ Continue("register") /\ UNCHANGED <<devices, socket>>
       \/ socket # "live" /\ Works /\ Exit
       \/ Fails /\ Exit
    /\ UNCHANGED <<node, pods, missed>>

(* Register, and then wait for a signal.                                   *)
Register ==
    /\ proc = "register"
    /\ \/ /\ kubelet = "up" /\ Works
          /\ endpoint' = "registered"
          /\ Continue("waiting") /\ UNCHANGED <<devices, socket>>
       \/ kubelet = "down" /\ Works /\ Exit /\ UNCHANGED endpoint
       \/ Fails /\ Exit /\ UNCHANGED endpoint
    /\ UNCHANGED <<kubelet, shown, pods, missed>>

(* ListAndWatch sends the list once: GetDeviceState never changes it.  If  *)
(* the stream is gone, the server is stopped, which unlinks its socket,    *)
(* and the process goes on waiting.                                        *)
ListAndWatch ==
    /\ stream = "first"
    /\ \/ /\ endpoint = "streaming" /\ Works
          /\ shown' = devices
          /\ stream' = "sent"
          /\ UNCHANGED <<server, socket>>
       \/ /\ \/ endpoint # "streaming" /\ Works
             \/ Fails
          /\ server' = FALSE
          /\ stream' = "none"
          /\ socket' = "absent"
          /\ UNCHANGED shown
    /\ UNCHANGED <<proc, devices, kubelet, endpoint, pods, missed>>

(* Allocate: one environment per container, from a devName that is set to  *)
(* "" once per request.  An unknown device is reported and handed out.     *)
AllocateSeeded(reqs) ==
    LET devName == UNION {UNION {env[q][j] : j \in DOMAIN env[q]} : q \in Pods}
    IN  [i \in DOMAIN reqs |-> devName \cup UNION {reqs[j] : j \in 1..i}]
AllocateEmptySeeded(reqs) == [i \in DOMAIN reqs |-> {""} \cup UNION {reqs[j] : j \in 1..i}]
Allocate(reqs) == [i \in DOMAIN reqs |-> UNION {reqs[j] : j \in 1..i}]

(* SIGTERM: Stop and cleanup.  A crash leaves the socket file.             *)
Stop ==
    /\ proc = "waiting"
    /\ stops < MaxStops
    /\ stops' = stops + 1
    /\ proc' = "down"
    /\ devices' = {}
    /\ server' = FALSE
    /\ stream' = "none"
    /\ socket' = "absent"
    /\ UNCHANGED <<node, pods, missed, faults, restarts>>

Crash ==
    /\ proc # "down"
    /\ stops < MaxStops
    /\ stops' = stops + 1
    /\ Exit
    /\ UNCHANGED <<node, pods, missed, faults, restarts>>

-----------------------------------------------------------------------------
(* The kubelet                                                             *)

(* A restart costs the plugin its registration, or its socket.             *)
KubeletDown ==
    /\ kubelet = "up"
    /\ restarts < MaxRestarts
    /\ restarts' = restarts + 1
    /\ kubelet' = "down"
    /\ endpoint' = "none"
    /\ shown' = {}
    /\ missed' = (missed \/ proc = "waiting")
    /\ UNCHANGED <<process, socket, pods, faults, stops>>

KubeletUp ==
    /\ kubelet = "down"
    /\ kubelet' = "up"
    /\ socket' = "absent"
    /\ missed' = (missed \/ (socket = "live" /\ proc \in {"register", "waiting"}))
    /\ UNCHANGED <<process, endpoint, shown, pods, limits>>

(* The kubelet connects back and calls ListAndWatch, or gives up on a      *)
(* plugin it cannot reach.                                                 *)
Connect ==
    /\ endpoint = "registered"
    /\ IF socket = "live" /\ server
       THEN endpoint' = "streaming" /\ stream' = "first" /\ UNCHANGED shown
       ELSE endpoint' = "none" /\ shown' = {} /\ UNCHANGED stream
    /\ UNCHANGED <<proc, devices, server, socket, kubelet, pods, missed, limits>>

(* The stream has ended on the plugin's side.                              *)
StreamEnds ==
    /\ endpoint = "streaming"
    /\ stream = "none"
    /\ endpoint' = "none"
    /\ shown' = {}
    /\ UNCHANGED <<process, socket, kubelet, pods, missed, limits>>

InUse == UNION {UNION {asked[p][i] : i \in DOMAIN asked[p]} : p \in Pods}

StartPod(p) ==
    /\ asked[p] = << >>
    /\ endpoint = "streaming" /\ stream = "sent"
    /\ \E n \in 1..MaxContainers :
          \E reqs \in [1..n -> SUBSET (shown \ InUse) \ {{}}] :
             /\ \A i, j \in 1..n : i # j => reqs[i] \cap reqs[j] = {}
             /\ asked' = [asked EXCEPT ![p] = reqs]
             /\ env' = [env EXCEPT ![p] = Allocate(reqs)]
    /\ UNCHANGED <<process, socket, node, missed, limits>>

EndPod(p) ==
    /\ asked[p] # << >>
    /\ asked' = [asked EXCEPT ![p] = << >>]
    /\ env' = [env EXCEPT ![p] = << >>]
    /\ UNCHANGED <<process, socket, node, missed, limits>>

-----------------------------------------------------------------------------
PluginStep ==
    Main \/ DiscoverHostDevices \/ Listen \/ SelfDial \/ Register \/ ListAndWatch
KubeletStep == KubeletUp \/ Connect \/ StreamEnds

Next ==
    \/ PluginStep \/ Stop \/ Crash
    \/ KubeletStep \/ KubeletDown
    \/ \E p \in Pods : StartPod(p) \/ EndPod(p)

Spec == Init /\ [][Next]_vars

(* The process runs and is restarted when it has ended; the kubelet is     *)
(* brought up again and acts on what it sees.                              *)
FairSpec == Spec /\ WF_vars(PluginStep) /\ WF_vars(KubeletStep)

-----------------------------------------------------------------------------
(* Properties                                                              *)

(* The kubelet advertises no device that is excluded, and a pod is given   *)
(* none; as long as the stream is up, it advertises the devices of the     *)
(* process that runs now, although it may have been restarted.             *)
AdvertisedIsCurrent ==
    /\ shown \subseteq Eligible
    /\ \A p \in Pods : \A i \in DOMAIN env[p] : env[p][i] \subseteq Eligible
    /\ (endpoint = "streaming" /\ stream = "sent") => shown = devices

(* A plugin that has registered can be reached, unless the kubelet was     *)
(* restarted meanwhile: that is what the blocking connection in Start is   *)
(* for.                                                                    *)
RegisteredIsReachable ==
    (endpoint = "registered" /\ proc = "waiting" /\ ~missed) => socket = "live" /\ server

(* No device is in the environment of two pods.                            *)
PodsDisjoint ==
    \A p, q \in Pods : p # q =>
        \A i \in DOMAIN env[p], j \in DOMAIN env[q] : env[p][i] \cap env[q][j] = {}

(* Whatever fails or stops, in the end the plugin waits and the kubelet    *)
(* advertises what it has discovered, all of it if no call failed; unless  *)
(* the kubelet was restarted after the plugin had its socket, or           *)
(* ListAndWatch has stopped the server: nothing then registers it again.   *)
ComesToBeAdvertised ==
    <>[](\/ missed
         \/ proc = "waiting" /\ ~server
         \/ /\ proc = "waiting" /\ shown = devices
            /\ faults = 0 => shown = Eligible)
=============================================================================
