# A TLA+ model of ipu-opi-plugins

This directory holds TLA+ modules for the parts of this repository that keep
state and talk to each other, TLC configurations that check them on small
instances, and TLAPS proofs. `PROJECT.json` lists runs, mutants, the mapping of
definitions to source lines, findings, hazards and theorems.

## 1. Inventory

| Component | State | Operations | Talks to |
|---|---|---|---|
| Bridge-port service (`ipu-plugin/pkg/ipuplugin/bridgeport.go`) | `server.Ports`, a map without a lock | `CreateBridgePort`, `DeleteBridgePort`; Update, Get, List are stubs | called over gRPC by the CNI; calls netlink, the bridge controller, the p4rt client |
| Bridge controllers (`linuxbridge.go`, `ovsbridge.go`) | bridge and its ports, in the kernel or in OVS | `EnsureBridgeExists`, `AddPort`, `DeletePort` | netlink, `ovs-vsctl` |
| p4rt client (`pkg/p4rtclient`) | FXP tables | `AddRules`, `DeleteRules` | one `p4rt-ctl` process per rule; errors are logged only |
| IPU plugin server (`ipuplugin.go`) and command line (`rootcmd.go`) | process, listener | `Run`, `Stop` | registers the two services |
| Life-cycle service (`lifecycleservice.go`) | IPv4 address of the communication PF | `Init` | netlink, sysfs; called by the DPU daemon on host and IPU |
| SR-IOV CNI (`sriov_cni/cmd/sriov/main.go`) | none of its own: a process per call | `cmdAdd`, `cmdDel` (`cmdCheck` does nothing) | VF manager, IPAM plugin, cache and allocation files, the bridge-port service |
| VF manager (`pkg/sriov`) | VF netdevice and its PF-side attributes | `ApplyVFConfig`, `SetupVF`, `ReleaseVF`, `ResetVFConfig` | netlink |
| PCI allocator and NetConf cache (`pkg/utils`), configuration (`pkg/config`) | a file per allocated PCI address, a file per pod and interface | `SaveAllocatedPCI`, `DeleteAllocatedPCI`, `IsAllocated`, `SaveNetConf`, `LoadConf`, `LoadConfFromCache` | file system |
| IPU device plugin (`ipu-device-plugin`) | device map, gRPC server | `Start`, `ListAndWatch`, `Allocate`, `Stop` | kubelet |
| Network function (`network_function/nf.c`) | none | relay loop | raw socket |
| FXP program (`p4files`) | tables | packet processing | filled by the p4rt client |

What is hard here:

* gRPC runs every request in its own goroutine; the handlers share `Ports`, the
  kernel and the FXP tables and take no lock.
* Every handler and every CNI command is a sequence of external calls, each of
  which can fail and leave the earlier ones done. Some steps are idempotent and
  some are not (`ovs-vsctl`).
* `Ports` is lost on a restart, everything else survives, also what was half done: the
  Linux bridge is created and brought up in two calls.
* `cmdAdd` rolls back with deferred functions that look at `err`, and several
  errors are in variables that shadow it. `cmdDel` decides in the same way
  whether the cached NetConf is removed.
* `Init` of the life-cycle service is not idempotent and keeps no state of its own:
  what stops a second call is what the first one left in the kernel. It can be
  interleaved with itself, repeated after a lost answer, and a person may unset the
  address in between.
* The device plugin registers once. The kubelet removes sockets when it starts and
  forgets plugins whose stream ends; `ListAndWatch` stops the server on an error
  while the process goes on waiting.
* The DEL of an old pod may run beside the ADD of the VF's new pod. The client
  gives up on an RPC after ten seconds; the server does not.

What makes the parts correct: a stored port is connected and stays so; deleting undoes
creating; a retry is never blocked by an earlier attempt; a running pod keeps its VF,
lease, cache entry, allocation and bridge port; DEL leaves nothing behind, touches no
other pod, and terminates; a connected daemon has its channel, on one PF; the kubelet
advertises what the running device plugin discovered, a registered plugin can be reached,
and no device is given to two pods.

## 2. Modules

**`FxpRules`** is package `p4rtclient` as operators: the rule lists in the order
of the code (with the first rule twice, as there), and what an `add-entry` or
`del-entry` does to a table. A MAC address is a sequence of bytes. A table is a
set of rows `[key, action]`; the duplicate-key behaviour of `p4rt-ctl` is
external.

**`BridgePort`** extends it with the service, both bridge controllers and the
life of the process. `ports` is `server.Ports`; `links`, `up`, `members` and
`bridge` are what netlink or OVS holds; `fxp` the tables. A handler `c` has a
program counter `pc[c]`, its message `req[c]` and the number `done[c]` of
commands issued. There is one action per external call or access to `Ports`:

| Code | Actions |
|---|---|
| `Run` with `EnsureBridgeExists`; the second call of `createBridge` | `Run`, `BringBridgeUp` (Linux) |
| SIGTERM, `Stop`; a kill or fatal error | `Stop`, `Crash` |
| `CreateBridgePort`: validation, presence | `CreateBridgePort`, `CreatePanic` (one-byte address) |
| `createAndSetUpVlan`, `createVlanInterface` | `VlanLookup`, `LinkAdd` |
| `AddPort` of either controller | `AddPort`, `SetUp` (Linux) |
| `AddRules`, storing the port | `AddRule` per rule, `StorePort` |
| `DeleteBridgePort`: lookup | `DeleteBridgePort` |
| `DeletePort` of either controller | `DeletePort`, `SetDown` (Linux) |
| `removeVlanInterface` | `RemoveVlan` |
| `DeleteRules`, forgetting the port | `DelRuleStep` per rule, `ForgetPort` |

`Crash` may happen while the plugin starts or serves, so also between the creation of the
bridge and its bring-up. A lookup that fails for a transient reason reads as "not there",
as in the code. `Serialised` says whether clients overlap requests for one port name; the
CNI normally does not, since a name stands for one VF.

**`SriovCni`** models the CNI. A pod has at most one CNI process; `pc[p]` is its next step
or, at rest, what the runtime knows of the pod. Per VF the module keeps where the
netdevice is (`loc`), its name, its effective MAC and its PF-side attributes (`knob`), and
the owner in the allocation file (`pci`). `SetupVF`, `ReleaseVF`, `ApplyVFConfig` and
`ResetVFConfig` are one action each whose outcome is the state after any prefix of their
calls: nobody else works on that VF's netdevice in between. `Kill` ends a process between
two actions (`CutBetween`), within one of these four with a prefix of its calls done
(`CutInKnobs`, `CutInMove`), between IPAM's DEL and the reset, or during a request
(`CutInRpc`). The actions of `cmdAdd` follow its order: `LoadConf`, `ApplyVFConfig`,
`SetupVF`, `IpamAdd`, `ConfigureIface`, `SaveNetConf`, `SaveAllocatedPCI`,
`CreateBridgePort`, `PrintResult`, and after an error that the deferred functions see
`UndoIpam`, `UndoRelease`, `UndoReset`. Those of `cmdDel`: `DelNotCached` or `DelCached`,
`ReleaseVF`, `DeleteAllocatedPCI`, `DeleteBridgePort`; a cached NetConf that cannot be
read counts as none, as in the code. `Kill`, `DestroyNs`, `LateRpc` and `PluginRestart`
are the surroundings. A configuration says whether a MAC address is set, which other
attributes are, whether IPAM is used, and the VLAN settings that `LoadConf` checks. The
bridge-port service is seen from outside, through `Served`.

**`PortMap`**, **`PortService`**. `Served` says what a request does to the set of
stored ports. `PortService` is the abstract specification of the bridge-port
service: a request takes effect at one moment between call and answer, or not at
all and is answered with an error; a restart empties the map. `BridgePort` maps
itself to it (`Service`, `ServesPorts`): a port is a name and a MAC address, a
request is under way while its handler is between acceptance and the store in, or the
deletion from, `Ports`. `SriovCni` uses the same `Served` for its RPCs; that is how
the two components are put together. A late request in `SriovCni` is one under way
in `PortService` whose client has gone.

**`LifeCycle`** models `Init` on both sides. A site gives the links of host and IPU
with what sysfs shows of them; `addrs` is what the kernel holds. A handler reads the
links (`GetFilteredPFs`), walks them link by link (`GetCommPf`, with the `AddrList`
whose error is ignored), looks at the addresses again (`CheckAddr`) and adds one
(`AddrAdd`). The surroundings: the daemon that calls again (`InitCall`) and loses
answers (`Forget`), a restart of the plugin, and the operator who does what the error
message says (`Unset`); `told` remembers whom it named. The answer carries `IpPort`, one
address for both sides.

**`DevicePlugin`** models the plugin process with the kubelet as an external part. `proc`
walks through `main` and `Start` (`Main`, `DiscoverHostDevices`, `Listen`, `SelfDial`,
`Register`); `socket` tells a socket file with a process behind it from a stale one.
`ListAndWatch` sends once, or stops the server. `Allocate` is a function of the request,
with the `devName` that is not reset between containers. The kubelet advertises what it
was sent, gives a device to one pod, and remembers that across its restarts.
`KubeletHasTried` is an assumption on the kubelet: after a registration it connects or
gives up (within seconds) before a plugin that ended meanwhile runs again, so its
connection for one process does not meet the next one. `missed` is a history variable: a
restart of the kubelet has cut the process off.

**`MCBridgePort`**, **`MCSriovCni`**, **`MCLifeCycle`**, **`MCDevicePlugin`** give the
constants their values. The theorems are in **`BridgePortProofs`** (a port and its
interface), **`PortStateProofs`** (kernel, bridge and tables; with the lemmas about rule
lists in **`FxpRulesProofs`**), **`PortServiceProofs`** (the refinement),
**`LifeCycleProofs`**, **`DevicePluginProofs`**, **`SriovCniProofs`** (what a running pod
keeps) and **`SriovCniCalmProofs`** (what `cmdDel` leaves and leaves alone).

Definitions that end in `Seeded` are variants with a plausible mistake, used as
mutants: with one in the place of the definition after it, TLC finds the property
violated that `PROJECT.json` names.

## 3. Runs

| Run | Instance | Shows |
|---|---|---|
| `bp_linux` | 2 handlers, Linux, 2 ports and the one-byte address, 1 failure, 1 stop | `TypeOK`, `PortHasLink`, `StoredIsConnected`, `NoLeakAtRest`, `OneFaultOneRule`, `ErrorsAreFresh`, and `ServesPorts`: the handlers implement `PortService` |
| `bp_ovs` | the same on OVS, with every kind of refused request | `PortHasLink`, `StoredIsConnected`, `NoLeakAtRest` (not `ErrorsAreFresh`: OVS refuses repeated calls) |
| `bp_retry_ovs` | 1 handler, OVS, 1 failure, fair | violation of `RetriedDeleteSucceeds` |
| `cni_handover` | 3 pods on one VF, overlapping; 2 failures, 1 kill, 1 timeout, 1 lost namespace | `TypeOK`, `RunningKeepsVf`, `DelLeavesNothing`, `AllocationOutlivesDel`, `DelKeepsOff` |
| `cni_retry` | a kernel and a userspace VF, all kinds of trouble and a restart of the IPU plugin, fair | `DelTerminates` |
| `cni_del_after_add` | 2 pods, overlapping, nothing fails | violation of `RunningHasPort` |
| `cni_failed_add` | 1 failure | violation of `FailedAddIsReset` |
| `cni_own_mac` | a pod with its own MAC, nothing fails | violation of `DelRestoresVf` |
| `cni_lost_delete` | 1 pod, 1 failure, fair | violation of `DeleteIsRepeated` |
| `lc_init` | host and IPU, 2 handlers each, 3 sites, 1 failure, 2 lost answers, 1 restart | `TypeOK`, `ConnectedMeansSet`, `OneCarrier` |
| `lc_loopback` | a site as deployed, 1 handler a side, nothing fails, fair | violation of `InitAnswers` |
| `dp_serve` | 4 netdevices, 2 pods of 2 containers, 2 failures, 2 stops, 2 kubelet restarts, fair | `TypeOK`, `AdvertisedIsCurrent`, `RegisteredIsReachable`, `PodsDisjoint`, `ComesToBeAdvertised` |

Bounds. Two handlers are enough for every pairwise interleaving; two ports differ in
everything. One failure reaches every error path, two the failure of a retry or of a
rollback. One stop lets a plugin meet the leftovers of an earlier one. Three pods let a VF
be handed over twice, the third with a configuration that is refused. The sites of
`lc_init` are one whose links are those the mocks of the tests list (another NIC, two PFs
with the host's vport id; on the IPU a first APF with an address and a second without),
one whose PF somebody else has given an address, with an IPU whose address does not parse,
and one with a loopback interface and a side without links. No site without a loopback
interface exists outside the tests, and with one every `Init` fails (finding 6): the
safety properties of `lc_init` are about what `Init` does once it gets past `isPF`. Four
netdevices hold one that is no APF, one that is excluded, and two to share out; two
kubelet restarts let a plugin be cut off, restarted and cut off again. `MaxFaults`,
`MaxStops`, `MaxKills`, `MaxTimeouts`, `MaxNsLosses`, `MaxLosses`, `MaxRestarts` bound the
environment only. Handlers are interchangeable (`CallSymmetry`); symmetry is used only in
runs without liveness. Deadlock is checked in all runs but `dp_serve`: the CNI ends in
`Finished`, when every pod and its namespace are gone, and `Init` in `Settled`. A device
plugin that waits for a signal while nobody asks for it is at rest for good, hence
`CHECK_DEADLOCK FALSE`.

Ports of two PFs that share a VLAN (`SharedVlanRequests`) are in no run. With one handler and
no stop, `StoredIsConnected` and `NoLeakAtRest` hold for them too: `LinkAdd` refuses the second
port before its rules are touched. But `DeleteBridgePort` removes the interface before the
rules of its VLAN, so with two handlers, or a crash in between, the port that takes the VLAN
over meets rows that are not its own, and `StoredIsConnected` fails. Both are listed among the
hazards.

Fairness. `BridgePort!Fairness`: Go runs every runnable goroutine and external calls return
(WF of each handler), and the container is restarted until it serves (WF of `Run` and
`BringBridgeUp`). Nothing is assumed of clients: that one keeps repeating a deletion is a
hypothesis within `RetriedDeleteSucceeds`. The repository's own CNI is no such client: after
one failed `DeleteBridgePort` it never calls it again (finding 5). `SriovCni!Fairness`: a CNI
process runs to its end, and the runtime repeats DEL after an error and calls it after a failed
ADD; it does not have to end a running pod. `LifeCycle!Fairness`: handlers run to their end, a
daemon that is not connected calls `Init` again, and the operator unsets an address the error
message names. `DevicePlugin!FairSpec`: the process runs and is restarted, the kubelet is
brought up and acts on what it sees. Failures are bounded, which is how "the
environment recovers in the end" is expressed.

What the properties except is what the code does not ensure; section 4 lists it.
`AllocationOutlivesDel` also stops at the second failed call: an ADD whose `SaveAllocatedPCI`
fails and whose rollback fails in `ReleaseVF` never held the allocation its DEL frees.
`DelTerminates` ends in part by giving up. `ComesToBeAdvertised` leaves out a plugin that a
kubelet restart has cut off and one whose `ListAndWatch` has stopped the server.

## 4. Findings

1. `bp_retry_ovs`: `del-port` without `--if-exists`. If removing the interface
   fails after it, each retry of a client fails at `del-port`, for ever. On a Linux bridge
   `RetriedDeleteSucceeds` holds.
2. `cni_del_after_add`: the PCI address is freed before `DeleteBridgePort`, so the
   new pod may be added in between, and then loses its port.
3. `cni_failed_add`: the error of `ApplyVFConfig` shadows `err`, and the VF is not
   reset.
4. `cni_own_mac`: the original VF state is never read, so a VF with a configured MAC
   cannot be reset; DEL stops there, its retry finds no cache and succeeds, and the VF
   keeps the pod's MAC.
5. `cni_lost_delete`: after a failed `DeleteBridgePort` the next DEL fails at `ReleaseVF`,
   whose shadowed error lets the cached NetConf go, and the one after it succeeds at once: the
   port is never deleted.
6. `lc_loopback`: the loopback interface has no device file, so `isPF` and every `Init` fail
   outside the mocks of the tests. On the links of the mocks `InitAnswers` holds (`lc_loopback`
   with `MockedSites` for its sites).

More that a reader might expect, and that TLC refutes, has no run:

* `StoredLinkIsUp` (OVS, one port, nothing fails): nothing brings the interface of a stored port
  up there, although `createAndSetUpVlan` is said to set it up and the answer says UP.
  `StoredIsConnected` asks for an attached interface, and for one that is up on Linux only.
* `StoredBridgeIsUp` (Linux, one port, one stop, nothing fails): a plugin killed between
  creating the bridge and bringing it up leaves it down; the restarted one finds "nothing to
  do" and serves over it. `StoredIsConnected` asks for a bridge that is up only if the plugin
  was never stopped.
* `RunningIsAllocated` (instance of `cni_del_after_add` with one kill): `DeleteAllocatedPCI`
  does not look at the owner in the file. The DEL of a pod whose ADD was killed before it
  allocated frees the allocation of the next pod, which runs. `AllocationOutlivesDel` therefore
  stops at the first kill.
* `AnswerIsOnIpu` (`MockedSites`, nothing fails): `configureChannel` sets "Daemon address on
  host" on the IPU and "Daemon address on ipu" on the host, while `Init` answers both with the
  latter, so the address it gives for the daemon on the IPU is on the host.
* `DelLeavesNothing` for a VF with a userspace driver: its ADD fails after the address was
  allocated, and its DEL, which no longer knows the driver, stops at the VF and leaves the
  allocation's file; `IsAllocated` drops it when the namespace is gone.

## 5. Proofs

All theorems hold for every value of the constants that meets the ASSUMEs of the modules
(`PortMuxVsi` a natural number, the bridge type one of the two, the shapes of requests,
configurations and sites, bounds natural numbers); TLC evaluates these in every run.

`BridgePortProofs`:

* `TypeCorrect`: `Spec => []TypeOK`. `TypeOK` is inductive; its substantial parts
  are that stored ports, interfaces, members and FXP rows only come from accepted
  requests.
* `StoredPortKeepsLink`: `Serialised => (Spec => []PortHasLink)`. `PortHasLink` is
  not inductive: `StorePort` stores a port without looking at its interface, and
  `RemoveVlan` removes an interface without looking at `ports`. `PortInv` adds that
  at most one handler works on a name, that a creating handler past `LinkAdd` has
  its interface and finds no stored port of its name, and that a deleting handler
  works on the stored entry itself.
* `LinuxRetriesAreSafe`: on a Linux bridge, with requests serialised and one VLAN
  per port name (`VlansDistinct`), `ErrorsAreFresh` holds. It uses `PortInv` and
  `AddIsNew`: between the lookup and `linkAddFn` the interface stays absent.

`PortStateProofs`. All three theorems assume `Serialised` (the CNI runtime runs one
command per container at a time) and `OwnKeys`: two accepted requests are for one VF,
with the same interface and MAC address, or have neither VLAN, nor VSI, nor MAC address
in common. The VSI is a byte of the MAC address, which is the VF's own; the VLAN is the VF's
index plus 2, so `OwnKeys` holds for the VFs of one PF, as deployed, and fails for two PFs
behind one plugin. With that, for any handlers and ports and both kinds of bridge:

* `FaultsBoundTheDamage` (`OneFaultOneRule`), for any number of failures and restarts. The
  row a single command loses may be one that a stored port needs now or one that a create
  handler relies on later, so `DeficitBounded` counts both: the rows that stored ports or
  handlers past their `add-entry` are owed and that are missing are at most as many as the
  failures. `add-entry` pays the row it adds, `del-entry` takes rows of a port that is
  owed none any more, because ports of other names have other keys.
* `StoredPortsConnected` (`StoredIsConnected`): with no failure the deficit is empty;
  `Attached`, `BridgeServes` and `StoredAttached` add bridge, membership and link state
  from the step of the create handler on to the first step of the delete handler. After a
  kill the bridge is known to exist, not to be up: the kill may have come between its creation
  and its bring-up.
* `NothingLeaks` (`NoLeakAtRest`). `AllOwned` says that without failures and restarts each
  interface, member and row has an owner, a stored port or a create handler; a delete
  handler loses the rows of one table after the other (`Undone`), and has none left when
  it forgets the port because the list of deletions covers each table of the list of
  additions.

`FxpRulesProofs` has what these need of the lists: both name the same tables
(`UsedTables`), and in each table a port's rule and its deletion have the same key, which
tells VLAN, VSI or MAC address.

`PortServiceProofs`, `PluginServesPorts`: `BridgePort` implements `PortService` if
requests for one name are serialised or agree on the MAC address. Initial states map to
initial states; each action maps to `Request`, `Serve`, `Refuse`, `AnswerAtOnce`,
`Restart` or a stutter. The one step that needs an invariant is `StorePort`, which
overwrites an entry a concurrent create may have stored: `StoresAgree` says that the entry
has the same MAC address then.

`LifeCycleProofs`:

* `TypeCorrect`, and `ConnectedDaemonHasChannel`: `Spec => []ConnectedMeansSet`.
  `ChannelInv` adds that a link never has both its own address and the channel's
  (`NeverBoth`), that handlers in `setIP` are at candidates and past the check at one
  without a foreign address (`InSetIP`), and that a connected daemon has a carrier the
  operator was not told to unset (`CarrierNotTold`).
* `ChannelHasOneCarrier`: with one free PF on the IPU (`OneFreePf`, what `getCommPf`
  assumes), `OneCarrier`. `ChosenInv` adds what `getCommPf` chooses as long as nothing
  fails: the first candidate on the host, the one without an address of its own on the
  IPU; handlers and addresses are at chosen PFs only, and no PF with an address of its own
  is ever named to the operator on the IPU.

`DevicePluginProofs`: `TypeCorrect`, `OnlyDiscoveredDevices` (`AdvertisedIsCurrent`),
`RegisteredPluginServes` (`RegisteredIsReachable`), `PodsHaveTheirOwn` (`PodsDisjoint`), all
from `PluginInv`: `Flow` (devices on their way from plugin to kubelet to pods stay
eligible), `Allocated` (an environment names devices of its pod only, and pods share none)
and `Serving` (server, socket and registration along `main`). `PluginInv` needs `Serving`
because a stream that was opened by one process must not be taken for one of the next.

`SriovCniProofs`:

* `TypeCorrect`.
* `RunningPodKeepsVf`: `RunningKeepsVf` under every interleaving, failure, kill, timeout
  and restart. `KeptInv` says what each step of `cmdAdd` has reached so far and keeps; the
  core is that no step of another pod touches a netdevice in this pod's namespace.
* `RunningStaysAllocated` (`AllocationOutlivesDel`), with overlap, timeouts, restarts and lost
  namespaces. `AllocInv` says that one pod of a VF at a time is past `LoadConf`
  (`OneAdder`), that none has the VF before `SetupVF` (`NotYet`), and, with one failure at most
  and no kill, that the allocation file names the pod that has the VF or runs (`Recorded`) and
  that no other pod is past `LoadConf` while one has the VF or frees it (`SoleHolder`).
  The bound is sharp: one kill or two failures break it.

`SriovCniCalmProofs`, about what happens when every call works (`Calm`):

* `CmdDelKeepsOff` (`DelKeepsOff`, an action property), for all pods, VFs and
  configurations: while the next pod of a VF may start before the DEL of the former is over,
  no step of the DEL touches the VF of a running pod. `CalmInv` says that one pod at a time
  may touch a VF (`Exclusive`): `IsAllocated` refuses the next one until
  `DeleteAllocatedPCI`, which comes after `ReleaseVF`. That is so as long as a pod that has
  cached its NetConf also has its allocation (`Accounted`).
* `CmdDelLeavesNothing` (`DelLeavesNothing`), with distinct port names and if every VF can be
  reset (`Resettable`: no userspace driver and no MAC address in the NetConf, where it
  fails: finding 4 and the end of section 4). `CleanInv` says, for each step, what of
  lease, cache, allocation, VF and port the pod still has, and that no DEL fails.

The inductive invariants were checked with TLC, on instances like those of the runs, before
they were proved.

Only model-checked: the liveness properties `DelTerminates` and `ComesToBeAdvertised`, which
are out of reach of the proof system, as is ENABLED. Every other property of a passing run has
a theorem. There is none that a running pod keeps its bridge port (`RunningHasPort`): an
overlapping DEL (finding 2), a late request, a restart of the IPU plugin or a colliding port
name makes it lose the port, and nothing in the code excludes any of them.

## 6. Not modelled

* Logging, flag parsing, viper and configuration files; `packet.go`
  (gratuitous ARP and neighbour advertisements: output whose errors are ignored);
  `netlink_manager.go` (one-line wrappers, whose calls are in the actions that make them);
  `testing.go` (test fixtures); `nf.c` (a receive-and-send loop without state).
* Packet processing in `p4files/rh_mvp.p4`: the behaviour of the pipeline, of
  recirculation and of the ports' numbering is in the hardware and its toolchain, not in
  this repository, so whether the rules of a stored port carry its packets cannot be
  derived faithfully from the source. The rows themselves are modelled.
* The sysfs lookups of a VF's PF and index: constants of the pod. Helpers of
  `utils.go` that the commands do not call.
* Unlocked access to the Go map below the level of one access; its possible outcome, a
  fatal error, is part of `Crash`.
* Overlapping requests for one name (`Serialised = FALSE`) are in the model; of the runs
  none has them, and `PortHasLink` fails there. `PluginServesPorts` covers them.
* When a foreign address comes to a PF in `LifeCycle`: before the first `Init`. One
  that DHCP gives later may mislead `getCommPf` (see the hazards).

## 7. Plan

1. `StoredIsConnected` and `NoLeakAtRest` proved for one handler without stops and requests
   that share a VLAN: `LinkAdd` takes the place of `OwnKeys` there.
2. An instance of `SriovCni` with several PFs whose port names collide, should the code
   come to separate the PF's name from the index.
3. `SriovCni` and `BridgePort` in one module, with `PortService` eliminated, if TLC can
   still check it; the refinement makes this a cross-check only.
