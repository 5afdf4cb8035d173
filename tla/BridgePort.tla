----------------------------- MODULE BridgePort -----------------------------
(***************************************************************************)
(* The bridge-port service of the IPU plugin: the gRPC handlers            *)
(* CreateBridgePort and DeleteBridgePort, the bridge controllers they call *)
(* (Linux bridge and OVS) and the p4rt client.                             *)
(*                                                                         *)
(* gRPC runs every request in a goroutine of its own and the server takes  *)
(* no lock, so a handler is a process: one action per external call        *)
(* (netlink, ovs-vsctl, p4rt-ctl) or access to the Ports map.  Any         *)
(* external call may fail, MaxFaults times in all; the process may die or  *)
(* be stopped MaxStops times, which empties the Ports map and leaves the   *)
(* kernel, the bridge and the FXP tables as they are.                      *)
(*                                                                         *)
(* A definition whose name ends in Seeded is the one after it with a       *)
(* plausible mistake; no action uses it.  It serves to see that the        *)
(* property it is meant for can fail.                                      *)
(***************************************************************************)
EXTENDS FxpRules, FiniteSets

CONSTANTS
    Calls,          \* concurrent handler goroutines
    Requests,       \* the BridgePort messages clients send
    Serialised,     \* TRUE: no two requests for one port name overlap
    MaxFaults,      \* bound on external calls that fail
    MaxStops        \* bound on crashes and stops of the plugin

(* A request names the port and gives its MAC address and the list of      *)
(* logical bridges.  A list element is the number Atoi makes of it, 0 when *)
(* it does not parse (getFirstVlanID).                                     *)
ASSUME RequestsAssumption ==
    /\ Requests # {}
    /\ \A r \in Requests : /\ DOMAIN r = {"name", "mac", "bridges"}
                           /\ r.mac \in Seq(Nat)
                           /\ r.bridges \in Seq(Nat)
ASSUME BoundsAssumption ==
    /\ MaxFaults \in Nat
    /\ MaxStops \in Nat
    /\ Serialised \in BOOLEAN

VARIABLES
    plugin,         \* the process: "down", "starting" or "serving"
    bridge,         \* the tenant bridge: "absent", "down" or "up"
    ports,          \* server.Ports: the stored BridgePort messages
    links,          \* VLAN interfaces in the kernel
    up,             \* those that are administratively up
    members,        \* interfaces attached to the bridge
    fxp,            \* rows of the FXP tables
    pc,             \* per handler: the step it is about to take
    req,            \* per handler: the message it works on
    done,           \* per handler: p4rt-ctl commands already issued
    faults, stops   \* failures and stops so far

kernel == <<bridge, links, up, members>>
vars == <<plugin, kernel, ports, fxp, pc, req, done, faults, stops>>

CreateSteps == {"vlanLookup", "linkAdd", "blindAdd", "addPort", "setUp", "addRules"}
DeleteSteps == {"delPort", "setDown", "removeVlan", "delRules"}
Replied == {"idle", "err"}      \* no request, or answered; answered with an error

(* getFirstVlanID, and the name of the VLAN interface "%s_vlan%d".         *)
VlanId(r) == r.bridges[1]
LinkOf(r) == [name |-> r.name, vlan |-> VlanId(r)]

(* The checks of CreateBridgePort, and the requests that pass them.        *)
Valid(r) ==
    /\ Len(r.mac) \in 1..6
    /\ r.bridges # << >>
    /\ VlanId(r) \in 2..4094
    /\ VsiOf(r.mac) >= 1

Accepted == {r \in Requests : Len(r.mac) # 1 /\ Valid(r)}

AddRuleSets(r) == getAddRuleSets(r.mac, VlanId(r))
DelRuleSets(r) == getDelRuleSets(r.mac, VlanId(r))
RowsOf(r, t) == Rows(AddRuleSets(r), t)

isBridgePortPresent(n) == \E p \in ports : p.name = n

TypeOK ==
    /\ plugin \in {"down", "starting", "serving"}
    /\ bridge \in {"absent", "down", "up"}
    /\ ports \subseteq Accepted
    /\ links \subseteq {LinkOf(r) : r \in Accepted}
    /\ up \subseteq links
    /\ members \subseteq {LinkOf(r) : r \in Accepted}
    /\ fxp = [t \in Tables |-> fxp[t]]
    /\ \A t \in Tables : fxp[t] \subseteq UNION {RowsOf(r, t) : r \in Accepted}
    /\ pc \in [Calls -> Replied \cup CreateSteps \cup DeleteSteps]
    /\ req \in [Calls -> Accepted]
    /\ done \in [Calls -> Nat]
    /\ faults \in 0..MaxFaults
    /\ stops \in 0..MaxStops

Init ==
    /\ plugin = "down"
    /\ bridge = "absent"
    /\ ports = {}
    /\ links = {}
    /\ up = {}
    /\ members = {}
    /\ fxp = NoRows
    /\ pc = [c \in Calls |-> "idle"]
    /\ req \in [Calls -> Accepted]
    /\ done = [c \in Calls |-> 0]
    /\ faults = 0
    /\ stops = 0

-----------------------------------------------------------------------------
(* The outcome of an external call.                                        *)
Works == UNCHANGED faults
Fails == faults < MaxFaults /\ faults' = faults + 1

Goto(c, step) == pc' = [pc EXCEPT ![c] = step]

(* Enter or leave the loop over the rules.                                 *)
GotoRules(c, step) == Goto(c, step) /\ done' = [done EXCEPT ![c] = 0]

(* A handler may start: it is free and, when clients serialise their       *)
(* requests, no other one works on the same port name.                     *)
Free(c, n) ==
    /\ plugin = "serving"
    /\ pc[c] \in Replied
    /\ Serialised => \A d \in Calls \ {c} : pc[d] \in Replied \/ req[d].name # n

-----------------------------------------------------------------------------
(* The life of the process.                                                *)

(* NewIpuPlugin and Run: an empty Ports map, then EnsureBridgeExists.      *)
(* ovs-vsctl --may-exist makes an OVS bridge in one call.  The Linux       *)
(* controller accepts a bridge that exists as it is; one that does not it  *)
(* creates, and brings up in a second call (BringBridgeUp).  On an error   *)
(* the process exits.                                                      *)
EnsureBridgeExists ==
    \/ /\ BridgeType = "ovs"
       /\ bridge' = "up"
       /\ plugin' = "serving"
       /\ Works
    \/ /\ BridgeType = "linux" /\ bridge # "absent"
       /\ plugin' = "serving"
       /\ Works
       /\ UNCHANGED bridge
    \/ /\ BridgeType = "linux" /\ bridge = "absent"
       /\ bridge' = "down"
       /\ plugin' = "starting"
       /\ Works
    \/ /\ Fails
       /\ UNCHANGED <<bridge, plugin>>

Run ==
    /\ plugin = "down"
    /\ EnsureBridgeExists
    /\ UNCHANGED <<ports, links, up, members, fxp, pc, req, done, stops>>

(* The second call of createBridge.                                        *)
BringBridgeUp ==
    /\ plugin = "starting"
    /\ \/ bridge' = "up" /\ plugin' = "serving" /\ Works
       \/ plugin' = "down" /\ Fails /\ UNCHANGED bridge
    /\ UNCHANGED <<ports, links, up, members, fxp, pc, req, done, stops>>

(* The process ends: the Ports map and the handlers are gone.              *)
Exit ==
    /\ stops < MaxStops
    /\ stops' = stops + 1
    /\ plugin' = "down"
    /\ ports' = {}
    /\ pc' = [c \in Calls |-> "idle"]
    /\ done' = [c \in Calls |-> 0]
    /\ UNCHANGED <<kernel, fxp, req, faults>>

(* A kill or a fatal runtime error, while the plugin starts or serves.     *)
(* One that the code is exposed to is "concurrent map read and map write"  *)
(* on Ports, whenever two handlers run.                                    *)
Crash == plugin # "down" /\ Exit

(* SIGTERM: GracefulStop waits for the handlers that run.                  *)
Stop ==
    /\ plugin = "serving"
    /\ \A c \in Calls : pc[c] \in Replied
    /\ Exit

-----------------------------------------------------------------------------
(* CreateBridgePort                                                        *)

(* An address of one byte passes the length check and has no second byte:  *)
(* the handler panics, and a panic ends the process.                       *)
CreatePanic(c, r) ==
    /\ Free(c, r.name)
    /\ Len(r.mac) = 1
    /\ Exit

CreateBridgePort(c, r) ==
    /\ Free(c, r.name)
    /\ Len(r.mac) # 1
    /\ \/ ~Valid(r) /\ Goto(c, "err")
       \/ Valid(r) /\ isBridgePortPresent(r.name) /\ Goto(c, "idle")
       \/ Valid(r) /\ ~isBridgePortPresent(r.name) /\ Goto(c, "vlanLookup")
    /\ req' = [req EXCEPT ![c] = IF Valid(r) THEN r ELSE @]
    /\ UNCHANGED <<plugin, kernel, ports, fxp, done, faults, stops>>

(* createAndSetUpVlan: look up the uplink, then the VLAN interface.  A     *)
(* failed lookup of the latter reads as "not there"; "blindAdd" is linkAdd *)
(* after such a lookup.                                                    *)
VlanLookup(c) ==
    /\ pc[c] = "vlanLookup"
    /\ \/ LinkOf(req[c]) \in links /\ Works /\ Goto(c, "addPort")
       \/ LinkOf(req[c]) \notin links /\ Works /\ Goto(c, "linkAdd")
       \/ Fails /\ Goto(c, "blindAdd")
       \/ Fails /\ Goto(c, "err")
    /\ UNCHANGED <<plugin, kernel, ports, fxp, req, done, stops>>

(* The kernel refuses a second interface of the same name, or of the same  *)
(* VLAN on one uplink.                                                     *)
NewLinkSeeded(r) == [name |-> r.name, vlan |-> VlanId(r) + 1]
NewLink(r) == [name |-> r.name, vlan |-> VlanId(r)]

LinkAdd(c) ==
    LET l == NewLink(req[c])
        taken == \E k \in links : k.vlan = l.vlan
    IN  /\ pc[c] \in {"linkAdd", "blindAdd"}
        /\ \/ taken /\ Works /\ Goto(c, "err") /\ UNCHANGED links
           \/ ~taken /\ Works /\ Goto(c, "addPort") /\ links' = links \cup {l}
           \/ Fails /\ Goto(c, "err") /\ UNCHANGED links
        /\ UNCHANGED <<plugin, bridge, up, members, ports, fxp, req, done, stops>>

(* bridgeCtlr.AddPort: linuxBridge sets the master and then brings the     *)
(* interface up; ovs-vsctl add-port refuses a port that exists.            *)
AddPortRefusedSeeded(l) == l \notin links \/ l \in members
AddPortRefused(l) == IF BridgeType = "linux" THEN l \notin links ELSE l \in members

AddPort(c) ==
    LET l == LinkOf(req[c])
    IN  /\ pc[c] = "addPort"
        /\ \/ AddPortRefused(l) /\ Works /\ Goto(c, "err") /\ UNCHANGED <<members, done>>
           \/ /\ ~AddPortRefused(l) /\ Works
              /\ members' = members \cup {l}
              /\ IF BridgeType = "linux"
                 THEN Goto(c, "setUp") /\ UNCHANGED done
                 ELSE GotoRules(c, "addRules")
           \/ Fails /\ Goto(c, "err") /\ UNCHANGED <<members, done>>
        /\ UNCHANGED <<plugin, bridge, links, up, ports, fxp, req, stops>>

SetUp(c) ==
    LET l == LinkOf(req[c])
    IN  /\ pc[c] = "setUp"
        /\ \/ /\ l \in links /\ Works
              /\ up' = up \cup {l}
              /\ GotoRules(c, "addRules")
           \/ l \notin links /\ Works /\ Goto(c, "err") /\ UNCHANGED <<up, done>>
           \/ Fails /\ Goto(c, "err") /\ UNCHANGED <<up, done>>
        /\ UNCHANGED <<plugin, bridge, links, members, ports, fxp, req, stops>>

(* p4RtClient.AddRules: one add-entry per step; an error is logged only.   *)
AddRuleSeeded(c) ==
    LET rules == AddRuleSets(req[c])
    IN  /\ pc[c] = "addRules"
        /\ done[c] + 1 \in DOMAIN rules
        /\ \/ /\ Works
              /\ fxp' = AddEntry(fxp, rules[done[c] + 1])
              /\ done' = [done EXCEPT ![c] = @ + 1]
           \/ /\ Fails
              /\ done' = [done EXCEPT ![c] = Len(rules)]
              /\ UNCHANGED fxp
        /\ UNCHANGED <<plugin, kernel, ports, pc, req, stops>>

AddRule(c) ==
    LET rules == AddRuleSets(req[c])
    IN  /\ pc[c] = "addRules"
        /\ done[c] + 1 \in DOMAIN rules
        /\ done' = [done EXCEPT ![c] = @ + 1]
        /\ \/ Works /\ fxp' = AddEntry(fxp, rules[done[c] + 1])
           \/ Fails /\ UNCHANGED fxp
        /\ UNCHANGED <<plugin, kernel, ports, pc, req, stops>>

(* The port is stored with status UP and returned.                         *)
StorePortSeeded(c) ==
    /\ pc[c] = "addRules"
    /\ ports' = {p \in ports : p.name # req[c].name} \cup {req[c]}
    /\ GotoRules(c, "idle")
    /\ UNCHANGED <<plugin, kernel, fxp, req, faults, stops>>

StorePort(c) ==
    /\ pc[c] = "addRules"
    /\ done[c] + 1 \notin DOMAIN AddRuleSets(req[c])
    /\ ports' = {p \in ports : p.name # req[c].name} \cup {req[c]}
    /\ GotoRules(c, "idle")
    /\ UNCHANGED <<plugin, kernel, fxp, req, faults, stops>>

-----------------------------------------------------------------------------
(* DeleteBridgePort                                                        *)

(* The request holds the name only; a name that is not stored is answered  *)
(* with success.                                                           *)
DeleteBridgePort(c, n) ==
    /\ Free(c, n)
    /\ \/ /\ ~isBridgePortPresent(n)
          /\ Goto(c, "idle")
          /\ UNCHANGED req
       \/ \E p \in ports :
             /\ p.name = n
             /\ req' = [req EXCEPT ![c] = p]
             /\ Goto(c, "delPort")
    /\ UNCHANGED <<plugin, kernel, ports, fxp, done, faults, stops>>

(* bridgeCtlr.DeletePort: linuxBridge needs the interface, takes it off    *)
(* the bridge and brings it down; ovs-vsctl del-port refuses a port that   *)
(* is not there.                                                           *)
DeletePortRefused(l) == IF BridgeType = "linux" THEN l \notin links ELSE l \notin members

DeletePortSeeded(c) ==
    LET l == LinkOf(req[c])
    IN  /\ pc[c] = "delPort"
        /\ Works
        /\ members' = members \ {l}
        /\ links' = links \ {l}
        /\ up' = up \ {l}
        /\ Goto(c, IF BridgeType = "linux" THEN "setDown" ELSE "removeVlan")
        /\ UNCHANGED <<plugin, bridge, ports, fxp, req, done, stops>>

DeletePort(c) ==
    LET l == LinkOf(req[c])
    IN  /\ pc[c] = "delPort"
        /\ \/ DeletePortRefused(l) /\ Works /\ Goto(c, "err") /\ UNCHANGED members
           \/ /\ ~DeletePortRefused(l) /\ Works
              /\ members' = members \ {l}
              /\ Goto(c, IF BridgeType = "linux" THEN "setDown" ELSE "removeVlan")
           \/ Fails /\ Goto(c, "err") /\ UNCHANGED members
        /\ UNCHANGED <<plugin, bridge, links, up, ports, fxp, req, done, stops>>

SetDownSeeded(c) ==
    LET l == LinkOf(req[c])
    IN  /\ pc[c] = "setDown"
        /\ \/ l \in links /\ Works /\ up' = up \ {l} /\ Goto(c, "removeVlan")
           \/ l \notin links /\ Works /\ UNCHANGED up /\ Goto(c, "err")
           \/ Fails /\ UNCHANGED up /\ Goto(c, "idle")
        /\ UNCHANGED <<plugin, bridge, links, members, ports, fxp, req, done, stops>>

SetDown(c) ==
    LET l == LinkOf(req[c])
    IN  /\ pc[c] = "setDown"
        /\ \/ l \in links /\ Works /\ up' = up \ {l} /\ Goto(c, "removeVlan")
           \/ l \notin links /\ Works /\ UNCHANGED up /\ Goto(c, "err")
           \/ Fails /\ UNCHANGED up /\ Goto(c, "err")
        /\ UNCHANGED <<plugin, bridge, links, members, ports, fxp, req, done, stops>>

(* removeVlanInterface: a failed lookup reads as "removed already".        *)
(* Deleting an interface takes it off a Linux bridge; OVS keeps its port.  *)
RemoveVlan(c) ==
    LET l == LinkOf(req[c])
    IN  /\ pc[c] = "removeVlan"
        /\ \/ /\ Works
              /\ links' = links \ {l}
              /\ up' = up \ {l}
              /\ members' = IF BridgeType = "linux" THEN members \ {l} ELSE members
              /\ GotoRules(c, "delRules")
           \/ Fails /\ GotoRules(c, "delRules") /\ UNCHANGED <<links, up, members>>
           \/ /\ l \in links /\ Fails /\ Goto(c, "err")
              /\ UNCHANGED <<links, up, members, done>>
        /\ UNCHANGED <<plugin, bridge, ports, fxp, req, stops>>

(* p4RtClient.DeleteRules                                                  *)
DelRuleStep(c) ==
    LET dels == DelRuleSets(req[c])
    IN  /\ pc[c] = "delRules"
        /\ done[c] + 1 \in DOMAIN dels
        /\ done' = [done EXCEPT ![c] = @ + 1]
        /\ \/ Works /\ fxp' = DelEntry(fxp, dels[done[c] + 1])
           \/ Fails /\ UNCHANGED fxp
        /\ UNCHANGED <<plugin, kernel, ports, pc, req, stops>>

ForgetPort(c) ==
    /\ pc[c] = "delRules"
    /\ done[c] + 1 \notin DOMAIN DelRuleSets(req[c])
    /\ ports' = {p \in ports : p.name # req[c].name}
    /\ GotoRules(c, "idle")
    /\ UNCHANGED <<plugin, kernel, fxp, req, faults, stops>>

-----------------------------------------------------------------------------
Names == {r.name : r \in Requests}

(* What the handler does once the request is accepted.                     *)
HandlerStep(c) ==
    \/ VlanLookup(c) \/ LinkAdd(c) \/ AddPort(c) \/ SetUp(c)
    \/ AddRule(c) \/ StorePort(c)
    \/ DeletePort(c) \/ SetDown(c) \/ RemoveVlan(c)
    \/ DelRuleStep(c) \/ ForgetPort(c)

Next ==
    \/ Run \/ BringBridgeUp \/ Crash \/ Stop
    \/ \E c \in Calls :
          \/ \E r \in Requests : CreateBridgePort(c, r) \/ CreatePanic(c, r)
          \/ \E n \in Names : DeleteBridgePort(c, n)
          \/ HandlerStep(c)

Spec == Init /\ [][Next]_vars

(* Go schedules every runnable goroutine and the container is restarted    *)
(* until it serves: weak fairness of the start and of every handler.       *)
(* Nothing is assumed of the clients.                                      *)
Fairness ==
    /\ WF_vars(Run)
    /\ WF_vars(BringBridgeUp)
    /\ \A c \in Calls : WF_vars(HandlerStep(c))

FairSpec == Spec /\ Fairness

-----------------------------------------------------------------------------
(* Properties                                                              *)

Active(c) == pc[c] \notin Replied
Deleting(n) == \E c \in Calls : pc[c] \in DeleteSteps /\ req[c].name = n

(* As long as requests for one port name do not overlap, whatever fails    *)
(* and whenever the plugin dies, the VLAN interface of a stored port is    *)
(* there until the very handler that will forget the port has removed it:  *)
(* DeleteBridgePort drops the interface before the map entry, never the    *)
(* other way round, and a failed attempt leaves the interface.             *)
(* linuxBridge.DeletePort, which refuses a missing interface, relies on it.*)
PortHasLink ==
    \A p \in ports :
        \/ LinkOf(p) \in links
        \/ \E c \in Calls : pc[c] = "delRules" /\ req[c] = p

Installed(r) ==
    \A t \in Tables : RowsOf(r, t) \subseteq fxp[t]

(* As long as no external call has failed, a stored port that nobody is    *)
(* deleting is connected: its interface exists and is attached to the      *)
(* bridge, on a Linux bridge it is up, and each of its FXP rules is in its *)
(* table with its own action, not one left there by an earlier port.       *)
(* Neither what a killed plugin left behind nor the handlers of other      *)
(* ports change that.  The bridge itself is up as long as the plugin has   *)
(* not been stopped either (StoredBridgeIsUp says more, and fails).        *)
StoredIsConnected ==
    faults = 0 =>
        \A p \in ports :
            ~Deleting(p.name) =>
                /\ bridge # "absent"
                /\ stops = 0 => bridge = "up"
                /\ LinkOf(p) \in links \cap members
                /\ BridgeType = "linux" => LinkOf(p) \in up
                /\ Installed(p)

(* With no failure and no restart, a plugin at rest has left nothing       *)
(* behind: interfaces, bridge members and FXP rows are exactly those of    *)
(* the stored ports.  DeleteBridgePort undoes all of CreateBridgePort.     *)
NoLeakAtRest ==
    (faults = 0 /\ stops = 0 /\ \A c \in Calls : ~Active(c)) =>
        /\ links = {LinkOf(p) : p \in ports}
        /\ members = links
        /\ \A t \in Tables :
              fxp[t] = UNION {RowsOf(p, t) : p \in ports}

(* A handler that accepted its request answers with an error only because  *)
(* one of its own external calls failed: what an earlier attempt, or a     *)
(* plugin that died, left behind never stands in the way of a retry.       *)
ErrorsAreFresh ==
    [][\A c \in Calls :
          (Active(c) /\ pc'[c] = "err") =>
              faults' = faults + 1 \/ pc[c] = "blindAdd"]_vars

(* As long as no external call has failed, the bridge of a stored port is  *)
(* up: a bridge that exists needs nothing done, says EnsureBridgeExists.   *)
(* It fails on a Linux bridge: a plugin killed between the creation of the *)
(* bridge and its bring-up leaves it down, the restarted one accepts it.   *)
StoredBridgeIsUp ==
    (faults = 0 /\ ports # {}) => bridge = "up"

(* As long as no external call has failed, the interface of a stored port  *)
(* nobody is deleting is up: createAndSetUpVlan "creates and sets up the   *)
(* vlan".  It fails on OVS: neither it nor ovsBridge.AddPort does.         *)
StoredLinkIsUp ==
    faults = 0 =>
        \A p \in ports : ~Deleting(p.name) => LinkOf(p) \in up

(* A client that keeps calling DeleteBridgePort for a port that is still   *)
(* stored succeeds, whatever calls failed before: a retry takes up where   *)
(* the failed attempt stopped.  That some client does keep calling is a    *)
(* hypothesis, not fairness.                                               *)
RetriedDeleteSucceeds ==
    \A n \in Names :
        []<><<\E c \in Calls : isBridgePortPresent(n) /\ DeleteBridgePort(c, n)>>_vars
            => []<>~isBridgePortPresent(n)

(* Rules are added and deleted without looking at the answer, so a failed  *)
(* command leaves a port stored as UP without its rule.  The damage is     *)
(* bounded: the rows that stored ports lack, of all ports nobody is        *)
(* deleting, are no more than the calls that failed.  One failing rule     *)
(* stops none of the others, and no delete or restart of another port adds *)
(* to it.                                                                  *)
MissingRows ==
    LET settled == {p \in ports : ~Deleting(p.name)}
    IN  UNION {{t} \X (RowsOf(p, t) \ fxp[t]) : t \in Tables, p \in settled}
OneFaultOneRule == Cardinality(MissingRows) <= faults

(* The service as its clients see it: PortService, with a handler's        *)
(* request under way from the moment it is accepted, and taking effect     *)
(* when the port is stored or forgotten.                                   *)
Creation(r) == [op |-> "create", name |-> r.name, mac |-> r.mac]
Deletion(r) == [op |-> "delete", name |-> r.name, mac |-> r.mac]
NoMessage == [op |-> "none"]
Pending(c) ==
    IF pc[c] \in CreateSteps THEN Creation(req[c])
    ELSE IF pc[c] \in DeleteSteps THEN Deletion(req[c])
    ELSE NoMessage

Service == INSTANCE PortService WITH
    Clients <- Calls,
    Messages <- {Creation(r) : r \in Requests} \cup {Deletion(r) : r \in Requests},
    NoMessage <- NoMessage,
    stored <- {[name |-> p.name, mac |-> p.mac] : p \in ports},
    pending <- [c \in Calls |-> Pending(c)],
    answer <- [c \in Calls |-> IF pc[c] = "err" THEN "err" ELSE "ok"]

(* Every request is answered with success only after it took effect, at    *)
(* one moment, and with an error only if it had none: the rest of the      *)
(* system may look at the plugin as a map of ports.                        *)
ServesPorts == Service!Spec
=============================================================================
