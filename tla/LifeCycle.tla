----------------------------- MODULE LifeCycle -----------------------------
(***************************************************************************)
(* The life-cycle service of the IPU plugin: Init, which gives the PF that *)
(* connects host and IPU an IPv4 address and tells the daemon where the    *)
(* other daemon is.  One plugin runs on the host, one on the IPU, each     *)
(* called by the daemon of its side.                                       *)
(*                                                                         *)
(* The service keeps nothing but its configuration; what Init decides on   *)
(* is in the kernel.  A handler reads it with one netlink call after the   *)
(* other and takes no lock.  A daemon that has given up on an answer, or   *)
(* was restarted, calls Init again while the old handler may still run.    *)
(* The operator does what the error message says: unsets the address of    *)
(* the interface it names.                                                 *)
(*                                                                         *)
(* A definition whose name ends in Seeded is the one after it with a       *)
(* plausible mistake; no action uses it.                                   *)
(***************************************************************************)
EXTENDS Naturals, Sequences

CONSTANTS
    Calls,          \* concurrent handlers of a plugin
    Sites,          \* the networks Init is called on: per side, links and IP
    MaxFaults,      \* bound on netlink or sysfs calls that fail
    MaxLosses,      \* bound on lost answers and daemon restarts
    MaxStops        \* bound on restarts of a plugin

Sides == {"host", "ipu"}
Devices == {"0x1452", "other", "none"}      \* none: no file to read
Vendors == {"0x8086", "other", "none"}
Octets == {"02", "03", "other"}             \* the fourth of the MAC address

(* A link has a name of its own, the identity that sysfs shows, and maybe  *)
(* an address that is not Init's.                                          *)
ASSUME SitesAssumption ==
    \A site \in Sites, s \in Sides :
        /\ site[s].ip4 \in BOOLEAN
        /\ site[s].links \in Seq([name : STRING, device : Devices, vendor : Vendors,
                                  octet : Octets, own : BOOLEAN])
ASSUME LimitsAssumption == {MaxFaults, MaxLosses, MaxStops} \subseteq Nat

VARIABLES
    site,           \* the site: per side, links and whether its IP parses
    addrs,          \* per side and link: its IPv4 addresses
    daemon,         \* per side: "idle", "waiting" or "connected"
    awaited,        \* per side: the handler whose answer the daemon waits for
    h,              \* per side and handler: next step and link it is at
    told,           \* per side: links whose address the operator was told to unset
    faults, losses, stops

limits == <<faults, losses, stops>>
vars == <<site, addrs, daemon, awaited, h, told, limits>>

Links(s) == site[s].links

(* isPF reads the device and the vendor file of the link.                  *)
Unreadable(l) == l.device = "none" \/ l.vendor = "none"
isPF(l) == l.device = "0x1452" /\ l.vendor = "0x8086"

(* hostVportId and accVportId.                                             *)
VportId(mode) == IF mode = "ipu" THEN "02" ELSE "03"

(* The address that configureChannel sets on a side: the one of the        *)
(* daemonHostIp flag in ipu mode, the one of daemonIpuIp in host mode.     *)
ChannelIpSeeded(mode) == IF mode = "ipu" THEN "daemonHostIp" ELSE ""
ChannelIp(mode) == IF mode = "ipu" THEN "daemonHostIp" ELSE "daemonIpuIp"

(* The address in the answer of Init, in either mode.                      *)
IpPort == "daemonIpuIp"

(* The PFs that getCommPf may choose.                                      *)
Candidates(s) ==
    {i \in DOMAIN Links(s) : isPF(Links(s)[i]) /\ Links(s)[i].octet = VportId(s)}

Steps == {"free", "filter", "select", "check", "set"}
Addresses == {"own", "daemonHostIp", "daemonIpuIp"}

TypeOK ==
    /\ site \in Sites
    /\ addrs = [s \in Sides |-> addrs[s]]
    /\ h = [s \in Sides |-> h[s]]
    /\ told = [s \in Sides |-> told[s]]
    /\ \A s \in Sides :
          /\ addrs[s] \in [DOMAIN Links(s) -> SUBSET Addresses]
          /\ h[s] \in [Calls -> [step : Steps, at : 1..(Len(Links(s)) + 1)]]
          /\ told[s] \subseteq DOMAIN Links(s)
    /\ daemon \in [Sides -> {"idle", "waiting", "connected"}]
    /\ awaited \in [Sides -> Calls]
    /\ faults \in 0..MaxFaults
    /\ losses \in 0..MaxLosses
    /\ stops \in 0..MaxStops

Init ==
    /\ site \in Sites
    /\ addrs = [s \in Sides |->
                  [i \in DOMAIN Links(s) |-> IF Links(s)[i].own THEN {"own"} ELSE {}]]
    /\ daemon = [s \in Sides |-> "idle"]
    /\ awaited \in [Sides -> Calls]
    /\ h = [s \in Sides |-> [c \in Calls |-> [step |-> "free", at |-> 1]]]
    /\ told = [s \in Sides |-> {}]
    /\ faults = 0
    /\ losses = 0
    /\ stops = 0

-----------------------------------------------------------------------------
Works == UNCHANGED limits
Fails == faults < MaxFaults /\ faults' = faults + 1 /\ UNCHANGED <<losses, stops>>

At(s, c, step) == h[s][c].step = step
Goto(s, c, step, i) == h' = [h EXCEPT ![s][c] = [step |-> step, at |-> i]]

(* The handler is done.  Its answer, IpPort or an error, changes the       *)
(* daemon only if the daemon still waits for it.                           *)
Return(s, c, result) ==
    /\ Goto(s, c, "free", 1)
    /\ daemon' = IF daemon[s] = "waiting" /\ awaited[s] = c
                 THEN [daemon EXCEPT ![s] = result] ELSE daemon

(* Init: the mode of the request must be the plugin's.                     *)
InitCall(s, c, dpuMode) ==
    /\ daemon[s] = "idle"
    /\ At(s, c, "free")
    /\ IF dpuMode = (s = "ipu")
       THEN /\ daemon' = [daemon EXCEPT ![s] = "waiting"]
            /\ awaited' = [awaited EXCEPT ![s] = c]
            /\ Goto(s, c, "filter", 1)
       ELSE UNCHANGED <<daemon, awaited, h>>
    /\ UNCHANGED <<site, addrs, told, limits>>

(* getFilteredPFs: one link that isPF cannot read makes it fail; the       *)
(* loopback interface, which every network namespace has, is such a link.  *)
GetFilteredPFs(s, c) ==
    LET readable == Links(s) # << >> /\ \A i \in DOMAIN Links(s) : ~Unreadable(Links(s)[i])
    IN  /\ At(s, c, "filter")
        /\ \/ readable /\ Works /\ Goto(s, c, "select", 1) /\ UNCHANGED daemon
           \/ ~readable /\ Works /\ Return(s, c, "idle")
           \/ Fails /\ Return(s, c, "idle")
        /\ UNCHANGED <<site, addrs, awaited, told>>

(* getCommPf: in host mode the first PF with the vport id, in ipu mode the *)
(* first of them that has no address; an AddrList that fails reads as "no  *)
(* address".                                                               *)
GetCommPfSeeded(s, c) ==
    LET i == h[s][c].at
        chosen == i \in Candidates(s) /\ addrs[s][i] = {}
    IN  /\ At(s, c, "select")
        /\ \/ i \notin DOMAIN Links(s) /\ Return(s, c, "idle")
           \/ chosen /\ Goto(s, c, "check", i) /\ UNCHANGED daemon
           \/ /\ i \in DOMAIN Links(s) /\ ~chosen
              /\ Goto(s, c, "select", i + 1) /\ UNCHANGED daemon
        /\ Works
        /\ UNCHANGED <<site, addrs, awaited, told>>

GetCommPf(s, c) ==
    LET i == h[s][c].at
    IN  /\ At(s, c, "select")
        /\ \/ i \notin DOMAIN Links(s) /\ Works /\ Return(s, c, "idle")
           \/ /\ i \in DOMAIN Links(s) \ Candidates(s) /\ Works
              /\ Goto(s, c, "select", i + 1) /\ UNCHANGED daemon
           \/ /\ i \in Candidates(s) /\ (s = "host" \/ addrs[s][i] = {}) /\ Works
              /\ Goto(s, c, "check", i) /\ UNCHANGED daemon
           \/ /\ i \in Candidates(s) /\ s = "ipu" /\ addrs[s][i] # {} /\ Works
              /\ Goto(s, c, "select", i + 1) /\ UNCHANGED daemon
           \/ /\ i \in Candidates(s) /\ s = "ipu" /\ Fails
              /\ Goto(s, c, "check", i) /\ UNCHANGED daemon
        /\ UNCHANGED <<site, addrs, awaited, told>>

(* setIP: refuse a PF with an address, naming it, or an address that is    *)
(* not an IPv4 address.                                                    *)
CheckAddr(s, c) ==
    LET i == h[s][c].at
        free == addrs[s][i] = {}
    IN  /\ At(s, c, "check")
        /\ \/ free /\ site[s].ip4 /\ Works /\ Goto(s, c, "set", i) /\ UNCHANGED <<daemon, told>>
           \/ free /\ ~site[s].ip4 /\ Works /\ Return(s, c, "idle") /\ UNCHANGED told
           \/ /\ ~free /\ Works /\ Return(s, c, "idle")
              /\ told' = IF daemon' = daemon THEN told ELSE [told EXCEPT ![s] = @ \cup {i}]
           \/ Fails /\ Return(s, c, "idle") /\ UNCHANGED told
        /\ UNCHANGED <<site, addrs, awaited>>

(* setIP: AddrAdd.  The kernel refuses an address the link has.            *)
AddrAddSeeded(s, c) ==
    LET i == h[s][c].at
    IN  /\ At(s, c, "set")
        /\ \/ Works /\ addrs' = [addrs EXCEPT ![s][i] = @ \cup {ChannelIp(s)}]
           \/ Fails /\ UNCHANGED addrs
        /\ Return(s, c, "connected")
        /\ UNCHANGED <<site, awaited, told>>

AddrAdd(s, c) ==
    LET i == h[s][c].at
    IN  /\ At(s, c, "set")
        /\ \/ /\ ChannelIp(s) \notin addrs[s][i] /\ Works
              /\ addrs' = [addrs EXCEPT ![s][i] = @ \cup {ChannelIp(s)}]
              /\ Return(s, c, "connected")
           \/ ChannelIp(s) \in addrs[s][i] /\ Works /\ Return(s, c, "idle") /\ UNCHANGED addrs
           \/ Fails /\ Return(s, c, "idle") /\ UNCHANGED addrs
        /\ UNCHANGED <<site, awaited, told>>

-----------------------------------------------------------------------------
(* The surroundings                                                        *)

(* The daemon loses the answer or, later, what the answer told it.         *)
Forget(s) ==
    /\ daemon[s] # "idle"
    /\ losses < MaxLosses
    /\ losses' = losses + 1
    /\ daemon' = [daemon EXCEPT ![s] = "idle"]
    /\ UNCHANGED <<site, addrs, awaited, h, told, faults, stops>>

(* The plugin is restarted; its handlers end without an answer.            *)
Restart(s) ==
    /\ stops < MaxStops
    /\ stops' = stops + 1
    /\ h' = [h EXCEPT ![s] = [c \in Calls |-> [step |-> "free", at |-> 1]]]
    /\ daemon' = IF daemon[s] = "waiting" THEN [daemon EXCEPT ![s] = "idle"] ELSE daemon
    /\ UNCHANGED <<site, addrs, awaited, told, faults, losses>>

(* "Unset ip address for interface %s and run again"                       *)
Unset(s) ==
    \E i \in told[s] :
        /\ addrs' = [addrs EXCEPT ![s][i] = {}]
        /\ told' = [told EXCEPT ![s] = @ \ {i}]
        /\ UNCHANGED <<site, daemon, awaited, h, limits>>

HandlerStep(s, c) ==
    GetFilteredPFs(s, c) \/ GetCommPf(s, c) \/ CheckAddr(s, c) \/ AddrAdd(s, c)

(* Both daemons are connected and no handler runs.                         *)
Settled ==
    /\ \A s \in Sides : daemon[s] = "connected" /\ \A c \in Calls : At(s, c, "free")
    /\ UNCHANGED vars

Next ==
    \/ \E s \in Sides :
          \/ \E c \in Calls : HandlerStep(s, c) \/ \E m \in BOOLEAN : InitCall(s, c, m)
          \/ Forget(s) \/ Restart(s) \/ Unset(s)
    \/ Settled

Spec == Init /\ [][Next]_vars

(* Handlers run to their end, an unconnected daemon calls Init again, and  *)
(* the operator reads the message.                                         *)
Fairness ==
    \A s \in Sides :
        /\ \A c \in Calls : WF_vars(HandlerStep(s, c))
        /\ WF_vars(\E c \in Calls : InitCall(s, c, s = "ipu"))
        /\ WF_vars(Unset(s))
FairSpec == Spec /\ Fairness

-----------------------------------------------------------------------------
(* Properties                                                              *)

Carriers(s) == {i \in DOMAIN Links(s) : ChannelIp(s) \in addrs[s][i]}

(* A daemon that was answered has its channel: one of the PFs for it still *)
(* carries the address, although older handlers of Init may be under way   *)
(* and the operator follows older error messages.                          *)
ConnectedMeansSet ==
    \A s \in Sides : daemon[s] = "connected" => Carriers(s) \cap Candidates(s) # {}

(* With no failed call, and one PF free for it, Init gives the channel's   *)
(* address to one PF only and to none that has another address, however    *)
(* often it is called or interleaved: the address that is found by         *)
(* getCommPf or setIP, or refused by the kernel, is what stops the next    *)
(* call.                                                                   *)
OneCarrier ==
    faults = 0 =>
        \A s \in Sides :
            /\ \A i, j \in Carriers(s) : i = j
            /\ \A i \in Carriers(s) : addrs[s][i] = {ChannelIp(s)}

(* The help texts of the flags say "Daemon address on host" and "Daemon    *)
(* address on ipu".  When Init has answered both daemons, the address in   *)
(* the answer, where the daemon on the IPU is to be found, is that of a PF *)
(* for the channel on the IPU.  It fails: ChannelIp swaps the two.         *)
AnswerIsOnIpu ==
    (\A s \in Sides : daemon[s] = "connected") =>
        \E i \in Candidates("ipu") : IpPort \in addrs["ipu"][i]

(* What Init needs from its configuration and the network.                 *)
Configured(s) == site[s].ip4 /\ \E i \in Candidates(s) : s = "host" \/ ~Links(s)[i].own

(* Init, called on a correctly configured service until it answers, gives  *)
(* a valid answer in the end.                                              *)
InitAnswers == \A s \in Sides : Configured(s) => <>(daemon[s] = "connected")
=============================================================================
