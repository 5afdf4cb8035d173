------------------------------ MODULE FxpRules ------------------------------
(***************************************************************************)
(* The FXP (P4) rules that the IPU plugin installs for one bridge port:    *)
(* package p4rtclient.  A rule is one p4rt-ctl invocation; the state it    *)
(* works on is a family of match-action tables, one set of rows per table. *)
(* A MAC address is the sequence of its bytes, as in the Go []byte.        *)
(* getDelRuleSetsSeeded is getDelRuleSets with a plausible mistake, to see *)
(* that the properties of BridgePort can fail.                             *)
(***************************************************************************)
EXTENDS Naturals, Sequences

CONSTANTS
    PortMuxVsi,     \* --portMuxVsi: VSI of the uplink interface
    BridgeType      \* --bridgeType: "linux" or "ovs"

ASSUME PortMuxVsiAssumption == PortMuxVsi \in Nat
ASSUME BridgeTypeAssumption == BridgeType \in {"linux", "ovs"}

HostTables == {"tx_from_host", "rx_loopback_from_host", "rx_loopback_from_ovs"}
VlanTables == {"vlan_push_mod", "vlan_pop_mod", "tx_from_ovs"}
MacTables == {"l2_fwd_tx", "sem_bypass"}
Tables == HostTables \cup VlanTables \cup MacTables

(* getVportForVsi *)
vsiToVportOffset == 16
getVportForVsi(vsi) == vsi + vsiToVportOffset

(* The plugin takes the second octet of the MAC address for the VSI.       *)
VsiOf(mac) == mac[2]

(* getMacIntValueFromBytes: the number the bytes denote, written as its    *)
(* base-256 digits other than 0, each with its place.  Leading zero bytes  *)
(* leave no trace, as in the integer the code prints with 0x%x.            *)
MacInt(mac) ==
    {<<Len(mac) - i, mac[i]>> : i \in {j \in 1..Len(mac) : mac[j] # 0}}

Row(key, op, args) == [key |-> key, action |-> [op |-> op, args |-> args]]
Rule(table, row) == [table |-> table, row |-> row]

-----------------------------------------------------------------------------
(* getAddRuleSets, in the order of the code.  The code lists the first     *)
(* rule twice; the second copy is kept, since it is a command of its own   *)
(* that meets the row the first one added.                                 *)
CommonRules(mac, vlan) ==
    LET vsi == VsiOf(mac)
        mux == getVportForVsi(PortMuxVsi)
        fromHost == Rule("tx_from_host",
                        Row(<<vsi>>, "add_vlan_and_send_to_port", <<vlan, mux>>))
    IN  << fromHost,
           fromHost,
           Rule("rx_loopback_from_host", Row(<<vsi>>, "set_dest", <<mux>>)),
           Rule("vlan_push_mod", Row(<<vlan>>, "vlan_push", <<1, 0, vlan>>)),
           Rule("tx_from_ovs",
               Row(<<PortMuxVsi, vlan>>, "remove_vlan_and_send_to_port",
                   <<vlan, getVportForVsi(vsi)>>)),
           Rule("rx_loopback_from_ovs",
               Row(<<vsi>>, "set_dest", <<getVportForVsi(vsi)>>)),
           Rule("vlan_pop_mod", Row(<<vlan>>, "vlan_pop", <<>>)) >>

(* The two rules that only a Linux bridge gets.                            *)
LinuxRules(mac) ==
    LET vport == getVportForVsi(VsiOf(mac))
    IN  << Rule("l2_fwd_tx", Row(MacInt(mac), "l2_fwd", <<vport>>)),
           Rule("sem_bypass", Row(MacInt(mac), "set_dest", <<vport>>)) >>

getAddRuleSets(mac, vlan) ==
    IF Len(mac) \notin 1..6 THEN << >>
    ELSE CommonRules(mac, vlan)
           \o (IF BridgeType = "linux" THEN LinuxRules(mac) ELSE << >>)

(* getDelRuleSets: one del-entry per table, with the key only.  Listed     *)
(* apart from the additions, as the code does.                             *)
DelRule(table, key) == [table |-> table, key |-> key]

getDelRuleSetsSeeded(mac, vlan) ==
    << DelRule("tx_from_host", <<VsiOf(mac)>>),
       DelRule("rx_loopback_from_host", <<VsiOf(mac)>>),
       DelRule("vlan_push_mod", <<vlan>>),
       DelRule("tx_from_ovs", <<PortMuxVsi + 1, vlan>>),
       DelRule("rx_loopback_from_ovs", <<VsiOf(mac)>>),
       DelRule("vlan_pop_mod", <<vlan>>),
       DelRule("l2_fwd_tx", MacInt(mac)),
       DelRule("sem_bypass", MacInt(mac)) >>

getDelRuleSets(mac, vlan) ==
    LET vsi == VsiOf(mac)
    IN  IF Len(mac) \notin 1..6 THEN << >>
        ELSE << DelRule("tx_from_host", <<vsi>>),
                DelRule("rx_loopback_from_host", <<vsi>>),
                DelRule("vlan_push_mod", <<vlan>>),
                DelRule("tx_from_ovs", <<PortMuxVsi, vlan>>),
                DelRule("rx_loopback_from_ovs", <<vsi>>),
                DelRule("vlan_pop_mod", <<vlan>>) >>
             \o (IF BridgeType = "linux"
                 THEN << DelRule("l2_fwd_tx", MacInt(mac)),
                         DelRule("sem_bypass", MacInt(mac)) >>
                 ELSE << >>)

-----------------------------------------------------------------------------
(* What p4rt-ctl does to the tables: add-entry is refused when the key is  *)
(* taken, del-entry of a key that is not there is refused too.  Both       *)
(* refusals are only logged by the caller.                                 *)
NoRows == [t \in Tables |-> {}]

AddEntry(fxp, rule) ==
    IF \E row \in fxp[rule.table] : row.key = rule.row.key THEN fxp
    ELSE [fxp EXCEPT ![rule.table] = @ \cup {rule.row}]

DelEntry(fxp, del) ==
    [fxp EXCEPT ![del.table] = {row \in @ : row.key # del.key}]

Rows(rules, table) ==
    {rules[i].row : i \in {j \in DOMAIN rules : rules[j].table = table}}
=============================================================================
