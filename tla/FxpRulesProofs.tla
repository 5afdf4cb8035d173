--------------------------- MODULE FxpRulesProofs ---------------------------
(***************************************************************************)
(* What getAddRuleSets and getDelRuleSets have in common, for every MAC    *)
(* address and VLAN and for both kinds of bridge: they name the same rows. *)
(***************************************************************************)
EXTENDS FxpRules, SequenceTheorems, TLAPS

(* The tables in which a port has a row, and its key there.                *)
UsedTables == IF BridgeType = "linux" THEN Tables ELSE HostTables \cup VlanTables

KeyOf(mac, vlan, t) ==
    IF t \in HostTables THEN <<VsiOf(mac)>>
    ELSE IF t = "tx_from_ovs" THEN <<PortMuxVsi, vlan>>
    ELSE IF t \in VlanTables THEN <<vlan>>
    ELSE MacInt(mac)

ValidMac(mac) == Len(mac) \in 1..6

-----------------------------------------------------------------------------
(* The rules that both kinds of bridge get, and the two more of Linux.     *)
LEMMA CommonRulesList ==
    ASSUME NEW mac, NEW vlan
    PROVE  LET rules == CommonRules(mac, vlan)
               vsi == VsiOf(mac)
           IN  /\ Len(rules) = 7
               /\ rules[2] = rules[1]
               /\ rules[1].table = "tx_from_host" /\ rules[1].row.key = <<vsi>>
               /\ rules[3].table = "rx_loopback_from_host" /\ rules[3].row.key = <<vsi>>
               /\ rules[4].table = "vlan_push_mod" /\ rules[4].row.key = <<vlan>>
               /\ rules[5].table = "tx_from_ovs" /\ rules[5].row.key = <<PortMuxVsi, vlan>>
               /\ rules[6].table = "rx_loopback_from_ovs" /\ rules[6].row.key = <<vsi>>
               /\ rules[7].table = "vlan_pop_mod" /\ rules[7].row.key = <<vlan>>
<1> DEFINE rules == CommonRules(mac, vlan)
           vsi == VsiOf(mac)
<1>1. Len(rules) = 7 /\ rules[2] = rules[1]
  BY DEF CommonRules
<1>2. rules[1].table = "tx_from_host" /\ rules[1].row.key = <<vsi>>
  BY DEF CommonRules, Rule, Row
<1>3. rules[3].table = "rx_loopback_from_host" /\ rules[3].row.key = <<vsi>>
  BY DEF CommonRules, Rule, Row
<1>4. rules[4].table = "vlan_push_mod" /\ rules[4].row.key = <<vlan>>
  BY DEF CommonRules, Rule, Row
<1>5. rules[5].table = "tx_from_ovs" /\ rules[5].row.key = <<PortMuxVsi, vlan>>
  BY DEF CommonRules, Rule, Row
<1>6. rules[6].table = "rx_loopback_from_ovs" /\ rules[6].row.key = <<vsi>>
  BY DEF CommonRules, Rule, Row
<1>7. rules[7].table = "vlan_pop_mod" /\ rules[7].row.key = <<vlan>>
  BY DEF CommonRules, Rule, Row
<1> QED
  BY <1>1, <1>2, <1>3, <1>4, <1>5, <1>6, <1>7

LEMMA LinuxRulesList ==
    ASSUME NEW mac
    PROVE  LET rules == LinuxRules(mac)
           IN  /\ Len(rules) = 2
               /\ rules[1].table = "l2_fwd_tx" /\ rules[1].row.key = MacInt(mac)
               /\ rules[2].table = "sem_bypass" /\ rules[2].row.key = MacInt(mac)
BY DEF LinuxRules, Rule, Row

(* getAddRuleSets rule by rule.                                            *)
LEMMA AddRulesList ==
    ASSUME NEW mac, NEW vlan, ValidMac(mac)
    PROVE  LET rules == getAddRuleSets(mac, vlan)
               vsi == VsiOf(mac)
           IN  /\ BridgeType = "linux" => DOMAIN rules = 1..9
               /\ BridgeType # "linux" => DOMAIN rules = 1..7
               /\ rules[2] = rules[1]
               /\ rules[1].table = "tx_from_host" /\ rules[1].row.key = <<vsi>>
               /\ rules[3].table = "rx_loopback_from_host" /\ rules[3].row.key = <<vsi>>
               /\ rules[4].table = "vlan_push_mod" /\ rules[4].row.key = <<vlan>>
               /\ rules[5].table = "tx_from_ovs" /\ rules[5].row.key = <<PortMuxVsi, vlan>>
               /\ rules[6].table = "rx_loopback_from_ovs" /\ rules[6].row.key = <<vsi>>
               /\ rules[7].table = "vlan_pop_mod" /\ rules[7].row.key = <<vlan>>
               /\ BridgeType = "linux" =>
                     /\ rules[8].table = "l2_fwd_tx" /\ rules[8].row.key = MacInt(mac)
                     /\ rules[9].table = "sem_bypass" /\ rules[9].row.key = MacInt(mac)
<1> DEFINE common == CommonRules(mac, vlan)
           own == IF BridgeType = "linux" THEN LinuxRules(mac) ELSE << >>
           rules == getAddRuleSets(mac, vlan)
<1>1. rules = common \o own
  BY DEF getAddRuleSets, ValidMac
<1>2. common \in Seq({common[i] : i \in 1..7}) /\ Len(common) = 7
  BY DEF CommonRules
<1>3. own \in Seq({own[i] : i \in 1..2}) /\ Len(own) \in {0, 2} /\ (Len(own) = 2 <=> BridgeType = "linux")
  <2>1. CASE BridgeType = "linux"
    <3>1. own = LinuxRules(mac)
      BY <2>1
    <3>2. LinuxRules(mac) \in Seq({LinuxRules(mac)[i] : i \in 1..2}) /\ Len(LinuxRules(mac)) = 2
      BY DEF LinuxRules
    <3> QED
      BY <2>1, <3>1, <3>2
  <2>2. CASE BridgeType # "linux"
    <3>1. own = << >>
      BY <2>2
    <3> QED
      BY <2>2, <3>1
  <2> QED
    BY <2>1, <2>2
<1> HIDE DEF common, own, rules
<1>4. /\ BridgeType = "linux" => DOMAIN rules = 1..9
      /\ BridgeType # "linux" => DOMAIN rules = 1..7
      /\ \A i \in 1..7 : rules[i] = common[i]
      /\ BridgeType = "linux" => rules[8] = own[1] /\ rules[9] = own[2]
  <2> DEFINE S == {common[i] : i \in 1..7} \cup {own[i] : i \in 1..2}
  <2>1. common \in Seq(S) /\ own \in Seq(S)
    BY <1>2, <1>3
  <2> HIDE DEF S
  <2>2. rules \in Seq(S) /\ Len(rules) = Len(common) + Len(own)
    BY <1>1, <2>1, ConcatProperties
  <2>3. \A i \in 1..Len(common) + Len(own) :
          rules[i] = IF i <= Len(common) THEN common[i] ELSE own[i - Len(common)]
    BY <1>1, <2>1, ConcatProperties
  <2>4. /\ BridgeType = "linux" => DOMAIN rules = 1..9
        /\ BridgeType # "linux" => DOMAIN rules = 1..7
    <3>1. DOMAIN rules = 1..Len(rules)
      BY <2>2
    <3>2. Len(common) = 7 /\ Len(rules) = Len(common) + Len(own)
      BY <1>2, <2>2
    <3>3. CASE BridgeType = "linux"
      <4>1. Len(own) = 2
        BY <1>3, <3>3
      <4>2. Len(rules) = 9
        BY <3>2, <4>1
      <4> QED
        BY <3>1, <3>3, <4>2
    <3>4. CASE BridgeType # "linux"
      <4>1. Len(own) = 0
        BY <1>3, <3>4
      <4>2. Len(rules) = 7
        BY <3>2, <4>1
      <4> QED
        BY <3>1, <3>4, <4>2
    <3> QED
      BY <3>3, <3>4
  <2>5. Len(own) = 2 => rules[8] = own[1] /\ rules[9] = own[2]
    BY <1>2, <2>3
  <2>6. \A i \in 1..7 : rules[i] = common[i]
    BY <1>2, <1>3, <2>3
  <2> QED
    BY <1>3, <2>4, <2>5, <2>6
<1>5. BridgeType = "linux" => own = LinuxRules(mac)
  BY DEF own
<1>6. /\ rules = getAddRuleSets(mac, vlan)
      /\ common = CommonRules(mac, vlan)
  BY DEF rules, common
<1> QED
  BY <1>4, <1>5, <1>6, CommonRulesList, LinuxRulesList

(* getDelRuleSets rule by rule.                                            *)
LEMMA DelRulesList ==
    ASSUME NEW mac, NEW vlan, ValidMac(mac)
    PROVE  LET dels == getDelRuleSets(mac, vlan)
               vsi == VsiOf(mac)
           IN  /\ BridgeType = "linux" => DOMAIN dels = 1..8
               /\ BridgeType # "linux" => DOMAIN dels = 1..6
               /\ dels[1].table = "tx_from_host" /\ dels[1].key = <<vsi>>
               /\ dels[2].table = "rx_loopback_from_host" /\ dels[2].key = <<vsi>>
               /\ dels[3].table = "vlan_push_mod" /\ dels[3].key = <<vlan>>
               /\ dels[4].table = "tx_from_ovs" /\ dels[4].key = <<PortMuxVsi, vlan>>
               /\ dels[5].table = "rx_loopback_from_ovs" /\ dels[5].key = <<vsi>>
               /\ dels[6].table = "vlan_pop_mod" /\ dels[6].key = <<vlan>>
               /\ BridgeType = "linux" =>
                     /\ dels[7].table = "l2_fwd_tx" /\ dels[7].key = MacInt(mac)
                     /\ dels[8].table = "sem_bypass" /\ dels[8].key = MacInt(mac)
<1> USE DEF getDelRuleSets, DelRule, ValidMac
<1>1. CASE BridgeType = "linux"
  BY <1>1
<1>2. CASE BridgeType # "linux"
  BY <1>2
<1> QED
  BY <1>1, <1>2

-----------------------------------------------------------------------------
(* A port gets one row per table, under the key that KeyOf gives.          *)
LEMMA AddRuleKeys ==
    ASSUME NEW mac, NEW vlan, ValidMac(mac)
    PROVE  LET rules == getAddRuleSets(mac, vlan)
           IN  \A i \in DOMAIN rules :
                   /\ rules[i].table \in UsedTables
                   /\ rules[i].row.key = KeyOf(mac, vlan, rules[i].table)
                   /\ \A j \in DOMAIN rules :
                         rules[j].table = rules[i].table => rules[j].row = rules[i].row
<1> DEFINE rules == getAddRuleSets(mac, vlan)
           vsi == VsiOf(mac)
           macInt == MacInt(mac)
<1> USE DEF UsedTables, Tables, HostTables, VlanTables, MacTables, KeyOf
<1>1. /\ BridgeType = "linux" => DOMAIN rules = 1..9
      /\ BridgeType # "linux" => DOMAIN rules = 1..7
      /\ rules[2] = rules[1]
      /\ rules[1].table = "tx_from_host" /\ rules[1].row.key = <<vsi>>
      /\ rules[3].table = "rx_loopback_from_host" /\ rules[3].row.key = <<vsi>>
      /\ rules[4].table = "vlan_push_mod" /\ rules[4].row.key = <<vlan>>
      /\ rules[5].table = "tx_from_ovs" /\ rules[5].row.key = <<PortMuxVsi, vlan>>
      /\ rules[6].table = "rx_loopback_from_ovs" /\ rules[6].row.key = <<vsi>>
      /\ rules[7].table = "vlan_pop_mod" /\ rules[7].row.key = <<vlan>>
  BY AddRulesList
<1>2. BridgeType = "linux" =>
        /\ rules[8].table = "l2_fwd_tx" /\ rules[8].row.key = macInt
        /\ rules[9].table = "sem_bypass" /\ rules[9].row.key = macInt
  BY AddRulesList
<1> SUFFICES ASSUME NEW i \in DOMAIN rules
             PROVE  /\ rules[i].table \in UsedTables
                    /\ rules[i].row.key = KeyOf(mac, vlan, rules[i].table)
                    /\ \A j \in DOMAIN rules :
                          rules[j].table = rules[i].table => rules[j].row = rules[i].row
  OBVIOUS
<1> HIDE DEF rules, vsi, macInt
<1>3. i \in 1..7 \/ (BridgeType = "linux" /\ i \in {8, 9})
  BY <1>1
<1>4. CASE i \in 1..7
  <2>1. rules[i].table \in HostTables \cup VlanTables
    BY <1>1, <1>4
  <2>2. rules[i].row.key = KeyOf(mac, vlan, rules[i].table)
    BY <1>1, <1>4 DEF vsi
  <2> QED
    BY <1>1, <1>2, <1>4, <2>1, <2>2
<1>5. CASE BridgeType = "linux" /\ i \in {8, 9}
  <2>1. rules[i].table \in MacTables /\ rules[i].row.key = macInt
    BY <1>2, <1>5
  <2> QED
    BY <1>1, <1>2, <1>5, <2>1 DEF macInt
<1> QED
  BY <1>3, <1>4, <1>5

(* Every table a port has a row in gets a deletion with the key of that    *)
(* row, and nothing else is deleted.                                       *)
LEMMA DelRuleKeys ==
    ASSUME NEW mac, NEW vlan, ValidMac(mac)
    PROVE  LET dels == getDelRuleSets(mac, vlan)
           IN  /\ \A i \in DOMAIN dels :
                     /\ dels[i].table \in UsedTables
                     /\ dels[i].key = KeyOf(mac, vlan, dels[i].table)
               /\ \A t \in UsedTables : \E i \in DOMAIN dels : dels[i].table = t
<1> DEFINE dels == getDelRuleSets(mac, vlan)
           vsi == VsiOf(mac)
           macInt == MacInt(mac)
<1> USE DEF UsedTables, Tables, HostTables, VlanTables, MacTables, KeyOf
<1>1. /\ BridgeType = "linux" => DOMAIN dels = 1..8
      /\ BridgeType # "linux" => DOMAIN dels = 1..6
      /\ dels[1].table = "tx_from_host" /\ dels[1].key = <<vsi>>
      /\ dels[2].table = "rx_loopback_from_host" /\ dels[2].key = <<vsi>>
      /\ dels[3].table = "vlan_push_mod" /\ dels[3].key = <<vlan>>
      /\ dels[4].table = "tx_from_ovs" /\ dels[4].key = <<PortMuxVsi, vlan>>
      /\ dels[5].table = "rx_loopback_from_ovs" /\ dels[5].key = <<vsi>>
      /\ dels[6].table = "vlan_pop_mod" /\ dels[6].key = <<vlan>>
  BY DelRulesList
<1>2. BridgeType = "linux" =>
        /\ dels[7].table = "l2_fwd_tx" /\ dels[7].key = macInt
        /\ dels[8].table = "sem_bypass" /\ dels[8].key = macInt
  BY DelRulesList
<1> HIDE DEF dels, vsi, macInt
<1>3. ASSUME NEW i \in DOMAIN dels
      PROVE  dels[i].table \in UsedTables /\ dels[i].key = KeyOf(mac, vlan, dels[i].table)
  <2>1. i \in 1..6 \/ (BridgeType = "linux" /\ i \in {7, 8})
    BY <1>1
  <2>2. CASE i \in 1..6
    BY <1>1, <2>2 DEF vsi
  <2>3. CASE BridgeType = "linux" /\ i \in {7, 8}
    BY <1>2, <2>3 DEF macInt
  <2> QED
    BY <2>1, <2>2, <2>3
<1>4. ASSUME NEW t \in UsedTables
      PROVE  \E i \in DOMAIN dels : dels[i].table = t
  <2>1. \A i \in 1..6 : i \in DOMAIN dels
    BY <1>1
  <2>2. BridgeType = "linux" => 7 \in DOMAIN dels /\ 8 \in DOMAIN dels
    BY <1>1
  <2> QED
    BY <1>1, <1>2, <2>1, <2>2
<1> QED
  BY <1>3, <1>4 DEF dels

(* The rows of a port.                                                     *)
LEMMA RowKeys ==
    ASSUME NEW mac, NEW vlan, ValidMac(mac), NEW t,
           NEW x \in Rows(getAddRuleSets(mac, vlan), t)
    PROVE  /\ t \in UsedTables
           /\ x.key = KeyOf(mac, vlan, t)
           /\ \A y \in Rows(getAddRuleSets(mac, vlan), t) : y = x
<1> DEFINE rules == getAddRuleSets(mac, vlan)
<1>1. \A i \in DOMAIN rules :
          /\ rules[i].table \in UsedTables
          /\ rules[i].row.key = KeyOf(mac, vlan, rules[i].table)
          /\ \A j \in DOMAIN rules :
                rules[j].table = rules[i].table => rules[j].row = rules[i].row
  BY AddRuleKeys
<1> HIDE DEF rules
<1>2. PICK i \in DOMAIN rules : rules[i].table = t /\ x = rules[i].row
  BY DEF Rows, rules
<1>3. ASSUME NEW y \in Rows(rules, t)
      PROVE  y = x
  BY <1>1, <1>2, <1>3 DEF Rows
<1> QED
  BY <1>1, <1>2, <1>3 DEF rules

(* Two ports that differ in VLAN, VSI and MAC address have no key in       *)
(* common.                                                                 *)
LEMMA KeysDiffer ==
    ASSUME NEW mac1, NEW vlan1, NEW mac2, NEW vlan2, NEW t \in Tables,
           vlan1 # vlan2, VsiOf(mac1) # VsiOf(mac2), MacInt(mac1) # MacInt(mac2)
    PROVE  KeyOf(mac1, vlan1, t) # KeyOf(mac2, vlan2, t)
<1> USE DEF Tables, HostTables, VlanTables, MacTables
<1>1. CASE t \in HostTables
  BY <1>1 DEF KeyOf
<1>2. CASE t \in VlanTables
  BY <1>2 DEF KeyOf
<1>3. CASE t \in MacTables
  BY <1>3 DEF KeyOf
<1> QED
  BY <1>1, <1>2, <1>3
=============================================================================
