--------------------------- MODULE PortStateProofs ---------------------------
(***************************************************************************)
(* What the handlers make of kernel, bridge and FXP tables, for every set  *)
(* of handlers and requests, both kinds of bridge, and any number of       *)
(* failures and restarts: a stored port is connected, a failed command     *)
(* costs one row at most, and nothing is left behind.                      *)
(***************************************************************************)
EXTENDS BridgePortProofs, FxpRulesProofs, FiniteSetTheorems

(* Two requests are for one VF, or have no key in common: neither VLAN nor *)
(* VSI nor MAC address.                                                    *)
SameVf(r, q) == LinkOf(r) = LinkOf(q) /\ r.mac = q.mac
Disjoint(r, q) ==
    /\ VlanId(r) # VlanId(q)
    /\ VsiOf(r.mac) # VsiOf(q.mac)
    /\ MacInt(r.mac) # MacInt(q.mac)
OwnKeys == \A r, q \in Accepted : SameVf(r, q) \/ Disjoint(r, q)

KeyFor(r, t) == KeyOf(r.mac, VlanId(r), t)

(* No handler is deleting the rules of port p; none has begun to take it   *)
(* off the bridge.                                                         *)
RulesKept(p) == \A c \in Calls : ~(pc[c] = "delRules" /\ req[c] = p)
Untouched(p) ==
    \A c \in Calls : ~(pc[c] \in {"setDown", "removeVlan", "delRules"} /\ req[c] = p)

(* A row that somebody counts on: a stored port, or a create handler that  *)
(* has come past its add-entry.                                            *)
AddedBy(c, x) ==
    /\ pc[c] = "addRules"
    /\ \E i \in DOMAIN AddRuleSets(req[c]) :
          /\ i <= done[c]
          /\ x = <<AddRuleSets(req[c])[i].table, AddRuleSets(req[c])[i].row>>
Owed(x) ==
    \/ \E p \in ports : RulesKept(p) /\ x[2] \in RowsOf(p, x[1])
    \/ \E c \in Calls : AddedBy(c, x)

PortRows == UNION {{t} \X UNION {RowsOf(r, t) : r \in Accepted} : t \in Tables}
Deficit == {x \in PortRows : Owed(x) /\ x[2] \notin fxp[x[1]]}

(* The strengthening of OneFaultOneRule.                                   *)
DeficitBounded == IsFiniteSet(Deficit) /\ Cardinality(Deficit) <= faults

(* What a create handler has attached and brought up stays so.             *)
Attached ==
    \A c \in Calls :
        /\ pc[c] \in {"setUp", "addRules"} => LinkOf(req[c]) \in members
        /\ (pc[c] = "addRules" /\ BridgeType = "linux") => LinkOf(req[c]) \in up

(* A plugin that serves has its bridge; a first one that has met no        *)
(* failure has brought it up.                                              *)
BridgeServes ==
    /\ plugin # "serving" => ports = {} /\ \A c \in Calls : pc[c] \in Replied
    /\ plugin # "down" => bridge # "absent"
    /\ (faults = 0 /\ stops = 0) =>
          /\ plugin = "down" => bridge = "absent"
          /\ plugin = "serving" => bridge = "up"

StoredAttached ==
    faults = 0 =>
        \A p \in ports :
            Untouched(p) =>
                /\ LinkOf(p) \in members
                /\ BridgeType = "linux" => LinkOf(p) \in up

(* Without failures and restarts, each interface, member and row has an    *)
(* owner: a port that is stored and not yet past its removal, or a create  *)
(* handler past its addition.                                              *)
Undone(c, t) ==
    \E i \in DOMAIN DelRuleSets(req[c]) :
        i <= done[c] /\ DelRuleSets(req[c])[i].table = t
LinksOwned ==
    \A l \in links :
        \/ \E p \in ports : l = LinkOf(p) /\ RulesKept(p)
        \/ \E c \in Calls : pc[c] \in {"addPort", "setUp", "addRules"} /\ l = LinkOf(req[c])
MembersOwned ==
    \A l \in members :
        \/ \E p \in ports : l = LinkOf(p) /\ Untouched(p)
        \/ \E c \in Calls : pc[c] \in {"setUp", "addRules"} /\ l = LinkOf(req[c])
RowsOwned ==
    \A t \in Tables : \A row \in fxp[t] :
        \/ \E p \in ports :
              /\ row \in RowsOf(p, t)
              /\ \A c \in Calls : pc[c] = "delRules" /\ req[c] = p => ~Undone(c, t)
        \/ \E c \in Calls : pc[c] = "addRules" /\ row \in RowsOf(req[c], t)
AllOwned == (faults = 0 /\ stops = 0) => LinksOwned /\ MembersOwned /\ RowsOwned

-----------------------------------------------------------------------------
(* Rows and their keys                                                     *)

(* An accepted request has a MAC address that getAddRuleSets takes.        *)
LEMMA AcceptedRules ==
    ASSUME NEW r \in Accepted
    PROVE  /\ ValidMac(r.mac)
           /\ AddRuleSets(r) = getAddRuleSets(r.mac, VlanId(r))
           /\ DelRuleSets(r) = getDelRuleSets(r.mac, VlanId(r))
           /\ UsedTables \subseteq Tables
BY DEF Accepted, Valid, ValidMac, AddRuleSets, DelRuleSets, UsedTables, Tables,
       HostTables, VlanTables, MacTables

LEMMA RowOfPort ==
    ASSUME NEW r \in Accepted, NEW t, NEW x \in RowsOf(r, t)
    PROVE  t \in UsedTables /\ x.key = KeyFor(r, t) /\ \A y \in RowsOf(r, t) : y = x
BY AcceptedRules, RowKeys DEF RowsOf, KeyFor

LEMMA RuleOfPort ==
    ASSUME NEW r \in Accepted, NEW i \in DOMAIN AddRuleSets(r)
    PROVE  LET rule == AddRuleSets(r)[i]
           IN  /\ rule.table \in Tables
               /\ rule.row.key = KeyFor(r, rule.table)
               /\ rule.row \in RowsOf(r, rule.table)
<1>1. /\ AddRuleSets(r)[i].table \in UsedTables
      /\ AddRuleSets(r)[i].row.key = KeyFor(r, AddRuleSets(r)[i].table)
  BY AcceptedRules, AddRuleKeys DEF KeyFor
<1>2. AddRuleSets(r)[i].row \in RowsOf(r, AddRuleSets(r)[i].table)
  BY DEF RowsOf, Rows
<1> QED
  BY <1>1, <1>2, AcceptedRules

LEMMA DeletionOfPort ==
    ASSUME NEW r \in Accepted
    PROVE  LET dels == DelRuleSets(r)
           IN  /\ \A i \in DOMAIN dels :
                     dels[i].table \in Tables /\ dels[i].key = KeyFor(r, dels[i].table)
               /\ \A t \in UsedTables : \E i \in DOMAIN dels : dels[i].table = t
BY AcceptedRules, DelRuleKeys DEF KeyFor

(* Requests for one VF have the same rows, all others have other keys.     *)
LEMMA SameRows ==
    ASSUME NEW r, NEW q, SameVf(r, q)
    PROVE  /\ r.name = q.name
           /\ \A t : RowsOf(r, t) = RowsOf(q, t) /\ KeyFor(r, t) = KeyFor(q, t)
<1>1. r.mac = q.mac /\ VlanId(r) = VlanId(q) /\ r.name = q.name
  BY DEF SameVf, LinkOf
<1> QED
  BY <1>1 DEF RowsOf, AddRuleSets, KeyFor

LEMMA OtherKeys ==
    ASSUME OwnKeys, NEW r \in Accepted, NEW q \in Accepted, r.name # q.name, NEW t \in Tables
    PROVE  KeyFor(r, t) # KeyFor(q, t)
<1>1. Disjoint(r, q)
  BY SameRows DEF OwnKeys
<1> QED
  BY <1>1, KeysDiffer DEF Disjoint, KeyFor

(* A key determines the row, among all rows that any request can have.     *)
LEMMA KeyDeterminesRow ==
    ASSUME OwnKeys, NEW r \in Accepted, NEW q \in Accepted, NEW t \in Tables,
           NEW x \in RowsOf(r, t), NEW y \in RowsOf(q, t), x.key = y.key
    PROVE  x = y
<1>1. x.key = KeyFor(r, t) /\ y.key = KeyFor(q, t)
  BY RowOfPort
<1>2. ~Disjoint(r, q)
  BY <1>1, KeysDiffer DEF Disjoint, KeyFor
<1>3. RowsOf(r, t) = RowsOf(q, t)
  BY <1>2, SameRows DEF OwnKeys
<1> QED
  BY <1>3, RowOfPort

(* add-entry of an accepted request's rule leaves its row in the table,    *)
(* whatever was in it, and takes none away.                                *)
LEMMA AddEntryInstalls ==
    ASSUME OwnKeys, TypeOK, NEW r \in Accepted, NEW i \in DOMAIN AddRuleSets(r),
           fxp' = AddEntry(fxp, AddRuleSets(r)[i])
    PROVE  /\ AddRuleSets(r)[i].row \in fxp'[AddRuleSets(r)[i].table]
           /\ \A t \in Tables :
                 /\ fxp[t] \subseteq fxp'[t]
                 /\ \A row \in fxp'[t] : row \in fxp[t] \/ row \in RowsOf(r, t)
<1> DEFINE rule == AddRuleSets(r)[i]
<1>1. rule.table \in Tables /\ rule.row \in RowsOf(r, rule.table)
  BY RuleOfPort
<1>2. CASE \E row \in fxp[rule.table] : row.key = rule.row.key
  <2>1. PICK row \in fxp[rule.table] : row.key = rule.row.key
    BY <1>2
  <2>2. PICK q \in Accepted : row \in RowsOf(q, rule.table)
    BY <1>1, <2>1 DEF TypeOK
  <2>3. row = rule.row
    BY <1>1, <2>1, <2>2, KeyDeterminesRow
  <2>4. fxp' = fxp
    BY <1>2 DEF AddEntry
  <2> QED
    BY <2>1, <2>3, <2>4
<1>3. CASE ~\E row \in fxp[rule.table] : row.key = rule.row.key
  <2>1. fxp' = [fxp EXCEPT ![rule.table] = @ \cup {rule.row}]
    BY <1>3 DEF AddEntry
  <2>2. fxp = [t \in Tables |-> fxp[t]]
    BY DEF TypeOK
  <2> HIDE DEF rule
  <2>3. /\ fxp'[rule.table] = fxp[rule.table] \cup {rule.row}
        /\ \A t \in Tables : t # rule.table => fxp'[t] = fxp[t]
    BY <1>1, <2>1, <2>2
  <2> QED
    BY <1>1, <2>3 DEF rule
<1> QED
  BY <1>2, <1>3

(* del-entry of a rule of r takes the rows with r's key, and no others.    *)
LEMMA DelEntryRemoves ==
    ASSUME TypeOK, NEW r \in Accepted, NEW i \in DOMAIN DelRuleSets(r),
           fxp' = DelEntry(fxp, DelRuleSets(r)[i])
    PROVE  \A t \in Tables :
              fxp'[t] = IF t = DelRuleSets(r)[i].table
                        THEN {row \in fxp[t] : row.key # KeyFor(r, t)} ELSE fxp[t]
<1> DEFINE del == DelRuleSets(r)[i]
<1>1. del.table \in Tables /\ del.key = KeyFor(r, del.table)
  BY DeletionOfPort
<1>2. fxp' = [fxp EXCEPT ![del.table] = {row \in fxp[del.table] : row.key # del.key}]
  BY DEF DelEntry
<1>3. fxp = [t \in Tables |-> fxp[t]]
  BY DEF TypeOK
<1> HIDE DEF del
<1>4. \A t \in Tables :
        fxp'[t] = IF t = del.table THEN {row \in fxp[t] : row.key # KeyFor(r, t)} ELSE fxp[t]
  BY <1>1, <1>2, <1>3
<1> QED
  BY <1>4 DEF del

-----------------------------------------------------------------------------
(* A failed command costs one row                                          *)

LEMMA RuleIndices ==
    ASSUME NEW r \in Accepted
    PROVE  /\ DOMAIN AddRuleSets(r) \in {1..7, 1..9}
           /\ DOMAIN DelRuleSets(r) \in {1..6, 1..8}
BY AcceptedRules, AddRulesList, DelRulesList

(* How the deficit grows with the failures.                                *)
LEMMA DeficitCount ==
    ASSUME TypeOK, TypeOK', DeficitBounded,
           \/ Deficit' \subseteq Deficit /\ (Works \/ Fails)
           \/ Fails /\ \E x : Deficit' \subseteq Deficit \cup {x}
    PROVE  DeficitBounded'
<1> USE DEF DeficitBounded
<1>1. faults \in Nat /\ faults' \in Nat /\ Cardinality(Deficit) \in Nat
  BY BoundsAssumption, FS_CardinalityType DEF TypeOK
<1>2. CASE Deficit' \subseteq Deficit /\ (Works \/ Fails)
  <2>1. IsFiniteSet(Deficit') /\ Cardinality(Deficit') <= Cardinality(Deficit)
    BY <1>2, FS_Subset
  <2>2. Cardinality(Deficit') \in Nat
    BY <2>1, FS_CardinalityType
  <2>3. faults' >= faults
    BY <1>1, <1>2 DEF Works, Fails
  <2> QED
    BY <1>1, <2>1, <2>2, <2>3
<1>3. ASSUME Fails, NEW x, Deficit' \subseteq Deficit \cup {x}
      PROVE  DeficitBounded'
  <2>1. /\ IsFiniteSet(Deficit \cup {x})
        /\ Cardinality(Deficit \cup {x}) <= Cardinality(Deficit) + 1
    BY <1>1, FS_AddElement
  <2>2. IsFiniteSet(Deficit') /\ Cardinality(Deficit') <= Cardinality(Deficit \cup {x})
    BY <1>3, <2>1, FS_Subset
  <2>3. Cardinality(Deficit') \in Nat /\ Cardinality(Deficit \cup {x}) \in Nat
    BY <2>1, <2>2, FS_CardinalityType
  <2>4. faults' = faults + 1
    BY <1>3 DEF Fails
  <2> QED
    BY <1>1, <2>1, <2>2, <2>3, <2>4
<1> QED
  BY <1>2, <1>3

(* A step that stores no port, touches no row, and leaves the handlers     *)
(* that add or delete rules alone.                                         *)
LEMMA QuietDeficit ==
    ASSUME TypeOK, TypeOK', ports' \subseteq ports, UNCHANGED fxp,
           \A c \in Calls : pc[c] = "delRules" => pc'[c] = "delRules" /\ req'[c] = req[c],
           \A c \in Calls : pc'[c] = "addRules" =>
               \/ pc[c] = "addRules" /\ req'[c] = req[c] /\ done'[c] = done[c]
               \/ done'[c] = 0
    PROVE  Deficit' \subseteq Deficit
<1>1. \A p \in ports' : RulesKept(p)' => RulesKept(p)
  BY DEF RulesKept
<1>2. ASSUME NEW c \in Calls, NEW x, AddedBy(c, x)'
      PROVE  AddedBy(c, x)
  <2>1. req'[c] \in Accepted
    BY DEF TypeOK
  <2>2. done'[c] # 0
    <3>1. PICK i \in DOMAIN AddRuleSets(req'[c]) : i <= done'[c]
      BY <1>2 DEF AddedBy, AddRuleSets, VlanId
    <3>2. i \in 1..7 \/ i \in 1..9
      BY <2>1, <3>1, RuleIndices
    <3> QED
      BY <3>1, <3>2
  <2> QED
    BY <1>2, <2>2 DEF AddedBy, AddRuleSets, VlanId
<1>3. \A x : Owed(x)' => Owed(x)
  BY <1>1, <1>2 DEF Owed, RowsOf, AddRuleSets, VlanId
<1> QED
  BY <1>3 DEF Deficit, PortRows, RowsOf, AddRuleSets, VlanId

(* Handlers that are not in the loops over the rules.                      *)
LEMMA QuietHandler ==
    ASSUME TypeOK, NEW c \in Calls,
           \/ VlanLookup(c) \/ LinkAdd(c) \/ AddPort(c) \/ SetUp(c)
           \/ DeletePort(c) \/ SetDown(c) \/ RemoveVlan(c)
    PROVE  /\ Works \/ Fails
           /\ UNCHANGED <<ports, fxp, req>>
           /\ pc[c] # "delRules"
           /\ pc'[c] = "addRules" => done'[c] = 0
           /\ \A d \in Calls \ {c} : pc'[d] = pc[d] /\ done'[d] = done[d]
<1> USE DEF Goto, GotoRules, TypeOK
<1>1. CASE VlanLookup(c) \/ LinkAdd(c)
  BY <1>1 DEF VlanLookup, LinkAdd
<1>2. CASE AddPort(c)
  BY <1>2 DEF AddPort
<1>3. CASE SetUp(c)
  BY <1>3 DEF SetUp
<1>4. CASE DeletePort(c) \/ SetDown(c)
  BY <1>4 DEF DeletePort, SetDown
<1>5. CASE RemoveVlan(c)
  BY <1>5 DEF RemoveVlan
<1> QED
  BY <1>1, <1>2, <1>3, <1>4, <1>5

(* add-entry leaves the row of the rule in its table, or fails and leaves  *)
(* it out.                                                                 *)
LEMMA AddRuleDeficit ==
    ASSUME OwnKeys, TypeOK, TypeOK', NEW c \in Calls, AddRule(c)
    PROVE  \/ Deficit' \subseteq Deficit /\ Works
           \/ Fails /\ \E x : Deficit' \subseteq Deficit \cup {x}
<1> DEFINE rules == AddRuleSets(req[c])
           k == done[c] + 1
           x == <<rules[k].table, rules[k].row>>
<1>1. /\ pc[c] = "addRules" /\ k \in DOMAIN rules /\ req[c] \in Accepted
      /\ UNCHANGED <<ports, pc, req>>
      /\ done' = [done EXCEPT ![c] = @ + 1]
  BY DEF AddRule, TypeOK
<1>2. \A p : RulesKept(p)' <=> RulesKept(p)
  BY <1>1 DEF RulesKept
<1>3. ASSUME NEW d \in Calls, NEW y, AddedBy(d, y)'
      PROVE  AddedBy(d, y) \/ y = x
  <2>1. CASE d # c
    BY <1>1, <1>3, <2>1 DEF AddedBy, AddRuleSets, VlanId, TypeOK
  <2>2. CASE d = c
    <3>1. done'[c] = k /\ done[c] \in Nat
      BY <1>1 DEF TypeOK
    <3>2. PICK i \in DOMAIN rules : i <= k /\ y = <<rules[i].table, rules[i].row>>
      BY <1>1, <1>3, <2>2, <3>1 DEF AddedBy, AddRuleSets, VlanId
    <3>3. i \in Nat
      BY <1>1, <3>2, RuleIndices
    <3>4. CASE i = k
      BY <3>2, <3>4
    <3>5. CASE i # k
      <4>1. i <= done[c]
        BY <3>1, <3>2, <3>3, <3>5
      <4> QED
        BY <1>1, <2>2, <3>2, <4>1 DEF AddedBy
    <3> QED
      BY <3>4, <3>5
  <2> QED
    BY <2>1, <2>2
<1> HIDE DEF x
<1>4. \A y : Owed(y)' => Owed(y) \/ y = x
  BY <1>1, <1>2, <1>3 DEF Owed, RowsOf, AddRuleSets, VlanId
<1>5. PortRows' = PortRows
  BY DEF PortRows, RowsOf, AddRuleSets, VlanId
<1>6. CASE Works /\ fxp' = AddEntry(fxp, rules[k])
  <2>1. /\ rules[k].row \in fxp'[rules[k].table]
        /\ \A t \in Tables : fxp[t] \subseteq fxp'[t]
    BY <1>1, <1>6, AddEntryInstalls
  <2>2. x[2] \in fxp'[x[1]]
    BY <2>1 DEF x
  <2>3. \A y \in PortRows : y[1] \in Tables
    BY DEF PortRows
  <2> QED
    BY <1>4, <1>5, <1>6, <2>1, <2>2, <2>3 DEF Deficit
<1>7. CASE Fails /\ UNCHANGED fxp
  BY <1>4, <1>5, <1>7 DEF Deficit
<1> QED
  BY <1>6, <1>7 DEF AddRule

(* The port is stored once its handler is past every add-entry.            *)
LEMMA StorePortDeficit ==
    ASSUME TypeOK, NEW c \in Calls, StorePort(c)
    PROVE  Deficit' \subseteq Deficit /\ Works
<1>1. /\ pc[c] = "addRules" /\ req[c] \in Accepted /\ done[c] \in Nat
      /\ done[c] + 1 \notin DOMAIN AddRuleSets(req[c])
      /\ ports' \subseteq ports \cup {req[c]}
      /\ pc' = [pc EXCEPT ![c] = "idle"] /\ done' = [done EXCEPT ![c] = 0]
      /\ UNCHANGED <<fxp, req, faults>>
  BY DEF StorePort, GotoRules, Goto, TypeOK
<1>2. \A i \in DOMAIN AddRuleSets(req[c]) : i <= done[c]
  BY <1>1, RuleIndices
<1>3. ASSUME NEW x \in PortRows, x[2] \in RowsOf(req[c], x[1])
      PROVE  AddedBy(c, x)
  <2>1. PICK i \in DOMAIN AddRuleSets(req[c]) :
          AddRuleSets(req[c])[i].table = x[1] /\ AddRuleSets(req[c])[i].row = x[2]
    BY <1>3 DEF RowsOf, Rows
  <2>2. x = <<x[1], x[2]>>
    BY DEF PortRows
  <2> QED
    BY <1>1, <1>2, <2>1, <2>2 DEF AddedBy
<1>4. \A p : RulesKept(p)' => RulesKept(p)
  BY <1>1 DEF RulesKept, TypeOK
<1>5. \A d \in Calls : \A x : AddedBy(d, x)' => AddedBy(d, x)
  BY <1>1 DEF AddedBy, AddRuleSets, VlanId, TypeOK
<1>6. \A x \in PortRows : Owed(x)' => Owed(x)
  BY <1>1, <1>3, <1>4, <1>5 DEF Owed, RowsOf, AddRuleSets, VlanId
<1> QED
  BY <1>1, <1>6 DEF Deficit, PortRows, RowsOf, AddRuleSets, VlanId, Works

(* del-entry takes the rows of the port that goes, and no others: ports of *)
(* other names have other keys.                                            *)
LEMMA DelRuleDeficit ==
    ASSUME OwnKeys, PortInv, NEW c \in Calls, DelRuleStep(c)
    PROVE  Deficit' \subseteq Deficit /\ (Works \/ Fails)
<1> USE DEF PortInv
<1>1. /\ pc[c] = "delRules" /\ req[c] \in Accepted /\ req[c] \in ports
      /\ done[c] + 1 \in DOMAIN DelRuleSets(req[c])
      /\ done' = [done EXCEPT ![c] = @ + 1]
      /\ UNCHANGED <<ports, pc, req>>
      /\ Works \/ Fails
  BY DEF DelRuleStep, DeletingStored, DeleteSteps, TypeOK
<1>2. \A d \in Calls : \A x : AddedBy(d, x)' => AddedBy(d, x)
  BY <1>1 DEF AddedBy, AddRuleSets, VlanId, TypeOK
<1>3. \A x : Owed(x)' => Owed(x)
  BY <1>1, <1>2 DEF Owed, RulesKept, RowsOf, AddRuleSets, VlanId
<1>4. ASSUME NEW x \in PortRows, Owed(x), x[2] \in fxp[x[1]]
      PROVE  x[2] \in fxp'[x[1]]
  <2>1. PICK q \in Accepted : q.name # req[c].name /\ x[2] \in RowsOf(q, x[1])
    <3>1. CASE \E p \in ports : RulesKept(p) /\ x[2] \in RowsOf(p, x[1])
      BY <1>1, <3>1 DEF RulesKept, NamesUnique, TypeOK
    <3>2. ASSUME NEW d \in Calls, AddedBy(d, x)
          PROVE  \E q \in Accepted : q.name # req[c].name /\ x[2] \in RowsOf(q, x[1])
      <4>1. req[d] \in Accepted /\ req[d].name # req[c].name
        BY <1>1, <3>2 DEF AddedBy, OnePerName, Active, Replied, TypeOK
      <4>2. x[2] \in RowsOf(req[d], x[1])
        BY <3>2, <4>1, RuleOfPort DEF AddedBy
      <4> QED
        BY <4>1, <4>2
    <3> QED
      BY <1>4, <3>1, <3>2 DEF Owed
  <2>2. x[1] \in Tables
    BY DEF PortRows
  <2>3. x[2].key # KeyFor(req[c], x[1])
    BY <1>1, <2>1, <2>2, RowOfPort, OtherKeys
  <2>4. CASE UNCHANGED fxp
    BY <1>4, <2>4
  <2>5. CASE fxp' = DelEntry(fxp, DelRuleSets(req[c])[done[c] + 1])
    <3>1. fxp'[x[1]] = fxp[x[1]]
          \/ fxp'[x[1]] = {row \in fxp[x[1]] : row.key # KeyFor(req[c], x[1])}
      BY <1>1, <2>2, <2>5, DelEntryRemoves
    <3> QED
      BY <1>4, <2>3, <3>1
  <2> QED
    BY <2>4, <2>5 DEF DelRuleStep
<1> QED
  BY <1>1, <1>3, <1>4 DEF Deficit, PortRows, RowsOf, AddRuleSets, VlanId

(* A process that ends forgets whom it owed the rows.                      *)
LEMMA ExitDeficit ==
    ASSUME Exit
    PROVE  Deficit' = {}
BY DEF Exit, Deficit, Owed, AddedBy

(* One step per action.                                                    *)
LEMMA DeficitStep ==
    ASSUME OwnKeys, PortInv, TypeOK', DeficitBounded, [Next]_vars
    PROVE  DeficitBounded'
<1> USE DEF PortInv
<1> SUFFICES \/ Deficit' \subseteq Deficit /\ (Works \/ Fails)
             \/ Fails /\ \E x : Deficit' \subseteq Deficit \cup {x}
  BY DeficitCount
<1>1. CASE Run \/ BringBridgeUp
  <2>1. UNCHANGED <<ports, fxp, pc, req, done>> /\ (Works \/ Fails)
    BY <1>1 DEF Run, BringBridgeUp, EnsureBridgeExists
  <2> QED
    BY <2>1, QuietDeficit
<1>2. CASE Exit
  BY <1>2, ExitDeficit DEF Exit, Works
<1>3. ASSUME NEW c \in Calls, NEW r \in Requests, CreateBridgePort(c, r)
      PROVE  Deficit' \subseteq Deficit /\ Works
  <2>1. UNCHANGED <<ports, fxp, done, faults>>
    BY <1>3 DEF CreateBridgePort
  <2>2. /\ pc[c] \in Replied /\ pc'[c] \in {"err", "idle", "vlanLookup"}
        /\ \A d \in Calls \ {c} : pc'[d] = pc[d] /\ req'[d] = req[d]
    BY <1>3 DEF CreateBridgePort, Free, Goto, TypeOK
  <2> QED
    BY <2>1, <2>2, QuietDeficit DEF Replied, Works
<1>4. ASSUME NEW c \in Calls, NEW n \in Names, DeleteBridgePort(c, n)
      PROVE  Deficit' \subseteq Deficit /\ Works
  <2>1. UNCHANGED <<ports, fxp, done, faults>>
    BY <1>4 DEF DeleteBridgePort
  <2>2. /\ pc[c] \in Replied /\ pc'[c] \in {"idle", "delPort"}
        /\ \A d \in Calls \ {c} : pc'[d] = pc[d] /\ req'[d] = req[d]
    BY <1>4 DEF DeleteBridgePort, Free, Goto, TypeOK
  <2> QED
    BY <2>1, <2>2, QuietDeficit DEF Replied, Works
<1>5. ASSUME NEW c \in Calls, HandlerStep(c)
      PROVE  \/ Deficit' \subseteq Deficit /\ (Works \/ Fails)
             \/ Fails /\ \E x : Deficit' \subseteq Deficit \cup {x}
  <2>1. CASE \/ VlanLookup(c) \/ LinkAdd(c) \/ AddPort(c) \/ SetUp(c)
             \/ DeletePort(c) \/ SetDown(c) \/ RemoveVlan(c)
    BY <2>1, QuietHandler, QuietDeficit
  <2>2. CASE AddRule(c)
    BY <2>2, AddRuleDeficit
  <2>3. CASE StorePort(c)
    BY <2>3, StorePortDeficit
  <2>4. CASE DelRuleStep(c)
    BY <2>4, DelRuleDeficit
  <2>5. CASE ForgetPort(c)
    <3>1. /\ pc[c] = "delRules" /\ ports' = {p \in ports : p.name # req[c].name}
          /\ pc' = [pc EXCEPT ![c] = "idle"] /\ done' = [done EXCEPT ![c] = 0]
          /\ UNCHANGED <<fxp, req, faults>>
      BY <2>5 DEF ForgetPort, GotoRules, Goto
    <3>2. \A p \in ports' : RulesKept(p)' => p \in ports /\ RulesKept(p)
      BY <3>1 DEF RulesKept, TypeOK
    <3>3. \A d \in Calls : \A x : AddedBy(d, x)' => AddedBy(d, x)
      BY <3>1 DEF AddedBy, AddRuleSets, VlanId, TypeOK
    <3>4. \A x : Owed(x)' => Owed(x)
      BY <3>2, <3>3 DEF Owed, RowsOf, AddRuleSets, VlanId
    <3> QED
      BY <3>1, <3>4 DEF Deficit, PortRows, RowsOf, AddRuleSets, VlanId, Works
  <2> QED
    BY <1>5, <2>1, <2>2, <2>3, <2>4, <2>5 DEF HandlerStep
<1>6. CASE UNCHANGED vars
  <2>1. UNCHANGED <<ports, fxp, pc, req, done, faults>>
    BY <1>6 DEF vars
  <2> QED
    BY <2>1, QuietDeficit DEF Works
<1> QED
  BY <1>1, <1>2, <1>3, <1>4, <1>5, <1>6 DEF Next, Crash, Stop, CreatePanic

LEMMA DeficitInit ==
    ASSUME Init
    PROVE  DeficitBounded
<1>1. Deficit = {}
  BY DEF Init, Deficit, Owed, AddedBy
<1> QED
  BY <1>1, FS_EmptySet DEF Init, DeficitBounded

(* Each row that a stored port lacks is owed: unless the port is being     *)
(* deleted, nobody is deleting its rules.                                  *)
LEMMA MissingIsDeficit ==
    ASSUME TypeOK
    PROVE  MissingRows \subseteq Deficit
<1> SUFFICES ASSUME NEW t \in Tables, NEW p \in ports, ~Deleting(p.name),
                    NEW row \in RowsOf(p, t) \ fxp[t]
             PROVE  <<t, row>> \in Deficit
  BY DEF MissingRows
<1>1. RulesKept(p)
  BY DEF RulesKept, Deleting, DeleteSteps
<1>2. p \in Accepted
  BY DEF TypeOK
<1>3. <<t, row>> \in PortRows
  <2>1. <<t, row>> \in {t} \X RowsOf(p, t)
    OBVIOUS
  <2> QED
    BY <1>2, <2>1 DEF PortRows
<1> QED
  BY <1>1, <1>3 DEF Deficit, Owed

(* As long as requests for one port name do not overlap and each VF has    *)
(* VLAN, VSI and MAC address of its own, the rows that the stored ports    *)
(* lack are no more than the calls that failed, for every number of        *)
(* handlers, failures and restarts: p4RtClient's loops, which go on after  *)
(* an error, lose the row of the failed command only, whatever was left in *)
(* the tables before.                                                      *)
THEOREM FaultsBoundTheDamage ==
    (Serialised /\ OwnKeys) => (Spec => []OneFaultOneRule)
<1> SUFFICES ASSUME Serialised, OwnKeys PROVE Spec => []OneFaultOneRule
  OBVIOUS
<1>1. PortInv /\ TypeOK' /\ [Next]_vars => PortInv'
  BY PortInvStep
<1>2. PortInv /\ TypeOK' /\ DeficitBounded /\ [Next]_vars => DeficitBounded'
  BY DeficitStep
<1>3. TypeOK /\ DeficitBounded => OneFaultOneRule
  <2> SUFFICES ASSUME TypeOK, DeficitBounded PROVE OneFaultOneRule
    OBVIOUS
  <2>1. /\ IsFiniteSet(MissingRows)
        /\ Cardinality(MissingRows) <= Cardinality(Deficit)
    BY MissingIsDeficit, FS_Subset DEF DeficitBounded
  <2>2. Cardinality(MissingRows) \in Nat /\ Cardinality(Deficit) \in Nat /\ faults \in Nat
    BY <2>1, FS_CardinalityType DEF DeficitBounded, TypeOK
  <2> QED
    BY <2>1, <2>2 DEF OneFaultOneRule, DeficitBounded
<1> QED
  BY PortInvInit, TypeCorrect, DeficitInit, <1>1, <1>2, <1>3, PTL DEF Spec

-----------------------------------------------------------------------------
(* A stored port is connected                                              *)

(* Handlers of two names do not touch each other's interface.              *)
LEMMA AttachedStep ==
    ASSUME PortInv, TypeOK', Attached, [Next]_vars
    PROVE  Attached'
<1> USE DEF PortInv, TypeOK, Attached
<1>1. CASE Run \/ BringBridgeUp \/ UNCHANGED vars
  BY <1>1 DEF Run, BringBridgeUp, vars, kernel, LinkOf, VlanId
<1>2. CASE Exit
  BY <1>2 DEF Exit
<1>3. ASSUME NEW c \in Calls, NEW r \in Requests, CreateBridgePort(c, r)
      PROVE  Attached'
  BY <1>3 DEF CreateBridgePort, Goto, kernel, LinkOf, VlanId
<1>4. ASSUME NEW c \in Calls, NEW n \in Names, DeleteBridgePort(c, n)
      PROVE  Attached'
  BY <1>4 DEF DeleteBridgePort, Goto, kernel, LinkOf, VlanId
<1>5. ASSUME NEW c \in Calls, HandlerStep(c)
      PROVE  Attached'
  <2> USE DEF Goto, GotoRules
  <2>1. CASE VlanLookup(c) \/ LinkAdd(c)
    BY <2>1 DEF VlanLookup, LinkAdd, kernel, LinkOf, VlanId
  <2>2. CASE AddPort(c) \/ SetUp(c)
    BY <2>2 DEF AddPort, SetUp, LinkOf, VlanId
  <2>3. CASE DeletePort(c) \/ SetDown(c) \/ RemoveVlan(c)
    <3>1. /\ Active(c)
          /\ members \ {LinkOf(req[c])} \subseteq members'
          /\ up \ {LinkOf(req[c])} \subseteq up'
          /\ req' = req
          /\ \A d \in Calls \ {c} : pc'[d] = pc[d]
          /\ pc'[c] \in {"setDown", "removeVlan", "delRules", "err"}
      BY <2>3 DEF DeletePort, SetDown, RemoveVlan, Active, Replied
    <3>2. ASSUME NEW d \in Calls, pc'[d] \in {"setUp", "addRules"}
          PROVE  pc'[d] = pc[d] /\ LinkOf(req[d]) # LinkOf(req[c])
      BY <3>1, <3>2 DEF OnePerName, Active, Replied, LinkOf
    <3> QED
      BY <3>1, <3>2 DEF LinkOf, VlanId
  <2>4. CASE AddRule(c) \/ StorePort(c) \/ DelRuleStep(c) \/ ForgetPort(c)
    BY <2>4 DEF AddRule, StorePort, DelRuleStep, ForgetPort, kernel, LinkOf, VlanId
  <2> QED
    BY <1>5, <2>1, <2>2, <2>3, <2>4 DEF HandlerStep
<1> QED
  BY <1>1, <1>2, <1>3, <1>4, <1>5 DEF Next, Crash, Stop, CreatePanic

LEMMA BridgeServesStep ==
    ASSUME TypeOK, TypeOK', BridgeServes, [Next]_vars
    PROVE  BridgeServes'
<1> USE DEF TypeOK, BridgeServes
<1>1. CASE Run \/ BringBridgeUp
  BY <1>1, BoundsAssumption, BridgeTypeAssumption
     DEF Run, BringBridgeUp, EnsureBridgeExists, Works, Fails
<1>2. CASE Exit
  BY <1>2 DEF Exit, kernel, Replied
<1>3. ASSUME NEW c \in Calls, NEW r \in Requests, CreateBridgePort(c, r)
      PROVE  BridgeServes'
  BY <1>3 DEF CreateBridgePort, Free, kernel
<1>4. ASSUME NEW c \in Calls, NEW n \in Names, DeleteBridgePort(c, n)
      PROVE  BridgeServes'
  BY <1>4 DEF DeleteBridgePort, Free, kernel
<1>5. ASSUME NEW c \in Calls, HandlerStep(c)
      PROVE  BridgeServes'
  <2>1. pc[c] \notin Replied
    BY <1>5 DEF HandlerStep, VlanLookup, LinkAdd, AddPort, SetUp, AddRule, StorePort,
                DeletePort, SetDown, RemoveVlan, DelRuleStep, ForgetPort, Replied
  <2>2. UNCHANGED <<plugin, bridge, stops>> /\ (Works \/ Fails)
    BY <1>5 DEF HandlerStep, VlanLookup, LinkAdd, AddPort, SetUp, AddRule, StorePort,
                DeletePort, SetDown, RemoveVlan, DelRuleStep, ForgetPort, kernel, Works
  <2> QED
    BY <2>1, <2>2, BoundsAssumption DEF Works, Fails
<1>6. CASE UNCHANGED vars
  BY <1>6 DEF vars, kernel
<1> QED
  BY <1>1, <1>2, <1>3, <1>4, <1>5, <1>6 DEF Next, Crash, Stop, CreatePanic

(* A step of a handler without failures.                                   *)
LEMMA WorksOnly ==
    ASSUME TypeOK, faults' = 0, Works \/ Fails
    PROVE  faults = 0 /\ Works /\ ~Fails
BY BoundsAssumption DEF TypeOK, Works, Fails

(* A port leaves the bridge at the hands of its own delete handler, which, *)
(* without failures, goes on to forget it.                                 *)
LEMMA StoredAttachedStep ==
    ASSUME PortInv, TypeOK', Attached, StoredAttached, [Next]_vars
    PROVE  StoredAttached'
<1> USE DEF PortInv, TypeOK, StoredAttached
<1> SUFFICES ASSUME faults' = 0 PROVE StoredAttached'
  OBVIOUS
<1>1. CASE Run \/ BringBridgeUp \/ UNCHANGED vars
  <2>1. UNCHANGED <<ports, members, up, pc, req>>
    BY <1>1 DEF Run, BringBridgeUp, vars, kernel
  <2>2. Works \/ Fails
    BY <1>1 DEF Run, BringBridgeUp, EnsureBridgeExists, vars, Works
  <2> QED
    BY <2>1, <2>2, WorksOnly DEF Untouched, LinkOf, VlanId
<1>2. CASE Exit
  BY <1>2 DEF Exit
<1>3. ASSUME NEW c \in Calls, NEW r \in Requests, CreateBridgePort(c, r)
      PROVE  StoredAttached'
  <2>1. UNCHANGED <<ports, members, up, faults>>
    BY <1>3 DEF CreateBridgePort, kernel
  <2>2. \A p : Untouched(p)' => Untouched(p)
    BY <1>3 DEF CreateBridgePort, Free, Goto, Untouched, Replied
  <2> QED
    BY <2>1, <2>2 DEF LinkOf, VlanId
<1>4. ASSUME NEW c \in Calls, NEW n \in Names, DeleteBridgePort(c, n)
      PROVE  StoredAttached'
  <2>1. UNCHANGED <<ports, members, up, faults>>
    BY <1>4 DEF DeleteBridgePort, kernel
  <2>2. \A p : Untouched(p)' => Untouched(p)
    BY <1>4 DEF DeleteBridgePort, Free, Goto, Untouched, Replied
  <2> QED
    BY <2>1, <2>2 DEF LinkOf, VlanId
<1>5. ASSUME NEW c \in Calls, HandlerStep(c)
      PROVE  StoredAttached'
  <2>1. CASE VlanLookup(c) \/ LinkAdd(c) \/ AddPort(c) \/ SetUp(c) \/ AddRule(c)
    <3>1. UNCHANGED <<ports, req>> /\ members \subseteq members' /\ up \subseteq up'
      BY <2>1 DEF VlanLookup, LinkAdd, AddPort, SetUp, AddRule, kernel
    <3>2. Works \/ Fails
      BY <2>1 DEF VlanLookup, LinkAdd, AddPort, SetUp, AddRule
    <3>3. \A p : Untouched(p)' => Untouched(p)
      BY <2>1 DEF VlanLookup, LinkAdd, AddPort, SetUp, AddRule, Goto, GotoRules, Untouched
    <3> QED
      BY <3>1, <3>2, <3>3, WorksOnly DEF LinkOf, VlanId
  <2>2. CASE StorePort(c)
    <3>1. /\ pc[c] = "addRules"
          /\ ports' = {p \in ports : p.name # req[c].name} \cup {req[c]}
          /\ UNCHANGED <<members, up, req, faults>>
      BY <2>2 DEF StorePort, kernel
    <3>2. \A p : Untouched(p)' => Untouched(p)
      BY <2>2 DEF StorePort, Goto, GotoRules, Untouched
    <3> QED
      BY <3>1, <3>2 DEF Attached, LinkOf, VlanId
  <2>3. CASE DeletePort(c)
    <3>1. /\ pc[c] = "delPort" /\ req[c] \in ports
          /\ UNCHANGED <<ports, up, req>>
          /\ Works \/ Fails
          /\ members \ {LinkOf(req[c])} \subseteq members'
      BY <2>3 DEF DeletePort, DeletingStored, DeleteSteps
    <3>2. faults = 0 /\ Works /\ ~Fails
      BY <3>1, WorksOnly
    <3>3. \/ pc' = [pc EXCEPT ![c] = "err"] /\ members' = members
          \/ pc' = [pc EXCEPT ![c] = "setDown"]
          \/ pc' = [pc EXCEPT ![c] = "removeVlan"]
      BY <2>3 DEF DeletePort, Goto
    <3>4. ASSUME NEW p \in ports, Untouched(p)'
          PROVE  Untouched(p) /\ (LinkOf(p) \in members => LinkOf(p) \in members')
      <4>1. Untouched(p)
        BY <3>1, <3>3, <3>4 DEF Untouched
      <4>2. CASE members' = members
        BY <4>1, <4>2
      <4>3. CASE pc'[c] \in {"setDown", "removeVlan"}
        <5>1. p # req[c]
          BY <3>1, <3>4, <4>3 DEF Untouched
        <5>2. LinkOf(p) # LinkOf(req[c])
          BY <3>1, <5>1 DEF NamesUnique, LinkOf
        <5> QED
          BY <3>1, <4>1, <5>2
      <4> QED
        BY <3>3, <4>2, <4>3
    <3> QED
      BY <3>1, <3>2, <3>4 DEF LinkOf, VlanId
  <2>4. CASE SetDown(c) \/ RemoveVlan(c)
    <3>1. /\ pc[c] \in {"setDown", "removeVlan"} /\ req[c] \in ports
          /\ UNCHANGED <<ports, req>>
          /\ Works \/ Fails
          /\ members \ {LinkOf(req[c])} \subseteq members'
          /\ up \ {LinkOf(req[c])} \subseteq up'
      BY <2>4 DEF SetDown, RemoveVlan, DeletingStored, DeleteSteps
    <3>2. faults = 0 /\ Works /\ ~Fails
      BY <3>1, WorksOnly
    <3>3. LinkOf(req[c]) \in links
      BY <3>1 DEF PortHasLink, OnePerName, Active, Replied
    <3>4. \/ pc' = [pc EXCEPT ![c] = "removeVlan"]
          \/ pc' = [pc EXCEPT ![c] = "delRules"]
      BY <2>4, <3>2, <3>3 DEF SetDown, RemoveVlan, Goto, GotoRules
    <3>5. ASSUME NEW p \in ports, Untouched(p)'
          PROVE  Untouched(p) /\ LinkOf(p) # LinkOf(req[c])
      <4>1. p # req[c]
        BY <3>1, <3>4, <3>5 DEF Untouched
      <4> QED
        BY <3>1, <3>4, <3>5, <4>1 DEF Untouched, NamesUnique, LinkOf
    <3> QED
      BY <3>1, <3>2, <3>5 DEF LinkOf, VlanId
  <2>5. CASE DelRuleStep(c)
    <3>1. UNCHANGED <<ports, members, up, pc, req>> /\ (Works \/ Fails)
      BY <2>5 DEF DelRuleStep, kernel
    <3> QED
      BY <3>1, WorksOnly DEF Untouched, LinkOf, VlanId
  <2>6. CASE ForgetPort(c)
    <3>1. /\ ports' = {p \in ports : p.name # req[c].name}
          /\ pc' = [pc EXCEPT ![c] = "idle"]
          /\ UNCHANGED <<members, up, req, faults>>
      BY <2>6 DEF ForgetPort, GotoRules, Goto, kernel
    <3>2. \A p \in ports' : Untouched(p)' => p \in ports /\ Untouched(p)
      BY <3>1 DEF Untouched
    <3> QED
      BY <3>1, <3>2 DEF LinkOf, VlanId
  <2> QED
    BY <1>5, <2>1, <2>2, <2>3, <2>4, <2>5, <2>6 DEF HandlerStep
<1> QED
  BY <1>1, <1>2, <1>3, <1>4, <1>5 DEF Next, Crash, Stop, CreatePanic

(* Without failures no port lacks a row that nobody is deleting.           *)
LEMMA RowsInstalled ==
    ASSUME TypeOK, DeficitBounded, faults = 0, NEW p \in ports, RulesKept(p)
    PROVE  Installed(p)
<1>1. Deficit = {}
  <2>1. Cardinality(Deficit) = 0
    BY FS_CardinalityType DEF DeficitBounded
  <2> QED
    BY <2>1, FS_EmptySet DEF DeficitBounded
<1> SUFFICES ASSUME NEW t \in Tables, NEW row \in RowsOf(p, t) PROVE row \in fxp[t]
  BY DEF Installed
<1>2. p \in Accepted
  BY DEF TypeOK
<1>3. <<t, row>> \in PortRows
  <2>1. <<t, row>> \in {t} \X RowsOf(p, t)
    OBVIOUS
  <2> QED
    BY <1>2, <2>1 DEF PortRows
<1>4. Owed(<<t, row>>)
  BY DEF Owed
<1> QED
  BY <1>1, <1>3, <1>4 DEF Deficit

(* The strengthening of StoredIsConnected.                                 *)
ConnectedInv ==
    /\ PortInv
    /\ DeficitBounded
    /\ Attached
    /\ BridgeServes
    /\ StoredAttached

LEMMA ConnectedInit ==
    ASSUME Init
    PROVE  ConnectedInv
<1>1. PortInv /\ DeficitBounded
  BY PortInvInit, DeficitInit
<1>2. Attached /\ BridgeServes /\ StoredAttached
  BY DEF Init, Attached, BridgeServes, StoredAttached, Replied
<1> QED
  BY <1>1, <1>2 DEF ConnectedInv

LEMMA ConnectedStep ==
    ASSUME Serialised, OwnKeys, ConnectedInv, TypeOK', [Next]_vars
    PROVE  ConnectedInv'
<1> USE DEF ConnectedInv
<1>1. PortInv'
  BY PortInvStep
<1>2. DeficitBounded'
  BY DeficitStep
<1>3. Attached'
  BY AttachedStep
<1>4. BridgeServes'
  BY BridgeServesStep DEF PortInv
<1>5. StoredAttached'
  BY StoredAttachedStep
<1> QED
  BY <1>1, <1>2, <1>3, <1>4, <1>5

(* As long as no external call has failed, a stored port that nobody is    *)
(* deleting is connected: the bridge there, and up if the plugin was never *)
(* stopped; its interface there, attached, and on a Linux bridge up; every *)
(* FXP row in its table.  For every number of handlers and of restarts,    *)
(* both kinds of bridge, requests serialised per port name and VLAN, VSI   *)
(* and MAC address one VF's own.                                           *)
THEOREM StoredPortsConnected ==
    (Serialised /\ OwnKeys) => (Spec => []StoredIsConnected)
<1> SUFFICES ASSUME Serialised, OwnKeys PROVE Spec => []StoredIsConnected
  OBVIOUS
<1>1. ConnectedInv /\ TypeOK' /\ [Next]_vars => ConnectedInv'
  BY ConnectedStep
<1>2. ConnectedInv => StoredIsConnected
  <2> SUFFICES ASSUME ConnectedInv, faults = 0, NEW p \in ports, ~Deleting(p.name)
               PROVE  /\ bridge # "absent"
                      /\ stops = 0 => bridge = "up"
                      /\ LinkOf(p) \in links \cap members
                      /\ BridgeType = "linux" => LinkOf(p) \in up
                      /\ Installed(p)
    BY DEF StoredIsConnected
  <2> USE DEF ConnectedInv, PortInv
  <2>1. RulesKept(p) /\ Untouched(p)
    BY DEF RulesKept, Untouched, Deleting, DeleteSteps
  <2>2. bridge # "absent" /\ (stops = 0 => bridge = "up")
    BY DEF BridgeServes, TypeOK
  <2>3. LinkOf(p) \in links
    BY <2>1 DEF PortHasLink, RulesKept
  <2>4. LinkOf(p) \in members /\ (BridgeType = "linux" => LinkOf(p) \in up)
    BY <2>1 DEF StoredAttached
  <2>5. Installed(p)
    BY <2>1, RowsInstalled
  <2> QED
    BY <2>2, <2>3, <2>4, <2>5
<1> QED
  BY ConnectedInit, TypeCorrect, <1>1, <1>2, PTL DEF Spec

-----------------------------------------------------------------------------
(* Nothing is left behind                                                  *)

(* Without failures and restarts no call of a handler is refused.          *)
LEMMA NothingRefuses ==
    ASSUME ConnectedInv, AllOwned, faults = 0, stops = 0, NEW c \in Calls
    PROVE  /\ pc[c] = "addPort" => ~AddPortRefused(LinkOf(req[c]))
           /\ pc[c] = "setUp" => LinkOf(req[c]) \in links
           /\ pc[c] = "delPort" => ~DeletePortRefused(LinkOf(req[c]))
           /\ pc[c] \in {"setDown", "removeVlan"} => LinkOf(req[c]) \in links
<1> USE DEF ConnectedInv, PortInv
<1>1. ASSUME pc[c] \in {"addPort", "setUp"}
      PROVE  /\ LinkOf(req[c]) \in links
             /\ pc[c] = "addPort" => LinkOf(req[c]) \notin members
  <2>1. LinkOf(req[c]) \in links /\ \A p \in ports : p.name # req[c].name
    BY <1>1 DEF Creating, CreateSteps
  <2>2. \A d \in Calls : pc[d] \in {"setUp", "addRules"} /\ LinkOf(req[d]) = LinkOf(req[c]) => d = c
    BY <1>1 DEF OnePerName, Active, Replied, LinkOf
  <2>3. \A p \in ports : LinkOf(p) # LinkOf(req[c])
    BY <2>1 DEF LinkOf
  <2>4. MembersOwned
    BY DEF AllOwned
  <2> QED
    BY <1>1, <2>1, <2>2, <2>3, <2>4 DEF MembersOwned
<1>2. ASSUME pc[c] \in {"delPort", "setDown", "removeVlan"}
      PROVE  /\ LinkOf(req[c]) \in links
             /\ pc[c] = "delPort" => LinkOf(req[c]) \in members
  <2>1. req[c] \in ports
    BY <1>2 DEF DeletingStored, DeleteSteps
  <2>2. \A d \in Calls \ {c} : pc[d] \in DeleteSteps => req[d] # req[c]
    BY <1>2 DEF OnePerName, Active, Replied, DeleteSteps
  <2>3. LinkOf(req[c]) \in links
    BY <1>2, <2>1, <2>2 DEF PortHasLink, DeleteSteps
  <2>4. pc[c] = "delPort" => Untouched(req[c])
    BY <2>2 DEF Untouched, DeleteSteps
  <2> QED
    BY <2>1, <2>3, <2>4 DEF StoredAttached
<1> QED
  BY <1>1, <1>2 DEF AddPortRefused, DeletePortRefused

(* A step that touches no interface, no row and no port, and lets no       *)
(* handler enter or leave the steps that own or undo something.            *)
LEMMA QuietOwned ==
    ASSUME LinksOwned, MembersOwned, RowsOwned, UNCHANGED <<ports, links, members, fxp, done>>,
           \A c \in Calls :
               \/ pc'[c] = pc[c] /\ req'[c] = req[c]
               \/ /\ pc[c] \in Replied \cup {"vlanLookup", "linkAdd", "blindAdd"}
                  /\ pc'[c] \notin {"setDown", "removeVlan", "delRules"}
    PROVE  LinksOwned' /\ MembersOwned' /\ RowsOwned'
<1>1. \A p : (RulesKept(p) => RulesKept(p)') /\ (Untouched(p) => Untouched(p)')
  BY DEF RulesKept, Untouched
<1>2. LinksOwned'
  BY <1>1 DEF LinksOwned, LinkOf, VlanId, Replied
<1>3. MembersOwned'
  BY <1>1 DEF MembersOwned, LinkOf, VlanId, Replied
<1>4. \A c \in Calls : pc'[c] = "delRules" =>
        pc[c] = "delRules" /\ req'[c] = req[c] /\ \A t : Undone(c, t)' => Undone(c, t)
  BY DEF Undone, DelRuleSets, VlanId
<1>5. \A c \in Calls : pc[c] = "addRules" => pc'[c] = "addRules" /\ req'[c] = req[c]
  BY DEF Replied
<1>6. RowsOwned'
  BY <1>4, <1>5 DEF RowsOwned, RowsOf, AddRuleSets, VlanId
<1> QED
  BY <1>2, <1>3, <1>6

(* What the steps of a handler before the rules do to their owners.        *)
LEMMA AttachOwned ==
    ASSUME ConnectedInv, AllOwned, faults = 0, stops = 0, faults' = 0, NEW c \in Calls,
           LinkAdd(c) \/ AddPort(c) \/ SetUp(c)
    PROVE  LinksOwned' /\ MembersOwned' /\ RowsOwned'
<1> USE DEF ConnectedInv, PortInv, TypeOK
<1>1. LinksOwned /\ MembersOwned /\ RowsOwned
  BY DEF AllOwned
<1>2. ~Fails
  BY DEF Fails
<1>3. /\ pc[c] \in {"linkAdd", "blindAdd", "addPort", "setUp"}
      /\ pc' = [pc EXCEPT ![c] = pc'[c]] /\ pc'[c] \in {"err", "addPort", "setUp", "addRules"}
      /\ UNCHANGED <<ports, fxp, req>>
      /\ \A d \in Calls \ {c} : done'[d] = done[d]
  BY DEF LinkAdd, AddPort, SetUp, Goto, GotoRules
<1>4. \A p : (RulesKept(p) => RulesKept(p)') /\ (Untouched(p) => Untouched(p)')
  BY <1>3 DEF RulesKept, Untouched
<1>5. /\ links' \subseteq links \cup {LinkOf(req[c])} /\ members' \subseteq members \cup {LinkOf(req[c])}
      /\ pc[c] \in {"addPort", "setUp"} => pc'[c] \in {"setUp", "addRules"}
      /\ LinkOf(req[c]) \in links' \ links => pc'[c] = "addPort"
      /\ LinkOf(req[c]) \in members' \ members => pc'[c] \in {"setUp", "addRules"}
  BY <1>2, NothingRefuses DEF LinkAdd, NewLink, LinkOf, AddPort, SetUp, Goto, GotoRules
<1>6. LinksOwned'
  BY <1>1, <1>3, <1>4, <1>5 DEF LinksOwned, LinkOf, VlanId
<1>7. MembersOwned'
  BY <1>1, <1>3, <1>4, <1>5 DEF MembersOwned, LinkOf, VlanId
<1>8. \A d \in Calls : pc'[d] = "delRules" =>
        pc[d] = "delRules" /\ req'[d] = req[d] /\ \A t : Undone(d, t)' => Undone(d, t)
  BY <1>3 DEF Undone, DelRuleSets, VlanId
<1>9. RowsOwned'
  BY <1>1, <1>3, <1>8 DEF RowsOwned, RowsOf, AddRuleSets, VlanId
<1> QED
  BY <1>6, <1>7, <1>9

(* A delete handler takes away what only its port owns.                    *)
LEMMA DetachOwned ==
    ASSUME ConnectedInv, AllOwned, faults = 0, stops = 0, faults' = 0, NEW c \in Calls,
           DeletePort(c) \/ SetDown(c) \/ RemoveVlan(c)
    PROVE  LinksOwned' /\ MembersOwned' /\ RowsOwned'
<1> USE DEF ConnectedInv, PortInv, TypeOK
<1>1. LinksOwned /\ MembersOwned /\ RowsOwned
  BY DEF AllOwned
<1>2. ~Fails
  BY DEF Fails
<1>3. /\ pc[c] \in {"delPort", "setDown", "removeVlan"}
      /\ pc' = [pc EXCEPT ![c] = pc'[c]] /\ pc'[c] \in {"setDown", "removeVlan", "delRules"}
      /\ UNCHANGED <<ports, fxp, req>>
      /\ \A d \in Calls \ {c} : done'[d] = done[d]
      /\ pc'[c] = "delRules" => done'[c] = 0
      /\ links' \subseteq links /\ members' \subseteq members
  BY <1>2, NothingRefuses DEF DeletePort, SetDown, RemoveVlan, Goto, GotoRules
<1>4. /\ pc'[c] = "delRules" => LinkOf(req[c]) \notin links'
      /\ pc[c] = "delPort" => LinkOf(req[c]) \notin members'
  BY <1>2, NothingRefuses DEF DeletePort, SetDown, RemoveVlan, Goto, GotoRules
<1>5. \A p : /\ RulesKept(p) /\ (pc'[c] = "delRules" => p # req[c]) => RulesKept(p)'
             /\ Untouched(p) /\ (pc[c] = "delPort" => p # req[c]) => Untouched(p)'
  BY <1>3 DEF RulesKept, Untouched
<1>6. LinksOwned'
  BY <1>1, <1>3, <1>4, <1>5 DEF LinksOwned, LinkOf, VlanId
<1>7. MembersOwned'
  BY <1>1, <1>3, <1>4, <1>5 DEF MembersOwned, LinkOf, VlanId
<1>8. \A d \in Calls \ {c} : pc'[d] = "delRules" =>
        pc[d] = "delRules" /\ \A t : Undone(d, t)' => Undone(d, t)
  BY <1>3 DEF Undone, DelRuleSets, VlanId
<1>9. pc'[c] = "delRules" => \A t : ~Undone(c, t)'
  <2> SUFFICES ASSUME pc'[c] = "delRules", NEW i \in DOMAIN DelRuleSets(req[c]), i <= 0
               PROVE  FALSE
    BY <1>3 DEF Undone, DelRuleSets, VlanId
  <2>1. i \in 1..6 \/ i \in 1..8
    BY RuleIndices
  <2> QED
    BY <2>1
<1>10. RowsOwned'
  BY <1>1, <1>3, <1>8, <1>9 DEF RowsOwned, RowsOf, AddRuleSets, VlanId
<1> QED
  BY <1>6, <1>7, <1>10

(* The rules of a create handler are its own, and then its port's.         *)
LEMMA AddRuleOwned ==
    ASSUME OwnKeys, TypeOK, LinksOwned, MembersOwned, RowsOwned, NEW c \in Calls, AddRule(c)
    PROVE  LinksOwned' /\ MembersOwned' /\ RowsOwned'
<1>1. /\ pc[c] = "addRules" /\ req[c] \in Accepted
      /\ done[c] + 1 \in DOMAIN AddRuleSets(req[c])
      /\ done' = [done EXCEPT ![c] = @ + 1]
      /\ UNCHANGED <<links, members, ports, pc, req>>
  BY DEF AddRule, kernel, TypeOK
<1>2. LinksOwned' /\ MembersOwned'
  BY <1>1 DEF LinksOwned, MembersOwned, RulesKept, Untouched, LinkOf, VlanId
<1>3. \A t \in Tables : \A row \in fxp'[t] : row \in fxp[t] \/ row \in RowsOf(req[c], t)
  BY <1>1, AddEntryInstalls DEF AddRule
<1>4. \A d \in Calls : pc[d] = "delRules" => \A t : Undone(d, t)' => Undone(d, t)
  BY <1>1 DEF Undone, DelRuleSets, VlanId, TypeOK
<1>5. RowsOwned'
  BY <1>1, <1>3, <1>4 DEF RowsOwned, RowsOf, AddRuleSets, VlanId
<1> QED
  BY <1>2, <1>5

LEMMA StorePortOwned ==
    ASSUME PortInv, LinksOwned, MembersOwned, RowsOwned, NEW c \in Calls, StorePort(c)
    PROVE  LinksOwned' /\ MembersOwned' /\ RowsOwned'
<1> USE DEF PortInv
<1>1. /\ pc[c] = "addRules"
      /\ ports' = ports \cup {req[c]}
      /\ pc' = [pc EXCEPT ![c] = "idle"] /\ done' = [done EXCEPT ![c] = 0]
      /\ UNCHANGED <<links, members, fxp, req>>
  BY DEF StorePort, GotoRules, Goto, kernel, Creating, CreateSteps
<1>2. \A d \in Calls : pc[d] \in DeleteSteps => req[d] # req[c]
  BY <1>1 DEF OnePerName, Active, Replied, DeleteSteps
<1>3. \A p : (RulesKept(p) => RulesKept(p)') /\ (Untouched(p) => Untouched(p)')
  BY <1>1 DEF RulesKept, Untouched, TypeOK
<1>4. RulesKept(req[c])' /\ Untouched(req[c])'
  BY <1>1, <1>2 DEF RulesKept, Untouched, DeleteSteps, TypeOK
<1>5. LinksOwned' /\ MembersOwned'
  BY <1>1, <1>3, <1>4 DEF LinksOwned, MembersOwned, LinkOf, VlanId, TypeOK
<1>6. \A d \in Calls : pc'[d] = "delRules" =>
        /\ pc[d] = "delRules" /\ req'[d] = req[d] /\ req[d] # req[c]
        /\ \A t : Undone(d, t)' => Undone(d, t)
  BY <1>1, <1>2 DEF Undone, DelRuleSets, VlanId, DeleteSteps, TypeOK
<1>7. RowsOwned'
  BY <1>1, <1>6 DEF RowsOwned, RowsOf, AddRuleSets, VlanId, TypeOK
<1> QED
  BY <1>5, <1>7

(* A row of the port is gone with the deletion for its table.              *)
LEMMA DelRuleOwned ==
    ASSUME PortInv, LinksOwned, MembersOwned, RowsOwned, ~Fails, NEW c \in Calls, DelRuleStep(c)
    PROVE  LinksOwned' /\ MembersOwned' /\ RowsOwned'
<1> USE DEF PortInv
<1> DEFINE k == done[c] + 1
           dels == DelRuleSets(req[c])
<1>1. /\ pc[c] = "delRules" /\ req[c] \in Accepted /\ req[c] \in ports
      /\ k \in DOMAIN dels /\ done[c] \in Nat
      /\ done' = [done EXCEPT ![c] = k]
      /\ fxp' = DelEntry(fxp, dels[k])
      /\ UNCHANGED <<links, members, ports, pc, req>>
  BY DEF DelRuleStep, kernel, DeletingStored, DeleteSteps, TypeOK
<1>2. LinksOwned' /\ MembersOwned'
  BY <1>1 DEF LinksOwned, MembersOwned, RulesKept, Untouched, LinkOf, VlanId
<1>3. \A t \in Tables :
        fxp'[t] = IF t = dels[k].table
                  THEN {row \in fxp[t] : row.key # KeyFor(req[c], t)} ELSE fxp[t]
  BY <1>1, DelEntryRemoves
<1>4. \A d \in Calls \ {c} : \A t : Undone(d, t)' => Undone(d, t)
  BY <1>1 DEF Undone, DelRuleSets, VlanId, TypeOK
<1>5. \A t : Undone(c, t)' => Undone(c, t) \/ t = dels[k].table
  <2> SUFFICES ASSUME NEW t, NEW i \in DOMAIN dels, i <= k, dels[i].table = t, t # dels[k].table
               PROVE  i <= done[c]
    BY <1>1 DEF Undone, DelRuleSets, VlanId, TypeOK
  <2>1. i # k
    OBVIOUS
  <2>2. i \in Nat
    BY <1>1, RuleIndices
  <2> QED
    BY <1>1, <2>1, <2>2
<1>6. ASSUME NEW t \in Tables, NEW row \in fxp'[t], NEW p \in ports, row \in RowsOf(p, t),
             \A d \in Calls : pc[d] = "delRules" /\ req[d] = p => ~Undone(d, t)
      PROVE  \A d \in Calls : pc'[d] = "delRules" /\ req'[d] = p => ~Undone(d, t)'
  <2> SUFFICES ASSUME req[c] = p, t = dels[k].table
               PROVE  FALSE
    BY <1>1, <1>4, <1>5, <1>6
  <2>1. row.key # KeyFor(req[c], t)
    BY <1>3
  <2> QED
    BY <1>1, <1>6, <2>1, RowOfPort
<1>7. \A t \in Tables : fxp'[t] \subseteq fxp[t]
  BY <1>3
<1>8. RowsOwned'
  <2> SUFFICES ASSUME NEW t \in Tables, NEW row \in fxp'[t]
               PROVE  \/ \E p \in ports :
                            /\ row \in RowsOf(p, t)
                            /\ \A d \in Calls : pc'[d] = "delRules" /\ req'[d] = p => ~Undone(d, t)'
                      \/ \E d \in Calls : pc[d] = "addRules" /\ row \in RowsOf(req[d], t)
    BY <1>1 DEF RowsOwned, RowsOf, AddRuleSets, VlanId
  <2> QED
    BY <1>6, <1>7 DEF RowsOwned
<1> QED
  BY <1>2, <1>8

LEMMA ForgetPortOwned ==
    ASSUME PortInv, LinksOwned, MembersOwned, RowsOwned, NEW c \in Calls, ForgetPort(c)
    PROVE  LinksOwned' /\ MembersOwned' /\ RowsOwned'
<1> USE DEF PortInv
<1>1. /\ pc[c] = "delRules" /\ req[c] \in Accepted /\ req[c] \in ports
      /\ done[c] \in Nat /\ done[c] + 1 \notin DOMAIN DelRuleSets(req[c])
      /\ ports' = {p \in ports : p.name # req[c].name}
      /\ pc' = [pc EXCEPT ![c] = "idle"] /\ done' = [done EXCEPT ![c] = 0]
      /\ UNCHANGED <<links, members, fxp, req>>
  BY DEF ForgetPort, GotoRules, Goto, kernel, DeletingStored, DeleteSteps, TypeOK
<1>2. \A p \in ports : p # req[c] => p \in ports'
  BY <1>1 DEF NamesUnique
<1>3. \A p : (RulesKept(p) => p # req[c] /\ RulesKept(p)') /\ (Untouched(p) => p # req[c] /\ Untouched(p)')
  BY <1>1 DEF RulesKept, Untouched, TypeOK
<1>4. LinksOwned' /\ MembersOwned'
  BY <1>1, <1>2, <1>3 DEF LinksOwned, MembersOwned, LinkOf, VlanId, TypeOK
<1>5. \A t \in UsedTables : Undone(c, t)
  <2>1. \A i \in DOMAIN DelRuleSets(req[c]) : i <= done[c]
    BY <1>1, RuleIndices
  <2> QED
    BY <1>1, <2>1, DeletionOfPort DEF Undone
<1>6. \A d \in Calls \ {c} : \A t : Undone(d, t)' => Undone(d, t)
  BY <1>1 DEF Undone, DelRuleSets, VlanId, TypeOK
<1>7. ASSUME NEW t \in Tables, NEW row \in fxp[t], NEW p \in ports, row \in RowsOf(p, t),
             \A d \in Calls : pc[d] = "delRules" /\ req[d] = p => ~Undone(d, t)
      PROVE  p \in ports' /\ \A d \in Calls : pc'[d] = "delRules" /\ req'[d] = p => ~Undone(d, t)'
  <2>1. t \in UsedTables
    BY <1>7, RowOfPort DEF TypeOK
  <2>2. p # req[c]
    BY <1>1, <1>5, <1>7, <2>1
  <2> QED
    BY <1>1, <1>2, <1>6, <1>7, <2>2 DEF TypeOK
<1>8. RowsOwned'
  <2> SUFFICES ASSUME NEW t \in Tables, NEW row \in fxp[t]
               PROVE  \/ \E p \in ports' :
                            /\ row \in RowsOf(p, t)
                            /\ \A d \in Calls : pc'[d] = "delRules" /\ req'[d] = p => ~Undone(d, t)'
                      \/ \E d \in Calls : pc'[d] = "addRules" /\ row \in RowsOf(req[d], t)
    BY <1>1 DEF RowsOwned, RowsOf, AddRuleSets, VlanId
  <2>1. CASE \E d \in Calls : pc[d] = "addRules" /\ row \in RowsOf(req[d], t)
    BY <1>1, <2>1 DEF TypeOK
  <2> QED
    BY <1>7, <2>1 DEF RowsOwned
<1> QED
  BY <1>4, <1>8

(* One step per action.                                                    *)
LEMMA AllOwnedStep ==
    ASSUME OwnKeys, ConnectedInv, AllOwned, TypeOK', [Next]_vars
    PROVE  AllOwned'
<1> USE DEF ConnectedInv, PortInv
<1> SUFFICES ASSUME faults' = 0, stops' = 0 PROVE LinksOwned' /\ MembersOwned' /\ RowsOwned'
  BY DEF AllOwned
<1>1. CASE Run \/ BringBridgeUp \/ UNCHANGED vars
  <2>1. UNCHANGED <<ports, links, members, fxp, pc, req, done, stops>> /\ (Works \/ Fails)
    BY <1>1 DEF Run, BringBridgeUp, EnsureBridgeExists, vars, kernel, Works
  <2>2. LinksOwned /\ MembersOwned /\ RowsOwned
    BY <2>1, WorksOnly DEF AllOwned
  <2> QED
    BY <2>1, <2>2, QuietOwned
<1>2. ~Exit
  BY BoundsAssumption DEF Exit, TypeOK
<1>3. ASSUME NEW c \in Calls, NEW r \in Requests, CreateBridgePort(c, r)
      PROVE  LinksOwned' /\ MembersOwned' /\ RowsOwned'
  <2>1. UNCHANGED <<ports, links, members, fxp, done, faults, stops>>
    BY <1>3 DEF CreateBridgePort, kernel
  <2>2. /\ pc[c] \in Replied /\ pc'[c] \in {"err", "idle", "vlanLookup"}
        /\ \A d \in Calls \ {c} : pc'[d] = pc[d] /\ req'[d] = req[d]
    BY <1>3 DEF CreateBridgePort, Free, Goto, TypeOK
  <2> QED
    BY <2>1, <2>2, QuietOwned DEF AllOwned
<1>4. ASSUME NEW c \in Calls, NEW n \in Names, DeleteBridgePort(c, n)
      PROVE  LinksOwned' /\ MembersOwned' /\ RowsOwned'
  <2>1. UNCHANGED <<ports, links, members, fxp, done, faults, stops>>
    BY <1>4 DEF DeleteBridgePort, kernel
  <2>2. /\ pc[c] \in Replied /\ pc'[c] \in {"idle", "delPort"}
        /\ \A d \in Calls \ {c} : pc'[d] = pc[d] /\ req'[d] = req[d]
    BY <1>4 DEF DeleteBridgePort, Free, Goto, TypeOK
  <2> QED
    BY <2>1, <2>2, QuietOwned DEF AllOwned
<1>5. ASSUME NEW c \in Calls, HandlerStep(c)
      PROVE  LinksOwned' /\ MembersOwned' /\ RowsOwned'
  <2>1. UNCHANGED stops /\ (Works \/ Fails)
    BY <1>5 DEF HandlerStep, VlanLookup, LinkAdd, AddPort, SetUp, AddRule, StorePort,
                DeletePort, SetDown, RemoveVlan, DelRuleStep, ForgetPort, Works
  <2>2. faults = 0 /\ stops = 0 /\ ~Fails
    BY <2>1, WorksOnly
  <2>3. LinksOwned /\ MembersOwned /\ RowsOwned
    BY <2>2 DEF AllOwned
  <2>4. CASE VlanLookup(c)
    <3>1. /\ UNCHANGED <<ports, links, members, fxp, req, done>>
          /\ pc[c] = "vlanLookup" /\ pc'[c] \in {"addPort", "linkAdd", "blindAdd", "err"}
          /\ \A d \in Calls \ {c} : pc'[d] = pc[d]
      BY <2>4 DEF VlanLookup, Goto, kernel, TypeOK
    <3> QED
      BY <2>3, <3>1, QuietOwned
  <2>5. CASE LinkAdd(c) \/ AddPort(c) \/ SetUp(c)
    BY <2>2, <2>5, AttachOwned
  <2>6. CASE AddRule(c)
    BY <2>3, <2>6, AddRuleOwned
  <2>7. CASE StorePort(c)
    BY <2>3, <2>7, StorePortOwned
  <2>8. CASE DeletePort(c) \/ SetDown(c) \/ RemoveVlan(c)
    BY <2>2, <2>8, DetachOwned
  <2>9. CASE DelRuleStep(c)
    BY <2>2, <2>3, <2>9, DelRuleOwned
  <2>10. CASE ForgetPort(c)
    BY <2>3, <2>10, ForgetPortOwned
  <2> QED
    BY <1>5, <2>4, <2>5, <2>6, <2>7, <2>8, <2>9, <2>10 DEF HandlerStep
<1> QED
  BY <1>1, <1>2, <1>3, <1>4, <1>5 DEF Next, Crash, Stop, CreatePanic

(* A plugin at rest that has met no failure and no restart has exactly the *)
(* interfaces, bridge members and FXP rows of its stored ports, for every  *)
(* number of handlers, both kinds of bridge, requests serialised per port  *)
(* name and VLAN, VSI and MAC address one VF's own: DeleteBridgePort       *)
(* undoes CreateBridgePort, whatever ran in between.                       *)
THEOREM NothingLeaks ==
    (Serialised /\ OwnKeys) => (Spec => []NoLeakAtRest)
<1> SUFFICES ASSUME Serialised, OwnKeys PROVE Spec => []NoLeakAtRest
  OBVIOUS
<1>1. ConnectedInv /\ TypeOK' /\ [Next]_vars => ConnectedInv'
  BY ConnectedStep
<1>2. ConnectedInv /\ AllOwned /\ TypeOK' /\ [Next]_vars => AllOwned'
  BY AllOwnedStep
<1>3. Init => AllOwned
  BY DEF Init, NoRows, AllOwned, LinksOwned, MembersOwned, RowsOwned
<1>4. ConnectedInv /\ AllOwned => NoLeakAtRest
  <2> SUFFICES ASSUME ConnectedInv, AllOwned, faults = 0, stops = 0, \A c \in Calls : ~Active(c)
               PROVE  /\ links = {LinkOf(p) : p \in ports}
                      /\ members = links
                      /\ \A t \in Tables : fxp[t] = UNION {RowsOf(p, t) : p \in ports}
    BY DEF NoLeakAtRest
  <2> USE DEF ConnectedInv, PortInv
  <2>1. \A p \in ports : RulesKept(p) /\ Untouched(p)
    BY DEF RulesKept, Untouched, Active, Replied
  <2>2. LinksOwned /\ MembersOwned /\ RowsOwned
    BY DEF AllOwned
  <2>3. links = {LinkOf(p) : p \in ports}
    <3>1. \A p \in ports : LinkOf(p) \in links
      BY <2>1 DEF PortHasLink, RulesKept
    <3> QED
      BY <2>2, <3>1 DEF LinksOwned, Active, Replied
  <2>4. members = {LinkOf(p) : p \in ports}
    <3>1. \A p \in ports : LinkOf(p) \in members
      BY <2>1 DEF StoredAttached
    <3> QED
      BY <2>2, <3>1 DEF MembersOwned, Active, Replied
  <2>5. ASSUME NEW t \in Tables
        PROVE  fxp[t] = UNION {RowsOf(p, t) : p \in ports}
    <3>1. \A p \in ports : RowsOf(p, t) \subseteq fxp[t]
      BY <2>1, RowsInstalled DEF Installed
    <3>2. \A row \in fxp[t] : \E p \in ports : row \in RowsOf(p, t)
      BY <2>2 DEF RowsOwned, Active, Replied
    <3> QED
      BY <3>1, <3>2
  <2> QED
    BY <2>3, <2>4, <2>5
<1> QED
  BY ConnectedInit, TypeCorrect, <1>1, <1>2, <1>3, <1>4, PTL DEF Spec
=============================================================================
