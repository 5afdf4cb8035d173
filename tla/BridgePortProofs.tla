------------------------- MODULE BridgePortProofs -------------------------
(***************************************************************************)
(* Theorems about BridgePort, for every set of handlers and requests, both *)
(* kinds of bridge and any number of failures and restarts.                *)
(***************************************************************************)
EXTENDS BridgePort, TLAPS

(* Requests for one port name do not overlap.                              *)
OnePerName ==
    \A c, d \in Calls :
        (c # d /\ Active(c) /\ Active(d)) => req[c].name # req[d].name

(* Ports is a map: a name has one entry.                                   *)
NamesUnique == \A p, q \in ports : p.name = q.name => p = q

(* A create handler runs only while its name is not stored, and past the   *)
(* linkAdd call its interface is there.                                    *)
Creating ==
    \A c \in Calls :
        /\ pc[c] \in CreateSteps => \A p \in ports : p.name # req[c].name
        /\ pc[c] \in {"addPort", "setUp", "addRules"} => LinkOf(req[c]) \in links

(* A delete handler works on the stored entry.                             *)
DeletingStored == \A c \in Calls : pc[c] \in DeleteSteps => req[c] \in ports

(* The inductive invariant behind PortHasLink.                             *)
PortInv ==
    /\ TypeOK
    /\ OnePerName
    /\ NamesUnique
    /\ Creating
    /\ DeletingStored
    /\ PortHasLink

-----------------------------------------------------------------------------
(* Every state of the plugin is well typed: in particular every FXP row is *)
(* one that getAddRuleSets makes for an accepted request, whatever was     *)
(* refused, lost or left over.                                             *)
THEOREM TypeCorrect == Spec => []TypeOK
<1> USE BoundsAssumption DEF Replied, CreateSteps, DeleteSteps
<1>1. Init => TypeOK
  BY DEF Init, TypeOK, NoRows
<1>2. TypeOK /\ [Next]_vars => TypeOK'
  <2> SUFFICES ASSUME TypeOK, [Next]_vars PROVE TypeOK'
    OBVIOUS
  <2>1. CASE Run \/ BringBridgeUp
    BY <2>1 DEF Run, BringBridgeUp, EnsureBridgeExists, Works, Fails, TypeOK
  <2>2. CASE Exit
    BY <2>2 DEF Exit, TypeOK, kernel
  <2>3. ASSUME NEW c \in Calls, NEW r \in Requests, CreateBridgePort(c, r)
        PROVE  TypeOK'
    BY <2>3 DEF CreateBridgePort, Goto, TypeOK, kernel, Accepted
  <2>4. ASSUME NEW c \in Calls, NEW n \in Names, DeleteBridgePort(c, n)
        PROVE  TypeOK'
    BY <2>4 DEF DeleteBridgePort, Goto, TypeOK, kernel
  <2>5. ASSUME NEW c \in Calls, HandlerStep(c)
        PROVE  TypeOK'
    <3> USE DEF Goto, GotoRules, Works, Fails, TypeOK
    <3>1. CASE VlanLookup(c)
      BY <3>1 DEF VlanLookup, kernel
    <3>2. CASE LinkAdd(c)
      BY <3>2 DEF LinkAdd, NewLink, LinkOf
    <3>3. CASE AddPort(c)
      BY <3>3 DEF AddPort
    <3>4. CASE SetUp(c)
      BY <3>4 DEF SetUp
    <3>5. CASE AddRule(c)
      <4> DEFINE rules == AddRuleSets(req[c])
                 rule == rules[done[c] + 1]
      <4>1. \A t \in Tables : rule.table = t => rule.row \in RowsOf(req[c], t)
        BY <3>5 DEF AddRule, RowsOf, Rows
      <4>2. req[c] \in Accepted
        OBVIOUS
      <4>3. fxp' = fxp \/ fxp' = [fxp EXCEPT ![rule.table] = @ \cup {rule.row}]
        BY <3>5 DEF AddRule, AddEntry
      <4> HIDE DEF rule
      <4>4. /\ fxp' = [t \in Tables |-> fxp'[t]]
            /\ \A t \in Tables : fxp'[t] \subseteq UNION {RowsOf(r, t) : r \in Accepted}
        BY <4>1, <4>2, <4>3
      <4> QED
        BY <3>5, <4>4 DEF AddRule, kernel
    <3>6. CASE StorePort(c)
      BY <3>6 DEF StorePort, kernel
    <3>7. CASE DeletePort(c)
      BY <3>7 DEF DeletePort
    <3>8. CASE SetDown(c)
      BY <3>8 DEF SetDown
    <3>9. CASE RemoveVlan(c)
      BY <3>9 DEF RemoveVlan
    <3>10. CASE DelRuleStep(c)
      BY <3>10 DEF DelRuleStep, DelEntry, kernel
    <3>11. CASE ForgetPort(c)
      BY <3>11 DEF ForgetPort, kernel
    <3> QED
      BY <2>5, <3>1, <3>2, <3>3, <3>4, <3>5, <3>6, <3>7, <3>8, <3>9, <3>10, <3>11
      DEF HandlerStep
  <2>6. CASE UNCHANGED vars
    BY <2>6 DEF vars, kernel, TypeOK
  <2> QED
    BY <2>1, <2>2, <2>3, <2>4, <2>5, <2>6 DEF Next, Crash, Stop, CreatePanic
<1> QED
  BY <1>1, <1>2, PTL DEF Spec
-----------------------------------------------------------------------------
(* A plugin that has not run yet stores no port and runs no handler.       *)
LEMMA PortInvInit == Init => PortInv
<1> SUFFICES ASSUME Init PROVE PortInv
  OBVIOUS
<1>1. TypeOK
  BY BoundsAssumption DEF Init, TypeOK, NoRows, Replied
<1> QED
  BY <1>1 DEF Init, PortInv, OnePerName, NamesUnique, Creating, DeletingStored,
              PortHasLink, Active, Replied, CreateSteps, DeleteSteps

(* One step per action.  Only RemoveVlan takes a link away, and then the   *)
(* handler is at "delRules" on the stored entry; StorePort is preceded by  *)
(* linkAdd, and serialisation keeps other handlers off the name.           *)
LEMMA PortInvStep ==
    ASSUME Serialised, PortInv, TypeOK', [Next]_vars
    PROVE  PortInv'
<1> DEFINE Rest == /\ OnePerName
                   /\ NamesUnique
                   /\ Creating
                   /\ DeletingStored
                   /\ PortHasLink
<1> USE DEF Active, Replied, CreateSteps, DeleteSteps
<1>1. CASE Run \/ BringBridgeUp
  BY <1>1
     DEF Run, BringBridgeUp, PortInv, OnePerName, NamesUnique, Creating, DeletingStored, PortHasLink
<1>2. CASE Exit
  BY <1>2 DEF Exit, kernel, PortInv, OnePerName, NamesUnique, Creating,
              DeletingStored, PortHasLink
<1>3. ASSUME NEW c \in Calls, NEW r \in Requests, CreateBridgePort(c, r)
      PROVE  Rest'
  BY <1>3 DEF CreateBridgePort, Goto, Free, isBridgePortPresent, kernel, PortInv,
              TypeOK, OnePerName, NamesUnique, Creating, DeletingStored, PortHasLink
<1>4. ASSUME NEW c \in Calls, NEW n \in Names, DeleteBridgePort(c, n)
      PROVE  Rest'
  BY <1>4 DEF DeleteBridgePort, Goto, Free, isBridgePortPresent, kernel, PortInv,
              TypeOK, OnePerName, NamesUnique, Creating, DeletingStored, PortHasLink
<1>5. ASSUME NEW c \in Calls, HandlerStep(c)
      PROVE  Rest'
  <2> USE DEF Goto, GotoRules, PortInv, TypeOK, OnePerName, NamesUnique, Creating,
              DeletingStored, PortHasLink
  <2>1. CASE VlanLookup(c)
    BY <2>1 DEF VlanLookup, kernel
  <2>2. CASE LinkAdd(c)
    BY <2>2 DEF LinkAdd, NewLink, LinkOf
  <2>3. CASE AddPort(c)
    BY <2>3 DEF AddPort, AddPortRefused
  <2>4. CASE SetUp(c)
    BY <2>4 DEF SetUp
  <2>5. CASE AddRule(c)
    BY <2>5 DEF AddRule, kernel
  <2>6. CASE StorePort(c)
    BY <2>6 DEF StorePort, kernel
  <2>7. CASE DeletePort(c)
    BY <2>7 DEF DeletePort
  <2>8. CASE SetDown(c)
    BY <2>8 DEF SetDown
  <2>9. CASE RemoveVlan(c)
    BY <2>9 DEF RemoveVlan, LinkOf
  <2>10. CASE DelRuleStep(c)
    BY <2>10 DEF DelRuleStep, kernel
  <2>11. CASE ForgetPort(c)
    BY <2>11 DEF ForgetPort, kernel
  <2> QED
    BY <1>5, <2>1, <2>2, <2>3, <2>4, <2>5, <2>6, <2>7, <2>8, <2>9, <2>10, <2>11
    DEF HandlerStep
<1>6. CASE UNCHANGED vars
  BY <1>6 DEF vars, kernel, PortInv, OnePerName, NamesUnique, Creating,
              DeletingStored, PortHasLink
<1> QED
  BY <1>1, <1>2, <1>3, <1>4, <1>5, <1>6 DEF Next, Crash, Stop, CreatePanic, PortInv

(* As long as requests for one port name do not overlap, a stored port     *)
(* keeps its VLAN interface until the handler that forgets it has removed  *)
(* the interface, for any number of handlers, failures and restarts and    *)
(* for both kinds of bridge.                                               *)
THEOREM StoredPortKeepsLink == Serialised => (Spec => []PortHasLink)
<1> SUFFICES ASSUME Serialised PROVE Spec => []PortHasLink
  OBVIOUS
<1>1. PortInv /\ TypeOK' /\ [Next]_vars => PortInv'
  BY PortInvStep
<1>2. PortInv => PortHasLink
  BY DEF PortInv
<1> QED
  BY PortInvInit, TypeCorrect, <1>1, <1>2, PTL DEF Spec
-----------------------------------------------------------------------------
(* A handler that found no interface by its name keeps finding none until  *)
(* it adds it.                                                             *)
AddIsNew == \A c \in Calls : pc[c] = "linkAdd" => LinkOf(req[c]) \notin links

(* Ports with different names ask for different VLANs.                     *)
VlansDistinct ==
    \A r, q \in Accepted : VlanId(r) = VlanId(q) => r.name = q.name

(* Between the lookup of the VLAN interface and linkAddFn nobody adds it:  *)
(* only a handler of the same name, or of the same VLAN, could.            *)
LEMMA AddIsNewStep ==
    ASSUME Serialised, PortInv, AddIsNew, [Next]_vars
    PROVE  AddIsNew'
<1> USE DEF Active, Replied, CreateSteps, DeleteSteps, AddIsNew, PortInv, TypeOK, OnePerName
<1>1. CASE Run \/ BringBridgeUp
  BY <1>1 DEF Run, BringBridgeUp
<1>2. CASE Exit
  BY <1>2 DEF Exit
<1>3. ASSUME NEW c \in Calls, NEW r \in Requests, CreateBridgePort(c, r)
      PROVE  AddIsNew'
  BY <1>3 DEF CreateBridgePort, Goto, Free, kernel
<1>4. ASSUME NEW c \in Calls, NEW n \in Names, DeleteBridgePort(c, n)
      PROVE  AddIsNew'
  BY <1>4 DEF DeleteBridgePort, Goto, Free, kernel
<1>5. ASSUME NEW c \in Calls, HandlerStep(c)
      PROVE  AddIsNew'
  <2> USE DEF Goto, GotoRules
  <2>1. CASE VlanLookup(c)
    BY <2>1 DEF VlanLookup, kernel
  <2>2. CASE LinkAdd(c)
    BY <2>2 DEF LinkAdd, NewLink, LinkOf
  <2>3. CASE AddPort(c) \/ SetUp(c) \/ DeletePort(c) \/ SetDown(c)
    BY <2>3 DEF AddPort, SetUp, DeletePort, SetDown
  <2>4. CASE AddRule(c) \/ StorePort(c) \/ DelRuleStep(c) \/ ForgetPort(c)
    BY <2>4 DEF AddRule, StorePort, DelRuleStep, ForgetPort, kernel
  <2>5. CASE RemoveVlan(c)
    BY <2>5 DEF RemoveVlan
  <2> QED
    BY <1>5, <2>1, <2>2, <2>3, <2>4, <2>5 DEF HandlerStep
<1>6. CASE UNCHANGED vars
  BY <1>6 DEF vars, kernel
<1> QED
  BY <1>1, <1>2, <1>3, <1>4, <1>5, <1>6 DEF Next, Crash, Stop, CreatePanic

(* A Linux-bridge handler meets no obstacle that is not a failure of its   *)
(* own calls: its interface is there when it has to be and is not when it  *)
(* must be added.                                                          *)
LEMMA ErrorStep ==
    ASSUME Serialised, BridgeType = "linux", VlansDistinct,
           PortInv, AddIsNew, [Next]_vars,
           NEW c \in Calls, Active(c), pc'[c] = "err"
    PROVE  faults' = faults + 1 \/ pc[c] = "blindAdd"
<1> USE DEF Active, Replied, CreateSteps, DeleteSteps, PortInv, TypeOK, OnePerName
<1>1. pc[c] \in {"delPort", "setDown", "removeVlan"} => LinkOf(req[c]) \in links
  BY DEF DeletingStored, PortHasLink
<1>2. pc[c] \in {"addPort", "setUp"} => LinkOf(req[c]) \in links
  BY DEF Creating
<1>3. pc[c] = "linkAdd" => \A k \in links : k.vlan # VlanId(req[c])
  BY DEF AddIsNew, VlansDistinct, LinkOf
<1>4. ~Run /\ ~BringBridgeUp /\ ~Exit /\ ~UNCHANGED vars
  BY DEF Run, BringBridgeUp, Exit, vars
<1>5. ASSUME NEW d \in Calls, NEW r \in Requests, CreateBridgePort(d, r)
      PROVE  FALSE
  BY <1>5 DEF CreateBridgePort, Free, Goto
<1>6. ASSUME NEW d \in Calls, NEW n \in Names, DeleteBridgePort(d, n)
      PROVE  FALSE
  BY <1>6 DEF DeleteBridgePort, Free, Goto
<1>7. ASSUME NEW d \in Calls, HandlerStep(d)
      PROVE  faults' = faults + 1 \/ pc[c] = "blindAdd"
  <2> USE DEF Goto, GotoRules, Fails
  <2>1. CASE VlanLookup(d) \/ LinkAdd(d)
    BY <1>3, <2>1 DEF VlanLookup, LinkAdd, NewLink, LinkOf
  <2>2. CASE AddPort(d) \/ SetUp(d)
    BY <1>2, <2>2 DEF AddPort, AddPortRefused, SetUp
  <2>3. CASE DeletePort(d) \/ SetDown(d) \/ RemoveVlan(d)
    BY <1>1, <2>3 DEF DeletePort, DeletePortRefused, SetDown, RemoveVlan
  <2>4. CASE AddRule(d) \/ StorePort(d) \/ DelRuleStep(d) \/ ForgetPort(d)
    BY <2>4 DEF AddRule, StorePort, DelRuleStep, ForgetPort
  <2> QED
    BY <1>7, <2>1, <2>2, <2>3, <2>4 DEF HandlerStep
<1> QED
  BY <1>4, <1>5, <1>6, <1>7 DEF Next, Crash, Stop, CreatePanic

(* On a Linux bridge, with requests serialised per name and a VLAN per     *)
(* name, what an earlier attempt or a dead plugin left behind never makes  *)
(* a later request fail.                                                   *)
THEOREM LinuxRetriesAreSafe ==
    (Serialised /\ BridgeType = "linux" /\ VlansDistinct) => (Spec => ErrorsAreFresh)
<1> SUFFICES ASSUME Serialised, BridgeType = "linux", VlansDistinct
             PROVE  Spec => ErrorsAreFresh
  OBVIOUS
<1> DEFINE Fresh == \A c \in Calls : (Active(c) /\ pc'[c] = "err") =>
                        faults' = faults + 1 \/ pc[c] = "blindAdd"
<1>1. Init => AddIsNew
  BY DEF Init, AddIsNew
<1>2. PortInv /\ TypeOK' /\ [Next]_vars => PortInv'
  BY PortInvStep
<1>3. PortInv /\ AddIsNew /\ [Next]_vars => AddIsNew'
  BY AddIsNewStep
<1>4. PortInv /\ AddIsNew /\ [Next]_vars => [Fresh]_vars
  BY ErrorStep
<1> QED
  BY PortInvInit, TypeCorrect, <1>1, <1>2, <1>3, <1>4, PTL DEF Spec, ErrorsAreFresh
============================================================================
