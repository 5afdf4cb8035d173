------------------------- MODULE PortServiceProofs -------------------------
(***************************************************************************)
(* BridgePort implements PortService: whatever the handlers interleave,    *)
(* fail at or leave behind, clients see a map of ports that a request      *)
(* changes at one moment or not at all.                                    *)
(***************************************************************************)
EXTENDS BridgePortProofs

(* The substitution of Service, by name.                                   *)
Stored == {[name |-> p.name, mac |-> p.mac] : p \in ports}
Pend == [c \in Calls |-> Pending(c)]
Answer == [c \in Calls |-> IF pc[c] = "err" THEN "err" ELSE "ok"]
Msgs == {Creation(r) : r \in Requests} \cup {Deletion(r) : r \in Requests}
Seen == <<Stored, Pend, Answer>>

(* Requests for one name give one MAC address.                             *)
OneMacPerName == \A r, q \in Accepted : r.name = q.name => r.mac = q.mac

(* A create handler that overwrites an entry of Ports gives it the MAC     *)
(* address it had.                                                         *)
StoresAgree ==
    \A c \in Calls : pc[c] \in CreateSteps =>
        \A p \in ports : p.name = req[c].name => p.mac = req[c].mac

-----------------------------------------------------------------------------
(* A message is not the absence of one.                                    *)
LEMMA MessageIsSome ==
    \A r : Creation(r) # NoMessage /\ Deletion(r) # NoMessage
<1> TAKE r
<1>1. Creation(r).op = "create" /\ Deletion(r).op = "delete" /\ NoMessage.op = "none"
  BY DEF Creation, Deletion, NoMessage
<1> QED
  BY <1>1

(* A handler has a request under way exactly while it is active.           *)
LEMMA PendingIsActive ==
    ASSUME TypeOK, NEW c \in Calls
    PROVE  /\ pc[c] \in Replied <=> Pend[c] = NoMessage
           /\ pc[c] \in CreateSteps => Pend[c] = Creation(req[c])
           /\ pc[c] \in DeleteSteps => Pend[c] = Deletion(req[c])
BY MessageIsSome DEF TypeOK, Pend, Pending, Replied, CreateSteps, DeleteSteps

(* A step of one handler changes what the clients see of that handler only.*)
LEMMA OthersKeep ==
    ASSUME NEW c \in Calls, TypeOK,
           \/ UNCHANGED pc
           \/ \E step : Goto(c, step),
           \/ UNCHANGED req
           \/ \E r : req' = [req EXCEPT ![c] = r]
    PROVE  /\ Pend' = [Pend EXCEPT ![c] = Pending(c)']
           /\ Answer' = [Answer EXCEPT ![c] = IF pc'[c] = "err" THEN "err" ELSE "ok"]
<1>1. \A d \in Calls \ {c} : pc'[d] = pc[d] /\ req'[d] = req[d]
  BY DEF Goto, TypeOK
<1>2. \A d \in Calls \ {c} : Pending(d)' = Pending(d)
  BY <1>1 DEF Pending
<1> QED
  BY <1>1, <1>2 DEF Pend, Answer

(* What an answered request does to the ports is what StorePort and        *)
(* ForgetPort do.                                                          *)
LEMMA StoreServes ==
    ASSUME NEW r, \A p \in ports : p.name = r.name => p.mac = r.mac,
           ports' = {p \in ports : p.name # r.name} \cup {r}
    PROVE  Stored' = Service!Served(Stored, Creation(r))
BY DEF Stored, Creation, Service!Served

LEMMA ForgetServes ==
    ASSUME NEW r, ports' = {p \in ports : p.name # r.name}
    PROVE  Stored' = Service!Served(Stored, Deletion(r))
BY DEF Stored, Deletion, Service!Served
-----------------------------------------------------------------------------
(* The actions of PortService, in terms of what the clients see.           *)
LEMMA SeenRequest ==
    ASSUME NEW c \in Calls, NEW m \in Msgs, Pend[c] = NoMessage,
           Pend' = [Pend EXCEPT ![c] = m], Answer' = [Answer EXCEPT ![c] = "ok"],
           Stored' = Stored
    PROVE  Service!Next
BY DEF Service!Next, Service!Request, Stored, Pend, Answer, Msgs

LEMMA SeenAnswer ==
    ASSUME NEW c \in Calls, NEW m \in Msgs, Pend[c] = NoMessage, Pend' = Pend,
           \/ Answer' = [Answer EXCEPT ![c] = "err"]
           \/ Service!Served(Stored, m) = Stored /\ Answer' = [Answer EXCEPT ![c] = "ok"],
           Stored' = Stored
    PROVE  Service!Next
BY DEF Service!Next, Service!AnswerAtOnce, Stored, Pend, Answer, Msgs

LEMMA SeenServe ==
    ASSUME NEW c \in Calls, Pend[c] # NoMessage, Pend' = [Pend EXCEPT ![c] = NoMessage],
           Stored' = Service!Served(Stored, Pend[c]), Answer' = Answer
    PROVE  Service!Next
BY DEF Service!Next, Service!Serve, Stored, Pend, Answer

LEMMA SeenRefuse ==
    ASSUME NEW c \in Calls, Pend[c] # NoMessage, Pend' = [Pend EXCEPT ![c] = NoMessage],
           Stored' = Stored, Answer' = [Answer EXCEPT ![c] = "err"]
    PROVE  Service!Next
BY DEF Service!Next, Service!Refuse, Stored, Pend, Answer

LEMMA SeenRestart ==
    ASSUME Stored' = {}, Pend' = [c \in Calls |-> NoMessage],
           Answer' = [c \in Calls |-> "ok"]
    PROVE  Service!Next
BY DEF Service!Next, Service!Restart, Stored, Pend, Answer
-----------------------------------------------------------------------------
(* All the other calls of a handler leave it in its request or end it with *)
(* an error, and touch neither Ports nor what it works on.                 *)
LEMMA InnerStep ==
    ASSUME NEW c \in Calls, HandlerStep(c), ~StorePort(c), ~ForgetPort(c)
    PROVE  /\ UNCHANGED <<ports, req>>
           /\ pc[c] \in CreateSteps \cup DeleteSteps
           /\ \/ UNCHANGED pc
              \/ Goto(c, "err")
              \/ pc[c] \in CreateSteps /\ \E step \in CreateSteps : Goto(c, step)
              \/ pc[c] \in DeleteSteps /\ \E step \in DeleteSteps : Goto(c, step)
<1> USE DEF CreateSteps, DeleteSteps
<1>1. CASE VlanLookup(c)
  BY <1>1 DEF VlanLookup
<1>2. CASE LinkAdd(c)
  BY <1>2 DEF LinkAdd
<1>3. CASE AddPort(c)
  BY <1>3 DEF AddPort, GotoRules
<1>4. CASE SetUp(c)
  BY <1>4 DEF SetUp, GotoRules
<1>5. CASE AddRule(c) \/ DelRuleStep(c)
  BY <1>5 DEF AddRule, DelRuleStep
<1>6. CASE DeletePort(c)
  BY <1>6 DEF DeletePort
<1>7. CASE SetDown(c)
  BY <1>7 DEF SetDown
<1>8. CASE RemoveVlan(c)
  BY <1>8 DEF RemoveVlan, GotoRules
<1> QED
  BY <1>1, <1>2, <1>3, <1>4, <1>5, <1>6, <1>7, <1>8 DEF HandlerStep

(* Every step of the plugin is a step of PortService or invisible.         *)
LEMMA SeenStep ==
    ASSUME TypeOK, TypeOK', StoresAgree, [Next]_vars
    PROVE  [Service!Next]_Seen
<1>1. CASE Run \/ BringBridgeUp \/ UNCHANGED vars
  BY <1>1 DEF Run, BringBridgeUp, vars, Seen, Stored, Pend, Pending, Answer
<1>2. CASE Exit
  <2>1. \A c \in Calls : pc'[c] = "idle"
    BY <1>2 DEF Exit
  <2>2. Stored' = {}
    BY <1>2 DEF Exit, Stored
  <2>3. Pend' = [c \in Calls |-> NoMessage] /\ Answer' = [c \in Calls |-> "ok"]
    BY <2>1 DEF Pend, Pending, Answer, CreateSteps, DeleteSteps
  <2> QED
    BY <2>2, <2>3, SeenRestart
<1>3. ASSUME NEW c \in Calls, NEW r \in Requests, CreateBridgePort(c, r)
      PROVE  [Service!Next]_Seen
  <2>1. /\ Pend' = [Pend EXCEPT ![c] = Pending(c)']
        /\ Answer' = [Answer EXCEPT ![c] = IF pc'[c] = "err" THEN "err" ELSE "ok"]
    <3>1. \E step : Goto(c, step)
      BY <1>3 DEF CreateBridgePort
    <3>2. \E q : req' = [req EXCEPT ![c] = q]
      <4>1. req' = [req EXCEPT ![c] = IF Valid(r) THEN r ELSE req[c]]
        BY <1>3 DEF CreateBridgePort
      <4> QED
        BY <4>1
    <3> QED
      BY <3>1, <3>2, OthersKeep
  <2>2. Pend[c] = NoMessage /\ Stored' = Stored /\ Pend = [Pend EXCEPT ![c] = @]
    BY <1>3, PendingIsActive DEF CreateBridgePort, Free, Stored, Pend
  <2>3. Creation(r) \in Msgs
    BY DEF Msgs
  <2>4. CASE ~Valid(r)
    <3>1. pc'[c] = "err"
      BY <1>3, <2>4 DEF CreateBridgePort, Goto, TypeOK
    <3>2. Pending(c)' = NoMessage
      BY <3>1 DEF Pending, CreateSteps, DeleteSteps
    <3> QED
      BY <2>1, <2>2, <2>3, <3>1, <3>2, SeenAnswer
  <2>5. CASE Valid(r) /\ isBridgePortPresent(r.name)
    <3>1. pc'[c] = "idle"
      BY <1>3, <2>5 DEF CreateBridgePort, Goto, TypeOK
    <3>2. Pending(c)' = NoMessage
      BY <3>1 DEF Pending, CreateSteps, DeleteSteps
    <3>3. Service!Served(Stored, Creation(r)) = Stored
      <4>1. PICK p \in ports : p.name = r.name
        BY <2>5 DEF isBridgePortPresent
      <4>2. [name |-> p.name, mac |-> p.mac] \in Stored
        BY DEF Stored
      <4>3. \E x \in Stored : x.name = r.name
        BY <4>1, <4>2
      <4> QED
        BY <4>3 DEF Creation, Service!Served
    <3> QED
      BY <2>1, <2>2, <2>3, <3>1, <3>2, <3>3, SeenAnswer
  <2>6. CASE Valid(r) /\ ~isBridgePortPresent(r.name)
    <3>1. pc'[c] = "vlanLookup" /\ req'[c] = r
      BY <1>3, <2>6 DEF CreateBridgePort, Goto, TypeOK
    <3>2. Pending(c)' = Creation(r)
      BY <3>1 DEF Pending, Creation, CreateSteps
    <3> QED
      BY <2>1, <2>2, <2>3, <3>1, <3>2, SeenRequest
  <2> QED
    BY <2>4, <2>5, <2>6
<1>4. ASSUME NEW c \in Calls, NEW n \in Names, DeleteBridgePort(c, n)
      PROVE  [Service!Next]_Seen
  <2>1. /\ Pend' = [Pend EXCEPT ![c] = Pending(c)']
        /\ Answer' = [Answer EXCEPT ![c] = IF pc'[c] = "err" THEN "err" ELSE "ok"]
    BY <1>4, OthersKeep DEF DeleteBridgePort
  <2>2. Pend[c] = NoMessage /\ Stored' = Stored /\ Pend = [Pend EXCEPT ![c] = @]
    BY <1>4, PendingIsActive DEF DeleteBridgePort, Free, Stored, Pend
  <2>3. CASE ~isBridgePortPresent(n)
    <3>1. PICK r \in Requests : r.name = n
      BY DEF Names
    <3>2. pc'[c] = "idle"
      BY <1>4, <2>3 DEF DeleteBridgePort, Goto, TypeOK, isBridgePortPresent
    <3>3. Pending(c)' = NoMessage
      BY <3>2 DEF Pending, CreateSteps, DeleteSteps
    <3>4. Service!Served(Stored, Deletion(r)) = Stored
      BY <2>3, <3>1 DEF Stored, Deletion, isBridgePortPresent, Service!Served
    <3>5. Deletion(r) \in Msgs
      BY DEF Msgs
    <3> QED
      BY <2>1, <2>2, <3>2, <3>3, <3>4, <3>5, SeenAnswer
  <2>4. ASSUME NEW p \in ports, req' = [req EXCEPT ![c] = p], Goto(c, "delPort")
        PROVE  [Service!Next]_Seen
    <3>1. pc'[c] = "delPort" /\ req'[c] = p
      BY <2>4 DEF Goto, TypeOK
    <3>2. Pending(c)' = Deletion(p)
      BY <3>1 DEF Pending, Deletion, CreateSteps, DeleteSteps
    <3>3. Deletion(p) \in Msgs
      BY DEF TypeOK, Accepted, Msgs
    <3> QED
      BY <2>1, <2>2, <3>1, <3>2, <3>3, SeenRequest
  <2> QED
    BY <1>4, <2>3, <2>4 DEF DeleteBridgePort
<1>5. ASSUME NEW c \in Calls, HandlerStep(c)
      PROVE  [Service!Next]_Seen
  <2>1. CASE StorePort(c)
    <3>1. pc[c] = "addRules" /\ pc'[c] = "idle" /\ UNCHANGED req
      BY <2>1 DEF StorePort, GotoRules, Goto, TypeOK
    <3>2. /\ Pend' = [Pend EXCEPT ![c] = Pending(c)']
          /\ Answer' = [Answer EXCEPT ![c] = IF pc'[c] = "err" THEN "err" ELSE "ok"]
      BY <2>1, <3>1, OthersKeep DEF StorePort, GotoRules
    <3>3. Pending(c)' = NoMessage /\ Answer' = Answer
      BY <3>1, <3>2 DEF Pending, Answer, CreateSteps, DeleteSteps
    <3>4. Pend[c] = Creation(req[c]) /\ Pend[c] # NoMessage
      BY <3>1, PendingIsActive, MessageIsSome DEF CreateSteps
    <3>5. Stored' = Service!Served(Stored, Pend[c])
      <4>1. \A p \in ports : p.name = req[c].name => p.mac = req[c].mac
        BY <3>1 DEF StoresAgree, CreateSteps
      <4>2. ports' = {p \in ports : p.name # req[c].name} \cup {req[c]}
        BY <2>1 DEF StorePort
      <4> QED
        BY <3>4, <4>1, <4>2, StoreServes
    <3> QED
      BY <3>2, <3>3, <3>4, <3>5, SeenServe
  <2>2. CASE ForgetPort(c)
    <3>1. pc[c] = "delRules" /\ pc'[c] = "idle" /\ UNCHANGED req
      BY <2>2 DEF ForgetPort, GotoRules, Goto, TypeOK
    <3>2. /\ Pend' = [Pend EXCEPT ![c] = Pending(c)']
          /\ Answer' = [Answer EXCEPT ![c] = IF pc'[c] = "err" THEN "err" ELSE "ok"]
      BY <2>2, <3>1, OthersKeep DEF ForgetPort, GotoRules
    <3>3. Pending(c)' = NoMessage /\ Answer' = Answer
      BY <3>1, <3>2 DEF Pending, Answer, CreateSteps, DeleteSteps
    <3>4. Pend[c] = Deletion(req[c]) /\ Pend[c] # NoMessage
      BY <3>1, PendingIsActive, MessageIsSome DEF DeleteSteps
    <3>5. Stored' = Service!Served(Stored, Pend[c])
      <4>1. ports' = {p \in ports : p.name # req[c].name}
        BY <2>2 DEF ForgetPort
      <4> QED
        BY <3>4, <4>1, ForgetServes
    <3> QED
      BY <3>2, <3>3, <3>4, <3>5, SeenServe
  <2>3. CASE ~StorePort(c) /\ ~ForgetPort(c)
    <3>1. /\ UNCHANGED <<ports, req>>
          /\ pc[c] \in CreateSteps \cup DeleteSteps
          /\ \/ UNCHANGED pc
             \/ Goto(c, "err")
             \/ pc[c] \in CreateSteps /\ \E step \in CreateSteps : Goto(c, step)
             \/ pc[c] \in DeleteSteps /\ \E step \in DeleteSteps : Goto(c, step)
      BY <1>5, <2>3, InnerStep
    <3>2. /\ Pend' = [Pend EXCEPT ![c] = Pending(c)']
          /\ Answer' = [Answer EXCEPT ![c] = IF pc'[c] = "err" THEN "err" ELSE "ok"]
      BY <3>1, OthersKeep
    <3>3. Stored' = Stored
      BY <3>1 DEF Stored
    <3>4. pc[c] \notin Replied /\ Pend[c] # NoMessage
      BY <3>1, PendingIsActive DEF CreateSteps, DeleteSteps, Replied
    <3>5. CASE Goto(c, "err")
      <4>1. pc'[c] = "err"
        BY <3>5 DEF Goto, TypeOK
      <4>2. Pending(c)' = NoMessage
        BY <4>1 DEF Pending, CreateSteps, DeleteSteps
      <4> QED
        BY <3>2, <3>3, <3>4, <4>1, <4>2, SeenRefuse
    <3>6. CASE UNCHANGED pc
      BY <3>1, <3>3, <3>6 DEF Seen, Pend, Pending, Answer
    <3>7. CASE /\ ~Goto(c, "err") /\ ~UNCHANGED pc
      <4>1. /\ pc[c] \in CreateSteps <=> pc'[c] \in CreateSteps
            /\ pc[c] \in DeleteSteps <=> pc'[c] \in DeleteSteps
            /\ pc'[c] \in CreateSteps \cup DeleteSteps
        BY <3>1, <3>7 DEF Goto, TypeOK, CreateSteps, DeleteSteps
      <4>2. Pending(c)' = Pending(c)
        BY <3>1, <4>1 DEF Pending
      <4>3. pc[c] # "err" /\ pc'[c] # "err"
        BY <3>4, <4>1 DEF Replied, CreateSteps, DeleteSteps
      <4>4. Pend' = Pend /\ Answer' = Answer
        BY <3>2, <4>2, <4>3 DEF Pend, Answer
      <4> QED
        BY <3>3, <4>4 DEF Seen
    <3> QED
      BY <3>5, <3>6, <3>7
  <2> QED
    BY <2>1, <2>2, <2>3
<1> QED
  BY <1>1, <1>2, <1>3, <1>4, <1>5 DEF Next, Crash, Stop, CreatePanic
-----------------------------------------------------------------------------
(* BridgePort implements PortService, for every set of handlers and        *)
(* requests, if requests for one name do not overlap or if they all give   *)
(* one MAC address: the unprotected check of isBridgePortPresent at the    *)
(* start of CreateBridgePort and the store at its end then still amount to *)
(* one change of the map.                                                  *)
THEOREM PluginServesPorts ==
    (Serialised \/ OneMacPerName) => (Spec => ServesPorts)
<1>1. Init => Service!Init
  BY DEF Init, Service!Init, Pending, CreateSteps, DeleteSteps
<1>2. TypeOK /\ TypeOK' /\ StoresAgree /\ [Next]_vars => [Service!Next]_Seen
  BY SeenStep
<1>3. CASE OneMacPerName
  <2>1. TypeOK => StoresAgree
    BY <1>3 DEF TypeOK, StoresAgree, OneMacPerName
  <2> QED
    BY <1>1, <1>2, <2>1, TypeCorrect, PTL
    DEF Spec, ServesPorts, Service!Spec, Seen, Stored, Pend, Answer
<1>4. CASE Serialised
  <2>1. PortInv => StoresAgree
    BY DEF PortInv, Creating, StoresAgree
  <2>2. PortInv /\ TypeOK' /\ [Next]_vars => PortInv'
    BY <1>4, PortInvStep
  <2> QED
    BY <1>1, <1>2, <2>1, <2>2, PortInvInit, TypeCorrect, PTL
    DEF Spec, ServesPorts, Service!Spec, Seen, Stored, Pend, Answer
<1> QED
  BY <1>3, <1>4
============================================================================
