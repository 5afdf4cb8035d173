-------------------------- MODULE LifeCycleProofs --------------------------
(***************************************************************************)
(* Theorems about LifeCycle, for every set of handlers, every network and  *)
(* any number of failed calls, lost answers and restarts.                  *)
(***************************************************************************)
EXTENDS LifeCycle, TLAPS

(* Links have no addresses but their own and the channel's, never both: a  *)
(* handler adds one only where it saw none, and nobody adds another.       *)
NeverBoth ==
    \A s \in Sides : \A i \in DOMAIN Links(s) :
        addrs[s][i] \in {{}, {"own"}, {ChannelIp(s)}}

(* A handler in setIP is at a PF for the channel, and one past the check   *)
(* at a PF that has no address or the channel's.                           *)
InSetIP ==
    \A s \in Sides, c \in Calls :
        /\ h[s][c].step \in {"check", "set"} => h[s][c].at \in Candidates(s)
        /\ h[s][c].step = "set" => addrs[s][h[s][c].at] # {"own"}

(* The operator unsets no PF that has no address.                          *)
ToldHasAddress ==
    \A s \in Sides : \A i \in told[s] : addrs[s][i] # {}

(* The address that a connected daemon relies on will not be unset.        *)
CarrierNotTold ==
    \A s \in Sides :
        daemon[s] = "connected" => \E i \in Candidates(s) \ told[s] : addrs[s][i] = {ChannelIp(s)}

(* The inductive invariant behind ConnectedMeansSet.                       *)
ChannelInv ==
    /\ TypeOK
    /\ NeverBoth
    /\ InSetIP
    /\ ToldHasAddress
    /\ CarrierNotTold

-----------------------------------------------------------------------------
(* The addresses are those of the type.                                    *)
LEMMA ChannelIpType == \A s \in Sides : ChannelIp(s) \in Addresses \ {"own"}
BY DEF ChannelIp, Addresses, Sides

(* Candidates are links.                                                   *)
LEMMA CandidatesAreLinks == \A s : Candidates(s) \subseteq DOMAIN Links(s)
BY DEF Candidates

(* The list of links is a sequence.                                        *)
LEMMA LinksType ==
    ASSUME site \in Sites, NEW s \in Sides
    PROVE  Len(Links(s)) \in Nat /\ DOMAIN Links(s) = 1..Len(Links(s))
BY SitesAssumption DEF Links

(* What the calls of a handler share: each ends at one of the handler's    *)
(* steps, and leaves the other handlers alone.                             *)
LEMMA GotoType ==
    ASSUME TypeOK, NEW s \in Sides, NEW c \in Calls, NEW step \in Steps,
           NEW i \in 1..(Len(Links(s)) + 1), Goto(s, c, step, i), UNCHANGED site
    PROVE  /\ h' = [t \in Sides |-> h'[t]]
           /\ \A t \in Sides : h'[t] \in [Calls -> [step : Steps, at : 1..(Len(Links(t)') + 1)]]
           /\ h'[s][c] = [step |-> step, at |-> i]
           /\ \A t \in Sides, d \in Calls : (t # s \/ d # c) => h'[t][d] = h[t][d]
<1>1. h' = [h EXCEPT ![s] = [h[s] EXCEPT ![c] = [step |-> step, at |-> i]]]
  BY DEF Goto
<1>2. h'[s] = [h[s] EXCEPT ![c] = [step |-> step, at |-> i]]
  BY <1>1 DEF TypeOK
<1>3. \A t \in Sides \ {s} : h'[t] = h[t]
  BY <1>1 DEF TypeOK
<1>4. \A t : Len(Links(t)') = Len(Links(t))
  BY DEF Links
<1>5. h[s] \in [Calls -> [step : Steps, at : 1..(Len(Links(s)) + 1)]]
  BY DEF TypeOK
<1> QED
  BY <1>1, <1>2, <1>3, <1>4, <1>5 DEF TypeOK

(* The handler's answer.                                                   *)
LEMMA ReturnType ==
    ASSUME TypeOK, NEW s \in Sides, NEW c \in Calls,
           NEW result \in {"idle", "connected"}, Return(s, c, result)
    PROVE  /\ Goto(s, c, "free", 1)
           /\ daemon' \in [Sides -> {"idle", "waiting", "connected"}]
           /\ \A t \in Sides \ {s} : daemon'[t] = daemon[t]
           /\ daemon'[s] = daemon[s] \/ (daemon[s] = "waiting" /\ daemon'[s] = result)
BY DEF Return, TypeOK

(* A PF gets or loses addresses.                                           *)
SetAddrs(s, i, A) == addrs' = [addrs EXCEPT ![s][i] = A]

LEMMA AddrsType ==
    ASSUME TypeOK, NEW s \in Sides, NEW i \in DOMAIN Links(s), NEW A \in SUBSET Addresses,
           SetAddrs(s, i, A), UNCHANGED site
    PROVE  /\ addrs' = [t \in Sides |-> addrs'[t]]
           /\ \A t \in Sides : addrs'[t] \in [DOMAIN Links(t)' -> SUBSET Addresses]
           /\ addrs'[s][i] = A
           /\ \A t \in Sides \ {s} : addrs'[t] = addrs[t]
           /\ \A j \in DOMAIN Links(s) \ {i} : addrs'[s][j] = addrs[s][j]
<1>1. addrs' = [addrs EXCEPT ![s] = [addrs[s] EXCEPT ![i] = A]]
  BY DEF SetAddrs
<1>2. addrs'[s] = [addrs[s] EXCEPT ![i] = A]
  BY <1>1 DEF TypeOK
<1>3. \A t \in Sides \ {s} : addrs'[t] = addrs[t]
  BY <1>1 DEF TypeOK
<1>4. \A t : DOMAIN Links(t)' = DOMAIN Links(t)
  BY DEF Links
<1>5. addrs[s] \in [DOMAIN Links(s) -> SUBSET Addresses]
  BY DEF TypeOK
<1>6. addrs' = [t \in Sides |-> addrs'[t]]
  BY <1>1 DEF TypeOK
<1>7. addrs'[s] \in [DOMAIN Links(s) -> SUBSET Addresses] /\ addrs'[s][i] = A
  BY <1>2, <1>5
<1>8. \A t \in Sides : addrs'[t] \in [DOMAIN Links(t)' -> SUBSET Addresses]
  BY <1>3, <1>4, <1>7 DEF TypeOK
<1>9. \A j \in DOMAIN Links(s) \ {i} : addrs'[s][j] = addrs[s][j]
  BY <1>2, <1>5
<1> QED
  BY <1>3, <1>6, <1>7, <1>8, <1>9
-----------------------------------------------------------------------------
(* At the start no handler runs and no daemon is connected.                *)
LEMMA ChannelInvInit == Init => ChannelInv
<1> SUFFICES ASSUME Init PROVE ChannelInv
  OBVIOUS
<1>1. \A s \in Sides : Len(Links(s)) \in Nat
  BY LinksType DEF Init
<1>2. TypeOK
  <2>1. \A s \in Sides : addrs[s] \in [DOMAIN Links(s) -> SUBSET Addresses]
    BY DEF Init, Addresses
  <2>2. \A s \in Sides : h[s] \in [Calls -> [step : Steps, at : 1..(Len(Links(s)) + 1)]]
    BY <1>1 DEF Init, Steps
  <2>3. \A s \in Sides : told[s] \subseteq DOMAIN Links(s)
    BY DEF Init
  <2>4. daemon \in [Sides -> {"idle", "waiting", "connected"}]
    BY DEF Init
  <2>5. faults \in 0..MaxFaults /\ losses \in 0..MaxLosses /\ stops \in 0..MaxStops
    BY LimitsAssumption DEF Init
  <2> QED
    BY <2>1, <2>2, <2>3, <2>4, <2>5 DEF Init, TypeOK
<1>3. NeverBoth
  BY DEF Init, NeverBoth
<1> QED
  BY <1>2, <1>3 DEF Init, ChannelInv, InSetIP, ToldHasAddress, CarrierNotTold

(* The bounds are respected whatever a call returns.                       *)
LEMMA LimitsType ==
    ASSUME TypeOK, Works \/ Fails
    PROVE  faults' \in 0..MaxFaults /\ losses' \in 0..MaxLosses /\ stops' \in 0..MaxStops
BY LimitsAssumption DEF TypeOK, Works, Fails, limits

(* The links stay.                                                         *)
LEMMA SiteStays ==
    ASSUME UNCHANGED site
    PROVE  \A t : Links(t)' = Links(t) /\ Candidates(t)' = Candidates(t)
BY DEF Links, Candidates

(* A handler that only moves on, or gives up, with the addresses as they   *)
(* are: it enters setIP at a candidate, passes the check at a free PF, and *)
(* names a PF to the operator only if that has an address and the daemon   *)
(* is not connected.                                                       *)
LEMMA MovesOn ==
    ASSUME ChannelInv, NEW s \in Sides, NEW c \in Calls,
           NEW step \in Steps, NEW i \in 1..(Len(Links(s)) + 1), Goto(s, c, step, i),
           step \in {"check", "set"} => i \in Candidates(s),
           step = "set" => addrs[s][i] # {"own"},
           UNCHANGED <<site, addrs>>,
           \/ UNCHANGED <<daemon, told>>
           \/ daemon' = [daemon EXCEPT ![s] = "waiting"] /\ UNCHANGED told
           \/ Return(s, c, "idle") /\ UNCHANGED told
           \/ /\ Return(s, c, "idle") /\ daemon' # daemon
              /\ \E j \in DOMAIN Links(s) :
                    addrs[s][j] # {} /\ told' = [told EXCEPT ![s] = @ \cup {j}],
           awaited' \in [Sides -> Calls],
           Works \/ Fails
    PROVE  ChannelInv'
<1> USE DEF ChannelInv
<1>1. \A t : Links(t)' = Links(t) /\ Candidates(t)' = Candidates(t)
  BY SiteStays
<1>2. /\ h' = [t \in Sides |-> h'[t]]
      /\ \A t \in Sides : h'[t] \in [Calls -> [step : Steps, at : 1..(Len(Links(t)') + 1)]]
      /\ h'[s][c] = [step |-> step, at |-> i]
      /\ \A t \in Sides, d \in Calls : (t # s \/ d # c) => h'[t][d] = h[t][d]
  BY GotoType
<1>3. /\ daemon' \in [Sides -> {"idle", "waiting", "connected"}]
      /\ \A t \in Sides : daemon'[t] = "connected" => daemon[t] = "connected"
      /\ daemon' # daemon => daemon'[s] # "connected"
  <2>1. CASE UNCHANGED daemon
    BY <2>1 DEF TypeOK
  <2>3. CASE daemon' = [daemon EXCEPT ![s] = "waiting"]
    BY <2>3 DEF TypeOK
  <2>2. CASE Return(s, c, "idle")
    <3>1. /\ daemon' \in [Sides -> {"idle", "waiting", "connected"}]
          /\ \A t \in Sides \ {s} : daemon'[t] = daemon[t]
          /\ daemon'[s] = daemon[s] \/ (daemon[s] = "waiting" /\ daemon'[s] = "idle")
      BY <2>2, ReturnType
    <3>2. daemon' # daemon => daemon'[s] # daemon[s]
      BY <3>1 DEF TypeOK
    <3> QED
      BY <3>1, <3>2
  <2> QED
    BY <2>1, <2>2, <2>3
<1>4. /\ told' = [t \in Sides |-> told'[t]]
      /\ \A t \in Sides : \A j \in told'[t] :
            j \in DOMAIN Links(t) /\ addrs[t][j] # {}
      /\ \A t \in Sides : daemon'[t] = "connected" => told'[t] = told[t]
  <2>1. CASE UNCHANGED told
    BY <2>1 DEF TypeOK, ToldHasAddress
  <2>2. ASSUME NEW j \in DOMAIN Links(s), addrs[s][j] # {}, daemon' # daemon,
               told' = [told EXCEPT ![s] = @ \cup {j}]
        PROVE  <1>4!1 /\ <1>4!2 /\ <1>4!3
    <3>1. told' = [t \in Sides |-> IF t = s THEN told[s] \cup {j} ELSE told[t]]
      BY <2>2 DEF TypeOK
    <3>2. told'[s] = told[s] \cup {j} /\ \A t \in Sides \ {s} : told'[t] = told[t]
      BY <3>1
    <3>3. <1>4!1
      BY <3>1
    <3>4. ASSUME NEW t \in Sides, NEW k \in told'[t]
          PROVE  k \in DOMAIN Links(t) /\ addrs[t][k] # {}
      <4>1. k \in told[t] \/ (t = s /\ k = j)
        BY <3>2, <3>4
      <4>2. \A x \in told[t] : x \in DOMAIN Links(t) /\ addrs[t][x] # {}
        BY DEF TypeOK, ToldHasAddress
      <4> QED
        BY <2>2, <4>1, <4>2
    <3>5. \A t \in Sides : daemon'[t] = "connected" => told'[t] = told[t]
      BY <1>3, <2>2, <3>2
    <3> QED
      BY <3>3, <3>4, <3>5
  <2> QED
    BY <2>1, <2>2
<1>5. /\ faults' \in 0..MaxFaults /\ losses' \in 0..MaxLosses /\ stops' \in 0..MaxStops
  BY LimitsType
<1>6. TypeOK'
  BY <1>1, <1>2, <1>3, <1>4, <1>5 DEF TypeOK
<1>7. NeverBoth'
  BY <1>1 DEF NeverBoth
<1>8. InSetIP'
  <2> SUFFICES ASSUME NEW t \in Sides, NEW d \in Calls
               PROVE  /\ h'[t][d].step \in {"check", "set"} => h'[t][d].at \in Candidates(t)
                      /\ h'[t][d].step = "set" => addrs[t][h'[t][d].at] # {"own"}
    BY <1>1 DEF InSetIP
  <2>1. CASE t = s /\ d = c
    <3>1. h'[t][d].step = step /\ h'[t][d].at = i
      BY <1>2, <2>1
    <3> QED
      BY <2>1, <3>1
  <2>2. CASE t # s \/ d # c
    <3>1. h'[t][d] = h[t][d]
      BY <1>2, <2>2
    <3> QED
      BY <3>1 DEF InSetIP
  <2> QED
    BY <2>1, <2>2
<1>9. ToldHasAddress'
  BY <1>4 DEF ToldHasAddress
<1>10. CarrierNotTold'
  BY <1>1, <1>3, <1>4 DEF CarrierNotTold
<1> QED
  BY <1>6, <1>7, <1>8, <1>9, <1>10

(* AddrAdd that works: the PF had no address at all, so the operator was   *)
(* not told to unset it.                                                   *)
LEMMA SetsAddress ==
    ASSUME ChannelInv, NEW s \in Sides, NEW c \in Calls, At(s, c, "set"),
           ChannelIp(s) \notin addrs[s][h[s][c].at], Works,
           addrs' = [addrs EXCEPT ![s][h[s][c].at] = @ \cup {ChannelIp(s)}],
           Return(s, c, "connected"), UNCHANGED <<site, awaited, told>>
    PROVE  ChannelInv'
<1> USE DEF ChannelInv
<1>1. \A t : Links(t)' = Links(t) /\ Candidates(t)' = Candidates(t)
  BY SiteStays
<1>2. PICK i \in Candidates(s) : i = h[s][c].at /\ i \in DOMAIN Links(s)
  BY CandidatesAreLinks DEF InSetIP, At
<1>3. addrs[s][i] = {}
  BY <1>2 DEF InSetIP, At, NeverBoth
<1>4. i \notin told[s]
  BY <1>3 DEF ToldHasAddress
<1>5. ChannelIp(s) \in Addresses
  BY ChannelIpType
<1>6. PICK A \in SUBSET Addresses : A = {ChannelIp(s)} /\ SetAddrs(s, i, A)
  <2>1. SetAddrs(s, i, {ChannelIp(s)})
    BY <1>2, <1>3 DEF SetAddrs
  <2> QED
    BY <1>5, <2>1
<1>7. /\ addrs' = [t \in Sides |-> addrs'[t]]
      /\ \A t \in Sides : addrs'[t] \in [DOMAIN Links(t)' -> SUBSET Addresses]
      /\ addrs'[s][i] = A
      /\ \A t \in Sides \ {s} : addrs'[t] = addrs[t]
      /\ \A j \in DOMAIN Links(s) \ {i} : addrs'[s][j] = addrs[s][j]
  <2>1. TypeOK /\ UNCHANGED site /\ i \in DOMAIN Links(s)
    BY <1>2
  <2> HIDE DEF ChannelInv
  <2> QED
    BY <1>6, <2>1, AddrsType
<1>8. /\ Goto(s, c, "free", 1)
      /\ daemon' \in [Sides -> {"idle", "waiting", "connected"}]
      /\ \A t \in Sides \ {s} : daemon'[t] = daemon[t]
  BY ReturnType
<1>9. /\ h' = [t \in Sides |-> h'[t]]
      /\ \A t \in Sides : h'[t] \in [Calls -> [step : Steps, at : 1..(Len(Links(t)') + 1)]]
      /\ h'[s][c].step = "free"
      /\ \A t \in Sides, d \in Calls : (t # s \/ d # c) => h'[t][d] = h[t][d]
  <2>1. "free" \in Steps /\ 1 \in 1..(Len(Links(s)) + 1)
    BY LinksType DEF Steps, TypeOK
  <2>2. h'[s][c] = [step |-> "free", at |-> 1]
    BY <1>8, <2>1, GotoType
  <2> QED
    BY <1>8, <2>1, <2>2, GotoType
<1>10. TypeOK'
  BY <1>1, <1>7, <1>8, <1>9, LimitsType DEF TypeOK
<1>11. NeverBoth'
  BY <1>1, <1>6, <1>7 DEF NeverBoth
<1>12. InSetIP'
  <2>1. ASSUME NEW t \in Sides, NEW d \in Calls, h'[t][d].step \in {"check", "set"}
        PROVE  h[t][d] = h'[t][d] /\ h'[t][d].at \in Candidates(t)
    BY <1>9, <2>1 DEF InSetIP
  <2>2. ASSUME NEW t \in Sides, NEW d \in Calls, h'[t][d].step = "set"
        PROVE  addrs'[t][h'[t][d].at] # {"own"}
    <3>1. h[t][d] = h'[t][d] /\ h[t][d].at \in DOMAIN Links(t)
      BY <2>1, <2>2, CandidatesAreLinks
    <3>2. addrs[t][h[t][d].at] # {"own"}
      BY <2>2, <3>1 DEF InSetIP
    <3>3. ChannelIp(s) # "own"
      BY ChannelIpType
    <3> QED
      BY <1>6, <1>7, <3>1, <3>2, <3>3
  <2> QED
    BY <1>1, <2>1, <2>2 DEF InSetIP
<1>13. ToldHasAddress'
  <2> SUFFICES ASSUME NEW t \in Sides, NEW j \in told[t] PROVE addrs'[t][j] # {}
    BY DEF ToldHasAddress
  <2>1. j \in DOMAIN Links(t) /\ addrs[t][j] # {}
    BY DEF TypeOK, ToldHasAddress
  <2> QED
    BY <1>4, <1>7, <2>1
<1>14. CarrierNotTold'
  <2> SUFFICES ASSUME NEW t \in Sides, daemon'[t] = "connected"
               PROVE  \E j \in Candidates(t) \ told[t] : addrs'[t][j] = {ChannelIp(t)}
    BY <1>1 DEF CarrierNotTold
  <2>1. CASE t = s
    BY <1>2, <1>4, <1>6, <1>7, <2>1
  <2>2. CASE t # s
    <3>1. PICK j \in Candidates(t) \ told[t] : addrs[t][j] = {ChannelIp(t)}
      BY <1>8, <2>2 DEF CarrierNotTold
    <3> QED
      BY <1>7, <2>2, <3>1, CandidatesAreLinks
  <2> QED
    BY <2>1, <2>2
<1> QED
  BY <1>10, <1>11, <1>12, <1>13, <1>14

(* The operator unsets the addresses of a PF that no connected daemon      *)
(* relies on.                                                              *)
LEMMA Unsets ==
    ASSUME ChannelInv, NEW s \in Sides, Unset(s)
    PROVE  ChannelInv'
<1> USE DEF ChannelInv
<1>1. \A t : Links(t)' = Links(t) /\ Candidates(t)' = Candidates(t)
  BY SiteStays DEF Unset
<1>2. PICK i \in told[s] : /\ addrs' = [addrs EXCEPT ![s][i] = {}]
                           /\ told' = [told EXCEPT ![s] = @ \ {i}]
                           /\ UNCHANGED <<site, daemon, awaited, h, limits>>
  BY DEF Unset
<1>3. i \in DOMAIN Links(s)
  BY DEF TypeOK
<1>4. /\ addrs' = [t \in Sides |-> addrs'[t]]
      /\ \A t \in Sides : addrs'[t] \in [DOMAIN Links(t)' -> SUBSET Addresses]
      /\ addrs'[s][i] = {}
      /\ \A t \in Sides \ {s} : addrs'[t] = addrs[t]
      /\ \A j \in DOMAIN Links(s) \ {i} : addrs'[s][j] = addrs[s][j]
  <2>1. SetAddrs(s, i, {}) /\ {} \in SUBSET Addresses /\ UNCHANGED site
    BY <1>2 DEF SetAddrs
  <2> QED
    BY <1>3, <2>1, AddrsType
<1>5. /\ told' = [t \in Sides |-> told'[t]]
      /\ told'[s] = told[s] \ {i}
      /\ \A t \in Sides \ {s} : told'[t] = told[t]
  BY <1>2 DEF TypeOK
<1>6. TypeOK'
  BY <1>1, <1>2, <1>4, <1>5 DEF TypeOK, limits
<1>7. NeverBoth'
  BY <1>1, <1>4 DEF NeverBoth, TypeOK
<1>8. InSetIP'
  <2> SUFFICES ASSUME NEW t \in Sides, NEW d \in Calls
               PROVE  /\ h[t][d].step \in {"check", "set"} => h[t][d].at \in Candidates(t)
                      /\ h[t][d].step = "set" => addrs'[t][h[t][d].at] # {"own"}
    BY <1>1, <1>2 DEF InSetIP
  <2>1. h[t][d].step \in {"check", "set"} =>
            h[t][d].at \in Candidates(t) /\ h[t][d].at \in DOMAIN Links(t)
    BY CandidatesAreLinks DEF InSetIP
  <2>2. h[t][d].step = "set" => addrs[t][h[t][d].at] # {"own"}
    BY DEF InSetIP
  <2> QED
    BY <1>4, <2>1, <2>2
<1>9. ToldHasAddress'
  <2> SUFFICES ASSUME NEW t \in Sides, NEW j \in told'[t] PROVE addrs'[t][j] # {}
    BY DEF ToldHasAddress
  <2>1. j \in told[t] /\ (t = s => j # i)
    BY <1>5
  <2>2. j \in DOMAIN Links(t) /\ addrs[t][j] # {}
    BY <2>1 DEF TypeOK, ToldHasAddress
  <2> QED
    BY <1>4, <2>1, <2>2
<1>10. CarrierNotTold'
  <2> SUFFICES ASSUME NEW t \in Sides, daemon[t] = "connected"
               PROVE  \E j \in Candidates(t) \ told'[t] : addrs'[t][j] = {ChannelIp(t)}
    BY <1>1, <1>2 DEF CarrierNotTold
  <2>1. PICK j \in Candidates(t) \ told[t] : addrs[t][j] = {ChannelIp(t)}
    BY DEF CarrierNotTold
  <2>2. j \in DOMAIN Links(t) /\ j \notin told'[t] /\ (t = s => j # i)
    BY <1>5, CandidatesAreLinks
  <2> QED
    BY <1>4, <2>1, <2>2
<1> QED
  BY <1>6, <1>7, <1>8, <1>9, <1>10

(* Nothing happens.                                                        *)
LEMMA Stutters ==
    ASSUME ChannelInv, UNCHANGED vars
    PROVE  ChannelInv'
BY DEF vars, limits, ChannelInv, TypeOK, NeverBoth, InSetIP, ToldHasAddress,
       CarrierNotTold, Links, Candidates

(* One step per action.                                                    *)
LEMMA ChannelInvStep ==
    ASSUME ChannelInv, [Next]_vars
    PROVE  ChannelInv'
<1>1. TypeOK /\ site \in Sites
  BY DEF ChannelInv, TypeOK
<1>2. \A s \in Sides : 1 \in 1..(Len(Links(s)) + 1)
  BY <1>1, LinksType
<1>3. ASSUME NEW s \in Sides, NEW c \in Calls, NEW m \in BOOLEAN, InitCall(s, c, m)
      PROVE  ChannelInv'
  <2>1. CASE m = (s = "ipu")
    <3>1. /\ Goto(s, c, "filter", 1) /\ "filter" \in Steps
          /\ daemon' = [daemon EXCEPT ![s] = "waiting"]
          /\ awaited' = [awaited EXCEPT ![s] = c]
          /\ UNCHANGED <<site, addrs, told>> /\ Works
      BY <1>3, <2>1 DEF InitCall, Works, Steps
    <3>2. awaited' \in [Sides -> Calls]
      BY <1>1, <3>1 DEF TypeOK
    <3> QED
      BY <1>2, <3>1, <3>2, MovesOn
  <2>2. CASE m # (s = "ipu")
    <3>1. UNCHANGED vars
      BY <1>3, <2>2 DEF InitCall, vars
    <3> QED
      BY <3>1, Stutters
  <2> QED
    BY <2>1, <2>2
<1>4. ASSUME NEW s \in Sides, NEW c \in Calls, HandlerStep(s, c)
      PROVE  ChannelInv'
  <2> DEFINE i == h[s][c].at
  <2>1. i \in 1..(Len(Links(s)) + 1) /\ awaited \in [Sides -> Calls]
    BY <1>1 DEF TypeOK
  <2>2. {"free", "filter", "select", "check", "set"} \subseteq Steps
    BY DEF Steps
  <2>3. \A result : Return(s, c, result) => Goto(s, c, "free", 1)
    BY DEF Return
  <2>4. CASE GetFilteredPFs(s, c)
    BY <1>2, <2>1, <2>2, <2>3, <2>4, MovesOn DEF GetFilteredPFs
  <2>5. CASE GetCommPf(s, c)
    <3>1. i \in DOMAIN Links(s) => i + 1 \in 1..(Len(Links(s)) + 1)
      BY <1>1, LinksType
    <3>2. Candidates(s) \subseteq DOMAIN Links(s)
      BY CandidatesAreLinks
    <3> QED
      BY <1>2, <2>1, <2>2, <2>3, <2>5, <3>1, <3>2, MovesOn DEF GetCommPf
  <2>6. CASE CheckAddr(s, c)
    <3>1. i \in Candidates(s) /\ i \in DOMAIN Links(s)
      BY <2>6, CandidatesAreLinks DEF CheckAddr, At, ChannelInv, InSetIP
    <3>2. addrs[s][i] = {} => addrs[s][i] # {"own"}
      OBVIOUS
    <3> QED
      BY <1>2, <2>1, <2>2, <2>3, <2>6, <3>1, <3>2, MovesOn DEF CheckAddr
  <2>7. CASE AddrAdd(s, c)
    BY <1>2, <2>1, <2>2, <2>3, <2>7, MovesOn, SetsAddress DEF AddrAdd
  <2> QED
    BY <1>4, <2>4, <2>5, <2>6, <2>7 DEF HandlerStep
<1>5. ASSUME NEW s \in Sides, Forget(s)
      PROVE  ChannelInv'
  <2>1. /\ daemon' = [daemon EXCEPT ![s] = "idle"]
        /\ UNCHANGED <<site, addrs, awaited, h, told, faults, stops>>
        /\ losses' \in 0..MaxLosses
    BY <1>1, <1>5, LimitsAssumption DEF Forget, TypeOK
  <2>2. \A t \in Sides : daemon'[t] = "connected" => daemon[t] = "connected"
    BY <1>1, <2>1 DEF TypeOK
  <2>3. TypeOK'
    BY <1>1, <2>1 DEF TypeOK, Links
  <2>4. NeverBoth' /\ InSetIP' /\ ToldHasAddress'
    BY <2>1 DEF ChannelInv, NeverBoth, InSetIP, ToldHasAddress, Links, Candidates
  <2>5. CarrierNotTold'
    BY <2>1, <2>2 DEF ChannelInv, CarrierNotTold, Links, Candidates
  <2> QED
    BY <2>3, <2>4, <2>5 DEF ChannelInv
<1>6. ASSUME NEW s \in Sides, Restart(s)
      PROVE  ChannelInv'
  <2>1. /\ h' = [h EXCEPT ![s] = [c \in Calls |-> [step |-> "free", at |-> 1]]]
        /\ UNCHANGED <<site, addrs, awaited, told, faults, losses>>
        /\ stops' \in 0..MaxStops
    BY <1>1, <1>6, LimitsAssumption DEF Restart, TypeOK
  <2>2. /\ daemon' \in [Sides -> {"idle", "waiting", "connected"}]
        /\ \A t \in Sides : daemon'[t] = "connected" => daemon[t] = "connected"
    BY <1>1, <1>6 DEF Restart, TypeOK
  <2>3. \A t \in Sides, c \in Calls :
            h'[t][c] = h[t][c] \/ (t = s /\ h'[t][c].step = "free")
    BY <1>1, <2>1 DEF TypeOK
  <2>4. /\ h' = [t \in Sides |-> h'[t]]
        /\ h'[s] \in [Calls -> [step : Steps, at : 1..(Len(Links(s)) + 1)]]
        /\ \A t \in Sides \ {s} : h'[t] = h[t]
    BY <1>1, <1>2, <2>1 DEF TypeOK, Steps
  <2>5. TypeOK'
    BY <1>1, <2>1, <2>2, <2>4 DEF TypeOK, Links
  <2>6. NeverBoth' /\ ToldHasAddress'
    BY <2>1 DEF ChannelInv, NeverBoth, ToldHasAddress, Links
  <2>7. InSetIP'
    BY <2>1, <2>3, SiteStays DEF ChannelInv, InSetIP
  <2>8. CarrierNotTold'
    BY <2>1, <2>2, SiteStays DEF ChannelInv, CarrierNotTold
  <2> QED
    BY <2>5, <2>6, <2>7, <2>8 DEF ChannelInv
<1>7. CASE UNCHANGED vars
  BY <1>7, Stutters
<1> QED
  BY <1>3, <1>4, <1>5, <1>6, <1>7, Unsets DEF Next, Settled

(* Every state of the two plugins and their daemons is well typed.         *)
THEOREM TypeCorrect == Spec => []TypeOK
<1>1. ChannelInv /\ [Next]_vars => ChannelInv'
  BY ChannelInvStep
<1>2. ChannelInv => TypeOK
  BY DEF ChannelInv
<1> QED
  BY ChannelInvInit, <1>1, <1>2, PTL DEF Spec

(* A daemon that Init has answered has its channel, whatever handlers of   *)
(* earlier calls still do, whatever the operator unsets on their account,  *)
(* and whatever else has failed or was restarted.                          *)
THEOREM ConnectedDaemonHasChannel == Spec => []ConnectedMeansSet
<1>1. ChannelInv /\ [Next]_vars => ChannelInv'
  BY ChannelInvStep
<1>2. ChannelInv => ConnectedMeansSet
  <2> SUFFICES ASSUME ChannelInv, NEW s \in Sides, daemon[s] = "connected"
               PROVE  Carriers(s) \cap Candidates(s) # {}
    BY DEF ConnectedMeansSet
  <2>1. PICK i \in Candidates(s) : addrs[s][i] = {ChannelIp(s)}
    BY DEF ChannelInv, CarrierNotTold
  <2> QED
    BY <2>1, CandidatesAreLinks DEF Carriers
<1> QED
  BY ChannelInvInit, <1>1, <1>2, PTL DEF Spec
-----------------------------------------------------------------------------
(* What getCommPf chooses as long as no call fails: on the host the first  *)
(* candidate, on the IPU one that had no address of its own.               *)
Chosen(s, i) ==
    /\ i \in Candidates(s)
    /\ s = "host" => \A j \in Candidates(s) : i <= j
    /\ s = "ipu" => ~Links(s)[i].own

(* Handlers of setIP, and the channel's address, are at chosen PFs only;   *)
(* the search on the host has passed no candidate; the IPU's PFs that had  *)
(* an address keep it, and the operator is not told to unset it.           *)
OnlyChosen ==
    /\ \A s \in Sides : \A i \in DOMAIN Links(s) :
          addrs[s][i] = {ChannelIp(s)} => Chosen(s, i)
    /\ \A s \in Sides, c \in Calls :
          h[s][c].step \in {"check", "set"} => Chosen(s, h[s][c].at)
    /\ \A c \in Calls :
          h["host"][c].step = "select" => \A j \in Candidates("host") : h["host"][c].at <= j
    /\ \A i \in DOMAIN Links("ipu") : Links("ipu")[i].own => addrs["ipu"][i] = {"own"}
    /\ \A i \in told["ipu"] : ~Links("ipu")[i].own

ChosenInv == ChannelInv /\ (faults = 0 => OnlyChosen)

(* The IPU has one PF for the channel that is free, as getCommPf assumes:  *)
(* of two with its vport id the first one has an address.                  *)
OneFreePf ==
    \A x \in Sites : \A i, j \in DOMAIN x["ipu"].links :
        LET l == x["ipu"].links
            free(k) == isPF(l[k]) /\ l[k].octet = VportId("ipu") /\ ~l[k].own
        IN  free(i) /\ free(j) => i = j

(* One PF of a side is chosen.                                             *)
LEMMA ChosenIsUnique ==
    ASSUME OneFreePf, site \in Sites, NEW s \in Sides, NEW i, NEW j, Chosen(s, i), Chosen(s, j)
    PROVE  i = j
<1>1. i \in 1..Len(Links(s)) /\ j \in 1..Len(Links(s)) /\ Len(Links(s)) \in Nat
  BY LinksType, CandidatesAreLinks DEF Chosen
<1>2. CASE s = "host"
  <2>1. i <= j /\ j <= i
    BY <1>2 DEF Chosen
  <2> QED
    BY <1>1, <2>1
<1>3. CASE s = "ipu"
  BY <1>3 DEF Chosen, OneFreePf, Candidates, Links
<1> QED
  BY <1>2, <1>3 DEF Sides

(* Chosen depends on the site only.                                        *)
LEMMA ChosenStays ==
    ASSUME UNCHANGED site
    PROVE  \A s, i : Chosen(s, i)' <=> Chosen(s, i)
BY SiteStays DEF Chosen

LEMMA ChosenInvInit == Init => ChosenInv
<1> SUFFICES ASSUME Init PROVE OnlyChosen
  BY ChannelInvInit DEF ChosenInv
<1>1. \A s \in Sides : ChannelIp(s) # "own"
  BY ChannelIpType
<1> QED
  BY <1>1 DEF Init, OnlyChosen, Sides

(* A step of a handler that keeps to the chosen PFs.                       *)
LEMMA KeepsToChosen ==
    ASSUME ChannelInv, OnlyChosen, NEW s \in Sides, NEW c \in Calls,
           NEW step \in Steps, NEW i \in 1..(Len(Links(s)) + 1), Goto(s, c, step, i),
           step \in {"check", "set"} => Chosen(s, i),
           (step = "select" /\ s = "host") => \A j \in Candidates(s) : i <= j,
           UNCHANGED site,
           \/ UNCHANGED addrs
           \/ \E k : Chosen(s, k) /\ SetAddrs(s, k, {ChannelIp(s)}),
           \/ UNCHANGED told
           \/ \E k : Chosen(s, k) /\ told' = [told EXCEPT ![s] = @ \cup {k}]
    PROVE  OnlyChosen'
<1>1. /\ \A t : Links(t)' = Links(t) /\ Candidates(t)' = Candidates(t)
      /\ \A t, k : Chosen(t, k)' <=> Chosen(t, k)
  BY SiteStays, ChosenStays
<1>2. TypeOK
  BY DEF ChannelInv
<1>3. /\ h'[s][c] = [step |-> step, at |-> i]
      /\ \A t \in Sides, d \in Calls : (t # s \/ d # c) => h'[t][d] = h[t][d]
  BY <1>2, GotoType
<1>4. h'[s][c].step = step /\ h'[s][c].at = i
  BY <1>3
<1>5. \A t \in Sides : \A k \in DOMAIN Links(t) :
          \/ addrs'[t][k] = addrs[t][k]
          \/ t = s /\ Chosen(s, k) /\ addrs'[t][k] = {ChannelIp(t)}
  <2>1. CASE UNCHANGED addrs
    BY <2>1
  <2>2. ASSUME NEW k, Chosen(s, k), SetAddrs(s, k, {ChannelIp(s)})
        PROVE  <1>5
    <3>1. k \in DOMAIN Links(s) /\ {ChannelIp(s)} \in SUBSET Addresses
      BY <2>2, CandidatesAreLinks, ChannelIpType DEF Chosen
    <3>2. /\ addrs'[s][k] = {ChannelIp(s)}
          /\ \A t \in Sides \ {s} : addrs'[t] = addrs[t]
          /\ \A j \in DOMAIN Links(s) \ {k} : addrs'[s][j] = addrs[s][j]
      BY <1>2, <2>2, <3>1, AddrsType
    <3> QED
      BY <2>2, <3>2
  <2> QED
    BY <2>1, <2>2
<1>6. \A k \in told'["ipu"] : k \in told["ipu"] \/ (s = "ipu" /\ Chosen(s, k))
  <2>1. told = [t \in Sides |-> told[t]] /\ "ipu" \in Sides
    BY <1>2 DEF TypeOK, Sides
  <2>2. ASSUME NEW k, Chosen(s, k), told' = [told EXCEPT ![s] = @ \cup {k}]
        PROVE  <1>6
    <3>1. told'["ipu"] = IF s = "ipu" THEN told["ipu"] \cup {k} ELSE told["ipu"]
      BY <2>1, <2>2
    <3> QED
      BY <2>2, <3>1
  <2> QED
    BY <2>2
<1>7. \A t \in Sides : \A k \in DOMAIN Links(t) :
          addrs'[t][k] = {ChannelIp(t)} => Chosen(t, k)
  BY <1>5 DEF OnlyChosen
<1>8. \A t \in Sides, d \in Calls : h'[t][d].step \in {"check", "set"} => Chosen(t, h'[t][d].at)
  <2> TAKE t \in Sides, d \in Calls
  <2>1. CASE t = s /\ d = c
    BY <1>4, <2>1
  <2>2. CASE t # s \/ d # c
    <3>1. h'[t][d] = h[t][d]
      BY <1>3, <2>2
    <3> QED
      BY <3>1 DEF OnlyChosen
  <2> QED
    BY <2>1, <2>2
<1>9. \A d \in Calls : h'["host"][d].step = "select" =>
          \A j \in Candidates("host") : h'["host"][d].at <= j
  <2> TAKE d \in Calls
  <2>1. CASE s = "host" /\ d = c
    BY <1>4, <2>1
  <2>2. CASE s # "host" \/ d # c
    <3>1. h'["host"][d] = h["host"][d]
      BY <1>3, <2>2 DEF Sides
    <3> QED
      BY <3>1 DEF OnlyChosen
  <2> QED
    BY <2>1, <2>2
<1>10. \A k \in DOMAIN Links("ipu") : Links("ipu")[k].own => addrs'["ipu"][k] = {"own"}
  BY <1>5 DEF OnlyChosen, Chosen, Sides
<1>11. \A k \in told'["ipu"] : ~Links("ipu")[k].own
  BY <1>6 DEF OnlyChosen, Chosen
<1> QED
  BY <1>1, <1>7, <1>8, <1>9, <1>10, <1>11 DEF OnlyChosen

(* One step per action; with no failed call so far, none fails now.        *)
LEMMA ChosenInvStep ==
    ASSUME ChosenInv, [Next]_vars
    PROVE  ChosenInv'
<1>1. ChannelInv /\ ChannelInv' /\ TypeOK /\ site \in Sites
  BY ChannelInvStep DEF ChosenInv, ChannelInv, TypeOK
<1>2. faults' = 0 => faults = 0
  <2>1. UNCHANGED faults \/ faults' = faults + 1
    <3>1. CASE UNCHANGED vars
      BY <3>1 DEF vars, limits
    <3>2. ASSUME NEW s \in Sides, NEW c \in Calls, HandlerStep(s, c)
          PROVE  <2>1
      BY <3>2 DEF HandlerStep, GetFilteredPFs, GetCommPf, CheckAddr, AddrAdd,
                  Works, Fails, limits
    <3>3. ASSUME NEW s \in Sides, NEW c \in Calls, NEW m \in BOOLEAN, InitCall(s, c, m)
          PROVE  <2>1
      BY <3>3 DEF InitCall, limits
    <3>4. ASSUME NEW s \in Sides, Forget(s) \/ Restart(s) \/ Unset(s)
          PROVE  <2>1
      BY <3>4 DEF Forget, Restart, Unset, limits
    <3> QED
      BY <3>1, <3>2, <3>3, <3>4 DEF Next, Settled
  <2> QED
    BY <1>1, <2>1 DEF TypeOK
<1> SUFFICES ASSUME faults = 0, OnlyChosen, faults' = 0 PROVE OnlyChosen'
  BY <1>1, <1>2 DEF ChosenInv
<1>3. ~Fails
  BY DEF Fails
<1>4. \A s \in Sides : 1 \in 1..(Len(Links(s)) + 1)
  BY <1>1, LinksType
<1>5. {"free", "filter", "select", "check", "set"} \subseteq Steps
  BY DEF Steps
<1>6. CASE UNCHANGED vars
  BY <1>6, SiteStays, ChosenStays DEF vars, OnlyChosen
<1>7. ASSUME NEW s \in Sides, NEW c \in Calls, NEW m \in BOOLEAN, InitCall(s, c, m)
      PROVE  OnlyChosen'
  <2>1. CASE UNCHANGED h
    BY <1>7, <2>1, SiteStays, ChosenStays DEF InitCall, OnlyChosen
  <2>2. CASE Goto(s, c, "filter", 1)
    BY <1>1, <1>4, <1>5, <1>7, <2>2, KeepsToChosen DEF InitCall
  <2> QED
    BY <1>7, <2>1, <2>2 DEF InitCall
<1>8. ASSUME NEW s \in Sides, NEW c \in Calls, HandlerStep(s, c)
      PROVE  OnlyChosen'
  <2> DEFINE i == h[s][c].at
  <2>1. i \in 1..(Len(Links(s)) + 1)
    BY <1>1 DEF TypeOK
  <2>2. \A result : Return(s, c, result) => Goto(s, c, "free", 1)
    BY DEF Return
  <2>3. CASE GetFilteredPFs(s, c)
    <3>1. \A j \in Candidates(s) : 1 <= j
      BY <1>1, LinksType, CandidatesAreLinks
    <3> QED
      BY <1>1, <1>3, <1>4, <1>5, <2>2, <2>3, <3>1, KeepsToChosen DEF GetFilteredPFs
  <2>4. CASE GetCommPf(s, c)
    <3>1. CASE Return(s, c, "idle")
      BY <1>1, <1>4, <1>5, <2>2, <2>4, <3>1, KeepsToChosen DEF GetCommPf
    <3>2. CASE i \in DOMAIN Links(s) /\ Goto(s, c, "select", i + 1) /\ (s = "host" => i \notin Candidates(s))
      <4>1. i + 1 \in 1..(Len(Links(s)) + 1)
        BY <1>1, <3>2, LinksType
      <4>2. s = "host" => \A j \in Candidates(s) : i + 1 <= j
        <5> SUFFICES ASSUME s = "host", NEW j \in Candidates(s) PROVE i + 1 <= j
          OBVIOUS
        <5>1. i <= j /\ i # j
          BY <2>4, <3>2 DEF GetCommPf, At, OnlyChosen
        <5>2. j \in 1..Len(Links(s)) /\ Len(Links(s)) \in Nat
          BY <1>1, LinksType, CandidatesAreLinks
        <5> QED
          BY <2>1, <5>1, <5>2
      <4> QED
        BY <1>1, <1>5, <2>4, <3>2, <4>1, <4>2, KeepsToChosen DEF GetCommPf
    <3>3. CASE /\ i \in Candidates(s) /\ (s = "host" \/ addrs[s][i] = {})
               /\ Goto(s, c, "check", i)
      <4>1. Chosen(s, i)
        <5>1. s = "host" => \A j \in Candidates(s) : i <= j
          BY <2>4 DEF GetCommPf, At, OnlyChosen
        <5>2. s = "ipu" => ~Links(s)[i].own
          BY <3>3, CandidatesAreLinks DEF OnlyChosen
        <5> QED
          BY <3>3, <5>1, <5>2 DEF Chosen
      <4> QED
        BY <1>1, <1>5, <2>1, <2>4, <3>3, <4>1, KeepsToChosen DEF GetCommPf
    <3> QED
      BY <1>3, <2>4, <3>1, <3>2, <3>3, CandidatesAreLinks DEF GetCommPf
  <2>5. CASE CheckAddr(s, c)
    <3>1. Chosen(s, i)
      BY <2>5 DEF CheckAddr, At, OnlyChosen
    <3> QED
      BY <1>1, <1>3, <1>4, <1>5, <2>1, <2>2, <2>5, <3>1, KeepsToChosen DEF CheckAddr
  <2>6. CASE AddrAdd(s, c)
    <3>1. Chosen(s, i) /\ i \in DOMAIN Links(s)
      BY <2>6, CandidatesAreLinks DEF AddrAdd, At, OnlyChosen, Chosen
    <3>2. CASE UNCHANGED addrs
      BY <1>1, <1>3, <1>4, <1>5, <2>2, <2>6, <3>2, KeepsToChosen DEF AddrAdd
    <3>3. CASE /\ ChannelIp(s) \notin addrs[s][i]
               /\ addrs' = [addrs EXCEPT ![s][i] = @ \cup {ChannelIp(s)}]
      <4>1. addrs[s][i] = {}
        BY <1>1, <2>6, <3>1, <3>3 DEF AddrAdd, At, ChannelInv, NeverBoth, InSetIP
      <4>2. SetAddrs(s, i, {ChannelIp(s)})
        BY <3>3, <4>1 DEF SetAddrs
      <4> QED
        BY <1>1, <1>3, <1>4, <1>5, <2>2, <2>6, <3>1, <4>2, KeepsToChosen DEF AddrAdd
    <3> QED
      BY <1>3, <2>6, <3>2, <3>3 DEF AddrAdd
  <2> QED
    BY <1>8, <2>3, <2>4, <2>5, <2>6 DEF HandlerStep
<1>9. ASSUME NEW s \in Sides, Forget(s)
      PROVE  OnlyChosen'
  BY <1>9, SiteStays, ChosenStays DEF Forget, OnlyChosen
<1>10. ASSUME NEW s \in Sides, Restart(s)
       PROVE  OnlyChosen'
  <2>1. \A t \in Sides, c \in Calls :
            h'[t][c] = h[t][c] \/ h'[t][c].step = "free"
    BY <1>1, <1>10 DEF Restart, TypeOK
  <2> QED
    BY <1>10, <2>1, SiteStays, ChosenStays DEF Restart, OnlyChosen, Sides
<1>11. ASSUME NEW s \in Sides, Unset(s)
       PROVE  OnlyChosen'
  <2>1. PICK i \in told[s] : /\ addrs' = [addrs EXCEPT ![s][i] = {}]
                             /\ told' = [told EXCEPT ![s] = @ \ {i}]
                             /\ UNCHANGED <<site, h>>
    BY <1>11 DEF Unset
  <2>2. i \in DOMAIN Links(s)
    BY <1>1 DEF TypeOK
  <2>3. /\ addrs'[s][i] = {}
        /\ \A t \in Sides \ {s} : addrs'[t] = addrs[t]
        /\ \A j \in DOMAIN Links(s) \ {i} : addrs'[s][j] = addrs[s][j]
    <3>1. SetAddrs(s, i, {}) /\ {} \in SUBSET Addresses /\ UNCHANGED site
      BY <2>1 DEF SetAddrs
    <3> QED
      BY <1>1, <2>2, <3>1, AddrsType
  <2>4. \A t \in Sides : \A j \in DOMAIN Links(t) :
            addrs'[t][j] = addrs[t][j] \/ (t = s /\ j = i /\ addrs'[t][j] = {})
    BY <2>3
  <2>5. \A k \in told'["ipu"] : k \in told["ipu"]
    BY <1>1, <2>1 DEF TypeOK
  <2>6. s = "ipu" => ~Links(s)[i].own
    BY DEF OnlyChosen
  <2>7. \A k \in DOMAIN Links("ipu") : Links("ipu")[k].own => addrs'["ipu"][k] = {"own"}
    BY <2>4, <2>6 DEF OnlyChosen, Sides
  <2>8. \A t \in Sides : \A j \in DOMAIN Links(t) :
            addrs'[t][j] = {ChannelIp(t)} => Chosen(t, j)
    BY <2>4 DEF OnlyChosen
  <2>9. \A k \in told'["ipu"] : ~Links("ipu")[k].own
    BY <2>5 DEF OnlyChosen
  <2> QED
    BY <2>1, <2>7, <2>8, <2>9, SiteStays, ChosenStays DEF OnlyChosen
<1> QED
  BY <1>6, <1>7, <1>8, <1>9, <1>10, <1>11 DEF Next, Settled

(* As long as no call fails, Init gives the channel's address to one PF of *)
(* its side only and to none that has another address, however many calls  *)
(* interleave, are repeated after a lost answer or are cut off by a        *)
(* restart, provided that the IPU has one free PF for it.                  *)
THEOREM ChannelHasOneCarrier == OneFreePf => (Spec => []OneCarrier)
<1> SUFFICES ASSUME OneFreePf PROVE Spec => []OneCarrier
  OBVIOUS
<1>1. ChosenInv /\ [Next]_vars => ChosenInv'
  BY ChosenInvStep
<1>2. ChosenInv => OneCarrier
  <2> SUFFICES ASSUME ChosenInv, faults = 0, NEW s \in Sides, NEW i \in Carriers(s)
               PROVE  /\ \A j \in Carriers(s) : i = j
                      /\ addrs[s][i] = {ChannelIp(s)}
    BY DEF OneCarrier
  <2>1. \A j \in Carriers(s) : addrs[s][j] = {ChannelIp(s)} /\ Chosen(s, j)
    BY ChannelIpType DEF ChosenInv, ChannelInv, NeverBoth, Carriers, OnlyChosen
  <2>2. site \in Sites
    BY DEF ChosenInv, ChannelInv, TypeOK
  <2> QED
    BY <2>1, <2>2, ChosenIsUnique
<1> QED
  BY ChosenInvInit, <1>1, <1>2, PTL DEF Spec
============================================================================
