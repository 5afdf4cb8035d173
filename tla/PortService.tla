---------------------------- MODULE PortService ----------------------------
(***************************************************************************)
(* What the bridge-port service promises its clients: a map of ports in    *)
(* which a create or a delete takes effect at once, between the request    *)
(* and its answer, or not at all, which is answered with an error.  A      *)
(* restart empties the map and drops the requests that are under way.      *)
(* SriovCni relies on it; BridgePort implements it.                        *)
(***************************************************************************)
EXTENDS PortMap

CONSTANTS
    Clients,        \* who may have a request under way
    Messages,       \* requests: operation, name and MAC address
    NoMessage       \* no request under way

VARIABLES
    stored,         \* the ports: name and MAC address
    pending,        \* per client: the request under way
    answer          \* per client: "ok" or "err"

Init ==
    /\ stored = {}
    /\ pending = [c \in Clients |-> NoMessage]
    /\ answer = [c \in Clients |-> "ok"]

Request(c, m) ==
    /\ pending[c] = NoMessage
    /\ pending' = [pending EXCEPT ![c] = m]
    /\ answer' = [answer EXCEPT ![c] = "ok"]
    /\ UNCHANGED stored

Serve(c) ==
    /\ pending[c] # NoMessage
    /\ stored' = Served(stored, pending[c])
    /\ pending' = [pending EXCEPT ![c] = NoMessage]
    /\ UNCHANGED answer

Refuse(c) ==
    /\ pending[c] # NoMessage
    /\ pending' = [pending EXCEPT ![c] = NoMessage]
    /\ answer' = [answer EXCEPT ![c] = "err"]
    /\ UNCHANGED stored

(* Answered without delay: a request that is refused, or one that has      *)
(* nothing to do.                                                          *)
AnswerAtOnce(c, m) ==
    /\ pending[c] = NoMessage
    /\ \/ answer' = [answer EXCEPT ![c] = "err"]
       \/ Served(stored, m) = stored /\ answer' = [answer EXCEPT ![c] = "ok"]
    /\ UNCHANGED <<stored, pending>>

Restart ==
    /\ stored' = {}
    /\ pending' = [c \in Clients |-> NoMessage]
    /\ answer' = [c \in Clients |-> "ok"]

Next ==
    \/ \E c \in Clients :
          \/ \E m \in Messages : Request(c, m) \/ AnswerAtOnce(c, m)
          \/ Serve(c) \/ Refuse(c)
    \/ Restart

Spec == Init /\ [][Next]_<<stored, pending, answer>>
=============================================================================
