------------------------------ MODULE PortMap ------------------------------
(* What an answered request does to the set of ports that the bridge-port  *)
(* service stores, seen from outside: a port that is present is kept by a  *)
(* create, and a delete of an absent one does nothing.                     *)

Served(stored, m) ==
    IF m.op = "delete" THEN {x \in stored : x.name # m.name}
    ELSE IF \E x \in stored : x.name = m.name THEN stored
    ELSE stored \cup {[name |-> m.name, mac |-> m.mac]}
=============================================================================
