--------------------------- MODULE MCBridgePort ---------------------------
(* Instances of BridgePort for TLC.                                        *)
EXTENDS BridgePort, TLC

Message(name, mac, bridges) == [name |-> name, mac |-> mac, bridges |-> bridges]

(* Two VFs, with nothing in common.                                        *)
PortA == Message("a", <<0, 8, 1>>, <<2>>)
PortB == Message("b", <<0, 9, 1>>, <<4094>>)

(* The VF of the same index on another PF: the same VLAN under another name.*)
PortC == Message("c", <<0, 10, 1>>, <<2>>)

(* What validation refuses: an address too short or too long, VSI 0, no    *)
(* logical bridge, and VLANs next to the bounds.                           *)
Refused ==
    { Message("a", << >>, <<2>>), Message("a", <<0, 8, 1, 1, 1, 1, 1>>, <<2>>),
      Message("a", <<0, 0, 1>>, <<2>>), Message("a", <<0, 8, 1>>, << >>),
      Message("a", <<0, 8, 1>>, <<1>>), Message("a", <<0, 8, 1>>, <<4095>>) }

(* An address of one byte: no second octet to read.                        *)
OneByte == Message("a", <<8>>, <<2>>)

TwoPorts == {PortA, PortB, OneByte}
DisjointRequests == TwoPorts \cup Refused
SharedVlanRequests == {PortA, PortB, PortC}
OnePort == {PortA}

(* Handlers are interchangeable.                                           *)
CallSymmetry == Permutations(Calls)
============================================================================
