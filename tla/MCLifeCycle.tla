---------------------------- MODULE MCLifeCycle ----------------------------
(* Instances of LifeCycle for TLC.                                         *)
EXTENDS LifeCycle

Link(name, octet, own) ==
    [name |-> name, device |-> "0x1452", vendor |-> "0x8086", octet |-> octet, own |-> own]
Side(links, ip4) == [links |-> links, ip4 |-> ip4]
Site(host, ipu) == [s \in Sides |-> IF s = "host" THEN host ELSE ipu]

Loopback == [name |-> "lo", device |-> "none", vendor |-> "none", octet |-> "other", own |-> TRUE]
Nic == [Link("eth0", "other", TRUE) EXCEPT !.device = "other"]

(* Links as the mocks of the tests list them, without a loopback interface.*)
(* The host: another NIC, and two PFs with the vport id 03.                *)
Host == Side(<<Nic, Link("d3", "03", FALSE), Link("e3", "03", FALSE)>>, TRUE)
(* Its PF has been given an address by somebody else.                      *)
AddressedHost == Side(<<Link("d3", "03", TRUE)>>, TRUE)
(* The IPU: the first APF, which has its address, and the one for Init.    *)
Ipu == Side(<<Link("d1", "02", TRUE), Link("d4", "other", FALSE), Link("d2", "02", FALSE)>>, TRUE)
NoIp == Side(<<Link("d2", "02", FALSE)>>, FALSE)
NoLinks == Side(<< >>, TRUE)

(* A network namespace, as in docs/deployment.md.                          *)
WithLoopback(side) == [side EXCEPT !.links = <<Loopback>> \o @]
Deployed == Site(WithLoopback(Host), WithLoopback(Ipu))

MockedSite == Site(Host, Ipu)
AllSites == {MockedSite, Site(AddressedHost, NoIp), Site(WithLoopback(Host), NoLinks)}
DeployedSites == {Deployed}
MockedSites == {MockedSite}
============================================================================
