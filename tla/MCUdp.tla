---- MODULE MCUdp ----
(* A UDP server or a UDP client endpoint, in the configurations that differ in the   *)
(* address they come to, with two senders.                                           *)
EXTENDS Udp

CONSTANTS c1, c2, n1, ep
MCClient == {c1, c2}
MCName == {n1}
MCObj == {ep}
MCSymmetry == Permutations(MCClient)

\* One interface with one broadcast address, one with two addresses.
MCLiteral == [x \in {"10.0.0.1", "224.0.0.1", "fd00::1"} |->
               [fam |-> IF x = "fd00::1" THEN "v6" ELSE "v4", ip |-> x]]
MCInterfaces ==
  { [name |-> "eth0", idx |-> "2", fam |-> "v4", ip |-> "10.0.0.1", brd |-> "10.0.0.255"],
    [name |-> "eth0", idx |-> "2", fam |-> "v6", ip |-> "fd00::1", brd |-> "none"],
    [name |-> "eth1", idx |-> "3", fam |-> "v4", ip |-> "10.1.0.1", brd |-> "10.1.0.255"],
    [name |-> "eth1", idx |-> "3", fam |-> "v4", ip |-> "10.2.0.1", brd |-> "10.2.0.255"] }

SC(m, address, itf, fam, port) ==
  [mode |-> m, address |-> address, itf |-> itf, fam |-> fam, port |-> port]
MCServerConfig ==
  { SC("unicast", "", "", "v4", 0), SC("unicast", "10.0.0.1", "", "v4", 7),
    SC("unicast", "", "eth0", "v4", 7), SC("unicast", "", "2", "v6", 7),
    SC("unicast", "not an address", "eth1", "v4", 7),
    SC("broadcast", "", "", "v4", 0), SC("broadcast", "", "eth0", "v4", 7),
    SC("broadcast", "", "3", "v4", 7), SC("broadcast", "", "no interface", "v4", 7),
    SC("broadcast", "10.0.0.1", "eth1", "v4", 0), SC("multicast", "224.0.0.1", "", "v4", 0),
    SC("multicast", "224.0.0.1", "", "v4", 7), SC("multicast", "", "", "v4", 7) }

CC(how, text, itf, port) == [how |-> how, text |-> text, itf |-> itf, port |-> port, fam |-> "v4"]
MCClientConfig ==
  { CC("host", "a host", "", 7), CC("broadcast", "", "", 7), CC("broadcast", "", "10.0.0.1", 7),
    CC("broadcast", "", "eth0", 7), CC("broadcast", "", "3", 7),
    CC("multicast", "224.0.0.1", "", 7), CC("multicast", "224.0.0.1", "eth0", 7),
    CC("multicast", "a host", "", 7), CC("service", "", "", 0), CC("service", "", "3", 0) }
MCTraffic == { SC("unicast", "10.0.0.1", "", "v4", 7), CC("service", "", "", 0) }
MCService == { [mode |-> "unicast", ip |-> "10.0.0.9", port |-> 7, on |-> "eth0"],
               [mode |-> "multicast", ip |-> "224.0.0.1", port |-> 8, on |-> "eth1"] }
====
