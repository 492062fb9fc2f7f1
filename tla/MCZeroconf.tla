---- MODULE MCZeroconf ----
(* A service with an endpoint name seen on two interfaces under one address, a service  *)
(* that claims a port, registered here, and one at the same address.                    *)
EXTENDS Zeroconf

CONSTANTS a1, a2, b1, c1, sa, sb, sc, x, y, ea
MCRecord == {a1, a2, b1, c1}
MCSvcOf == [r \in MCRecord |-> CASE r \in {a1, a2} -> sa [] r = b1 -> sb [] r = c1 -> sc]
MCAddrOf == [r \in MCRecord |-> IF r \in {a1, a2} THEN x ELSE y]
MCSvc == {sa, sb, sc}
MCAddr == {x, y}
MCEndpoint == {ea}
MCEndpointOf == [s \in MCSvc |-> IF s = sa THEN ea ELSE NoName]
MCClaims == {sb}
====
