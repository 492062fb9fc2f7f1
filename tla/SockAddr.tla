----------------------------- MODULE SockAddr -----------------------------
(***************************************************************************)
(* Socket addresses and the addresses of the host's interfaces             *)
(* (src/src/sockaddr.cpp).  An address is a record; an IP is a member of a *)
(* small set; the interfaces are what getifaddrs(3) lists.                 *)
(***************************************************************************)
EXTENDS Integers, FiniteSets, TLC

CONSTANTS
  Literal,     \* the texts that are IP literals, each with its address: [text -> [fam, ip]]
  Interfaces   \* what getifaddrs lists: a set of [name, idx, fam, ip, brd]

\* An address without _impl, and one of length 0, bind and send nowhere.
Empty == [fam |-> "unspec", ip |-> "none", port |-> 0]
At(fam, ip, port) == [fam |-> fam, ip |-> ip, port |-> port]

\* init from text.  INADDR_LOOPBACK is in host order, the field in network order.
Named ==
  [text \in {"", "<loopback>", "<broadcast>", "<any6>", "<loopback6>"} |->
     IF text = "<loopback>" THEN <<"v4", "1.0.0.127">>
     ELSE IF text = "<broadcast>" THEN <<"v4", "255.255.255.255">>
     ELSE IF text = "<loopback6>" THEN <<"v6", "::1">>
     ELSE <<IF text = "" THEN "v4" ELSE "v6", "any">>]
Parse(text, port) ==
  IF text \in DOMAIN Named THEN At(Named[text][1], Named[text][2], port)
  ELSE IF text \in DOMAIN Literal THEN At(Literal[text].fam, Literal[text].ip, port)
  ELSE Empty

\* A text that is no address leaves a zero-length address, and for an error what errno
\* happens to hold: 0, which callers take for success, or not.
ParseFails(text, errno) == Parse(text, 0) = Empty /\ errno

HasLen(a) == a # Empty
SetPort(a, port) == IF HasLen(a) THEN [a EXCEPT !.port = port] ELSE a
\* Mutant of AnyAddr: the port is not taken over.
MutAnyAddr(fam, port) == IF fam \in {"v4", "v6"} THEN At(fam, "any", 0) ELSE Empty
AnyAddr(fam, port) == IF fam \in {"v4", "v6"} THEN At(fam, "any", port) ELSE Empty

\* The interface that has the address, or the broadcast address; an IPv6 address is
\* compared with the start of a sockaddr and never found.
Itf(a, broadcast) ==
  LET S == {e \in Interfaces : e.fam = a.fam /\ e.fam = "v4"
                                /\ a.ip = IF broadcast THEN e.brd ELSE e.ip} IN
  IF S = {} THEN "" ELSE (CHOOSE e \in S : TRUE).name

\* if_nametoindex of a name, or else if_indextoname of a number; "" is no interface.
ItfFromStr(text) ==
  LET S == {e \in Interfaces : e.idx = text} IN
  IF \E e \in Interfaces : e.name = text THEN text
  ELSE IF S = {} THEN "" ELSE (CHOOSE e \in S : TRUE).name

\* SockAddrList::interface: no entry is of both families.
InterfaceList(name, fam) ==
  {e \in Interfaces : e.fam = fam /\ e.fam = "v4" /\ e.fam = "v6" /\ e.name = name}
\* SockAddrList::broadcast does not look at its port, and its addresses have port 0.
BroadcastAt(e, port) == At("v4", e.brd, 0)
BroadcastList(name) == {e \in Interfaces : e.fam = "v4" /\ e.name = name}

\* The one address of a list, or the wildcard address, without the port when the list
\* has several.
Local(name, fam, port) ==
  LET L == InterfaceList(name, fam) IN
  IF name = "" THEN AnyAddr(fam, 0)
  ELSE IF L = {} THEN AnyAddr(fam, port)
  ELSE IF Cardinality(L) > 1 THEN AnyAddr(fam, 0)
  ELSE LET e == CHOOSE x \in L : TRUE IN At(e.fam, e.ip, 0)
Broadcast(name, port) ==
  LET L == BroadcastList(name) IN
  IF name = "" \/ Cardinality(L) # 1 THEN AnyAddr("v4", 0)
  ELSE BroadcastAt(CHOOSE x \in L : TRUE, port)
=============================================================================
