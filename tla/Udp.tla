------------------------------- MODULE Udp -------------------------------
(***************************************************************************)
(* A UDP endpoint in its loop, a server or a client as its kind says, and  *)
(* what it promises: nothing is left unread, no socket is deaf, writers    *)
(* are woken, and the socket has the port that the configuration says.     *)
(***************************************************************************)
EXTENDS UdpServer, UdpClient

Init ==
  \/ ServerInit /\ resolv = "idle" /\ timer = "off" /\ svc = {}
  \/ ClientInit /\ adv = Empty
Next ==
  \/ kind = "server" /\ ServerNext /\ UNCHANGED lookVars
  \/ kind = "client" /\ ClientNext /\ UNCHANGED adv
vars == <<loopVars, udpVars, adv, lookVars>>
Spec == Init /\ [][Next]_vars

TypeOK ==
  /\ UdpTypeOK /\ resolv \in {"idle", "query", "lost"} /\ timer \in {"off", "armed"}
  /\ svc \in SUBSET Service

-----------------------------------------------------------------------------
\* An event-driven endpoint leaves nothing in its socket that it will not be called
\* for: when no event is due, the queue of a polled socket is empty.  The exception: a
\* datagram without payload, which FIONREAD cannot tell from an empty queue, stays at
\* the head for good, and keeps all that follow from being read.
NothingLeftUnread ==
  /\ UpIdle /\ batch = None /\ ~edge /\ Ep \in poll.set
  => queue = <<>> \/ Head(queue) = "zero"

\* An endpoint with a socket hears its peers, or waits for the answer of Avahi or for
\* the timer that will let it.  The exceptions are faults, and a server whose service
\* is refused or whose Avahi is not running, which is only reported: an Avahi that comes
\* up later and has the group created (client_create) is left out.
ServerUnregistered == kind = "server" /\ zeroconf /\ group \in {"none", "idle"}
NeverDeaf ==
  UpIdle /\ sock = "open" =>
    Ep \in poll.set \/ group = "registering" \/ timer = "armed" \/ faults > 0 \/ ServerUnregistered

\* A writer kept from writing for lack of room gets its writeable() when there is room:
\* an EPOLLOUT is then due, unless the socket is out of the loop.
WritableWhenRoom ==
  mode = "up" /\ Running =>
    \A w \in Writer : mute[w] = "full" /\ (w = Ep \/ \E n \in Name : w \in entry[n] /\ Alive(w)) =>
      ~room \/ edge \/ Ep \notin poll.set \/ "OUT" \in batch[Ep] \cup event[Ep]

\* A socket uses the configured port, and a registered service announces the port the
\* server listens on, over every path through address parsing and interface lists, and
\* after a collision that makes the socket anew.  It speaks of ports only: not of the
\* interface or the address.  The exception: the broadcast address of an interface,
\* which comes without the port.
ByInterface ==
  \/ kind = "server" /\ cfg.mode = "broadcast" /\ ItfFromStr(cfg.itf) # "" /\ ~HasLen(Asked(cfg))
  \/ kind = "client" /\ cfg.how = "broadcast" /\ cfg.itf # ""
PortAsConfigured ==
  sock = "open" /\ ~ByInterface =>
    /\ cfg.port # 0 => addr.port = cfg.port
    /\ kind = "server" /\ HasLen(adv) => adv.port = addr.port

\* The clients keep the promises of endpoints.h, whoever ends them: svc_removed, the
\* destructor, or their owner.
Contract == INSTANCE ClientContract
KeepsContract == Contract!Spec
=============================================================================
