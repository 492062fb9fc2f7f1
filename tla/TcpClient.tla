----------------------------- MODULE TcpClient -----------------------------
(***************************************************************************)
(* The TCP client endpoint (src/src/impl/tcpcli.h) with the pieces of the  *)
(* event loop, the timer and the address resolver it drives.               *)
(*                                                                         *)
(* A client walks a list of peer addresses.  Everything it does happens in *)
(* callbacks of one single-threaded epoll loop: the bits of an event of    *)
(* its socket, its timer, its resolver, and the Avahi group and service    *)
(* callbacks.  The model keeps the exact control of those callbacks; an    *)
(* address is an opaque value, a file descriptor is the state of the       *)
(* socket behind it.                                                       *)
(***************************************************************************)
EXTENDS Integers, Sequences

CONSTANTS
  Addr,       \* peer socket addresses
  Zeroconf,   \* does IOLoopSvc::zeroconf() return an object
  MaxList,    \* bound: length of the address list
  MaxFaults   \* bound: callbacks in which system calls fail for no cause of the peer

ASSUME TcpClientAssumption ==
  /\ Zeroconf \in BOOLEAN
  /\ MaxList \in Nat \ {0}
  /\ MaxFaults \in Nat

VARIABLES
  mode,       \* "new" before init_yaml, then "host" (init) or "service" (init_service)
  addresses,  \* _addresses
  addr,       \* _addr: an index of addresses, Len(addresses)+1 is end()
  sock,       \* what _fd stands for; "none" is -1, "bare" is a socket outside the epoll set
  edge,       \* the edge-triggered readiness of sock has not been reported yet
  fetched,    \* bits of this object's event, returned by epoll_wait, not yet dispatched
  evs,        \* bits of the event being dispatched that are still to be handled
  stream,     \* the stream behind the weak _client: "own" holds the number of _fd, "stale" another one
  canon,      \* canon_peer_name: empty, the name of the service, or that of its endpoint
  timer,      \* _timer: "off" (no timerfd), "idle", "armed", "lost" (arming failed)
  shot,       \* _timer's callback: "connect" or "peer" (connect_to_peer_retry)
  resolv,     \* _resolv: "idle", "query" (getaddrinfo_a pending), "retry" (5 s timer), "lost"
  group,      \* _group, the registration of this endpoint; "dead": no callback of it will come
  crashed,    \* the end() iterator was dereferenced or incremented
  up,         \* environment: addresses whose peer accepts connections
  faults      \* callbacks with failing system calls so far

vars == <<mode, addresses, addr, sock, edge, fetched, evs, stream, canon,
          timer, shot, resolv, group, crashed, up, faults>>

Bits == {"IN", "OUT", "ERR", "HUP", "RDHUP"}
Polled == {"syn", "est", "eof", "dead"}   \* socket states inside the epoll set
Canon == {"empty", "service", "endpoint"}
Names == Canon \ {"empty"}

TypeOK ==
  /\ mode \in {"new", "host", "service"}
  /\ addresses \in Seq(Addr)
  /\ addr \in 1..(Len(addresses) + 1)
  /\ sock \in {"none", "bare"} \cup Polled
  /\ edge \in BOOLEAN
  /\ fetched \in SUBSET Bits
  /\ evs \in SUBSET Bits
  /\ stream \in {"none", "own", "stale"}
  /\ canon \in Canon
  /\ timer \in {"off", "idle", "armed", "lost"}
  /\ shot \in {"connect", "peer"}
  /\ resolv \in {"idle", "query", "retry", "lost"}
  /\ group \in {"none", "dead", "creating", "registering", "established", "idle"}
  /\ crashed \in BOOLEAN
  /\ up \in SUBSET Addr
  /\ faults \in 0..MaxFaults

Init ==
  /\ mode = "new" /\ addresses = <<>> /\ addr = 1
  /\ sock = "none" /\ edge = FALSE /\ fetched = {} /\ evs = {}
  /\ stream = "none" /\ canon = "empty"
  /\ timer = "off" /\ shot = "connect" /\ resolv = "idle" /\ group = "none"
  /\ crashed = FALSE /\ up \in SUBSET Addr /\ faults = 0

-----------------------------------------------------------------------------
(* Helpers: system-call failures, the stream's descriptor, the two clocks. *)

\* In this callback some system call fails (f) or none does.
Fault(f) ==
  /\ f => faults < MaxFaults
  /\ faults' = IF f THEN faults + 1 ELSE faults

\* Values a result can take only when a call failed.
OnFault(f, S) == IF f THEN S ELSE {}

\* A new descriptor may get the number a live stream remembers, or another one.
StreamNumbers == IF stream = "none" THEN {"none"} ELSE {"own", "stale"}

\* close(_fd): a stream that remembered its number now names no socket of ours.
ClosedStream == IF stream = "own" /\ sock # "none" THEN "stale" ELSE stream

\* Timer::arm_oneshoot from state t; only the creation of the timerfd can fail.
ArmTimer(t, f) ==
  timer' \in {"armed"} \cup OnFault(f /\ t \in {"off", "lost"}, {"lost"})

\* AddressResolver::requery
Requery(f) == resolv' \in {"query"} \cup OnFault(f, {"lost"})

\* What a caller of connect() has changed before the call.
Now == [timer |-> timer, group |-> group, closed |-> FALSE]

\* Mutant of Open: a timer started with the attempt and never stopped.
MutOpenWatchdog(pre, f) ==
  /\ edge' = FALSE
  /\ stream' \in StreamNumbers
  /\ timer' = "armed"
  /\ sock' = "syn" /\ canon' = "empty" /\ group' = pre.group

\* create_connection for a reachable address: connect at once, or register a
\* service group first when the peer's address is a known service.  A group that
\* cannot be asked whether it is empty calls nobody.
Open(pre, f) ==
  /\ edge' = FALSE
  /\ stream' \in StreamNumbers
  /\ timer' = pre.timer
  /\ \/ sock' = "syn" /\ canon' = "empty" /\ group' = pre.group
     \/ /\ Zeroconf
        /\ sock' = "bare"
        /\ canon' \in Names
        /\ group' \in {"creating"} \cup OnFault(f, {"dead"})

CloseSocket ==
  sock' = "none" /\ edge' = FALSE /\ stream' = ClosedStream

\* Mutant of Exhausted: the assignment of begin() to _addr is forgotten.
MutExhaustedNoReset(n, pre, f) ==
  /\ addr' = Len(addresses) + 1
  /\ ArmTimer(pre.timer, f)
  /\ group' = pre.group
  /\ sock' = "none" /\ edge' = FALSE /\ stream' = ClosedStream
  /\ UNCHANGED canon

\* Every address was tried, n of them in this call: wait 3 s, start over.
\* A failed attempt closes the old socket and may leave a bare one behind.
Exhausted(n, pre, f) ==
  /\ addr' = 1
  /\ ArmTimer(pre.timer, f)
  /\ group' = pre.group
  /\ IF n = 0
       THEN /\ IF pre.closed THEN CloseSocket ELSE UNCHANGED <<sock, edge, stream>>
            /\ UNCHANGED canon
       ELSE /\ sock' \in {"none"} \cup OnFault(f, {"bare"})
            /\ edge' = FALSE
            /\ stream' \in IF sock' = "none" THEN {ClosedStream} ELSE StreamNumbers
            /\ canon' \in {"empty"} \cup OnFault(f, {canon})
                                    \cup OnFault(f /\ Zeroconf, Names)

\* connect(): walk the list from position a to the first address whose
\* connection can be started (k); the recursion of the code is the range a..k-1.
Walk(list, a, pre, f) ==
  \E k \in a..(Len(list) + 1) :
    /\ \A i \in a..(k - 1) : f \/ list[i] \notin up
    /\ \/ k > Len(list) /\ Exhausted(k - a, pre, f)
       \/ k <= Len(list) /\ addr' = k /\ Open(pre, f)

Connect(list, a, pre, f) ==
  IF list = <<>>
    THEN /\ Requery(f)
         /\ addr' = a /\ timer' = pre.timer /\ group' = pre.group
         /\ UNCHANGED <<sock, edge, stream, canon>>
    ELSE Walk(list, a, pre, f) /\ UNCHANGED resolv

-----------------------------------------------------------------------------
(* The two ways a client is configured. *)

\* init(): start resolving the host name.
InitHost ==
  /\ mode = "new"
  /\ mode' = "host"
  /\ \E f \in BOOLEAN : Fault(f) /\ Requery(f)
  /\ UNCHANGED <<addresses, addr, sock, edge, fetched, evs, stream, canon,
                 timer, shot, group, crashed, up>>

\* init_service(): watch the service; connect at once when it is known already, to
\* all its addresses.  The look-up takes the name of an endpoint for its service's.
InitService ==
  /\ Zeroconf
  /\ mode = "new"
  /\ mode' = "service"
  /\ \/ /\ canon' \in Names
        /\ UNCHANGED <<addresses, addr, sock, edge, stream, timer, resolv, group, faults>>
     \/ \E n \in 1..MaxList : \E list \in [1..n -> Addr], f \in BOOLEAN :
          Fault(f) /\ addresses' = list /\ Connect(list, 1, Now, f)
  /\ UNCHANGED <<fetched, evs, shot, crashed, up>>

-----------------------------------------------------------------------------
(* The event loop and the handlers of the socket's event. *)

Idle == ~crashed /\ evs = {}

\* Mutant of Ready: the socket is registered without EPOLLRDHUP.
MutReadyNoRdhup(s) ==
  CASE s = "est"  -> {{"OUT"}, {"IN", "OUT"}}
    [] s = "eof"  -> {{"IN", "OUT"}}
    [] s = "dead" -> {Bits \ {"RDHUP"}}
    [] OTHER      -> {}

\* What epoll reports for a socket in state s (a refused or reset one has all bits).
Ready(s) ==
  CASE s = "est"  -> {{"OUT"}, {"IN", "OUT"}}
    [] s = "eof"  -> {{"IN", "OUT", "RDHUP"}}
    [] s = "dead" -> {Bits}
    [] OTHER      -> {}

\* epoll_wait returns an event of this object, somewhere in a batch.
Poll ==
  /\ Idle /\ fetched = {} /\ edge
  /\ fetched' \in Ready(sock)
  /\ edge' = FALSE
  /\ UNCHANGED <<mode, addresses, addr, sock, evs, stream, canon, timer, shot,
                 resolv, group, crashed, up, faults>>

\* The loop reaches that event; handlers of the batch may have run before.
Dispatch ==
  /\ Idle /\ fetched # {}
  /\ evs' = fetched
  /\ fetched' = {}
  /\ UNCHANGED <<mode, addresses, addr, sock, edge, stream, canon, timer, shot,
                 resolv, group, crashed, up, faults>>

\* The bit handled next, in the order of IOLoopImpl::run.
Current(b) ==
  /\ b \in evs
  /\ b = "OUT"   => "IN" \notin evs
  /\ b = "ERR"   => evs \cap {"IN", "OUT"} = {}
  /\ b = "HUP"   => evs \cap {"IN", "OUT", "ERR"} = {}
  /\ b = "RDHUP" => evs = {"RDHUP"}
  /\ evs' = evs \ {b}

\* cli(): the live stream, or a new one that remembers _fd and is announced.
Announced == IF stream # "none" THEN stream
             ELSE IF sock = "none" THEN "stale" ELSE "own"

EpollIN ==
  /\ ~crashed /\ Current("IN")
  /\ stream' \in {stream} \cup (IF sock \in {"est", "eof"} THEN {Announced} ELSE {})
  /\ UNCHANGED <<mode, addresses, addr, sock, edge, fetched, canon, timer, shot,
                 resolv, group, crashed, up, faults>>

EpollOUT ==
  /\ ~crashed /\ Current("OUT")
  /\ stream' = Announced
  /\ UNCHANGED <<mode, addresses, addr, sock, edge, fetched, canon, timer, shot,
                 resolv, group, crashed, up, faults>>

\* error() only reads SO_ERROR.
EpollERR ==
  /\ ~crashed /\ Current("ERR")
  /\ UNCHANGED <<mode, addresses, addr, sock, edge, fetched, stream, canon, timer,
                 shot, resolv, group, crashed, up, faults>>

Crash ==
  /\ crashed' = TRUE
  /\ UNCHANGED <<addr, sock, edge, stream, canon, timer, resolv, group, faults>>

\* epollRDHUP, which epollHUP calls too: close, then go on with the next address
\* unless the peer is a named service.
PeerGone ==
  \/ /\ canon # "empty"
     /\ CloseSocket
     /\ UNCHANGED <<addr, canon, timer, resolv, group, crashed, faults>>
  \/ /\ canon = "empty"
     /\ IF addr > Len(addresses)
          THEN Crash
          ELSE /\ UNCHANGED crashed
               /\ \E f \in BOOLEAN :
                    Fault(f) /\ Connect(addresses, addr + 1, [Now EXCEPT !.closed = TRUE], f)

EpollHUP ==
  /\ ~crashed /\ Current("HUP")
  /\ PeerGone
  /\ UNCHANGED <<mode, addresses, fetched, shot, up>>

EpollRDHUP ==
  /\ ~crashed /\ Current("RDHUP")
  /\ PeerGone
  /\ UNCHANGED <<mode, addresses, fetched, shot, up>>

-----------------------------------------------------------------------------
(* Timer, resolver, Avahi callbacks: other events of the loop. *)

\* connect_to_peer_retry(): connect the bare socket, else try the next address.
\* Any other socket makes connect(2) or the epoll registration fail.
PeerRetry(pre, f) ==
  IF addr > Len(addresses)
    THEN /\ crashed' = TRUE
         /\ timer' = pre.timer /\ group' = pre.group
         /\ UNCHANGED <<addr, sock, edge, stream, canon, resolv>>
    ELSE /\ UNCHANGED crashed
         /\ \/ /\ sock = "bare" /\ sock' = "syn"
               /\ timer' = pre.timer /\ group' = pre.group
               /\ UNCHANGED <<addr, edge, stream, canon, resolv>>
            \/ /\ sock # "bare" \/ f \/ addresses[addr] \notin up
               /\ Connect(addresses, addr + 1, [pre EXCEPT !.closed = TRUE], f)

\* The client's oneshot timer fires: reconnect ...
TimerConnect ==
  /\ Idle /\ timer = "armed" /\ shot = "connect"
  /\ \E f \in BOOLEAN :
       Fault(f) /\ Connect(addresses, addr, [Now EXCEPT !.timer = "idle"], f)
  /\ UNCHANGED <<mode, addresses, fetched, evs, shot, crashed, up>>

\* ... or, 500 ms after the registration of the endpoint, connect to the peer.
TimerPeer ==
  /\ Idle /\ timer = "armed" /\ shot = "peer"
  /\ shot' = "connect"
  /\ \E f \in BOOLEAN : Fault(f) /\ PeerRetry([Now EXCEPT !.timer = "idle"], f)
  /\ UNCHANGED <<mode, addresses, fetched, evs, up>>

\* The resolver has an answer: a new list, walked from its head.
Resolved ==
  /\ Idle /\ resolv = "query" /\ mode = "host"
  /\ resolv' = "idle"
  /\ \E n \in 1..MaxList : \E list \in [1..n -> Addr], f \in BOOLEAN :
       /\ Fault(f)
       /\ addresses' = list
       /\ Walk(list, 1, Now, f)
  /\ UNCHANGED <<mode, fetched, evs, shot, crashed, up>>

\* Mutant of ResolveFailed: the error is reported, the 5 s timer not armed.
MutResolveFailedNoRetry ==
  /\ Idle /\ resolv = "query"
  /\ resolv' = "idle"
  /\ UNCHANGED <<mode, addresses, addr, sock, edge, fetched, evs, stream, canon,
                 timer, shot, group, crashed, up, faults>>

\* The query fails (always, when the client has no host name): 5 s timer.
ResolveFailed ==
  /\ Idle /\ resolv = "query"
  /\ \E f \in BOOLEAN :
       /\ Fault(f)
       /\ f \/ mode = "service"
       /\ resolv' \in {"retry"} \cup OnFault(f, {"lost"})
  /\ UNCHANGED <<mode, addresses, addr, sock, edge, fetched, evs, stream, canon,
                 timer, shot, group, crashed, up>>

ResolveAgain ==
  /\ Idle /\ resolv = "retry"
  /\ \E f \in BOOLEAN : Fault(f) /\ Requery(f)
  /\ UNCHANGED <<mode, addresses, addr, sock, edge, fetched, evs, stream, canon,
                 timer, shot, group, crashed, up>>

\* The watched service has one more address; the first one starts a connection.
SvcResolved ==
  /\ Idle /\ canon = "service" /\ Len(addresses) < MaxList
  /\ \E a \in Addr, f \in BOOLEAN :
       /\ Fault(f)
       /\ addresses' = <<a>> \o addresses
       /\ IF addresses = <<>>
            THEN Connect(<<a>>, 1, Now, f)
            ELSE /\ addr' = addr + 1
                 /\ UNCHANGED <<sock, edge, stream, canon, timer, resolv, group>>
  /\ UNCHANGED <<mode, fetched, evs, shot, crashed, up>>

\* Mutant of SvcRemoved: the list is cleared under the iterator.
MutSvcRemovedKeepsIterator ==
  /\ Idle /\ canon = "service"
  /\ CloseSocket
  /\ addresses' = <<>> /\ addr' = addr
  /\ UNCHANGED <<mode, fetched, evs, canon, timer, shot, resolv, group, crashed,
                 up, faults>>

\* The watched service is gone: close, forget the addresses.
SvcRemoved ==
  /\ Idle /\ canon = "service"
  /\ CloseSocket
  /\ addresses' = <<>> /\ addr' = 1
  /\ UNCHANGED <<mode, fetched, evs, canon, timer, shot, resolv, group, crashed,
                 up, faults>>

\* Avahi created the entry group: add the service and commit it, or, when that
\* fails, reset the group and connect without a registered name.
GroupCreated ==
  /\ Idle /\ group = "creating"
  /\ \/ /\ group' = "registering"
        /\ UNCHANGED <<addr, sock, edge, stream, canon, timer, resolv, crashed, faults>>
     \/ Fault(TRUE) /\ PeerRetry([Now EXCEPT !.group = "idle"], TRUE)
  /\ UNCHANGED <<mode, addresses, fetched, evs, shot, up>>

\* The registration is established: connect in 500 ms.
GroupEstablished ==
  /\ Idle /\ group = "registering"
  /\ group' = "established"
  /\ shot' = "peer"
  /\ \E f \in BOOLEAN : Fault(f) /\ ArmTimer(timer, f)
  /\ UNCHANGED <<mode, addresses, addr, sock, edge, fetched, evs, stream, canon,
                 resolv, crashed, up>>

\* Collision or failure of the registration, at any time: connect without it.
GroupLost ==
  /\ Idle /\ group \in {"registering", "established"}
  /\ \E f \in BOOLEAN : Fault(f) /\ PeerRetry([Now EXCEPT !.group = "idle"], f)
  /\ UNCHANGED <<mode, addresses, fetched, evs, shot, up>>

-----------------------------------------------------------------------------
(* The peer, the network, and the owner of the stream. *)

\* The kernel ends a connection attempt.
Handshake ==
  /\ ~crashed /\ sock = "syn"
  /\ sock' = IF addresses[addr] \in up THEN "est" ELSE "dead"
  /\ edge' = TRUE
  /\ UNCHANGED <<mode, addresses, addr, fetched, evs, stream, canon, timer, shot,
                 resolv, group, crashed, up, faults>>

\* Data arrive, the peer shuts down its side, or resets the connection.
PeerActs ==
  /\ ~crashed /\ sock \in {"est", "eof"}
  /\ sock' \in IF sock = "est" THEN {"est", "eof", "dead"} ELSE {"dead"}
  /\ edge' = TRUE
  /\ UNCHANGED <<mode, addresses, addr, fetched, evs, stream, canon, timer, shot,
                 resolv, group, crashed, up, faults>>

\* Peers come and go.
NetworkChanges ==
  /\ ~crashed
  /\ up' \in SUBSET Addr
  /\ UNCHANGED <<mode, addresses, addr, sock, edge, fetched, evs, stream, canon,
                 timer, shot, resolv, group, crashed, faults>>

\* The owner of the stream lets go of it.
DropStream ==
  /\ ~crashed /\ stream # "none"
  /\ stream' = "none"
  /\ UNCHANGED <<mode, addresses, addr, sock, edge, fetched, evs, canon, timer,
                 shot, resolv, group, crashed, up, faults>>

-----------------------------------------------------------------------------
Next ==
  \/ InitHost \/ InitService
  \/ Poll \/ Dispatch
  \/ EpollIN \/ EpollOUT \/ EpollERR \/ EpollHUP \/ EpollRDHUP
  \/ TimerConnect \/ TimerPeer
  \/ Resolved \/ ResolveFailed \/ ResolveAgain
  \/ SvcResolved \/ SvcRemoved
  \/ GroupCreated \/ GroupEstablished \/ GroupLost
  \/ Handshake \/ PeerActs \/ NetworkChanges \/ DropStream

Spec == Init /\ [][Next]_vars

\* The loop keeps running, timers fire, the kernel ends connection attempts and
\* the resolver answers; nothing is assumed of the peers or of Avahi.
Fairness ==
  /\ WF_vars(Poll) /\ WF_vars(Dispatch)
  /\ WF_vars(EpollIN \/ EpollOUT \/ EpollERR \/ EpollHUP \/ EpollRDHUP)
  /\ WF_vars(TimerConnect \/ TimerPeer)
  /\ WF_vars(Resolved \/ ResolveFailed) /\ WF_vars(ResolveAgain)
  /\ WF_vars(Handshake)

FairSpec == Spec /\ WF_vars(InitHost) /\ Fairness

-----------------------------------------------------------------------------
(* Properties. *)

\* Some callback of the client will run again without help from Avahi.
Awake ==
  \/ sock \in {"syn", "est"} \/ (sock \in {"eof", "dead"} /\ edge)
  \/ timer = "armed"
  \/ resolv \in {"query", "retry"}

\* Avahi has to call: a service of the name canon_peer_name comes, goes or comes back,
\* or the registration of the endpoint goes on.
AvahiCalls ==
  \/ canon = "service"
  \/ sock = "bare" /\ group \in {"creating", "registering"}

\* A clock or a registration could not be started for lack of resources: the code
\* gives up.
GaveUp == timer = "lost" \/ resolv = "lost" \/ (sock = "bare" /\ group = "dead")

\* Whenever all events of a client are handled it is connected or connecting, its
\* timer runs, its resolver is busy, or Avahi has to call it, for one of the causes
\* above.  Every early return and error path of connect, epollRDHUP and the callbacks
\* must keep this.  The one exception is dormant for good, though readme.md:15 says that
\* clients connect by name: a client without a socket that waits for the name of an
\* endpoint, which svc_resolved and svc_removed compare with the names of services.
WaitsForEndpoint == canon = "endpoint" /\ sock = "none"
NeverDormant ==
  mode # "new" /\ Idle /\ fetched = {} => Awake \/ AvahiCalls \/ GaveUp \/ WaitsForEndpoint

\* _addr is never dereferenced or incremented at end(), although epollHUP and
\* epollRDHUP both advance it for one event; the one exception is a service
\* removed during its 500 ms registration delay, when the list is empty.
NoEndDereference == crashed => Zeroconf /\ addresses = <<>>

\* With a single address and no Zeroconf the client never gives up a connection
\* that is being made or is alive: the timer, a second hang-up bit or a stale
\* event cannot tear it down, only the peer or the network ends it.
SingleAddressStable ==
  [][~Zeroconf /\ Len(addresses) = 1 /\ sock \in {"syn", "est"}
       => sock' \in {"syn", "est", "eof", "dead"}]_vars

\* When every peer stays reachable the client keeps coming back to an
\* established connection, whatever happened before.
Reconnects == <>[](up = Addr) => []<>(sock = "est" \/ GaveUp)

\* inc/endpoints.h lists on_close for TCP_CLI: once a hang-up is handled, no
\* live stream is left over a closed socket without having been told.
ClosedStreamIsTold == Idle /\ fetched = {} /\ sock = "none" => stream = "none"
=============================================================================
