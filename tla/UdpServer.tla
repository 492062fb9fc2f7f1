----------------------------- MODULE UdpServer -----------------------------
(***************************************************************************)
(* The UDP server endpoint (src/src/impl/udpsvr.h): which address it binds *)
(* in its three modes, the service it registers for it, and the socket it  *)
(* makes anew after a collision of service names.                          *)
(***************************************************************************)
EXTENDS UdpSocket

CONSTANTS
  ServerConfig,  \* configurations: [mode, address, itf, fam, port]
  MaxListed      \* bound: how often the server gets into the loop's list

ASSUME UdpServerAssumption ==
  \A c \in ServerConfig : c.mode \in {"unicast", "broadcast", "multicast"}

VARIABLE adv  \* the address of the registered service, Empty while there is none

(* The ports given when a configuration asks for none, two so that a second bind may
   get another one: the kernel's choice, or define_port's, which tries the ports of its
   range until one is not claimed by a service.  One setup uses at most one of them. *)
GivenPort == {20000, 40000}
Bound(a, given) == IF a.port = 0 THEN SetPort(a, given) ELSE a

\* setup_fd: the address in the configuration, the one chosen (it goes to the service),
\* and the one the socket gets, Empty when bind refuses it: the socket is one of IPv4.
Asked(c) == IF c.address = "" THEN Empty ELSE Parse(c.address, c.port)
Chosen(c, given) ==
  LET itf == ItfFromStr(c.itf) IN
  CASE c.mode = "unicast" ->
         LET a == IF HasLen(Asked(c)) \/ itf = "" THEN Asked(c) ELSE Local(itf, c.fam, c.port) IN
         Bound(IF HasLen(a) THEN a ELSE AnyAddr(c.fam, c.port), given)
    [] c.mode = "broadcast" ->
         LET a == IF HasLen(Asked(c)) \/ itf = "" THEN Asked(c) ELSE Broadcast(itf, c.port)
             b == IF HasLen(a) THEN a ELSE Parse("<broadcast>", c.port) IN
         IF c.port = 0 THEN SetPort(b, given) ELSE b
    [] c.mode = "multicast" -> IF c.port = 0 THEN SetPort(Asked(c), given) ELSE Asked(c)
Listens(c, given) ==
  LET chosen == Chosen(c, given)
      a == IF c.mode = "multicast" THEN AnyAddr(chosen.fam, chosen.port) ELSE chosen IN
  IF a.fam = "v4" THEN Bound(a, given) ELSE Empty

\* The old descriptor is closed before poll()->del, which fails for -1.
NewSocket(f, given) ==
  LET a == Listens(cfg, given) IN
  /\ queue' = <<>> /\ room' = TRUE
  /\ \/ HasLen(a) /\ sock' = "open" /\ addr' = a
     \/ (f \/ ~HasLen(a)) /\ sock' = "none" /\ addr' = Empty

\* The group: the client of Avahi may not be running, which is only reported; a service
\* that is refused resets the group; a commit may fail; nothing is added to a group that
\* could not be reset.  The service there was has been withdrawn by the collision.
Register(given) ==
  \/ group' = "registering" /\ adv' = Chosen(cfg, given)
  \/ group' \in {"none", "idle"} /\ (group # "none" => group' = "idle") /\ adv' = Empty

\* init, also from on_collision: after a failure nothing tries again.
Begin(f) ==
  \/ ~zeroconf /\ cfg.port = 0 /\ UNCHANGED <<poll, queue, edge, room, sock, addr, group, adv>>
  \/ /\ (zeroconf \/ cfg.port # 0)
     /\ \E given \in GivenPort : LET p == Close(poll, {Ep}) IN
          \/ NewSocket(f, given) /\ sock' = "none" /\ poll' = p /\ edge' = FALSE /\ adv' = Empty
             /\ group' = IF group = "none" THEN "none" ELSE "idle"
          \/ /\ NewSocket(f, given) /\ sock' = "open"
             /\ IF zeroconf
                  THEN Register(given) /\ poll' = p /\ edge' = FALSE
                  ELSE /\ UNCHANGED <<group, adv>>
                       /\ \/ poll' = Add(p, Ep) /\ edge' = TRUE
                          \/ f /\ poll' = p /\ edge' = FALSE

ServerInit ==
  /\ UdpInit /\ kind = "server" /\ zeroconf \in BOOLEAN /\ cfg \in ServerConfig /\ adv = Empty

ServerStarts ==
  /\ mode = "new" /\ mode' = "up" /\ Idle
  /\ \E f \in BOOLEAN : Fault(f) /\ Begin(f)
  /\ UNCHANGED <<batch, event, loop, kind, zeroconf, cfg, clientVars, mute>>

\* Registered: listen, on a socket that reports what it has at once.
ServerEstablished ==
  /\ UpIdle /\ group = "registering" /\ group' = "established"
  /\ \E f \in BOOLEAN : Fault(f) /\ AddSocket(f)
  /\ UNCHANGED <<batch, event, loop, kind, zeroconf, cfg, mode, addr, sock, queue, room, clientVars,
                 mute, adv>>

\* A collision of names, also after the service was established: everything anew.
ServerCollision ==
  /\ UpIdle /\ group \in {"registering", "established"} /\ poll.listed[Ep] < MaxListed
  /\ \E f \in BOOLEAN : Fault(f) /\ Begin(f)
  /\ UNCHANGED <<batch, event, loop, kind, zeroconf, cfg, mode, clientVars, mute>>

\* A failure of the group is reported, nothing else.
ServerFailure ==
  /\ UpIdle /\ group \in {"registering", "established"} /\ group' = "idle" /\ adv' = Empty
  /\ UNCHANGED <<loopVars, kind, zeroconf, cfg, mode, addr, sock, queue, edge, room, clientVars,
                 mute, faults>>

\* Mutant of ServiceRemoved: the client is told, and stays in the map.
MutServiceRemovedKeepsEntry(n) ==
  /\ UpIdle /\ zeroconf
  /\ \E c \in entry[n] :
       /\ Alive(c) /\ told' = [told EXCEPT ![c] = @ + 1] /\ mute' = [mute EXCEPT ![c] = "unset"]
       /\ \E l \in {"shut", "dead"} : life' = [life EXCEPT ![c] = l]
  /\ UNCHANGED <<loopVars, epVars, queue, edge, room, entry, got, hand, faults, adv>>

\* svc_removed of a sender's service: its client is told and leaves the map.
ServiceRemoved(n) ==
  /\ UpIdle /\ zeroconf
  /\ \E c \in entry[n] :
       /\ Alive(c) /\ told' = [told EXCEPT ![c] = @ + 1] /\ mute' = [mute EXCEPT ![c] = "unset"]
       /\ \E l \in {"shut", "dead"} : life' = [life EXCEPT ![c] = l]
  /\ entry' = [entry EXCEPT ![n] = {}]
  /\ UNCHANGED <<loopVars, epVars, queue, edge, room, got, hand, faults, adv>>

\* Mutant of ServerOUT: the clients stay as they are.
MutServerOUTNothing ==
  Current(Ep, "OUT") /\ Handled(Ep, "OUT") /\ UNCHANGED <<poll, batch, loop, udpVars, adv>>

\* epollOUT: every living client may be written to again.
ServerOUT ==
  /\ Current(Ep, "OUT") /\ Handled(Ep, "OUT")
  /\ mute' = Writeable(mute, {c \in Client : Alive(c) /\ \E n \in Name : c \in entry[n]})
  /\ UNCHANGED <<poll, batch, loop, epVars, queue, edge, room, clientVars, faults, adv>>

ClientWriteFails(c) ==
  life[c] = "open" /\ \E why \in {"full", "refused"} : WriteFails(c, why) /\ UNCHANGED adv

ServerNext ==
  \/ ServerStarts \/ ServerEstablished \/ ServerCollision \/ ServerFailure
  \/ (\E n \in Name : ServiceRemoved(n)) \/ ServerOUT
  \/ (\E c \in Client : ClientWriteFails(c))
  \/ (UdpCommon /\ UNCHANGED adv)
=============================================================================
