----------------------------- MODULE UdpClient -----------------------------
(***************************************************************************)
(* The UDP client endpoint (src/src/impl/udpcli.h): where it sends to in   *)
(* its four ways of being configured, and the socket it then makes, with   *)
(* or without a service registered for the port it sends from.             *)
(***************************************************************************)
EXTENDS UdpSocket

CONSTANTS
  ClientConfig,  \* configurations: [how, text, itf, port, fam]
  Service        \* what a server may publish under the name looked for: [mode, ip, port, on],
                 \* on which interface

\* init_service has no port, and takes that of the service.
ASSUME UdpClientAssumption == \A c \in ClientConfig : c.how = "service" => c.port = 0

VARIABLES
  resolv,  \* _resolv: "idle", "query" (asking, now or in 5 s), "lost"
  timer,   \* _timer: "off", "armed"
  svc      \* the service looked for: {} or a singleton

lookVars == <<resolv, timer, svc>>

\* Where the client sends to, and the family of its socket; errno says what an address
\* that cannot be parsed looks like to the caller.
To(fam, dest) == [fam |-> fam, dest |-> dest]
Nowhere == To("unspec", Empty)

\* init_broadcast.  The test of the interface's text is the wrong way round: an IP is
\* taken for an interface name, and a name, when errno is set, for an address.
BroadcastTo(c, errno) ==
  LET L == BroadcastList(ItfFromStr(c.itf)) IN
  CASE c.itf = "" -> To("v4", Parse("<broadcast>", c.port))
    [] c.itf # "" /\ ParseFails(c.itf, errno) ->
         To(Local(Itf(Empty, TRUE), "v4", 0).fam, Empty)
    [] c.itf # "" /\ ~ParseFails(c.itf, errno) ->
         To("v4", IF Cardinality(L) = 1 THEN BroadcastAt(CHOOSE e \in L : TRUE, c.port)
                  ELSE Parse("<broadcast>", c.port))

\* init_multicast, with the same test.
MulticastTo(c, errno) ==
  LET a == Parse(c.text, c.port) IN
  CASE ParseFails(c.text, errno) -> Nowhere
    [] ~ParseFails(c.text, errno) /\ c.itf = "" -> To(AnyAddr(a.fam, 0).fam, a)
    [] ~ParseFails(c.text, errno) /\ c.itf # "" ->
         IF ParseFails(c.itf, errno) \/ ItfFromStr(c.itf) = "" THEN Nowhere
         ELSE To(Local(c.itf, a.fam, 0).fam, a)

\* from_service_descr: the address in the record of a broadcast or multicast server,
\* with the port of its service.
ServiceTo(s) == To("v4", At("v4", s.ip, s.port))

\* create: the local address only gives the family.  With Zeroconf the socket is bound
\* to the wildcard address of the destination's family, and the group takes over: an
\* Avahi that is not running, and a service it refuses, let the socket into the loop
\* at once; a failed commit is only reported.
Create(to, f) ==
  /\ addr' = to.dest
  /\ \/ /\ f \/ to.fam = "unspec" \/ (zeroconf /\ ~HasLen(to.dest))
        /\ UNCHANGED <<poll, edge, mute, sock, group>>
     \/ /\ to.fam # "unspec" /\ sock' = "open"
        /\ \/ /\ ~zeroconf /\ UNCHANGED group
              /\ poll' = Add(poll, Ep) /\ edge' = TRUE /\ mute' = Writeable(mute, {Ep})
           \/ /\ zeroconf /\ HasLen(to.dest)
              /\ \/ group' = "none" /\ AddSocket(f) /\ UNCHANGED mute
                 \/ group' = "registering" /\ UNCHANGED <<poll, edge, mute>>
                 \/ group' = "idle" /\ AddSocket(f) /\ mute' = Writeable(mute, {Ep})
                 \/ f /\ group' = "idle" /\ UNCHANGED <<poll, edge, mute>>

NoCreate == UNCHANGED <<addr, poll, edge, mute, sock, group>>

ClientInit ==
  /\ UdpInit /\ kind = "client" /\ zeroconf \in BOOLEAN /\ cfg \in ClientConfig
  /\ resolv = "idle" /\ timer = "off" /\ svc = {}

\* init, init_broadcast, init_multicast, init_service.
ClientStarts ==
  /\ mode = "new" /\ mode' = "up" /\ Idle
  /\ \E f, errno \in BOOLEAN :
       /\ Fault(f)
       /\ \/ cfg.how = "host" /\ ParseFails(cfg.text, errno) /\ Create(Nowhere, f) /\ UNCHANGED resolv
          \/ /\ cfg.how = "host" /\ ~ParseFails(cfg.text, errno) /\ NoCreate
             /\ resolv' \in {"query"} \cup OnFault(f, {"lost"})
          \/ cfg.how = "broadcast" /\ Create(BroadcastTo(cfg, errno), f) /\ UNCHANGED resolv
          \/ cfg.how = "multicast" /\ UNCHANGED resolv
               /\ LET to == MulticastTo(cfg, errno) IN
                  IF to = Nowhere THEN NoCreate ELSE Create(to, f)
          \/ cfg.how = "service" /\ UNCHANGED resolv
               /\ IF zeroconf /\ svc # {} THEN \E s \in svc : Create(ServiceTo(s), f) ELSE NoCreate
  /\ UNCHANGED <<batch, event, loop, kind, zeroconf, cfg, queue, room, clientVars, timer, svc>>

\* The resolver's answer: the first address; no answer means another query, or none.
ClientResolved ==
  /\ UpIdle /\ resolv = "query"
  /\ \E f \in BOOLEAN :
       /\ Fault(f)
       /\ \/ resolv' = "idle" /\ Create(To("v4", At("v4", "host", cfg.port)), f)
          \/ f /\ resolv' = "lost" /\ NoCreate
  /\ UNCHANGED <<batch, event, loop, kind, zeroconf, cfg, mode, queue, room, clientVars, timer, svc>>

\* A service of the name appears (svc_resolved), or another in its place: a client that
\* has a socket keeps its destination, and one told an interface takes no notice of the
\* others, but only here (not in init_service).  One that goes (svc_removed) is not looked
\* at.  A name that is the alias of a service that is gone is not known to service_info,
\* and nothing changes.
ServiceAppears(s) ==
  /\ Idle /\ mode \in {"new", "up"} /\ cfg.how = "service" /\ svc # {s} /\ svc' = {s}
  /\ \E f \in BOOLEAN :
       /\ Fault(f)
       /\ IF mode = "up" /\ zeroconf /\ sock = "none" /\ ItfFromStr(cfg.itf) \in {"", s.on}
            THEN Create(ServiceTo(s), f) ELSE NoCreate
  /\ UNCHANGED <<batch, event, loop, kind, zeroconf, cfg, mode, queue, room, clientVars, resolv,
                 timer>>
ServiceGoes ==
  Idle /\ svc # {} /\ svc' = {} /\ UNCHANGED <<loopVars, udpVars, resolv, timer>>

\* Registered: 500 ms for the service to become known, then listen.
ClientEstablished ==
  /\ UpIdle /\ group = "registering" /\ group' = "established"
  /\ \E f \in BOOLEAN : Fault(f) /\ timer' \in {"armed"} \cup OnFault(f, {"off"})
  /\ UNCHANGED <<loopVars, kind, zeroconf, cfg, mode, addr, sock, queue, edge, room, clientVars, mute,
                 resolv, svc>>
TimerShoots ==
  /\ UpIdle /\ timer = "armed" /\ timer' = "off"
  /\ \E f \in BOOLEAN : Fault(f) /\ AddSocket(f)
  /\ UNCHANGED <<batch, event, loop, epVars, queue, room, clientVars, mute, resolv, svc>>

\* Mutant of Unregistered: the group is reset and the collision reported.
MutUnregisteredDeaf ==
  /\ UpIdle /\ group \in {"registering", "established"} /\ group' = "idle"
  /\ UNCHANGED <<loopVars, kind, zeroconf, cfg, mode, addr, sock, queue, edge, room, clientVars, mute,
                 faults, lookVars>>

\* on_collision and on_failure: listen, without a service; the socket may listen already.
Unregistered ==
  /\ UpIdle /\ group \in {"registering", "established"} /\ group' = "idle"
  /\ \E f \in BOOLEAN : Fault(f) /\ AddSocket(f)
  /\ UNCHANGED <<batch, event, loop, kind, zeroconf, cfg, mode, addr, sock, queue, room, clientVars,
                 mute, lookVars>>

\* epollOUT: the endpoint itself may be written to.
ClientOUT ==
  /\ Current(Ep, "OUT") /\ Handled(Ep, "OUT") /\ mute' = Writeable(mute, {Ep})
  /\ UNCHANGED <<poll, batch, loop, epVars, queue, edge, room, clientVars, faults, lookVars>>

ClientNext ==
  \/ ClientStarts \/ ClientResolved \/ (\E s \in Service : ServiceAppears(s)) \/ ServiceGoes
  \/ ClientEstablished \/ TimerShoots \/ Unregistered \/ ClientOUT
  \/ (\E why \in {"full", "refused"} : WriteFails(Ep, why) /\ UNCHANGED lookVars)
  \/ (UdpCommon /\ UNCHANGED lookVars)
=============================================================================
