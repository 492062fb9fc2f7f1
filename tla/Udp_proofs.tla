----------------------------- MODULE Udp_proofs -----------------------------
(***************************************************************************)
(* Safety of the UDP server and the UDP client for every configuration,    *)
(* every table of interfaces and every set of senders.                     *)
(***************************************************************************)
EXTENDS Udp, TLAPS

\* What each kind of endpoint does not do: a server's own writer is never full, and its
\* group and its service exist with Zeroconf only; a client makes no writers but itself.
KindInv ==
  /\ kind = "server" => /\ cfg \in ServerConfig /\ mute[Ep] # "full"
                        /\ (group # "none" => zeroconf) /\ (adv # Empty => zeroconf)
  /\ kind = "client" => cfg \in ClientConfig /\ \A c \in Client : mute[c] # "full"

\* Data at the head of the queue of a polled socket have an event to come or at hand.
UnreadInv ==
  /\ mode # "gone" /\ Running /\ Ep \in poll.set /\ queue # <<>> /\ Head(queue) = "data"
  => edge \/ "IN" \in batch[Ep] \cup event[Ep]

\* Only an endpoint that is up has a socket; when it is not in the loop, somebody will
\* put it there, or one of the exceptions is the case.
HearInv ==
  sock = "open" =>
    /\ mode = "up"
    /\ Running => \/ Ep \in poll.set \/ group = "registering" \/ timer = "armed" \/ faults > 0
                  \/ ServerUnregistered

\* A writer that found no room has an EPOLLOUT to come or at hand once there is room.
WriteInv ==
  mode # "gone" /\ Running =>
    \A w \in Writer : mute[w] = "full" /\ (w = Ep \/ \E n \in Name : w \in entry[n] /\ Alive(w)) =>
      ~room \/ edge \/ Ep \notin poll.set \/ "OUT" \in batch[Ep] \cup event[Ep]

\* An open socket is at the address its configuration says, and the service registered
\* for a server is the one of the address chosen, with the same port given for both.
PlaceInv ==
  /\ kind = "server" =>
       \E given \in GivenPort :
         /\ adv \in {Empty, Chosen(cfg, given)}
         /\ sock = "open" => HasLen(Listens(cfg, given)) /\ addr = Listens(cfg, given)
  /\ kind = "client" /\ sock = "open" /\ ~ByInterface /\ cfg.port # 0 => addr.port = cfg.port

\* While the endpoint is there, the clients in its map are open or were let go of by
\* their owner; the client that a datagram is for is open until it gets it.
ClientInv ==
  /\ mode # "gone" => \A n \in Name : \A c \in entry[n] : life[c] \in {"open", "dead"}
  /\ mode # "gone" => \A m, n \in Name : \A c \in entry[m] \cap entry[n] : m = n
  /\ hand # {} => "IN" \in event[Ep]
  /\ \A c \in hand : life[c] = "open"

IInv == TypeOK /\ KindInv /\ UnreadInv /\ HearInv /\ WriteInv /\ PlaceInv /\ ClientInv

-----------------------------------------------------------------------------
(* Addresses. *)

Placed(a, port) == a = At(a.fam, a.ip, port)

LEMMA AtPlaced ==
  ASSUME NEW fam, NEW ip, NEW port
  PROVE  /\ Placed(At(fam, ip, port), port)
         /\ At(fam, ip, port).fam = fam /\ At(fam, ip, port).port = port
BY DEF At, Placed

LEMMA PlacedPort ==
  ASSUME NEW a, NEW port, Placed(a, port)
  PROVE  a.port = port
<1>1. a = At(a.fam, a.ip, port)
  BY DEF Placed
<1>2. At(a.fam, a.ip, port).port = port
  BY AtPlaced
<1> QED BY <1>1, <1>2

\* A text gives an address with the port asked for, or none.
LEMMA ParsePort ==
  ASSUME NEW text, NEW port
  PROVE  Parse(text, port) = Empty \/ Placed(Parse(text, port), port)
BY AtPlaced DEF Parse

\* The limited broadcast address is always one.
LEMMA LimitedBroadcast ==
  ASSUME NEW port
  PROVE  Placed(Parse("<broadcast>", port), port)
<1>1. "<broadcast>" \in DOMAIN Named
  BY DEF Named
<1> QED BY <1>1, AtPlaced DEF Parse

\* The wildcard address has the port asked for, and so has that of an interface, for the
\* list of its addresses is empty.
LEMMA AnyPort ==
  ASSUME NEW fam, NEW port
  PROVE  AnyAddr(fam, port) = Empty \/ Placed(AnyAddr(fam, port), port)
BY AtPlaced DEF AnyAddr

LEMMA LocalIsAny ==
  ASSUME NEW name, name # "", NEW fam, NEW port
  PROVE  Local(name, fam, port) = AnyAddr(fam, port)
<1>1. InterfaceList(name, fam) = {}
  BY DEF InterfaceList
<1> QED BY <1>1 DEF Local

\* A port is set in an address.
LEMMA SetPortResult ==
  ASSUME NEW a, NEW port, Placed(a, port), a # Empty, NEW new
  PROVE  SetPort(a, new).port = new /\ SetPort(a, new).fam = a.fam
<1>1. a = [fam |-> a.fam, ip |-> a.ip, port |-> port]
  BY DEF Placed, At
<1>2. SetPort(a, new) = [a EXCEPT !.port = new]
  BY DEF SetPort, HasLen
<1> QED BY <1>1, <1>2

LEMMA PortsGiven == \A given \in GivenPort : given # 0
BY DEF GivenPort

LEMMA ToFields ==
  ASSUME NEW fam, NEW dest
  PROVE  To(fam, dest).fam = fam /\ To(fam, dest).dest = dest
BY DEF To

\* A configuration for which a server gets a socket, other than at the broadcast address
\* of an interface.
Served(c, given) ==
  /\ c.mode \in {"unicast", "broadcast", "multicast"} /\ HasLen(Listens(c, given))
  /\ ~(c.mode = "broadcast" /\ ItfFromStr(c.itf) # "" /\ ~HasLen(Asked(c)))

\* A server that gets a socket gets it at the port of its configuration, which is the
\* one its service announces, except for the broadcast address of an interface.
LEMMA ServerPlace ==
  ASSUME NEW c, NEW given \in GivenPort, Served(c, given)
  PROVE  /\ c.port # 0 => Listens(c, given).port = c.port
         /\ Listens(c, given).port = Chosen(c, given).port
<1> DEFINE text == Asked(c)
           itf == ItfFromStr(c.itf)
<1>0. /\ c.mode \in {"unicast", "broadcast", "multicast"} /\ HasLen(Listens(c, given))
      /\ ~(c.mode = "broadcast" /\ itf # "" /\ ~HasLen(text))
  BY DEF Served
<1>1. text = Empty \/ Placed(text, c.port)
  BY ParsePort DEF Asked
<1>2. Empty.port = 0 /\ Empty.fam = "unspec" /\ ~HasLen(Empty)
  BY DEF Empty, HasLen
<1>3. CASE c.mode = "unicast"
  <2> DEFINE a == IF HasLen(text) \/ itf = "" THEN text ELSE Local(itf, c.fam, c.port)
             b == IF HasLen(a) THEN a ELSE AnyAddr(c.fam, c.port)
  <2>1. Chosen(c, given) = Bound(b, given)
    BY <1>3 DEF Chosen
  <2>2. a = Empty \/ Placed(a, c.port)
    <3>1. Local(itf, c.fam, c.port) = AnyAddr(c.fam, c.port) \/ itf = ""
      BY LocalIsAny
    <3>2. AnyAddr(c.fam, c.port) = Empty \/ Placed(AnyAddr(c.fam, c.port), c.port)
      BY AnyPort
    <3> QED BY <1>1, <3>1, <3>2
  <2>3. b = Empty \/ Placed(b, c.port)
    BY <2>2, AnyPort
  <2> HIDE DEF b
  <2>4. Listens(c, given) = IF Bound(b, given).fam = "v4" THEN Bound(Bound(b, given), given) ELSE Empty
    BY <1>3, <2>1 DEF Listens
  <2>5. Bound(b, given).fam = "v4"
    BY <1>0, <1>2, <2>4
  <2>6. b # Empty
    BY <1>2, <2>5 DEF Bound, SetPort
  <2>7. Bound(b, given).port # 0 /\ (c.port # 0 => Bound(b, given) = b) /\ b.port = c.port
    <3>1. b.port = c.port
      BY <2>3, <2>6, PlacedPort
    <3>2. Placed(b, c.port) /\ b # Empty
      BY <2>3, <2>6
    <3>3. SetPort(b, given).port = given
      BY <3>2, SetPortResult
    <3>4. given # 0
      BY PortsGiven
    <3> QED BY <3>1, <3>3, <3>4 DEF Bound
  <2> QED BY <2>1, <2>4, <2>5, <2>7 DEF Bound
<1>4. CASE c.mode = "broadcast"
  <2> DEFINE b == IF HasLen(text) THEN text ELSE Parse("<broadcast>", c.port)
  <2>1. Placed(b, c.port)
    BY <1>1, LimitedBroadcast DEF HasLen
  <2>2. Chosen(c, given) = IF c.port = 0 THEN SetPort(b, given) ELSE b
    BY <1>0, <1>4 DEF Chosen
  <2> HIDE DEF b
  <2>3. Listens(c, given) = IF Chosen(c, given).fam = "v4" THEN Bound(Chosen(c, given), given) ELSE Empty
    BY <1>4 DEF Listens
  <2>4. Chosen(c, given).fam = "v4"
    BY <1>0, <1>2, <2>3
  <2>5. Chosen(c, given).port # 0 /\ (c.port # 0 => Chosen(c, given).port = c.port)
    <3>1. CASE c.port = 0
      <4>1. b # Empty
        BY <1>2, <2>2, <2>4, <3>1 DEF SetPort
      <4>2. SetPort(b, given).port = given
        BY <2>1, <4>1, SetPortResult
      <4>3. given # 0
        BY PortsGiven
      <4> QED BY <2>2, <3>1, <4>2, <4>3
    <3>2. CASE c.port # 0
      BY <2>1, <2>2, <3>2, PlacedPort
    <3> QED BY <3>1, <3>2
  <2> QED BY <2>3, <2>4, <2>5 DEF Bound
<1>5. CASE c.mode = "multicast"
  <2>1. Chosen(c, given) = IF c.port = 0 THEN SetPort(text, given) ELSE text
    BY <1>5 DEF Chosen
  <2> HIDE DEF text
  <2> DEFINE any == AnyAddr(Chosen(c, given).fam, Chosen(c, given).port)
  <2>2. Listens(c, given) = IF any.fam = "v4" THEN Bound(any, given) ELSE Empty
    BY <1>5 DEF Listens
  <2>3. any.fam = "v4"
    BY <1>0, <1>2, <2>2
  <2>4. any.port = Chosen(c, given).port /\ Chosen(c, given).fam \in {"v4", "v6"}
    BY <1>2, <2>3 DEF AnyAddr, At
  <2>5. Chosen(c, given).port # 0 /\ (c.port # 0 => Chosen(c, given).port = c.port)
    <3>1. text # Empty
      BY <1>2, <2>1, <2>4 DEF SetPort
    <3>2. SetPort(text, given).port = given /\ text.port = c.port
      BY <1>1, <3>1, SetPortResult, PlacedPort
    <3>3. given # 0
      BY PortsGiven
    <3> QED BY <2>1, <3>2, <3>3
  <2> QED BY <2>2, <2>3, <2>4, <2>5 DEF Bound
<1> QED BY <1>0, <1>3, <1>4, <1>5

\* What a client is told to send to has the port of its configuration, or there is no
\* socket for it.
LEMMA BroadcastPlace ==
  ASSUME NEW c, c.itf = "", NEW errno \in BOOLEAN
  PROVE  BroadcastTo(c, errno).dest.port = c.port
<1>1. PICK a : a = Parse("<broadcast>", c.port)
  OBVIOUS
<1>2. PICK to : to = BroadcastTo(c, errno)
  OBVIOUS
<1>3. to = [fam |-> "v4", dest |-> a]
  BY <1>1, <1>2 DEF BroadcastTo, To
<1>4. to.dest = a
  BY <1>3
<1>5. Placed(a, c.port)
  BY <1>1, LimitedBroadcast
<1> QED BY <1>2, <1>4, <1>5, PlacedPort

LEMMA MulticastPlace ==
  ASSUME NEW c, NEW errno \in BOOLEAN, MulticastTo(c, errno).fam # "unspec"
  PROVE  MulticastTo(c, errno).dest.port = c.port
<1> DEFINE a == Parse(c.text, c.port)
<1>1. a = Empty \/ Placed(a, c.port)
  BY ParsePort
<1>2. Nowhere.fam = "unspec" /\ Empty.fam = "unspec"
  BY DEF Nowhere, To, Empty
<1>3. ~ParseFails(c.text, errno) /\ MulticastTo(c, errno) # Nowhere
  BY <1>2 DEF MulticastTo
<1>4. MulticastTo(c, errno) \in {To(AnyAddr(a.fam, 0).fam, a), To(Local(c.itf, a.fam, 0).fam, a)}
  BY <1>3 DEF MulticastTo
<1>5. MulticastTo(c, errno) = To(AnyAddr(a.fam, 0).fam, a)
  BY <1>4, LocalIsAny DEF Local
<1>6. AnyAddr(a.fam, 0).fam # "unspec" /\ MulticastTo(c, errno).dest = a
  BY <1>5 DEF To
<1>7. a # Empty
  BY <1>2, <1>6 DEF AnyAddr
<1> QED BY <1>1, <1>6, <1>7, PlacedPort

-----------------------------------------------------------------------------
(* The helpers of the handlers. *)

Polls == [set : SUBSET Obj, listed : [Obj -> Nat]]
Groups == {"none", "idle", "registering", "established"}
Lives == {"new", "open", "shut", "dead"}
Mutes == [Writer -> {"no", "full", "refused", "unset"}]

\* The variables whose type a step can disturb, named for the steps that set few of them.
LEMMA Types ==
  ASSUME TypeOK
  PROVE  /\ poll \in Polls /\ batch \in [Obj -> SUBSET Bits] /\ event \in [Obj -> SUBSET Bits]
         /\ queue \in Seq({"data", "zero"}) /\ life \in [Client -> Lives]
         /\ told \in [Client -> Nat] /\ mute \in Mutes /\ entry \in [Name -> SUBSET Client]
         /\ faults \in 0..MaxFaults /\ edge \in BOOLEAN /\ room \in BOOLEAN /\ group \in Groups
         /\ Ep \in Obj /\ Obj = {Ep} /\ MaxFaults \in Nat
BY UdpAssumption DEF TypeOK, UdpTypeOK, LoopTypeOK, Polls, Groups, Lives, Mutes

LEMMA PollResult ==
  ASSUME NEW p \in Polls
  PROVE  /\ Add(p, Ep) \in Polls /\ Ep \in Add(p, Ep).set
         /\ Close(p, {Ep}) \in Polls /\ Ep \notin Close(p, {Ep}).set
         /\ Forget(p, {Ep}) \in Polls
BY UdpAssumption DEF Polls, Add, Close, Forget

\* Counting a failing call keeps the counter within its bound, and remembers it.
LEMMA FaultResult ==
  ASSUME TypeOK, NEW f \in BOOLEAN, Fault(f)
  PROVE  faults' \in 0..MaxFaults /\ (faults > 0 => faults' > 0) /\ (f => faults' > 0)
BY Types DEF Fault

\* writeable() leaves no writer full that was not.
LEMMA WriteableResult ==
  ASSUME NEW m \in Mutes, NEW S
  PROVE  /\ Writeable(m, S) \in Mutes
         /\ \A w \in Writer : Writeable(m, S)[w] = "full" => m[w] = "full" /\ w \notin S
BY DEF Writeable, Mutes

\* A descriptor that comes into the loop's set reports at once.
Reports == UNCHANGED <<poll, edge>> \/ (poll' \in Polls /\ Ep \in poll'.set /\ edge' = TRUE)

LEMMA AddSocketResult ==
  ASSUME TypeOK, NEW f \in BOOLEAN, AddSocket(f)
  PROVE  Reports /\ (Ep \in poll'.set \/ f)
BY Types, PollResult DEF AddSocket, Reports

\* No writer gets full.
Relieves == mute' \in Mutes /\ \A w \in Writer : mute'[w] = "full" => mute[w] = "full"

\* create: a socket it makes is heard, now or when Avahi answers, unless a call failed.
LEMMA CreateResult ==
  ASSUME TypeOK, NEW to, NEW f \in BOOLEAN, Create(to, f)
  PROVE  /\ Reports /\ Relieves /\ addr' = to.dest
         /\ sock' \in {"none", "open"} /\ group' \in Groups
         /\ \/ UNCHANGED <<sock, poll, group>>
            \/ to.fam # "unspec" /\ (Ep \in poll'.set \/ group' = "registering" \/ f)
<1>0. mute \in Mutes /\ poll \in Polls /\ sock \in {"none", "open"} /\ group \in Groups
  BY Types DEF TypeOK, UdpTypeOK
<1>1. Writeable(mute, {Ep}) \in Mutes
      /\ \A w \in Writer : Writeable(mute, {Ep})[w] = "full" => mute[w] = "full"
  BY <1>0, WriteableResult
<1>2. addr' = to.dest
  BY DEF Create
<1>3. CASE UNCHANGED <<poll, edge, mute, sock, group>>
  BY <1>0, <1>2, <1>3 DEF Reports, Relieves
<1>4. CASE ~UNCHANGED <<poll, edge, mute, sock, group>>
  <2>1. /\ to.fam # "unspec" /\ sock' = "open"
        /\ \/ /\ UNCHANGED group
              /\ poll' = Add(poll, Ep) /\ edge' = TRUE /\ mute' = Writeable(mute, {Ep})
           \/ group' = "none" /\ AddSocket(f) /\ UNCHANGED mute
           \/ group' = "registering" /\ UNCHANGED <<poll, edge, mute>>
           \/ group' = "idle" /\ AddSocket(f) /\ mute' = Writeable(mute, {Ep})
           \/ f /\ group' = "idle" /\ UNCHANGED <<poll, edge, mute>>
    BY <1>4 DEF Create
  <2>2. CASE UNCHANGED group /\ poll' = Add(poll, Ep) /\ edge' = TRUE /\ mute' = Writeable(mute, {Ep})
    BY <1>0, <1>1, <1>2, <2>1, <2>2, PollResult DEF Reports, Relieves
  <2>3. CASE group' \in {"none", "idle"} /\ AddSocket(f) /\ mute' \in {mute, Writeable(mute, {Ep})}
    BY <1>0, <1>1, <1>2, <2>1, <2>3, AddSocketResult DEF Relieves, Groups
  <2>4. CASE group' \in {"idle", "registering"} /\ UNCHANGED <<poll, edge, mute>>
             /\ (group' = "registering" \/ f)
    BY <1>0, <1>2, <2>1, <2>4 DEF Reports, Relieves, Groups
  <2> QED BY <2>1, <2>2, <2>3, <2>4
<1> QED BY <1>3, <1>4

\* init of the server: nothing happens for want of a port; or the socket is made anew,
\* and is heard, or its service is being registered, or was refused.
Renews(f) ==
  /\ queue' = <<>> /\ room' = TRUE /\ edge' \in BOOLEAN /\ poll' \in Polls /\ group' \in Groups
  /\ Ep \in poll'.set => edge'
  /\ sock' \in {"none", "open"}
  /\ \E given \in GivenPort :
       /\ adv' \in {Empty, Chosen(cfg, given)} \/ (~zeroconf /\ adv' = adv)
       /\ sock' = "open" => HasLen(Listens(cfg, given)) /\ addr' = Listens(cfg, given)
  /\ adv' # Empty => zeroconf \/ adv' = adv
  /\ group' # "none" => zeroconf \/ group # "none"
  /\ sock' = "open" =>
       Ep \in poll'.set \/ group' = "registering" \/ f \/ (zeroconf /\ group' \in {"none", "idle"})

LEMMA BeginResult ==
  ASSUME TypeOK, NEW f \in BOOLEAN, Begin(f)
  PROVE  UNCHANGED <<poll, queue, edge, room, sock, addr, group, adv>> \/ Renews(f)
<1>0. poll \in Polls /\ group \in Groups /\ zeroconf \in BOOLEAN
  BY Types DEF TypeOK, UdpTypeOK
<1>1. PICK p : p = Close(poll, {Ep})
  OBVIOUS
<1>2. p \in Polls /\ Ep \notin p.set /\ Add(p, Ep) \in Polls /\ Ep \in Add(p, Ep).set
  BY <1>0, <1>1, PollResult
<1>3. ASSUME NEW given \in GivenPort, NewSocket(f, given), sock' = "none", poll' = p, edge' = FALSE, adv' = Empty,
             group' = IF group = "none" THEN "none" ELSE "idle"
      PROVE  Renews(f)
  BY <1>0, <1>2, <1>3 DEF NewSocket, Renews, Groups
<1>4. ASSUME NEW given \in GivenPort, NewSocket(f, given), sock' = "open", zeroconf,
             Register(given), poll' = p, edge' = FALSE
      PROVE  Renews(f)
  BY <1>0, <1>2, <1>4 DEF NewSocket, Register, Renews, Groups
<1>5. ASSUME NEW given \in GivenPort, NewSocket(f, given), sock' = "open", ~zeroconf,
             UNCHANGED <<group, adv>>,
             \/ poll' = Add(p, Ep) /\ edge' = TRUE
             \/ f /\ poll' = p /\ edge' = FALSE
      PROVE  Renews(f)
  BY <1>0, <1>2, <1>5 DEF NewSocket, Renews
<1> QED BY <1>1, <1>3, <1>4, <1>5 DEF Begin

-----------------------------------------------------------------------------
LEMMA InitIInv == Init => IInv
<1> SUFFICES ASSUME Init PROVE IInv
  OBVIOUS
<1>1. /\ UdpInit /\ resolv = "idle" /\ timer = "off" /\ svc = {} /\ adv = Empty
      /\ zeroconf \in BOOLEAN
      /\ (kind = "server" /\ cfg \in ServerConfig) \/ (kind = "client" /\ cfg \in ClientConfig)
  BY DEF Init, ServerInit, ClientInit
<1>2. TypeOK
  <2>1. LoopTypeOK
    BY <1>1, UdpAssumption DEF UdpInit, LoopInit, LoopTypeOK, None
  <2>2. /\ queue \in Seq({"data", "zero"}) /\ Len(queue) <= MaxQueue /\ faults \in 0..MaxFaults
    BY <1>1, UdpAssumption DEF UdpInit
  <2> QED BY <1>1, <2>1, <2>2 DEF TypeOK, UdpTypeOK, UdpInit
<1>3. KindInv
  BY <1>1 DEF KindInv, UdpInit, Writer
<1>4. UnreadInv /\ HearInv /\ PlaceInv /\ ClientInv
  <2>1. GivenPort # {}
    BY DEF GivenPort
  <2> QED BY <1>1, <2>1 DEF UnreadInv, HearInv, PlaceInv, ClientInv, UdpInit
<1>5. WriteInv
  BY <1>1 DEF WriteInv, UdpInit
<1> QED BY <1>2, <1>3, <1>4, <1>5 DEF IInv

\* A step that leaves the configuration, the address and the group alone, and takes no
\* socket out of the loop.
LEMMA SocketStays ==
  ASSUME IInv, UNCHANGED <<kind, zeroconf, cfg, mode, addr, sock, group, adv, timer>>,
         faults > 0 => faults' > 0, Running' => Running /\ poll'.set = poll.set,
         \A w \in Writer : mute'[w] = "full" => mute[w] = "full"
  PROVE  KindInv' /\ HearInv' /\ PlaceInv'
<1>1. KindInv'
  BY DEF IInv, KindInv, Writer
<1>2. HearInv'
  BY DEF IInv, HearInv, ServerUnregistered
<1>3. PlaceInv'
  BY DEF IInv, PlaceInv, ByInterface
<1> QED BY <1>1, <1>2, <1>3

\* A step that touches neither the datagrams nor the clients, and at most puts the socket
\* into the loop and relieves writers.
LEMMA OnlyListens ==
  ASSUME IInv, UNCHANGED <<batch, event, loop, queue, room, entry, life, hand>>,
         mode' \in {mode, "up"}, mode = "gone" => mode' = "gone", Reports,
         \A w \in Writer : mute'[w] = "full" => mute[w] = "full"
  PROVE  UnreadInv' /\ WriteInv' /\ ClientInv'
<1>0. (poll'.set = poll.set /\ edge' = edge) \/ edge' = TRUE
  BY DEF Reports
<1>1. UnreadInv'
  BY <1>0 DEF IInv, UnreadInv, Running
<1>2. WriteInv'
  BY <1>0 DEF IInv, WriteInv, Running, Alive
<1>3. ClientInv'
  BY DEF IInv, ClientInv
<1> QED BY <1>1, <1>2, <1>3

\* A step that leaves the loop, the socket and the clients alone.
LEMMA QuietStep ==
  ASSUME IInv, UNCHANGED <<loopVars, mode, queue, edge, room, entry, life, hand>>,
         \A w \in Writer : mute'[w] = "full" => mute[w] = "full"
  PROVE  UnreadInv' /\ WriteInv' /\ ClientInv'
BY OnlyListens DEF Reports, loopVars

-----------------------------------------------------------------------------
(* The steps of both kinds of endpoint. *)

LEMMA LoopStep ==
  ASSUME IInv, UdpPoll \/ UdpEvent \/ Stop \/ End, UNCHANGED <<adv, lookVars>>
  PROVE  IInv'
<1>0. /\ TypeOK /\ poll \in Polls /\ batch \in [Obj -> SUBSET Bits]
      /\ event \in [Obj -> SUBSET Bits] /\ Ep \in Obj /\ Obj = {Ep}
  BY Types DEF IInv
<1>1. UNCHANGED <<epVars, queue, room, clientVars, mute, faults, adv, lookVars>>
  BY DEF UdpPoll, UdpEvent, Stop, End, udpVars, epVars, clientVars, lookVars
<1>2. CASE UdpPoll
  <2> DEFINE ready == (IF queue # <<>> THEN {"IN"} ELSE {}) \cup (IF room THEN {"OUT"} ELSE {})
  <2>1. /\ UNCHANGED <<poll, event, loop>> /\ edge' = FALSE /\ Ep \in poll.set
        /\ batch' = [o \in Obj |-> ready]
    BY <1>0, <1>2 DEF UdpPoll, Wait
  <2>2. /\ queue # <<>> => "IN" \in batch'[Ep]
        /\ room => "OUT" \in batch'[Ep]
        /\ batch' \in [Obj -> SUBSET Bits] /\ edge' \in BOOLEAN
    BY <1>0, <2>1 DEF Bits
  <2> HIDE DEF ready
  <2>3. TypeOK'
    BY <1>0, <1>1, <2>1, <2>2
       DEF TypeOK, UdpTypeOK, LoopTypeOK, epVars, clientVars, lookVars
  <2>4. KindInv' /\ HearInv' /\ PlaceInv'
    BY <1>1, <2>1, SocketStays DEF epVars, lookVars, Running
  <2>5. UnreadInv' /\ WriteInv'
    BY <1>1, <2>1, <2>2 DEF UnreadInv, WriteInv, epVars, clientVars
  <2>6. ClientInv'
    BY <1>1, <2>1 DEF IInv, ClientInv, epVars, clientVars
  <2> QED BY <2>3, <2>4, <2>5, <2>6 DEF IInv
<1>3. CASE UdpEvent
  <2>1. /\ event = None /\ UNCHANGED <<poll, edge>>
        /\ batch' = [batch EXCEPT ![Ep] = {}]
        /\ \/ event' = [event EXCEPT ![Ep] = batch[Ep]] /\ UNCHANGED loop
           \/ loop' = "undefined" /\ UNCHANGED event
    BY <1>3 DEF UdpEvent, Dispatch, Idle, udpVars
  <2>2. TypeOK'
    BY <1>0, <1>1, <2>1 DEF TypeOK, UdpTypeOK, LoopTypeOK, epVars, clientVars, lookVars
  <2>3. KindInv' /\ HearInv' /\ PlaceInv'
    BY <1>1, <2>1, SocketStays DEF epVars, lookVars, Running
  <2>4. event[Ep] = {} /\ (Running' => Running /\ event'[Ep] = batch[Ep])
    BY <1>0, <2>1 DEF None, Running
  <2>5. UnreadInv' /\ WriteInv'
    BY <1>1, <2>1, <2>4 DEF IInv, UnreadInv, WriteInv, Alive, epVars, clientVars
  <2>6. hand = {}
    BY <2>4 DEF IInv, ClientInv
  <2>7. ClientInv'
    BY <1>1, <2>6 DEF IInv, ClientInv, epVars, clientVars
  <2> QED BY <2>2, <2>3, <2>5, <2>7 DEF IInv
<1>4. CASE Stop
  <2>1. UNCHANGED <<poll, batch, event, edge>> /\ loop = "run" /\ loop' = "stop"
    BY <1>4 DEF Stop, StopLoop, udpVars
  <2>2. TypeOK'
    BY <1>0, <1>1, <2>1 DEF TypeOK, UdpTypeOK, LoopTypeOK, epVars, clientVars, lookVars
  <2>3. KindInv' /\ HearInv' /\ PlaceInv'
    BY <1>1, <2>1, SocketStays DEF epVars, lookVars, Running
  <2>4. UnreadInv' /\ WriteInv' /\ ClientInv'
    BY <1>1, <2>1
       DEF IInv, UnreadInv, WriteInv, ClientInv, Running, Alive, epVars, clientVars
  <2> QED BY <2>2, <2>3, <2>4 DEF IInv
<1>5. CASE End
  <2>1. /\ UNCHANGED <<batch, event, edge>> /\ loop' \in {"end", "undefined"}
        /\ poll' = [set |-> poll.set \ {}, listed |-> [o \in Obj |-> 0]]
    BY <1>5 DEF End, LeaveLoop, udpVars
  <2>2. poll' \in Polls /\ ~Running'
    BY <1>0, <2>1 DEF Polls, Running
  <2>3. TypeOK'
    BY <1>0, <1>1, <2>1, <2>2
       DEF TypeOK, UdpTypeOK, LoopTypeOK, Polls, epVars, clientVars, lookVars
  <2>4. KindInv' /\ HearInv' /\ PlaceInv'
    BY <1>1, <2>2, SocketStays DEF epVars, lookVars
  <2>5. UnreadInv' /\ WriteInv'
    BY <2>2 DEF UnreadInv, WriteInv
  <2>6. ClientInv'
    BY <1>1, <2>1 DEF IInv, ClientInv, epVars, clientVars
  <2> QED BY <2>3, <2>4, <2>5, <2>6 DEF IInv
<1> QED BY <1>2, <1>3, <1>4, <1>5

LEMMA ReadStep ==
  ASSUME IInv, (\E n \in Name : Receive(n)) \/ Deliver \/ ReadEnds, UNCHANGED <<adv, lookVars>>
  PROVE  IInv'
<1>0. /\ TypeOK /\ poll \in Polls /\ batch \in [Obj -> SUBSET Bits]
      /\ event \in [Obj -> SUBSET Bits] /\ Ep \in Obj /\ Obj = {Ep}
      /\ queue \in Seq({"data", "zero"}) /\ life \in [Client -> Lives] /\ mute \in Mutes
      /\ entry \in [Name -> SUBSET Client] /\ Len(queue) <= MaxQueue /\ MaxQueue \in Nat
  BY Types, UdpAssumption DEF IInv, TypeOK, UdpTypeOK
<1>1. UNCHANGED <<poll, batch, loop, epVars, edge, room, faults, told, adv, lookVars>>
  BY DEF Receive, Deliver, ReadEnds, loopVars, udpVars, clientVars
<1>2. ASSUME NEW n \in Name, Receive(n)
      PROVE  IInv'
  <2>1. /\ "IN" \in event[Ep] /\ sock = "open" /\ hand = {} /\ queue # <<>>
        /\ queue' = Tail(queue) /\ UNCHANGED <<event, got>>
    BY <1>2 DEF Receive, Current, loopVars
  <2>2. queue' \in Seq({"data", "zero"}) /\ Len(queue') <= MaxQueue
    BY <1>0, <2>1
  <2>3. mode = "up" /\ \A m \in Name : \A c \in entry[m] : life[c] \in {"open", "dead"}
    BY <2>1 DEF IInv, HearInv, ClientInv
  <2>4. CASE \E c \in entry[n] : Alive(c) /\ hand' = {c} /\ UNCHANGED <<entry, life, mute>>
    <3>1. PICK c \in entry[n] : Alive(c) /\ hand' = {c}
      BY <2>4
    <3>2. UNCHANGED <<entry, life, mute>> /\ hand' \in SUBSET Client /\ life[c] = "open"
      BY <1>0, <2>3, <2>4, <3>1 DEF Alive
    <3>3. TypeOK'
      BY <1>0, <1>1, <2>1, <2>2, <3>2 DEF TypeOK, UdpTypeOK, LoopTypeOK, epVars, lookVars
    <3>4. KindInv' /\ HearInv' /\ PlaceInv'
      BY <1>1, <3>2, SocketStays DEF epVars, lookVars, Running
    <3>5. UnreadInv'
      BY <1>1, <2>1 DEF UnreadInv
    <3>6. WriteInv'
      BY <1>1, <2>1, <3>2 DEF IInv, WriteInv, Running, Alive, epVars
    <3>7. ClientInv'
      BY <1>1, <2>1, <3>1, <3>2 DEF IInv, ClientInv, epVars
    <3> QED BY <3>3, <3>4, <3>5, <3>6, <3>7 DEF IInv
  <2>5. CASE ~\E c \in entry[n] : Alive(c) /\ hand' = {c} /\ UNCHANGED <<entry, life, mute>>
    <3>1. PICK c \in Client :
            /\ life[c] = "new" /\ life' = [life EXCEPT ![c] = "open"]
            /\ entry' = [entry EXCEPT ![n] = {c}] /\ hand' = {c}
            /\ mute' = Writeable(mute, {c})
      BY <1>2, <2>5 DEF Receive
    <3>2. life' \in [Client -> Lives] /\ entry' \in [Name -> SUBSET Client] /\ hand' \in SUBSET Client
      BY <1>0, <3>1 DEF Lives
    <3>3. mute' \in Mutes /\ \A w \in Writer : mute'[w] = "full" => mute[w] = "full" /\ w # c
      BY <1>0, <3>1, WriteableResult
    <3>4. TypeOK'
      BY <1>0, <1>1, <2>1, <2>2, <3>2, <3>3
         DEF TypeOK, UdpTypeOK, LoopTypeOK, Lives, Mutes, epVars, lookVars
    <3>5. KindInv' /\ HearInv' /\ PlaceInv'
      BY <1>1, <3>3, SocketStays DEF epVars, lookVars, Running
    <3>6. UnreadInv'
      BY <1>1, <2>1 DEF UnreadInv
    <3>7. \A w \in Client : w # c => life'[w] = life[w]
      BY <1>0, <3>1
    <3>8. \A m \in Name : \A w \in entry'[m] : w # c => w \in entry[m]
      BY <1>0, <3>1
    <3>9. WriteInv'
      <4>1. SUFFICES ASSUME Running', NEW w \in Writer, mute'[w] = "full",
                            w = Ep \/ \E m \in Name : w \in entry'[m] /\ Alive(w)'
                     PROVE  ~room \/ edge \/ Ep \notin poll.set \/ "OUT" \in batch[Ep] \cup event[Ep]
        BY <1>1, <2>1 DEF WriteInv
      <4>2. mute[w] = "full" /\ w # c
        BY <3>3, <4>1
      <4>3. w = Ep \/ \E m \in Name : w \in entry[m] /\ Alive(w)
        BY <1>0, <3>2, <3>7, <3>8, <4>1, <4>2 DEF Alive
      <4> QED BY <1>1, <2>3, <4>1, <4>2, <4>3 DEF IInv, WriteInv, Running
    <3>10. ClientInv'
      <4>1. life'[c] = "open" /\ \A m \in Name : c \notin entry[m]
        BY <1>0, <2>3, <3>1
      <4>2. \A m \in Name : \A w \in entry'[m] : life'[w] \in {"open", "dead"}
        BY <1>0, <2>3, <3>2, <3>7, <3>8, <4>1
      <4>3. \A m \in Name : c \in entry'[m] => m = n
        BY <1>0, <3>1, <4>1
      <4>4. \A l, m \in Name : \A w \in entry'[l] \cap entry'[m] : l = m
        BY <2>3, <3>8, <4>3 DEF IInv, ClientInv
      <4> QED BY <2>1, <3>1, <4>1, <4>2, <4>4 DEF ClientInv
    <3> QED BY <3>4, <3>5, <3>6, <3>9, <3>10 DEF IInv
  <2> QED BY <2>4, <2>5
<1>3. CASE Deliver
  <2>1. /\ got' = got \cup hand /\ hand' = {}
        /\ UNCHANGED <<event, queue, entry, life, mute>>
    BY <1>3 DEF Deliver, loopVars
  <2>2. TypeOK'
    BY <1>0, <1>1, <2>1 DEF TypeOK, UdpTypeOK, LoopTypeOK, epVars, lookVars
  <2>3. KindInv' /\ HearInv' /\ PlaceInv'
    BY <1>1, <2>1, SocketStays DEF epVars, lookVars, Running
  <2>4. UnreadInv' /\ WriteInv' /\ ClientInv'
    BY <1>1, <2>1 DEF IInv, UnreadInv, WriteInv, ClientInv, Running, Alive, epVars
  <2> QED BY <2>2, <2>3, <2>4 DEF IInv
<1>4. CASE ReadEnds
  <2>1. /\ queue # <<>> => Head(queue) = "zero"
        /\ hand = {} /\ event' = [event EXCEPT ![Ep] = event[Ep] \ {"IN"}]
        /\ UNCHANGED <<queue, got, hand, entry, life, mute>>
    BY <1>4 DEF ReadEnds, NothingToRead, Handled, udpVars, clientVars
  <2>2. event' \in [Obj -> SUBSET Bits] /\ ("OUT" \in event[Ep] => "OUT" \in event'[Ep])
    BY <1>0, <2>1
  <2>3. TypeOK'
    BY <1>0, <1>1, <2>1, <2>2 DEF TypeOK, UdpTypeOK, LoopTypeOK, epVars, lookVars
  <2>4. KindInv' /\ HearInv' /\ PlaceInv'
    BY <1>1, <2>1, SocketStays DEF epVars, lookVars, Running
  <2>5. UnreadInv'
    BY <2>1 DEF UnreadInv
  <2>6. WriteInv' /\ ClientInv'
    BY <1>1, <2>1, <2>2 DEF IInv, WriteInv, ClientInv, Running, Alive, epVars
  <2> QED BY <2>3, <2>4, <2>5, <2>6 DEF IInv
<1> QED BY <1>2, <1>3, <1>4

LEMMA PeerStep ==
  ASSUME IInv, (\E d \in {"data", "zero"} : Arrives(d)) \/ SendBuffer, UNCHANGED <<adv, lookVars>>
  PROVE  IInv'
<1>0. /\ TypeOK /\ queue \in Seq({"data", "zero"}) /\ edge \in BOOLEAN /\ room \in BOOLEAN
      /\ MaxQueue \in Nat /\ Len(queue) <= MaxQueue
  BY Types, UdpAssumption DEF IInv, TypeOK, UdpTypeOK
<1>1. UNCHANGED <<poll, batch, event, loop, epVars, clientVars, mute, faults, adv, lookVars>>
  BY DEF Arrives, SendBuffer, loopVars
<1>2. ASSUME NEW d \in {"data", "zero"}, Arrives(d)
      PROVE  IInv'
  <2>1. /\ queue' = Append(queue, d) /\ edge' = (edge \/ Ep \in poll.set) /\ UNCHANGED room
        /\ Len(queue) < MaxQueue
    BY <1>2 DEF Arrives
  <2>2. queue' \in Seq({"data", "zero"}) /\ Len(queue') <= MaxQueue /\ edge' \in BOOLEAN
    BY <1>0, <2>1
  <2>3. TypeOK'
    BY <1>0, <1>1, <2>1, <2>2 DEF TypeOK, UdpTypeOK, LoopTypeOK, epVars, clientVars, lookVars
  <2>4. KindInv' /\ HearInv' /\ PlaceInv'
    BY <1>1, SocketStays DEF epVars, lookVars, Running
  <2>5. Ep \in poll'.set => edge'
    BY <1>1, <2>1
  <2>6. UnreadInv' /\ WriteInv' /\ ClientInv'
    BY <1>1, <2>5 DEF IInv, UnreadInv, WriteInv, ClientInv, epVars, clientVars
  <2> QED BY <2>3, <2>4, <2>6 DEF IInv
<1>3. CASE SendBuffer
  <2>1. /\ room' = ~room /\ edge' = (edge \/ (~room /\ Ep \in poll.set)) /\ UNCHANGED queue
    BY <1>3 DEF SendBuffer
  <2>2. room' \in BOOLEAN /\ edge' \in BOOLEAN
    BY <1>0, <2>1
  <2>3. TypeOK'
    BY <1>0, <1>1, <2>1, <2>2 DEF TypeOK, UdpTypeOK, LoopTypeOK, epVars, clientVars, lookVars
  <2>4. KindInv' /\ HearInv' /\ PlaceInv'
    BY <1>1, SocketStays DEF epVars, lookVars, Running
  <2>5. (edge => edge') /\ (room' /\ Ep \in poll'.set => edge')
    BY <1>0, <1>1, <2>1
  <2>6. UnreadInv'
    BY <1>1, <2>1, <2>5 DEF IInv, UnreadInv, Running, epVars
  <2>7. WriteInv' /\ ClientInv'
    BY <1>1, <2>5 DEF IInv, WriteInv, ClientInv, epVars, clientVars
  <2> QED BY <2>3, <2>4, <2>6, <2>7 DEF IInv
<1> QED BY <1>2, <1>3

LEMMA OwnerStep ==
  ASSUME IInv, (\E c \in Client : OwnerDrops(c)) \/ Destroy, UNCHANGED <<adv, lookVars>>
  PROVE  IInv'
<1>0. /\ TypeOK /\ poll \in Polls /\ batch \in [Obj -> SUBSET Bits]
      /\ event \in [Obj -> SUBSET Bits] /\ Ep \in Obj /\ Obj = {Ep}
      /\ life \in [Client -> Lives] /\ told \in [Client -> Nat] /\ mute \in Mutes
      /\ entry \in [Name -> SUBSET Client]
      /\ Forget(poll, {Ep}) \in Polls /\ got \in SUBSET Client /\ hand \in SUBSET Client
  BY Types, PollResult DEF IInv, TypeOK, UdpTypeOK
<1>1. ASSUME NEW c \in Client, OwnerDrops(c)
      PROVE  IInv'
  <2>1. /\ event = None /\ life' = [life EXCEPT ![c] = "dead"] /\ mute' = [mute EXCEPT ![c] = "unset"]
        /\ UNCHANGED <<poll, batch, event, loop, epVars, queue, edge, room, entry, told, got, hand,
                       faults, adv, lookVars>>
    BY <1>1 DEF OwnerDrops, UpIdle, Idle, loopVars
  <2>2. life' \in [Client -> Lives] /\ mute' \in Mutes
    BY <1>0, <2>1 DEF Lives, Mutes
  <2>3. \A w \in Writer : mute'[w] = "full" => mute[w] = "full" /\ w # c
    BY <1>0, <2>1 DEF Mutes, Writer
  <2>4. TypeOK'
    BY <1>0, <2>1, <2>2
       DEF TypeOK, UdpTypeOK, LoopTypeOK, Lives, Mutes, epVars, clientVars, lookVars
  <2>5. KindInv' /\ HearInv' /\ PlaceInv'
    BY <2>1, <2>3, SocketStays DEF epVars, lookVars, Running
  <2>6. UnreadInv'
    BY <2>1 DEF IInv, UnreadInv, Running, epVars
  <2>7. \A w \in Client : w # c => life'[w] = life[w]
    BY <1>0, <2>1
  <2>8. WriteInv'
    BY <1>0, <2>1, <2>3, <2>7 DEF IInv, WriteInv, Running, Alive, epVars, Writer
  <2>9. hand = {}
    BY <1>0, <2>1 DEF IInv, ClientInv, None
  <2>10. \A n \in Name : \A w \in entry[n] : life[w] \in {"open", "dead"} => life'[w] \in {"open", "dead"}
    BY <1>0, <2>1
  <2>11. ClientInv'
    BY <2>1, <2>9, <2>10 DEF IInv, ClientInv, epVars
  <2> QED BY <2>4, <2>5, <2>6, <2>8, <2>11 DEF IInv
<1>2. CASE Destroy
  <2>1. /\ mode' = "gone" /\ sock' = "none" /\ group' = "none" /\ queue' = <<>> /\ edge' = FALSE
        /\ got' \in {got, got \cup hand} /\ hand' = {} /\ event' = [event EXCEPT ![Ep] = {}]
        /\ poll' = IF sock = "open" THEN Forget(poll, {Ep}) ELSE poll
        /\ mute' = [w \in Writer |-> "unset"] /\ room' = TRUE
        /\ UNCHANGED <<batch, loop, kind, zeroconf, cfg, addr, entry, faults, adv, lookVars>>
    BY <1>2 DEF Destroy
  <2>2. life' \in [Client -> Lives] /\ told' \in [Client -> Nat]
    <3> DEFINE T == IF sock = "none" THEN {}
                    ELSE {c \in Client : Alive(c) /\ \E n \in Name : c \in entry[n]}
    <3>1. \E keep \in SUBSET T :
            life' = [c \in Client |-> IF c \notin T THEN life[c]
                                     ELSE IF c \in keep THEN "shut" ELSE "dead"]
      BY <1>2, Zenon DEF Destroy
    <3>2. told' = [c \in Client |-> told[c] + IF c \in T THEN 1 ELSE 0]
      BY <1>2 DEF Destroy
    <3> HIDE DEF T
    <3> QED BY <1>0, <3>1, <3>2 DEF Lives
  <2>3. /\ poll' \in Polls /\ event' \in [Obj -> SUBSET Bits] /\ got' \in SUBSET Client
        /\ queue' \in Seq({"data", "zero"}) /\ Len(queue') <= MaxQueue
        /\ edge' \in BOOLEAN /\ room' \in BOOLEAN
    <3>1. poll' \in Polls
      BY <1>0, <2>1
    <3>2. event' \in [Obj -> SUBSET Bits]
      BY <1>0, <2>1
    <3>3. queue' \in Seq({"data", "zero"}) /\ Len(queue') <= MaxQueue
      BY <2>1, UdpAssumption
    <3>4. edge' \in BOOLEAN /\ room' \in BOOLEAN /\ got' \in SUBSET Client
      BY <1>0, <2>1
    <3> QED BY <3>1, <3>2, <3>3, <3>4
  <2>4. TypeOK'
    BY <1>0, <2>1, <2>2, <2>3
       DEF TypeOK, UdpTypeOK, LoopTypeOK, Polls, Lives, lookVars
  <2>5. KindInv'
    BY <2>1 DEF IInv, KindInv, Writer
  <2>6. UnreadInv' /\ WriteInv' /\ HearInv' /\ ClientInv'
    BY <2>1 DEF UnreadInv, WriteInv, HearInv, ClientInv
  <2>7. PlaceInv'
    BY <2>1 DEF IInv, PlaceInv
  <2> QED BY <2>4, <2>5, <2>6, <2>7 DEF IInv
<1> QED BY <1>1, <1>2

-----------------------------------------------------------------------------
(* The steps of a server. *)

\* init, at the start or after a collision of names.
LEMMA BeginStep ==
  ASSUME IInv, kind = "server", mode # "gone", mode' = "up", Idle, NEW f \in BOOLEAN, Fault(f), Begin(f),
         UNCHANGED <<batch, event, loop, kind, zeroconf, cfg, clientVars, mute, lookVars>>
  PROVE  IInv'
<1>0. /\ TypeOK /\ faults' \in 0..MaxFaults /\ (faults > 0 => faults' > 0)
      /\ (f => faults' > 0)
  BY FaultResult DEF IInv
<1>1. CASE UNCHANGED <<poll, queue, edge, room, sock, addr, group, adv>>
  <2>1. TypeOK'
    BY <1>0, <1>1 DEF TypeOK, UdpTypeOK, LoopTypeOK, clientVars, lookVars
  <2>2. KindInv' /\ PlaceInv'
    BY <1>1 DEF IInv, KindInv, PlaceInv, ByInterface
  <2>3. HearInv'
    BY <1>0, <1>1 DEF IInv, HearInv, ServerUnregistered, lookVars, Running
  <2>4. UnreadInv' /\ WriteInv' /\ ClientInv'
    BY <1>1, OnlyListens DEF Reports, clientVars
  <2> QED BY <2>1, <2>2, <2>3, <2>4 DEF IInv
<1>2. CASE Renews(f)
  <2>1. poll' \in Polls /\ group' \in Groups /\ edge' \in BOOLEAN /\ room' \in BOOLEAN /\ queue' = <<>>
        /\ sock' \in {"none", "open"}
    BY <1>2 DEF Renews
  <2>2. queue' \in Seq({"data", "zero"}) /\ Len(queue') <= MaxQueue
    BY <2>1, UdpAssumption
  <2>3. TypeOK'
    BY <1>0, <2>1, <2>2 DEF TypeOK, UdpTypeOK, LoopTypeOK, Polls, Groups, clientVars, lookVars
  <2>4. KindInv'
    BY <1>2 DEF IInv, KindInv, Renews
  <2>5. HearInv'
    BY <1>0, <1>2 DEF HearInv, Renews, ServerUnregistered
  <2>6. PlaceInv'
    <3>1. PICK given \in GivenPort :
            /\ adv' \in {Empty, Chosen(cfg, given)} \/ (~zeroconf /\ adv' = adv)
            /\ sock' = "open" => HasLen(Listens(cfg, given)) /\ addr' = Listens(cfg, given)
      BY <1>2 DEF Renews
    <3>2. adv' \in {Empty, Chosen(cfg, given)}
      BY <3>1 DEF IInv, KindInv
    <3> QED BY <3>1, <3>2 DEF PlaceInv
  <2>7. UnreadInv' /\ WriteInv'
    BY <1>2 DEF UnreadInv, WriteInv, Renews
  <2>8. ClientInv'
    BY DEF IInv, ClientInv, clientVars
  <2> QED BY <2>3, <2>4, <2>5, <2>6, <2>7, <2>8 DEF IInv
<1> QED BY <1>0, <1>1, <1>2, BeginResult

LEMMA ServerStep ==
  ASSUME IInv, kind = "server", ServerNext, ~(UdpCommon /\ UNCHANGED adv), UNCHANGED lookVars
  PROVE  IInv'
<1>0. /\ TypeOK /\ poll \in Polls /\ batch \in [Obj -> SUBSET Bits]
      /\ event \in [Obj -> SUBSET Bits] /\ Ep \in Obj /\ Obj = {Ep}
      /\ life \in [Client -> Lives] /\ told \in [Client -> Nat] /\ mute \in Mutes
      /\ entry \in [Name -> SUBSET Client] /\ edge \in BOOLEAN
  BY Types DEF IInv
<1>1. CASE ServerStarts
  BY <1>1, BeginStep DEF ServerStarts
<1>2. CASE ServerCollision
  BY <1>2, BeginStep DEF ServerCollision, UpIdle
<1>3. CASE ServerEstablished
  <2>1. PICK f \in BOOLEAN : Fault(f) /\ AddSocket(f)
    BY <1>3 DEF ServerEstablished
  <2>2. /\ Reports /\ (Ep \in poll'.set \/ f) /\ faults' \in 0..MaxFaults
        /\ (faults > 0 => faults' > 0) /\ (f => faults' > 0)
    BY <1>0, <2>1, AddSocketResult, FaultResult
  <2>3. /\ UNCHANGED <<batch, event, loop, kind, zeroconf, cfg, mode, addr, sock, queue, room,
                       clientVars, mute, adv>>
        /\ group = "registering" /\ group' = "established"
    BY <1>3 DEF ServerEstablished
  <2>4. poll' \in Polls /\ edge' \in BOOLEAN
    BY <1>0, <2>2 DEF Reports
  <2>5. TypeOK'
    BY <1>0, <2>2, <2>3, <2>4 DEF TypeOK, UdpTypeOK, LoopTypeOK, Polls, clientVars, lookVars
  <2>6. KindInv' /\ PlaceInv' /\ HearInv'
    BY <2>2, <2>3 DEF IInv, KindInv, PlaceInv, ByInterface, HearInv
  <2>7. UnreadInv' /\ WriteInv' /\ ClientInv'
    BY <2>2, <2>3, OnlyListens DEF clientVars
  <2> QED BY <2>5, <2>6, <2>7 DEF IInv
<1>4. CASE ServerFailure
  <2>1. /\ UNCHANGED <<poll, batch, event, loop, kind, zeroconf, cfg, mode, addr, sock, queue, edge,
                       room, clientVars, mute, faults>>
        /\ group \in {"registering", "established"} /\ group' = "idle" /\ adv' = Empty
    BY <1>4 DEF ServerFailure, loopVars
  <2>2. TypeOK'
    BY <1>0, <2>1 DEF TypeOK, UdpTypeOK, LoopTypeOK, clientVars, lookVars
  <2>3. KindInv' /\ PlaceInv'
    BY <2>1 DEF IInv, KindInv, PlaceInv, ByInterface
  <2>4. HearInv'
    BY <2>1 DEF IInv, KindInv, HearInv, ServerUnregistered
  <2>5. UnreadInv' /\ WriteInv' /\ ClientInv'
    BY <2>1, QuietStep DEF loopVars, clientVars
  <2> QED BY <2>2, <2>3, <2>4, <2>5 DEF IInv
<1>5. ASSUME NEW n \in Name, ServiceRemoved(n)
      PROVE  IInv'
  <2>1. PICK c \in entry[n], l \in {"shut", "dead"} :
          /\ told' = [told EXCEPT ![c] = @ + 1] /\ mute' = [mute EXCEPT ![c] = "unset"]
          /\ life' = [life EXCEPT ![c] = l]
    BY <1>5 DEF ServiceRemoved
  <2>2. /\ event = None /\ entry' = [entry EXCEPT ![n] = {}] /\ c \in Client /\ mode = "up"
        /\ UNCHANGED <<poll, batch, event, loop, epVars, queue, edge, room, got, hand, faults, adv>>
    BY <1>0, <1>5 DEF ServiceRemoved, UpIdle, Idle, loopVars
  <2>3. /\ life' \in [Client -> Lives] /\ mute' \in Mutes /\ told' \in [Client -> Nat]
        /\ entry' \in [Name -> SUBSET Client]
    <3>1. life' \in [Client -> Lives]
      BY <1>0, <2>1, <2>2 DEF Lives
    <3>2. mute' \in Mutes
      BY <1>0, <2>1, <2>2 DEF Mutes
    <3>3. told' \in [Client -> Nat]
      BY <1>0, <2>1, <2>2
    <3>4. entry' \in [Name -> SUBSET Client]
      BY <1>0, <2>2
    <3> QED BY <3>1, <3>2, <3>3, <3>4
  <2>4. \A w \in Writer : mute'[w] = "full" => mute[w] = "full" /\ w # c
    BY <1>0, <2>1, <2>2 DEF Mutes, Writer
  <2>5. TypeOK'
    BY <1>0, <2>2, <2>3 DEF TypeOK, UdpTypeOK, LoopTypeOK, Lives, Mutes, epVars, lookVars
  <2>6. KindInv' /\ HearInv' /\ PlaceInv'
    BY <2>2, <2>4, SocketStays DEF epVars, lookVars, Running
  <2>7. UnreadInv'
    BY <2>2 DEF IInv, UnreadInv, Running, epVars
  <2>8. \A m \in Name : /\ entry'[m] \subseteq entry[m]
                        /\ \A w \in entry'[m] : w # c
    BY <1>0, <2>1, <2>2 DEF IInv, ClientInv
  <2>9. \A w \in Client : w # c => life'[w] = life[w]
    BY <1>0, <2>1, <2>2
  <2>10. WriteInv'
    <3>1. SUFFICES ASSUME Running', NEW w \in Writer, mute'[w] = "full",
                          w = Ep \/ \E m \in Name : w \in entry'[m] /\ Alive(w)'
                   PROVE  ~room \/ edge \/ Ep \notin poll.set \/ "OUT" \in batch[Ep] \cup event[Ep]
      BY <2>2 DEF WriteInv, epVars
    <3>2. mute[w] = "full" /\ w # c
      BY <2>4, <3>1
    <3>3. w = Ep \/ \E m \in Name : w \in entry[m] /\ Alive(w)
      BY <1>0, <2>8, <2>9, <3>1, <3>2 DEF Alive
    <3> QED BY <2>2, <3>1, <3>2, <3>3 DEF IInv, WriteInv, Running
  <2>11. hand = {}
    BY <1>0, <2>2 DEF IInv, ClientInv, None
  <2>12. \A m \in Name : \A w \in entry'[m] : life'[w] \in {"open", "dead"}
    BY <1>0, <2>2, <2>8, <2>9 DEF IInv, ClientInv
  <2>13. \A l1, m \in Name : \A w \in entry'[l1] \cap entry'[m] : l1 = m
    BY <2>2, <2>8 DEF IInv, ClientInv
  <2>14. ClientInv'
    BY <2>2, <2>11, <2>12, <2>13 DEF ClientInv
  <2> QED BY <2>5, <2>6, <2>7, <2>10, <2>14 DEF IInv
<1>6. CASE ServerOUT
  <2> DEFINE S == {c \in Client : Alive(c) /\ \E n \in Name : c \in entry[n]}
  <2>1. /\ event' = [event EXCEPT ![Ep] = event[Ep] \ {"OUT"}] /\ mute' = Writeable(mute, S)
        /\ UNCHANGED <<poll, batch, loop, epVars, queue, edge, room, clientVars, faults, adv>>
    BY <1>6 DEF ServerOUT, Handled
  <2>2. event' \in [Obj -> SUBSET Bits] /\ ("IN" \in event[Ep] => "IN" \in event'[Ep])
    BY <1>0, <2>1
  <2>3. mute' \in Mutes /\ \A w \in Writer : mute'[w] = "full" => mute[w] = "full" /\ w \notin S
    BY <1>0, <2>1, WriteableResult
  <2>4. TypeOK'
    BY <1>0, <2>1, <2>2, <2>3
       DEF TypeOK, UdpTypeOK, LoopTypeOK, Mutes, epVars, clientVars, lookVars
  <2>5. KindInv' /\ HearInv' /\ PlaceInv'
    BY <2>1, <2>3, SocketStays DEF epVars, lookVars, Running
  <2>6. UnreadInv'
    BY <2>1, <2>2 DEF IInv, UnreadInv, Running, epVars
  <2>7. \A w \in Writer : mute'[w] = "full" => w # Ep /\ ~\E n \in Name : w \in entry[n] /\ Alive(w)
    BY <1>0, <2>3 DEF IInv, KindInv, Writer
  <2>8. WriteInv'
    BY <2>1, <2>7 DEF WriteInv, Alive, clientVars
  <2>9. ClientInv'
    BY <2>1, <2>2 DEF IInv, ClientInv, epVars, clientVars
  <2> QED BY <2>4, <2>5, <2>6, <2>8, <2>9 DEF IInv
<1>7. ASSUME NEW c \in Client, NEW why \in {"full", "refused"}, WriteFails(c, why), UNCHANGED adv
      PROVE  IInv'
  <2>1. /\ mute' = [mute EXCEPT ![c] = why] /\ (why = "full" => ~room) /\ c # Ep
        /\ UNCHANGED <<poll, batch, event, loop, epVars, queue, edge, room, clientVars>>
    BY <1>7, UdpAssumption DEF WriteFails, loopVars
  <2>2. faults' \in 0..MaxFaults /\ (faults > 0 => faults' > 0)
    BY <1>0, <1>7, Types DEF WriteFails
  <2>3. mute' \in Mutes /\ \A w \in Writer : w # c => mute'[w] = mute[w]
    BY <1>0, <2>1 DEF Mutes, Writer
  <2>4. TypeOK'
    BY <1>0, <1>7, <2>1, <2>2, <2>3
       DEF TypeOK, UdpTypeOK, LoopTypeOK, Mutes, epVars, clientVars, lookVars
  <2>5. KindInv'
    BY <1>7, <2>1, <2>3 DEF IInv, KindInv, Writer, epVars
  <2>6. HearInv' /\ PlaceInv'
    BY <1>7, <2>1, <2>2
       DEF IInv, HearInv, PlaceInv, ByInterface, ServerUnregistered, Running, epVars, lookVars
  <2>7. UnreadInv' /\ ClientInv'
    BY <2>1 DEF IInv, UnreadInv, ClientInv, Running, epVars, clientVars
  <2>8. WriteInv'
    BY <1>0, <2>1, <2>3 DEF IInv, WriteInv, Running, Alive, Mutes, Writer, epVars, clientVars
  <2> QED BY <2>4, <2>5, <2>6, <2>7, <2>8 DEF IInv
<1> QED BY <1>1, <1>2, <1>3, <1>4, <1>5, <1>6, <1>7 DEF ServerNext, ClientWriteFails

-----------------------------------------------------------------------------
(* The steps of a client. *)

\* A step that may make the socket, for a destination at the configured port.
LEMMA CreateStep ==
  ASSUME IInv, kind = "client", mode # "gone", mode' \in {mode, "up"}, NEW f \in BOOLEAN, Fault(f),
         \/ NoCreate
         \/ \E to : /\ Create(to, f) /\ mode' = "up"
                    /\ sock = "open" \/ to.fam # "unspec" =>
                         ByInterface \/ cfg.port = 0 \/ to.dest.port = cfg.port,
         UNCHANGED <<batch, event, loop, kind, zeroconf, cfg, queue, room, clientVars, timer, adv>>,
         resolv' \in {"idle", "query", "lost"}, svc' \in SUBSET Service
  PROVE  IInv'
<1>0. /\ TypeOK /\ faults' \in 0..MaxFaults /\ (faults > 0 => faults' > 0)
      /\ (f => faults' > 0) /\ mute \in Mutes /\ poll \in Polls /\ edge \in BOOLEAN
  BY FaultResult, Types DEF IInv
<1>1. mode \in {"new", "up"} /\ mode' \in {"new", "up"}
  BY <1>0 DEF TypeOK, UdpTypeOK
<1>2. CASE NoCreate
  <2>1. UNCHANGED <<addr, poll, edge, mute, sock, group>>
    BY <1>2 DEF NoCreate
  <2>2. TypeOK'
    BY <1>0, <1>1, <2>1 DEF TypeOK, UdpTypeOK, LoopTypeOK, clientVars
  <2>3. KindInv' /\ PlaceInv'
    BY <2>1 DEF IInv, KindInv, PlaceInv, ByInterface
  <2>4. HearInv'
    BY <1>0, <2>1 DEF IInv, HearInv, ServerUnregistered, Running
  <2>5. UnreadInv' /\ WriteInv' /\ ClientInv'
    BY <2>1, OnlyListens DEF Reports, clientVars
  <2> QED BY <2>2, <2>3, <2>4, <2>5 DEF IInv
<1>3. ASSUME NEW to, Create(to, f), mode' = "up",
             sock = "open" \/ to.fam # "unspec" =>
               ByInterface \/ cfg.port = 0 \/ to.dest.port = cfg.port
      PROVE  IInv'
  <2>1. /\ Reports /\ Relieves /\ addr' = to.dest
        /\ sock' \in {"none", "open"} /\ group' \in Groups
        /\ \/ UNCHANGED <<sock, poll, group>>
           \/ to.fam # "unspec" /\ (Ep \in poll'.set \/ group' = "registering" \/ f)
    BY <1>0, <1>3, CreateResult
  <2>2. poll' \in Polls /\ edge' \in BOOLEAN
    BY <1>0, <2>1 DEF Reports
  <2>3. mute' \in Mutes /\ \A w \in Writer : mute'[w] = "full" => mute[w] = "full"
    BY <2>1 DEF Relieves
  <2>4. TypeOK'
    BY <1>0, <1>3, <2>1, <2>2, <2>3
       DEF TypeOK, UdpTypeOK, LoopTypeOK, Polls, Groups, Mutes, clientVars
  <2>5. KindInv'
    BY <2>3 DEF IInv, KindInv, Writer
  <2>6. HearInv'
    BY <1>0, <1>3, <2>1 DEF IInv, HearInv, ServerUnregistered, Running
  <2>7. PlaceInv'
    BY <1>3, <2>1 DEF IInv, PlaceInv, ByInterface
  <2>8. UnreadInv' /\ WriteInv' /\ ClientInv'
    BY <1>1, <1>3, <2>1, <2>3, OnlyListens DEF clientVars
  <2> QED BY <2>4, <2>5, <2>6, <2>7, <2>8 DEF IInv
<1> QED BY <1>2, <1>3

LEMMA StartStep ==
  ASSUME IInv, kind = "client", ClientStarts, UNCHANGED adv
  PROVE  IInv'
<1>0. /\ TypeOK /\ cfg \in ClientConfig /\ mode = "new" /\ sock # "open"
      /\ resolv \in {"idle", "query", "lost"} /\ svc \in SUBSET Service
  BY DEF IInv, KindInv, HearInv, TypeOK, ClientStarts
<1>1. PICK f \in BOOLEAN, errno \in BOOLEAN :
       /\ Fault(f)
       /\ \/ cfg.how = "host" /\ ParseFails(cfg.text, errno) /\ Create(Nowhere, f) /\ UNCHANGED resolv
          \/ /\ cfg.how = "host" /\ ~ParseFails(cfg.text, errno) /\ NoCreate
             /\ resolv' \in {"query"} \cup OnFault(f, {"lost"})
          \/ cfg.how = "broadcast" /\ Create(BroadcastTo(cfg, errno), f) /\ UNCHANGED resolv
          \/ cfg.how = "multicast" /\ UNCHANGED resolv
               /\ LET to == MulticastTo(cfg, errno) IN
                  IF to = Nowhere THEN NoCreate ELSE Create(to, f)
          \/ cfg.how = "service" /\ UNCHANGED resolv
               /\ IF zeroconf /\ svc # {} THEN \E s \in svc : Create(ServiceTo(s), f) ELSE NoCreate
  BY DEF ClientStarts
<1>2. /\ mode' = "up"
      /\ UNCHANGED <<batch, event, loop, kind, zeroconf, cfg, queue, room, clientVars, timer, svc>>
  BY DEF ClientStarts
<1>3. resolv' \in {"idle", "query", "lost"}
  BY <1>0, <1>1 DEF OnFault
<1>4. \/ NoCreate
      \/ \E to : /\ Create(to, f)
                 /\ to.fam # "unspec" => ByInterface \/ cfg.port = 0 \/ to.dest.port = cfg.port
  <2>1. CASE cfg.how = "host" /\ Create(Nowhere, f)
    BY <2>1, ToFields DEF Nowhere
  <2>2. CASE cfg.how = "broadcast" /\ Create(BroadcastTo(cfg, errno), f)
    <3>1. ByInterface \/ BroadcastTo(cfg, errno).dest.port = cfg.port
      BY <2>2, BroadcastPlace DEF ByInterface
    <3> QED BY <2>2, <3>1
  <2>3. CASE cfg.how = "multicast" /\ Create(MulticastTo(cfg, errno), f)
    <3>1. MulticastTo(cfg, errno).fam # "unspec" => MulticastTo(cfg, errno).dest.port = cfg.port
      BY MulticastPlace
    <3> QED BY <2>3, <3>1
  <2>4. CASE cfg.how = "service" /\ \E s \in svc : Create(ServiceTo(s), f)
    BY <1>0, <2>4, UdpClientAssumption
  <2>5. CASE NoCreate
    BY <2>5
  <2> QED BY <1>1, <2>1, <2>2, <2>3, <2>4, <2>5
<1> QED BY <1>0, <1>1, <1>2, <1>3, <1>4, CreateStep

LEMMA ClientStep ==
  ASSUME IInv, kind = "client", ClientNext, ~(UdpCommon /\ UNCHANGED lookVars), UNCHANGED adv
  PROVE  IInv'
<1>0. /\ TypeOK /\ poll \in Polls /\ batch \in [Obj -> SUBSET Bits]
      /\ event \in [Obj -> SUBSET Bits] /\ Ep \in Obj /\ Obj = {Ep}
      /\ mute \in Mutes /\ edge \in BOOLEAN /\ cfg \in ClientConfig
      /\ resolv \in {"idle", "query", "lost"} /\ svc \in SUBSET Service
      /\ timer \in {"off", "armed"} /\ group \in Groups
  BY Types DEF IInv, KindInv, TypeOK
<1>1. CASE ClientStarts
  BY <1>1, StartStep
<1>2. CASE ClientResolved
  <2>1. PICK f \in BOOLEAN :
          /\ Fault(f)
          /\ \/ resolv' = "idle" /\ Create(To("v4", At("v4", "host", cfg.port)), f)
             \/ f /\ resolv' = "lost" /\ NoCreate
    BY <1>2 DEF ClientResolved
  <2>2. /\ mode = "up"
        /\ UNCHANGED <<batch, event, loop, kind, zeroconf, cfg, mode, queue, room, clientVars, timer, svc>>
    BY <1>2 DEF ClientResolved, UpIdle
  <2>3. To("v4", At("v4", "host", cfg.port)).dest.port = cfg.port
    BY DEF To, At
  <2> QED BY <1>0, <2>1, <2>2, <2>3, CreateStep
<1>3. ASSUME NEW s \in Service, ServiceAppears(s)
      PROVE  IInv'
  <2>1. PICK f \in BOOLEAN :
          /\ Fault(f)
          /\ (Create(ServiceTo(s), f) /\ mode = "up") \/ NoCreate
    BY <1>3 DEF ServiceAppears
  <2>2. /\ mode # "gone" /\ svc' = {s} /\ cfg.port = 0
        /\ UNCHANGED <<batch, event, loop, kind, zeroconf, cfg, mode, queue, room, clientVars, resolv,
                       timer>>
    BY <1>0, <1>3, UdpClientAssumption DEF ServiceAppears
  <2> QED BY <1>0, <2>1, <2>2, CreateStep
<1>4. CASE ServiceGoes
  <2>1. UNCHANGED <<loopVars, udpVars, resolv, timer>> /\ svc' = {}
    BY <1>4 DEF ServiceGoes
  <2>2. TypeOK'
    BY <1>0, <2>1
       DEF TypeOK, UdpTypeOK, LoopTypeOK, loopVars, udpVars, epVars, clientVars
  <2>3. KindInv' /\ HearInv' /\ PlaceInv'
    BY <2>1, SocketStays DEF loopVars, udpVars, epVars, Running
  <2>4. UnreadInv' /\ WriteInv' /\ ClientInv'
    BY <2>1, QuietStep DEF udpVars, epVars, clientVars
  <2> QED BY <2>2, <2>3, <2>4 DEF IInv
<1>5. CASE ClientEstablished
  <2>1. PICK f \in BOOLEAN : Fault(f) /\ timer' \in {"armed"} \cup OnFault(f, {"off"})
    BY <1>5 DEF ClientEstablished
  <2>2. /\ faults' \in 0..MaxFaults /\ (faults > 0 => faults' > 0) /\ (f => faults' > 0)
        /\ timer' \in {"off", "armed"} /\ (timer' = "armed" \/ f)
    BY <1>0, <2>1, FaultResult DEF OnFault
  <2>3. /\ UNCHANGED <<loopVars, kind, zeroconf, cfg, mode, addr, sock, queue, edge, room, clientVars,
                       mute, resolv, svc>>
        /\ group' = "established"
    BY <1>5 DEF ClientEstablished
  <2>4. TypeOK'
    BY <1>0, <2>2, <2>3 DEF TypeOK, UdpTypeOK, LoopTypeOK, loopVars, clientVars
  <2>5. KindInv' /\ PlaceInv' /\ HearInv'
    BY <2>2, <2>3 DEF IInv, KindInv, PlaceInv, ByInterface, HearInv
  <2>6. UnreadInv' /\ WriteInv' /\ ClientInv'
    BY <2>3, QuietStep DEF clientVars
  <2> QED BY <2>4, <2>5, <2>6 DEF IInv
<1>6. CASE TimerShoots \/ Unregistered
  <2>1. PICK f \in BOOLEAN : Fault(f) /\ AddSocket(f)
    BY <1>6 DEF TimerShoots, Unregistered
  <2>2. /\ Reports /\ (Ep \in poll'.set \/ f) /\ faults' \in 0..MaxFaults
        /\ (faults > 0 => faults' > 0) /\ (f => faults' > 0)
    BY <1>0, <2>1, AddSocketResult, FaultResult
  <2>3. /\ UNCHANGED <<batch, event, loop, kind, zeroconf, cfg, mode, addr, sock, queue, room,
                       clientVars, mute, resolv, svc>>
        /\ timer' \in {"off", "armed"} /\ group' \in Groups
    BY <1>0, <1>6 DEF TimerShoots, Unregistered, epVars, lookVars, Groups
  <2>4. poll' \in Polls /\ edge' \in BOOLEAN
    BY <1>0, <2>2 DEF Reports
  <2>5. TypeOK'
    BY <1>0, <2>2, <2>3, <2>4 DEF TypeOK, UdpTypeOK, LoopTypeOK, Polls, Groups, clientVars
  <2>6. KindInv' /\ PlaceInv' /\ HearInv'
    BY <2>2, <2>3 DEF IInv, KindInv, PlaceInv, ByInterface, HearInv
  <2>7. UnreadInv' /\ WriteInv' /\ ClientInv'
    BY <2>2, <2>3, OnlyListens DEF clientVars
  <2> QED BY <2>5, <2>6, <2>7 DEF IInv
<1>7. CASE ClientOUT
  <2>1. /\ event' = [event EXCEPT ![Ep] = event[Ep] \ {"OUT"}] /\ mute' = Writeable(mute, {Ep})
        /\ UNCHANGED <<poll, batch, loop, epVars, queue, edge, room, clientVars, faults, lookVars>>
    BY <1>7 DEF ClientOUT, Handled
  <2>2. event' \in [Obj -> SUBSET Bits] /\ ("IN" \in event[Ep] => "IN" \in event'[Ep])
    BY <1>0, <2>1
  <2>3. mute' \in Mutes /\ \A w \in Writer : mute'[w] = "full" => mute[w] = "full" /\ w # Ep
    BY <1>0, <2>1, WriteableResult
  <2>4. TypeOK'
    <3>1. mute' \in Mutes /\ event' \in [Obj -> SUBSET Bits]
      BY <2>2, <2>3
    <3>2. UNCHANGED <<poll, batch, loop, epVars, queue, edge, room, clientVars, faults, lookVars>>
      BY <2>1
    <3> QED BY <1>0, <3>1, <3>2
            DEF TypeOK, UdpTypeOK, LoopTypeOK, Mutes, epVars, clientVars, lookVars
  <2>5. KindInv' /\ HearInv' /\ PlaceInv'
    BY <2>1, <2>3, SocketStays DEF epVars, lookVars, Running
  <2>6. UnreadInv'
    BY <2>1, <2>2 DEF IInv, UnreadInv, Running, epVars
  <2>7. \A w \in Writer : mute'[w] # "full"
    BY <2>3 DEF IInv, KindInv, Writer
  <2>8. WriteInv'
    BY <2>7 DEF WriteInv
  <2>9. ClientInv'
    BY <2>1, <2>2 DEF IInv, ClientInv, epVars, clientVars
  <2> QED BY <2>4, <2>5, <2>6, <2>8, <2>9 DEF IInv
<1>8. ASSUME NEW why \in {"full", "refused"}, WriteFails(Ep, why), UNCHANGED lookVars
      PROVE  IInv'
  <2>1. /\ mute' = [mute EXCEPT ![Ep] = why] /\ (why = "full" => ~room)
        /\ UNCHANGED <<poll, batch, event, loop, epVars, queue, edge, room, clientVars>>
    BY <1>8 DEF WriteFails, loopVars
  <2>2. faults' \in 0..MaxFaults /\ (faults > 0 => faults' > 0)
    BY <1>0, <1>8, Types DEF WriteFails
  <2>3. mute' \in Mutes /\ \A w \in Client : mute'[w] = mute[w]
    BY <1>0, <2>1, UdpAssumption DEF Mutes, Writer
  <2>4. TypeOK'
    BY <1>0, <1>8, <2>1, <2>2, <2>3
       DEF TypeOK, UdpTypeOK, LoopTypeOK, Mutes, epVars, clientVars, lookVars
  <2>5. KindInv'
    BY <2>1, <2>3 DEF IInv, KindInv, epVars
  <2>6. HearInv' /\ PlaceInv'
    BY <1>8, <2>1, <2>2
       DEF IInv, HearInv, PlaceInv, ByInterface, ServerUnregistered, Running, epVars, lookVars
  <2>7. UnreadInv' /\ ClientInv'
    BY <2>1 DEF IInv, UnreadInv, ClientInv, Running, epVars, clientVars
  <2>8. WriteInv'
    BY <1>0, <2>1, <2>3 DEF IInv, WriteInv, Running, Alive, Mutes, Writer, epVars, clientVars
  <2> QED BY <2>4, <2>5, <2>6, <2>7, <2>8 DEF IInv
<1> QED BY <1>1, <1>2, <1>3, <1>4, <1>5, <1>6, <1>7, <1>8 DEF ClientNext

-----------------------------------------------------------------------------
LEMMA NextIInv == IInv /\ [Next]_vars => IInv'
<1> SUFFICES ASSUME IInv, [Next]_vars PROVE IInv'
  OBVIOUS
<1>1. CASE UdpCommon /\ UNCHANGED <<adv, lookVars>>
  BY <1>1, LoopStep, ReadStep, OwnerStep, PeerStep DEF UdpCommon
<1>2. CASE kind = "server" /\ ServerNext /\ UNCHANGED lookVars
  BY <1>1, <1>2, ServerStep
<1>3. CASE kind = "client" /\ ClientNext /\ UNCHANGED adv
  BY <1>1, <1>3, ClientStep
<1>4. CASE UNCHANGED vars
  <2>1. UNCHANGED <<loopVars, udpVars, adv, lookVars>>
    BY <1>4 DEF vars
  <2>2. TypeOK'
    BY <2>1
       DEF IInv, TypeOK, UdpTypeOK, LoopTypeOK, loopVars, udpVars, epVars, clientVars, lookVars
  <2>3. KindInv' /\ HearInv' /\ PlaceInv'
    BY <2>1, SocketStays DEF loopVars, udpVars, epVars, lookVars, Running
  <2>4. UnreadInv' /\ WriteInv' /\ ClientInv'
    BY <2>1, QuietStep DEF udpVars, epVars, clientVars
  <2> QED BY <2>2, <2>3, <2>4 DEF IInv
<1> QED BY <1>2, <1>3, <1>4 DEF Next

-----------------------------------------------------------------------------
\* The inductive invariant holds in every state an endpoint can reach, whatever comes in
\* between the handlers of the socket: Avahi, the resolver, the timer, the peers, the owner.
THEOREM Invariance == Spec => []IInv
<1> QED BY InitIInv, NextIInv, PTL DEF Spec

\* Every variable of a UDP endpoint and its loop keeps its type.
THEOREM TypeCorrect == Spec => []TypeOK
<1>1. IInv => TypeOK
  BY DEF IInv
<1> QED BY <1>1, Invariance, PTL

\* The read loop of epollIN in src/src/impl/udpsvr.h and udpcli.h takes all that an
\* edge-triggered event announced, so nothing waits for an event that will not come;
\* only a datagram without payload stops it.
THEOREM LeavesNothing == Spec => []NothingLeftUnread
<1>1. IInv => NothingLeftUnread
  <2> SUFFICES ASSUME IInv, UpIdle, batch = None, ~edge, Ep \in poll.set, queue # <<>>
               PROVE  Head(queue) = "zero"
    BY DEF NothingLeftUnread
  <2>1. batch[Ep] = {} /\ event[Ep] = {} /\ mode = "up" /\ Running
    BY UdpAssumption DEF UpIdle, Idle, None
  <2>2. Head(queue) # "data"
    BY <2>1 DEF IInv, UnreadInv
  <2>3. Head(queue) \in {"data", "zero"}
    BY Types DEF IInv
  <2> QED BY <2>2, <2>3
<1> QED BY <1>1, Invariance, PTL

\* A UDP endpoint with a socket is in the loop, or waits for Avahi's answer or its timer;
\* what is left are failing calls and a server that could not register its service.
THEOREM AlwaysHears == Spec => []NeverDeaf
<1>1. IInv => NeverDeaf
  BY DEF IInv, HearInv, NeverDeaf, UpIdle, Idle
<1> QED BY <1>1, Invariance, PTL

\* A writer stopped by a full send buffer has an EPOLLOUT to come once there is room,
\* also when the server made its socket anew.
THEOREM WritersWake == Spec => []WritableWhenRoom
<1>1. IInv => WritableWhenRoom
  BY DEF IInv, WriteInv, WritableWhenRoom
<1> QED BY <1>1, Invariance, PTL

\* For every table of interfaces and every configuration, a socket has the configured
\* port, and the service announces the port that is listened on, but for the broadcast
\* address of an interface.
THEOREM SocketsOnConfiguredPort == Spec => []PortAsConfigured
<1>1. IInv => PortAsConfigured
  <2> SUFFICES ASSUME IInv, sock = "open", ~ByInterface
               PROVE  /\ cfg.port # 0 => addr.port = cfg.port
                      /\ kind = "server" /\ HasLen(adv) => adv.port = addr.port
    BY DEF PortAsConfigured
  <2>1. CASE kind = "server"
    <3>0. PICK given \in GivenPort :
            /\ adv \in {Empty, Chosen(cfg, given)}
            /\ HasLen(Listens(cfg, given)) /\ addr = Listens(cfg, given)
      BY <2>1 DEF IInv, PlaceInv
    <3>1. /\ cfg.mode \in {"unicast", "broadcast", "multicast"}
          /\ ~(cfg.mode = "broadcast" /\ ItfFromStr(cfg.itf) # "" /\ ~HasLen(Asked(cfg)))
      BY <2>1, UdpServerAssumption DEF IInv, KindInv, ByInterface
    <3>2. /\ cfg.port # 0 => Listens(cfg, given).port = cfg.port
          /\ Listens(cfg, given).port = Chosen(cfg, given).port
      <4>1. PICK c : c = cfg
        OBVIOUS
      <4>2. Served(c, given)
        BY <3>0, <3>1, <4>1 DEF Served
      <4>3. /\ c.port # 0 => Listens(c, given).port = c.port
            /\ Listens(c, given).port = Chosen(c, given).port
        BY <4>2, ServerPlace
      <4> QED BY <4>1, <4>3
    <3> QED BY <3>0, <3>2 DEF HasLen
  <2>2. CASE kind = "client"
    BY <2>2 DEF IInv, PlaceInv
  <2> QED BY <2>1, <2>2 DEF IInv, TypeOK, UdpTypeOK
<1> QED BY <1>1, Invariance, PTL

-----------------------------------------------------------------------------
(* The clients keep the promises of endpoints.h. *)

LEMMA InitRefines == Init => Contract!Init
BY DEF Init, ServerInit, ClientInit, UdpInit, Contract!Init

\* What happens to the clients in a step: nothing, or data reach open ones, or one is
\* made, dropped or told, or the endpoint tells those that are open.
LEMMA MovesStep ==
  ASSUME IInv, [Next]_vars
  PROVE  \/ UNCHANGED <<life, told>> /\ got' \in {got, got \cup hand}
         \/ /\ \E c \in Client : \/ life[c] = "new" /\ life' = [life EXCEPT ![c] = "open"]
                                 \/ Alive(c) /\ life' = [life EXCEPT ![c] = "dead"]
            /\ UNCHANGED <<told, got>>
         \/ /\ \E c \in Client, l \in {"shut", "dead"} :
                 /\ life[c] = "open" /\ life' = [life EXCEPT ![c] = l]
                 /\ told' = [told EXCEPT ![c] = @ + 1]
            /\ UNCHANGED got
         \/ Destroy
<1>1. CASE \/ UdpPoll \/ UdpEvent \/ Stop \/ End \/ Deliver \/ ReadEnds \/ SendBuffer
           \/ ServerStarts \/ ServerEstablished \/ ServerCollision \/ ServerFailure \/ ServerOUT
           \/ ClientStarts \/ ClientResolved \/ ServiceGoes \/ ClientEstablished \/ TimerShoots
           \/ Unregistered \/ ClientOUT \/ UNCHANGED vars
  BY <1>1
     DEF UdpPoll, UdpEvent, Stop, End, Deliver, ReadEnds, SendBuffer, ServerStarts,
         ServerEstablished, ServerCollision, ServerFailure, ServerOUT, ClientStarts,
         ClientResolved, ServiceGoes, ClientEstablished, TimerShoots, Unregistered, ClientOUT,
         vars, udpVars, clientVars
<1>2. CASE \/ \E d \in {"data", "zero"} : Arrives(d)
           \/ \E s \in Service : ServiceAppears(s)
           \/ \E w \in Writer, why \in {"full", "refused"} : WriteFails(w, why)
  BY <1>2 DEF Arrives, ServiceAppears, WriteFails, clientVars
<1>3. CASE (\E n \in Name : Receive(n)) \/ (\E c \in Client : OwnerDrops(c))
  BY <1>3 DEF Receive, OwnerDrops
<1>4. ASSUME NEW n \in Name, ServiceRemoved(n)
      PROVE  /\ \E c \in Client, l \in {"shut", "dead"} :
                  /\ life[c] = "open" /\ life' = [life EXCEPT ![c] = l]
                  /\ told' = [told EXCEPT ![c] = @ + 1]
             /\ UNCHANGED got
  <2>1. PICK c \in entry[n] :
          /\ Alive(c) /\ told' = [told EXCEPT ![c] = @ + 1]
          /\ \E l \in {"shut", "dead"} : life' = [life EXCEPT ![c] = l]
    BY <1>4 DEF ServiceRemoved
  <2>2. mode = "up" /\ UNCHANGED got
    BY <1>4 DEF ServiceRemoved, UpIdle
  <2>3. c \in Client /\ life[c] = "open"
    BY <2>1, <2>2, Types DEF IInv, ClientInv, Alive
  <2> QED BY <2>1, <2>2, <2>3
<1> QED
  BY <1>1, <1>2, <1>3, <1>4 DEF Next, ServerNext, ClientNext, UdpCommon, ClientWriteFails, Writer

LEMMA StepRefines ==
  ASSUME IInv, [Next]_vars
  PROVE  Contract!Next
<1>0. life \in [Client -> Lives] /\ told \in [Client -> Nat] /\ \A c \in hand : life[c] = "open"
  BY Types DEF IInv, ClientInv
<1>1. CASE UNCHANGED <<life, told>> /\ got' \in {got, got \cup hand}
  <2>1. \A c \in Client : Contract!Stays(c)
    BY <1>1 DEF Contract!Stays
  <2>2. Contract!Reads
    BY <1>0, <1>1 DEF Contract!Reads
  <2> QED BY <2>1, <2>2 DEF Contract!Next
<1>2. CASE /\ \E c \in Client : \/ life[c] = "new" /\ life' = [life EXCEPT ![c] = "open"]
                                \/ Alive(c) /\ life' = [life EXCEPT ![c] = "dead"]
           /\ UNCHANGED <<told, got>>
  <2>1. \A c \in Client : Contract!Stays(c) \/ Contract!Connects(c) \/ Contract!IsDestroyed(c)
    BY <1>0, <1>2 DEF Alive, Contract!Stays, Contract!Connects, Contract!IsDestroyed
  <2> QED BY <1>2, <2>1 DEF Contract!Next, Contract!Reads
<1>3. CASE /\ \E c \in Client, l \in {"shut", "dead"} :
                /\ life[c] = "open" /\ life' = [life EXCEPT ![c] = l]
                /\ told' = [told EXCEPT ![c] = @ + 1]
           /\ UNCHANGED got
  <2>1. \A c \in Client : Contract!Stays(c) \/ Contract!IsTold(c)
    BY <1>0, <1>3 DEF Contract!Stays, Contract!IsTold
  <2> QED BY <1>3, <2>1 DEF Contract!Next, Contract!Reads
<1>4. CASE Destroy
  <2> DEFINE T == IF sock = "none" THEN {}
                  ELSE {c \in Client : Alive(c) /\ \E n \in Name : c \in entry[n]}
  <2>1. \E keep \in SUBSET T :
          life' = [c \in Client |-> IF c \notin T THEN life[c]
                                   ELSE IF c \in keep THEN "shut" ELSE "dead"]
    BY <1>4, Zenon DEF Destroy
  <2>2. told' = [c \in Client |-> told[c] + IF c \in T THEN 1 ELSE 0]
    BY <1>4 DEF Destroy
  <2>3. \A c \in T : life[c] = "open"
    BY <1>4 DEF IInv, ClientInv, Destroy, Alive
  <2>4. got' \in {got, got \cup hand}
    BY <1>4 DEF Destroy
  <2> HIDE DEF T
  <2>5. \A c \in Client : Contract!Stays(c) \/ Contract!IsTold(c)
    BY <1>0, <2>1, <2>2, <2>3 DEF Contract!Stays, Contract!IsTold
  <2>6. Contract!Reads
    BY <1>0, <2>4 DEF Contract!Reads
  <2> QED BY <2>5, <2>6 DEF Contract!Next
<1> QED BY <1>1, <1>2, <1>3, <1>4, MovesStep

\* The clients of UDP servers and clients keep what endpoints.h promises, whoever ends
\* them: announced once, data only while open, told at most once and never after the end.
THEOREM ClientsKeepContract == Spec => KeepsContract
<1>1. IInv /\ [Next]_vars => [Contract!Next]_(Contract!vars)
  BY StepRefines
<1> QED BY <1>1, InitRefines, Invariance, PTL DEF Spec, KeepsContract, Contract!Spec
=============================================================================
