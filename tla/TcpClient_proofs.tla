-------------------------- MODULE TcpClient_proofs --------------------------
(***************************************************************************)
(* Safety of the TCP client for every set of addresses, every list length  *)
(* and any number of failing system calls, with and without Zeroconf.      *)
(***************************************************************************)
EXTENDS TcpClient, TLAPS

USE TcpClientAssumption

HangUp == {"HUP", "RDHUP"}

\* The iterator is valid whenever the list has elements, and an end() iterator
\* has been used only in the case NoEndDereference allows.
IteratorInv ==
  /\ addresses # <<>> => addr <= Len(addresses)
  /\ NoEndDereference

\* Nothing of the socket exists before there is an address to connect to.
SocketInv ==
  /\ sock # "none" => addresses # <<>>
  /\ edge => sock \in Polled
  /\ evs = {} \/ fetched = {}
  /\ mode = "new" => /\ addresses = <<>> /\ resolv = "idle" /\ fetched = {} /\ evs = {}
                     /\ canon = "empty" /\ timer = "off" /\ group = "none"
                     /\ ~crashed

\* Without Zeroconf the registration path is never entered, and an answered
\* resolver is never asked again.
PlainInv ==
  ~Zeroconf =>
    /\ canon = "empty" /\ group = "none" /\ shot = "connect"
    /\ mode # "service"
    /\ addresses # <<>> => resolv = "idle"
    /\ addresses = <<>> => fetched = {} /\ evs = {} /\ timer = "off"

\* A hang-up that is still to be handled keeps the client awake as well.
WakeInv ==
  mode # "new" /\ ~crashed =>
    \/ Awake \/ AvahiCalls \/ GaveUp \/ WaitsForEndpoint
    \/ (fetched \cup evs) \cap HangUp # {}

\* One address, no Zeroconf: the timer and a live socket exclude each other.
SingleInv ==
  ~Zeroconf /\ Len(addresses) = 1 =>
    /\ timer = "armed" => sock \in {"none", "bare"} /\ fetched = {}
    /\ sock \in {"syn", "est"} => (fetched \cup evs) \cap HangUp = {}

IInv ==
  TypeOK /\ IteratorInv /\ SocketInv /\ PlainInv /\ WakeInv /\ SingleInv

Timers == {"off", "idle", "armed", "lost"}
Groups == {"none", "dead", "creating", "registering", "established", "idle"}
PreStates == [timer : Timers, group : Groups, closed : BOOLEAN]

\* What connect() leaves behind: a valid iterator, and a connection attempt, a
\* registration before it, or a running (or failed) timer.
ConnectEffect(list, pre) ==
  /\ addr' \in 1..(Len(list) + 1)
  /\ list # <<>> => addr' <= Len(list)
  /\ sock' \in {"none", "bare"} \cup Polled
  /\ edge' \in BOOLEAN
  /\ edge' => sock' \in Polled
  /\ stream' \in {"none", "own", "stale"}
  /\ canon' \in Canon
  /\ timer' \in Timers
  /\ group' \in Groups
  /\ ~Zeroconf /\ canon = "empty" => canon' = "empty" /\ group' = pre.group

Started ==
  \/ sock' = "syn"
  \/ sock' = "bare" /\ group' \in {"creating", "dead"}
  \/ timer' \in {"armed", "lost"}

\* A walk over a list that is not empty has that effect, wherever it starts.
LEMMA WalkResult ==
  ASSUME TypeOK, edge => sock \in Polled,
         NEW list \in Seq(Addr), list # <<>>,
         NEW a \in 1..(Len(list) + 1), NEW pre \in PreStates, NEW f \in BOOLEAN,
         Walk(list, a, pre, f)
  PROVE  ConnectEffect(list, pre) /\ Started
<1>1. PICK k \in a..(Len(list) + 1) :
        \/ k > Len(list) /\ Exhausted(k - a, pre, f)
        \/ k <= Len(list) /\ addr' = k /\ Open(pre, f)
  BY DEF Walk
<1>2. Len(list) \in Nat /\ Len(list) > 0
  BY DEF TypeOK
<1>3. CASE k > Len(list) /\ Exhausted(k - a, pre, f)
  <2>1. /\ addr' = 1 /\ group' = pre.group
        /\ timer' \in {"armed", "lost"}
    BY <1>3 DEF Exhausted, ArmTimer, OnFault
  <2>2. CASE k - a = 0
    <3>1. IF pre.closed THEN CloseSocket ELSE UNCHANGED <<sock, edge, stream>>
      BY <1>3, <2>2 DEF Exhausted
    <3>2. edge' \in BOOLEAN /\ (edge' => sock' \in Polled)
      BY <3>1 DEF CloseSocket, TypeOK
    <3>3. canon' = canon
      BY <1>3, <2>2 DEF Exhausted
    <3> QED
      BY <1>2, <2>1, <3>1, <3>2, <3>3
         DEF CloseSocket, ClosedStream, TypeOK, ConnectEffect, Started,
             PreStates, Timers, Groups
  <2>3. CASE k - a # 0
    <3>1. edge' \in BOOLEAN /\ (edge' => sock' \in Polled)
      BY <1>3, <2>3 DEF Exhausted
    <3>2. /\ sock' \in {"none", "bare"}
          /\ stream' \in {"none", "own", "stale"}
          /\ canon' \in Canon
          /\ ~Zeroconf /\ canon = "empty" => canon' = "empty"
      BY <1>3, <2>3
         DEF Exhausted, ClosedStream, StreamNumbers, OnFault, TypeOK, Canon, Names
    <3> QED
      BY <1>2, <2>1, <3>1, <3>2
         DEF ConnectEffect, Started, PreStates, Timers, Groups
  <2> QED BY <2>2, <2>3
<1>4. CASE k <= Len(list) /\ addr' = k /\ Open(pre, f)
  <2>1. edge' \in BOOLEAN /\ (edge' => sock' \in Polled)
    BY <1>4 DEF Open
  <2>2. stream' \in {"none", "own", "stale"} /\ timer' = pre.timer
    BY <1>4 DEF Open, StreamNumbers
  <2>3. /\ sock' \in {"syn", "bare"} /\ canon' \in Canon /\ group' \in Groups
        /\ sock' = "syn" \/ (sock' = "bare" /\ group' \in {"creating", "dead"})
        /\ ~Zeroconf => canon' = "empty" /\ group' = pre.group
    BY <1>4 DEF Open, OnFault, Canon, Names, Groups, PreStates
  <2> QED
    BY <1>2, <1>4, <2>1, <2>2, <2>3 DEF ConnectEffect, Started, PreStates, Polled
<1> QED BY <1>1, <1>3, <1>4

\* So has connect(), which asks the resolver when the list is empty.
LEMMA ConnectResult ==
  ASSUME TypeOK, edge => sock \in Polled,
         NEW list \in Seq(Addr),
         NEW a \in 1..(Len(list) + 1), NEW pre \in PreStates, NEW f \in BOOLEAN,
         Connect(list, a, pre, f)
  PROVE  /\ ConnectEffect(list, pre)
         /\ list # <<>> => Started /\ UNCHANGED resolv
         /\ list = <<>> => /\ resolv' \in {"query", "lost"}
                           /\ UNCHANGED <<sock, edge, stream, canon>>
                           /\ timer' = pre.timer
<1>1. CASE list = <<>>
  <2>1. /\ addr' = a /\ timer' = pre.timer /\ group' = pre.group
        /\ UNCHANGED <<sock, edge, stream, canon>>
        /\ resolv' \in {"query", "lost"}
    BY <1>1 DEF Connect, Requery, OnFault
  <2>2. edge' \in BOOLEAN /\ (edge' => sock' \in Polled)
    BY <2>1 DEF TypeOK
  <2> QED
    BY <1>1, <2>1, <2>2 DEF ConnectEffect, TypeOK, PreStates
<1>2. CASE list # <<>>
  BY <1>2, WalkResult DEF Connect
<1> QED BY <1>1, <1>2

\* Counting a failing call keeps the counter within its bound.
LEMMA FaultType ==
  ASSUME TypeOK, NEW f \in BOOLEAN, Fault(f)
  PROVE  faults' \in 0..MaxFaults
BY DEF TypeOK, Fault

\* What connect() is told of the state it is called in has the right type.
LEMMA NowType ==
  ASSUME TypeOK
  PROVE  /\ Now \in PreStates /\ ~Now.closed
         /\ [Now EXCEPT !.closed = TRUE] \in PreStates
         /\ [Now EXCEPT !.timer = "idle"] \in PreStates
         /\ [Now EXCEPT !.group = "idle"] \in PreStates
BY DEF TypeOK, Now, PreStates, Timers, Groups

\* connect_to_peer_retry: as connect(), or it starts the connection of the bare
\* socket, or it dereferences end(), which only an emptied list allows.
LEMMA RetryResult ==
  ASSUME TypeOK, IteratorInv, SocketInv, ~crashed, Zeroconf,
         NEW pre \in PreStates, NEW f \in BOOLEAN,
         PeerRetry(pre, f)
  PROVE  /\ ConnectEffect(addresses, pre)
         /\ resolv' = resolv
         /\ crashed' \in BOOLEAN
         /\ sock' # "none" => addresses # <<>>
         /\ crashed' => addresses = <<>>
         /\ ~crashed' => Started
<1>1. CASE addr > Len(addresses)
  <2>1. addresses = <<>>
    BY <1>1 DEF IteratorInv, TypeOK
  <2> QED
    BY <1>1, <2>1 DEF PeerRetry, SocketInv, TypeOK, ConnectEffect, PreStates, Timers, Groups,
           Canon, Names, Polled
<1>2. CASE addr <= Len(addresses)
  <2>1. addresses # <<>> /\ addresses \in Seq(Addr) /\ addr + 1 \in 1..(Len(addresses) + 1)
    BY <1>2 DEF TypeOK
  <2>2. CASE sock = "bare" /\ sock' = "syn" /\ timer' = pre.timer /\ group' = pre.group
             /\ UNCHANGED <<addr, edge, stream, canon, resolv>>
    BY <1>2, <2>1, <2>2 DEF PeerRetry, SocketInv, TypeOK, ConnectEffect, Started,
           PreStates, Timers, Groups, Canon, Names, Polled
  <2>3. CASE Connect(addresses, addr + 1, [pre EXCEPT !.closed = TRUE], f)
    <3>1. [pre EXCEPT !.closed = TRUE] \in PreStates
      BY DEF PreStates
    <3>2. ConnectEffect(addresses, [pre EXCEPT !.closed = TRUE]) /\ Started /\ resolv' = resolv
      BY <2>1, <2>3, <3>1, ConnectResult DEF SocketInv
    <3>3. ConnectEffect(addresses, pre)
      BY <3>2 DEF ConnectEffect
    <3> QED BY <1>2, <2>1, <3>2, <3>3 DEF PeerRetry, TypeOK
  <2> QED BY <1>2, <2>2, <2>3 DEF PeerRetry, TypeOK
<1> QED BY <1>1, <1>2 DEF TypeOK

\* Which socket a walk leaves: none or a bare one with the timer running, or a
\* new connection attempt that leaves the timer as it was.
LEMMA WalkSocket ==
  ASSUME NEW list \in Seq(Addr), list # <<>>,
         NEW a \in 1..(Len(list) + 1), NEW pre \in PreStates, NEW f \in BOOLEAN,
         a <= Len(list) \/ pre.closed,
         Walk(list, a, pre, f)
  PROVE  /\ \/ sock' \in {"none", "bare"}
            \/ sock' = "syn" /\ timer' = pre.timer
         /\ a > Len(list) => sock' = "none"
<1>1. PICK k \in a..(Len(list) + 1) :
        \/ k > Len(list) /\ Exhausted(k - a, pre, f)
        \/ k <= Len(list) /\ addr' = k /\ Open(pre, f)
  BY DEF Walk
<1>2. Len(list) \in Nat
  OBVIOUS
<1>3. CASE k > Len(list) /\ Exhausted(k - a, pre, f)
  <2>1. CASE k - a = 0
    <3>1. pre.closed
      BY <1>2, <1>3, <2>1
    <3> QED BY <1>3, <2>1, <3>1 DEF Exhausted, CloseSocket
  <2>2. CASE k - a # 0
    <3>1. sock' \in {"none", "bare"}
      BY <1>3, <2>2 DEF Exhausted, OnFault
    <3>2. ~(a > Len(list))
      BY <1>2, <2>2
    <3> QED BY <3>1, <3>2
  <2> QED BY <2>1, <2>2
<1>4. CASE k <= Len(list) /\ addr' = k /\ Open(pre, f)
  BY <1>2, <1>4 DEF Open
<1> QED BY <1>1, <1>3, <1>4

-----------------------------------------------------------------------------
\* The initial states satisfy the inductive invariant.
LEMMA InitIInv == Init => IInv
<1> SUFFICES ASSUME Init PROVE IInv
  OBVIOUS
<1>1. TypeOK
  <2>1. addresses \in Seq(Addr) /\ addr \in 1..(Len(addresses) + 1)
    BY DEF Init
  <2>2. edge \in BOOLEAN /\ crashed \in BOOLEAN /\ up \in SUBSET Addr
    BY DEF Init
  <2>3. faults \in 0..MaxFaults
    BY DEF Init, TcpClientAssumption
  <2> QED BY <2>1, <2>2, <2>3 DEF Init, TypeOK, Canon
<1>2. Len(addresses) = 0
  BY DEF Init
<1>3. IteratorInv /\ SocketInv /\ PlainInv
  BY DEF Init, IteratorInv, NoEndDereference, SocketInv, PlainInv
<1>4. WakeInv /\ SingleInv
  BY <1>2 DEF Init, WakeInv, SingleInv
<1> QED BY <1>1, <1>3, <1>4 DEF IInv

\* A hang-up handler preserves the inductive invariant.
LEMMA PeerGoneIInv ==
  ASSUME IInv, ~crashed, evs # {}, evs' \in SUBSET evs, PeerGone,
         UNCHANGED <<mode, addresses, fetched, shot, up>>
  PROVE  IInv'
<1> USE DEF IInv
<1>1. mode # "new" /\ fetched = {}
  BY DEF SocketInv
<1>2. CASE canon # "empty"
  <2>1. /\ CloseSocket
        /\ UNCHANGED <<addr, canon, timer, resolv, group, crashed, faults>>
    BY <1>2 DEF PeerGone
  <2>2. canon \in {"service", "endpoint"} /\ canon' = canon /\ sock' = "none"
    BY <1>2, <2>1 DEF TypeOK, Canon, CloseSocket
  <2>3. WakeInv'
    BY <2>2 DEF WakeInv, AvahiCalls, WaitsForEndpoint
  <2>4. TypeOK'
    BY <2>1 DEF CloseSocket, ClosedStream, TypeOK, Bits
  <2>5. IteratorInv' /\ SocketInv' /\ PlainInv' /\ SingleInv'
    BY <1>1, <1>2, <2>1
       DEF CloseSocket, IteratorInv, NoEndDereference, SocketInv, PlainInv, SingleInv, Polled
  <2> QED BY <2>3, <2>4, <2>5
<1>3. CASE canon = "empty" /\ addr > Len(addresses)
  <2>1. crashed' /\ UNCHANGED <<addr, sock, edge, stream, canon, timer, resolv, group, faults>>
    BY <1>3 DEF PeerGone, Crash
  <2>2. addresses = <<>>
    BY <1>3 DEF IteratorInv, TypeOK
  <2>3. Zeroconf
    BY <2>2 DEF PlainInv
  <2>4. crashed' \in BOOLEAN
    BY <1>3 DEF PeerGone, Crash
  <2> QED
    BY <1>1, <2>1, <2>2, <2>3, <2>4
       DEF TypeOK, IteratorInv, NoEndDereference, SocketInv,
           PlainInv, WakeInv, SingleInv, Bits
<1>4. CASE canon = "empty" /\ addr <= Len(addresses)
  <2> DEFINE pre == [Now EXCEPT !.closed = TRUE]
  <2>0. ~(addr > Len(addresses))
    BY <1>4 DEF TypeOK
  <2>1. PICK f \in BOOLEAN : Fault(f) /\ Connect(addresses, addr + 1, pre, f)
    BY <1>4, <2>0, Zenon DEF PeerGone
  <2>2. crashed' = crashed
    BY <1>4, <2>0 DEF PeerGone
  <2>3. addresses # <<>> /\ addresses \in Seq(Addr) /\ addr + 1 \in 1..(Len(addresses) + 1)
    BY <1>4 DEF TypeOK
  <2>4. pre \in PreStates /\ pre.closed /\ pre.group = group
    BY NowType DEF Now
  <2> HIDE DEF pre
  <2>5. ConnectEffect(addresses, pre) /\ Started /\ resolv' = resolv
    BY <2>1, <2>3, <2>4, ConnectResult DEF SocketInv
  <2>6. faults' \in 0..MaxFaults
    BY <2>1, FaultType
  <2>7. Len(addresses) = 1 => sock' = "none"
    <3>1. Walk(addresses, addr + 1, pre, f)
      BY <2>1, <2>3 DEF Connect
    <3>2. ASSUME Len(addresses) = 1 PROVE addr + 1 > Len(addresses)
      BY <3>2, <2>3 DEF TypeOK
    <3> QED BY <3>1, <3>2, <2>3, <2>4, WalkSocket
  <2>8. TypeOK'
    <3>1. evs' \in SUBSET Bits
      BY DEF TypeOK
    <3> QED BY <2>2, <2>5, <2>6, <3>1 DEF TypeOK, ConnectEffect, Timers, Groups
  <2>9. IteratorInv' /\ SocketInv'
    BY <1>1, <2>2, <2>3, <2>5 DEF IteratorInv, NoEndDereference, SocketInv, ConnectEffect
  <2>10. PlainInv'
    BY <2>3, <2>4, <2>5, <1>4 DEF PlainInv, ConnectEffect
  <2>11. WakeInv'
    BY <2>5 DEF WakeInv, Started, Awake, AvahiCalls, GaveUp, WaitsForEndpoint
  <2>12. SingleInv'
    BY <1>1, <2>7 DEF SingleInv
  <2> QED BY <2>8, <2>9, <2>10, <2>11, <2>12
<1> QED BY <1>2, <1>3, <1>4 DEF TypeOK

\* So do connect() called by the timer, by a new service or by the resolver:
\* whoever calls it on a list it leaves as addresses', between two events.
LEMMA ConnectIInv ==
  ASSUME IInv, Idle, mode # "new",
         NEW list \in Seq(Addr), NEW a \in 1..(Len(list) + 1),
         NEW pre \in PreStates, NEW f \in BOOLEAN,
         list # <<>> => a <= Len(list),
         ~Zeroconf => /\ pre.group = "none" /\ pre.timer # "armed"
                      /\ list # <<>>
                      /\ resolv' = "idle"
                      /\ Len(list) = 1 => fetched = {},
         sock # "none" => list # <<>>,
         Fault(f), addresses' = list,
         IF list = <<>> THEN Connect(list, a, pre, f) ELSE Walk(list, a, pre, f),
         resolv' \in {"idle", "query", "retry", "lost"},
         UNCHANGED <<mode, fetched, evs, shot, crashed, up>>
  PROVE  IInv'
<1> USE DEF IInv
<1>1. evs = {} /\ ~crashed
  BY DEF Idle
<1>2. /\ ConnectEffect(list, pre)
      /\ list # <<>> => Started
      /\ list = <<>> => resolv' \in {"query", "lost"} /\ UNCHANGED <<sock, edge>>
  BY WalkResult, ConnectResult DEF SocketInv
<1>3. faults' \in 0..MaxFaults
  BY FaultType
<1>4. TypeOK'
  BY <1>2, <1>3 DEF TypeOK, ConnectEffect, Timers, Groups
<1>5. IteratorInv'
  BY <1>1, <1>2 DEF IteratorInv, NoEndDereference, ConnectEffect
<1>6. SocketInv'
  BY <1>1, <1>2 DEF SocketInv, ConnectEffect
<1>7. PlainInv'
  BY <1>1, <1>2 DEF PlainInv, ConnectEffect
<1>8. WakeInv'
  BY <1>1, <1>2 DEF WakeInv, Started, Awake, AvahiCalls, GaveUp, WaitsForEndpoint
<1>9. SingleInv'
  <2> SUFFICES ASSUME ~Zeroconf, Len(list) = 1 PROVE SingleInv'
    BY DEF SingleInv
  <2>1. \/ sock' \in {"none", "bare"}
        \/ sock' = "syn" /\ timer' = pre.timer
    BY WalkSocket
  <2> QED BY <1>1, <2>1 DEF SingleInv
<1> QED BY <1>4, <1>5, <1>6, <1>7, <1>8, <1>9

\* And the Zeroconf callbacks that retry the connection to the peer.
LEMMA RetryIInv ==
  ASSUME IInv, Idle, Zeroconf, mode # "new",
         NEW pre \in PreStates, NEW f \in BOOLEAN,
         Fault(f), PeerRetry(pre, f),
         shot' \in {"connect", "peer"},
         UNCHANGED <<mode, addresses, fetched, evs, up>>
  PROVE  IInv'
<1> USE DEF IInv
<1>1. evs = {} /\ ~crashed
  BY DEF Idle
<1>2. /\ ConnectEffect(addresses, pre)
      /\ resolv' = resolv
      /\ crashed' \in BOOLEAN
      /\ sock' # "none" => addresses # <<>>
      /\ crashed' => addresses = <<>>
      /\ ~crashed' => Started
  BY <1>1, RetryResult
<1>3. faults' \in 0..MaxFaults
  BY FaultType
<1>4. TypeOK'
  BY <1>2, <1>3 DEF TypeOK, ConnectEffect, Timers, Groups
<1>5. IteratorInv'
  BY <1>1, <1>2 DEF IteratorInv, NoEndDereference, ConnectEffect
<1>6. SocketInv'
  BY <1>1, <1>2 DEF SocketInv, ConnectEffect
<1>7. PlainInv' /\ SingleInv'
  BY DEF PlainInv, SingleInv
<1>8. WakeInv'
  BY <1>1, <1>2 DEF WakeInv, Started, Awake, AvahiCalls, GaveUp, WaitsForEndpoint
<1> QED BY <1>4, <1>5, <1>6, <1>7, <1>8

-----------------------------------------------------------------------------
\* Every step preserves the inductive invariant.
LEMMA NextIInv == IInv /\ [Next]_vars => IInv'
<1> SUFFICES ASSUME IInv, [Next]_vars PROVE IInv'
  OBVIOUS
<1> USE DEF IInv
<1>1. CASE InitHost
  <2>1. PICK f \in BOOLEAN : Fault(f) /\ Requery(f)
    BY <1>1 DEF InitHost
  <2>2. faults' \in 0..MaxFaults /\ resolv' \in {"query", "lost"}
    BY <2>1, FaultType DEF Requery, OnFault
  <2> QED
    BY <1>1, <2>2 DEF InitHost, TypeOK, IteratorInv, NoEndDereference, SocketInv, PlainInv,
                      WakeInv, SingleInv, Awake, AvahiCalls, GaveUp, WaitsForEndpoint
<1>2. CASE InitService
  <2>1. Zeroconf /\ mode = "new" /\ mode' = "service"
        /\ UNCHANGED <<fetched, evs, shot, crashed, up>>
    BY <1>2 DEF InitService
  <2>2. CASE /\ canon' \in Names
             /\ UNCHANGED <<addresses, addr, sock, edge, stream, timer, resolv, group, faults>>
    BY <2>1, <2>2
       DEF TypeOK, IteratorInv, NoEndDereference, SocketInv, PlainInv, WakeInv, SingleInv,
           AvahiCalls, WaitsForEndpoint, Canon, Names
  <2>3. ASSUME NEW n \in 1..MaxList, NEW list \in [1..n -> Addr], NEW f \in BOOLEAN,
               Fault(f), addresses' = list, Connect(list, 1, Now, f)
        PROVE  IInv'
    <3>1. list \in Seq(Addr) /\ list # <<>> /\ Len(list) = n /\ 1 \in 1..(Len(list) + 1)
      BY <2>3
    <3>2. Now \in PreStates
      BY NowType
    <3>3. Connect(list, 1, Now, f)
      BY <2>3
    <3>4. ConnectEffect(list, Now) /\ Started /\ resolv' = resolv
      BY <3>1, <3>2, <3>3, ConnectResult DEF SocketInv
    <3>5. faults' \in 0..MaxFaults
      BY <2>3, FaultType
    <3>6. addresses' = list
      BY <2>3
    <3>7. TypeOK'
      BY <2>1, <3>1, <3>4, <3>5, <3>6 DEF TypeOK, ConnectEffect, Timers, Groups
    <3>8. IteratorInv' /\ SocketInv'
      BY <2>1, <3>1, <3>4, <3>6 DEF IteratorInv, NoEndDereference, SocketInv, ConnectEffect
    <3>9. PlainInv' /\ SingleInv'
      BY <2>1 DEF PlainInv, SingleInv
    <3>10. WakeInv'
      BY <3>4 DEF WakeInv, Started, Awake, AvahiCalls, GaveUp, WaitsForEndpoint
    <3> QED BY <3>7, <3>8, <3>9, <3>10
  <2> QED BY <1>2, <2>2, <2>3 DEF InitService
<1>3. CASE Poll
  <2>1. /\ sock \in Polled /\ mode # "new" /\ evs = {} /\ ~crashed
        /\ fetched' \in Ready(sock) /\ edge' = FALSE
        /\ UNCHANGED <<mode, addresses, addr, sock, evs, stream, canon, timer, shot,
                       resolv, group, crashed, up, faults>>
    BY <1>3 DEF Poll, Idle, SocketInv, Polled
  <2>2. /\ fetched' \in SUBSET Bits
        /\ sock \in {"est", "eof", "dead"}
        /\ sock = "est" => fetched' \cap HangUp = {}
        /\ sock \in {"eof", "dead"} => "RDHUP" \in fetched'
    BY <2>1 DEF Ready, Bits, HangUp, Polled
  <2>3. addresses # <<>>
    BY <2>1 DEF SocketInv, Polled
  <2>4. TypeOK'
    BY <2>1, <2>2 DEF TypeOK
  <2>5. IteratorInv' /\ SocketInv'
    BY <2>1 DEF IteratorInv, NoEndDereference, SocketInv
  <2>6. PlainInv'
    BY <2>1, <2>3 DEF PlainInv
  <2>7. WakeInv'
    BY <2>1, <2>2 DEF WakeInv, Awake, AvahiCalls, GaveUp, WaitsForEndpoint, HangUp
  <2>8. SingleInv'
    BY <2>1, <2>2 DEF SingleInv
  <2> QED BY <2>4, <2>5, <2>6, <2>7, <2>8
<1>4. CASE Dispatch
  BY <1>4 DEF Dispatch, Idle, TypeOK, IteratorInv, NoEndDereference, SocketInv,
         PlainInv, WakeInv, SingleInv, Awake, AvahiCalls, GaveUp, WaitsForEndpoint, HangUp, Polled, Bits
<1>5. CASE EpollIN
  BY <1>5 DEF EpollIN, Current, Announced, TypeOK, IteratorInv, NoEndDereference, SocketInv,
         PlainInv, WakeInv, SingleInv, Awake, AvahiCalls, GaveUp, WaitsForEndpoint, HangUp, Polled, Bits
<1>6. CASE EpollOUT
  BY <1>6 DEF EpollOUT, Current, Announced, TypeOK, IteratorInv, NoEndDereference, SocketInv,
         PlainInv, WakeInv, SingleInv, Awake, AvahiCalls, GaveUp, WaitsForEndpoint, HangUp, Polled, Bits
<1>7. CASE EpollERR
  BY <1>7 DEF EpollERR, Current, Announced, TypeOK, IteratorInv, NoEndDereference, SocketInv,
         PlainInv, WakeInv, SingleInv, Awake, AvahiCalls, GaveUp, WaitsForEndpoint, HangUp, Polled, Bits
<1>8. CASE EpollHUP
  <2>1. evs # {} /\ evs' \in SUBSET evs /\ ~crashed
    BY <1>8 DEF EpollHUP, Current
  <2> QED BY <1>8, <2>1, PeerGoneIInv DEF EpollHUP
<1>9. CASE EpollRDHUP
  <2>1. evs # {} /\ evs' \in SUBSET evs /\ ~crashed
    BY <1>9 DEF EpollRDHUP, Current
  <2> QED BY <1>9, <2>1, PeerGoneIInv DEF EpollRDHUP
<1>10. CASE TimerConnect
  <2> DEFINE pre == [Now EXCEPT !.timer = "idle"]
  <2>1. PICK f \in BOOLEAN : Fault(f) /\ Connect(addresses, addr, pre, f)
    BY <1>10 DEF TimerConnect
  <2>2. /\ Idle /\ timer = "armed" /\ mode # "new"
        /\ UNCHANGED <<mode, addresses, fetched, evs, shot, crashed, up>>
    BY <1>10 DEF TimerConnect, SocketInv
  <2>3. pre \in PreStates /\ pre.timer = "idle" /\ pre.group = group
    BY NowType DEF Now
  <2> HIDE DEF pre
  <2>4. /\ addresses \in Seq(Addr) /\ addr \in 1..(Len(addresses) + 1)
        /\ addresses # <<>> => addr <= Len(addresses)
    BY DEF TypeOK, IteratorInv
  <2>5. IF addresses = <<>> THEN Connect(addresses, addr, pre, f)
                            ELSE Walk(addresses, addr, pre, f)
    BY <2>1 DEF Connect
  <2>6. /\ resolv' \in {"idle", "query", "retry", "lost"}
        /\ addresses # <<>> => resolv' = resolv
    BY <2>1 DEF Connect, Requery, OnFault, TypeOK
  <2>7. ~Zeroconf => /\ pre.group = "none" /\ pre.timer # "armed"
                     /\ addresses # <<>>
                     /\ resolv' = "idle"
                     /\ Len(addresses) = 1 => fetched = {}
    BY <2>2, <2>3, <2>6 DEF PlainInv, SingleInv
  <2> QED BY <2>1, <2>2, <2>3, <2>4, <2>5, <2>6, <2>7, ConnectIInv DEF SocketInv
<1>11. CASE TimerPeer
  <2> DEFINE pre == [Now EXCEPT !.timer = "idle"]
  <2>1. PICK f \in BOOLEAN : Fault(f) /\ PeerRetry(pre, f)
    BY <1>11 DEF TimerPeer
  <2>2. Idle /\ Zeroconf /\ mode # "new" /\ shot' = "connect"
    BY <1>11 DEF TimerPeer, SocketInv, PlainInv
  <2>3. pre \in PreStates
    BY NowType
  <2> HIDE DEF pre
  <2> QED BY <1>11, <2>1, <2>2, <2>3, RetryIInv DEF TimerPeer
<1>12. CASE Resolved
  <2>0. PICK n \in 1..MaxList : \E list \in [1..n -> Addr], f \in BOOLEAN :
          Fault(f) /\ addresses' = list /\ Walk(list, 1, Now, f)
    BY <1>12 DEF Resolved
  <2>1. PICK list \in [1..n -> Addr], f \in BOOLEAN :
          Fault(f) /\ addresses' = list /\ Walk(list, 1, Now, f)
    BY <2>0
  <2>2. list \in Seq(Addr) /\ Len(list) = n /\ list # <<>> /\ 1 \in 1..(Len(list) + 1)
    BY <2>1
  <2>3. /\ Idle /\ mode # "new" /\ resolv = "query" /\ resolv' = "idle"
        /\ UNCHANGED <<mode, fetched, evs, shot, crashed, up>>
    BY <1>12 DEF Resolved
  <2>4. Now \in PreStates /\ Now.timer = timer /\ Now.group = group
    BY NowType DEF Now
  <2>5. ~Zeroconf => Now.group = "none" /\ Now.timer # "armed" /\ fetched = {}
    BY <2>3, <2>4 DEF PlainInv
  <2>6. list # <<>> => 1 <= Len(list)
    BY <2>2
  <2> QED BY <2>1, <2>2, <2>3, <2>4, <2>5, <2>6, ConnectIInv
<1>13. CASE ResolveFailed
  <2>1. faults' \in 0..MaxFaults
    BY <1>13, FaultType DEF ResolveFailed
  <2>2. /\ Idle /\ resolv \in {"query", "retry"} /\ resolv' \in {"query", "retry", "lost"}
        /\ UNCHANGED <<mode, addresses, addr, sock, edge, fetched, evs, stream, canon,
                       timer, shot, group, crashed, up>>
    BY <1>13 DEF ResolveFailed, Requery, OnFault
  <2> QED
    BY <2>1, <2>2
       DEF TypeOK, IteratorInv, NoEndDereference, SocketInv, PlainInv, WakeInv,
           SingleInv, Awake, AvahiCalls, GaveUp, WaitsForEndpoint
<1>14. CASE ResolveAgain
  <2>1. faults' \in 0..MaxFaults
    BY <1>14, FaultType DEF ResolveAgain
  <2>2. /\ Idle /\ resolv \in {"query", "retry"} /\ resolv' \in {"query", "retry", "lost"}
        /\ UNCHANGED <<mode, addresses, addr, sock, edge, fetched, evs, stream, canon,
                       timer, shot, group, crashed, up>>
    BY <1>14 DEF ResolveAgain, Requery, OnFault
  <2> QED
    BY <2>1, <2>2
       DEF TypeOK, IteratorInv, NoEndDereference, SocketInv, PlainInv, WakeInv,
           SingleInv, Awake, AvahiCalls, GaveUp, WaitsForEndpoint
<1>15. CASE SvcResolved
  <2>1. PICK a \in Addr, f \in BOOLEAN :
          /\ Fault(f)
          /\ addresses' = <<a>> \o addresses
          /\ IF addresses = <<>>
               THEN Connect(<<a>>, 1, Now, f)
               ELSE /\ addr' = addr + 1
                    /\ UNCHANGED <<sock, edge, stream, canon, timer, resolv, group>>
    BY <1>15 DEF SvcResolved
  <2>2. /\ Idle /\ canon = "service" /\ mode # "new" /\ Zeroconf
        /\ UNCHANGED <<mode, fetched, evs, shot, crashed, up>>
    BY <1>15 DEF SvcResolved, SocketInv, PlainInv
  <2>3. CASE addresses = <<>>
    <3> DEFINE list == <<a>>
    <3>1. list \in Seq(Addr) /\ list # <<>> /\ Len(list) = 1 /\ 1 \in 1..(Len(list) + 1)
      OBVIOUS
    <3>2. addresses' = list /\ Connect(list, 1, Now, f)
      BY <2>1, <2>3
    <3> HIDE DEF list
    <3>3. Walk(list, 1, Now, f) /\ resolv' = resolv
      BY <3>1, <3>2 DEF Connect
    <3>4. Now \in PreStates
      BY NowType
    <3>5. list # <<>> => 1 <= Len(list)
      BY <3>1
    <3>6. resolv' \in {"idle", "query", "retry", "lost"}
      BY <3>3 DEF TypeOK
    <3> QED BY <2>1, <2>2, <3>1, <3>2, <3>3, <3>4, <3>5, <3>6, ConnectIInv
  <2>4. CASE addresses # <<>>
    <3>1. /\ addresses' \in Seq(Addr) /\ Len(addresses') = Len(addresses) + 1
          /\ addresses' # <<>>
      BY <2>1 DEF TypeOK
    <3>2. addr' = addr + 1 /\ UNCHANGED <<sock, edge, stream, canon, timer, resolv, group>>
      BY <2>1, <2>4
    <3>3. faults' \in 0..MaxFaults
      BY <2>1, FaultType
    <3>4. TypeOK'
      BY <2>2, <3>1, <3>2, <3>3 DEF TypeOK
    <3>5. IteratorInv' /\ SocketInv'
      BY <2>2, <2>4, <3>1, <3>2 DEF TypeOK, Idle, IteratorInv, NoEndDereference, SocketInv
    <3>6. PlainInv' /\ SingleInv' /\ WakeInv'
      BY <2>2, <3>2 DEF PlainInv, SingleInv, WakeInv, AvahiCalls
    <3> QED BY <3>4, <3>5, <3>6
  <2> QED BY <2>3, <2>4
<1>16. CASE SvcRemoved
  <2>1. Zeroconf /\ mode # "new"
    BY <1>16 DEF SvcRemoved, SocketInv, PlainInv
  <2>2. /\ sock' = "none" /\ ~edge' /\ stream' \in {"none", "own", "stale"}
        /\ edge' \in BOOLEAN /\ addresses' = <<>> /\ addr' = 1
        /\ UNCHANGED <<mode, fetched, evs, canon, timer, shot, resolv, group, crashed,
                       up, faults>>
        /\ ~crashed /\ evs = {} /\ canon = "service"
    BY <1>16 DEF SvcRemoved, CloseSocket, ClosedStream, Idle, TypeOK
  <2>3. TypeOK'
    BY <2>2 DEF TypeOK
  <2>4. IteratorInv' /\ SocketInv' /\ PlainInv' /\ WakeInv' /\ SingleInv'
    BY <2>1, <2>2
       DEF IteratorInv, NoEndDereference, SocketInv, PlainInv, WakeInv, AvahiCalls, SingleInv
  <2> QED BY <2>3, <2>4
<1>17. CASE GroupCreated
  <2>1. Zeroconf /\ mode # "new" /\ Idle
        /\ UNCHANGED <<mode, addresses, fetched, evs, shot, up>>
    BY <1>17 DEF GroupCreated, SocketInv, PlainInv
  <2>2. CASE /\ group' = "registering"
             /\ UNCHANGED <<addr, sock, edge, stream, canon, timer, resolv, crashed, faults>>
    BY <2>1, <2>2
       DEF TypeOK, IteratorInv, NoEndDereference, SocketInv, PlainInv, WakeInv,
           SingleInv, Awake, AvahiCalls, GaveUp, WaitsForEndpoint
  <2>3. CASE Fault(TRUE) /\ PeerRetry([Now EXCEPT !.group = "idle"], TRUE)
    <3>1. shot' \in {"connect", "peer"}
      BY <2>1 DEF TypeOK
    <3> QED BY <2>1, <2>3, <3>1, NowType, RetryIInv
  <2> QED BY <1>17, <2>2, <2>3 DEF GroupCreated
<1>18. CASE GroupEstablished
  <2>1. PICK f \in BOOLEAN : Fault(f) /\ ArmTimer(timer, f)
    BY <1>18 DEF GroupEstablished
  <2>2. faults' \in 0..MaxFaults /\ timer' \in {"armed", "lost"}
    BY <2>1, FaultType DEF ArmTimer, OnFault
  <2>3. Zeroconf /\ mode # "new"
    BY <1>18 DEF GroupEstablished, SocketInv, PlainInv
  <2> QED
    BY <1>18, <2>2, <2>3
       DEF GroupEstablished, Idle, TypeOK, IteratorInv, NoEndDereference, SocketInv,
           PlainInv, WakeInv, SingleInv, Awake, AvahiCalls, GaveUp, WaitsForEndpoint
<1>19. CASE GroupLost
  <2>1. PICK f \in BOOLEAN : Fault(f) /\ PeerRetry([Now EXCEPT !.group = "idle"], f)
    BY <1>19 DEF GroupLost
  <2>2. /\ Zeroconf /\ mode # "new" /\ Idle
        /\ UNCHANGED <<mode, addresses, fetched, evs, shot, up>>
        /\ shot' \in {"connect", "peer"}
    BY <1>19 DEF GroupLost, SocketInv, PlainInv, TypeOK
  <2> QED BY <2>1, <2>2, NowType, RetryIInv
<1>20. CASE Handshake
  BY <1>20 DEF Handshake, TypeOK, IteratorInv, NoEndDereference, SocketInv,
         PlainInv, WakeInv, SingleInv, Awake, AvahiCalls, GaveUp, WaitsForEndpoint, HangUp, Polled, Bits
<1>21. CASE PeerActs
  BY <1>21 DEF PeerActs, TypeOK, IteratorInv, NoEndDereference, SocketInv,
         PlainInv, WakeInv, SingleInv, Awake, AvahiCalls, GaveUp, WaitsForEndpoint, HangUp, Polled, Bits
<1>22. CASE NetworkChanges
  BY <1>22 DEF NetworkChanges, TypeOK, IteratorInv, NoEndDereference, SocketInv,
         PlainInv, WakeInv, SingleInv, Awake, AvahiCalls, GaveUp, WaitsForEndpoint, HangUp, Polled, Bits
<1>23. CASE DropStream
  BY <1>23 DEF DropStream, TypeOK, IteratorInv, NoEndDereference, SocketInv,
         PlainInv, WakeInv, SingleInv, Awake, AvahiCalls, GaveUp, WaitsForEndpoint, HangUp, Polled, Bits
<1>24. CASE UNCHANGED vars
  BY <1>24 DEF vars, TypeOK, IteratorInv, NoEndDereference, SocketInv, PlainInv,
               WakeInv, SingleInv, Awake, AvahiCalls, GaveUp, WaitsForEndpoint
<1> QED
  BY <1>1, <1>2, <1>3, <1>4, <1>5, <1>6, <1>7, <1>8, <1>9, <1>10, <1>11, <1>12, <1>13,
     <1>14, <1>15, <1>16, <1>17, <1>18, <1>19, <1>20, <1>21, <1>22, <1>23, <1>24
     DEF Next

-----------------------------------------------------------------------------
\* The inductive invariant holds in every state the client can reach, whatever
\* the order of the events of its socket, its timer, its resolver and Avahi.
THEOREM Invariance == Spec => []IInv
<1> QED BY InitIInv, NextIInv, PTL DEF Spec

\* Every variable of the client keeps its type: in particular _addr stays within
\* the list or at its end, also when a service event replaces the list under it.
THEOREM TypeCorrect == Spec => []TypeOK
<1>1. IInv => TypeOK
  BY DEF IInv
<1> QED BY <1>1, Invariance, PTL

\* The client of src/src/impl/tcpcli.h is never dormant, but for a lack of resources
\* and for one that waits for the name of an endpoint: it has a socket to report, a
\* running timer, a busy resolver, a service of its name or a registration to hear of.
THEOREM AlwaysAwake == Spec => []NeverDormant
<1>1. IInv => NeverDormant
  BY DEF IInv, WakeInv, NeverDormant, Idle
<1> QED BY <1>1, Invariance, PTL

\* The address iterator is used at end() only by a Zeroconf registration whose
\* service was removed meanwhile, never by a hang-up, the timer or the resolver.
THEOREM IteratorSafe == Spec => []NoEndDereference
<1>1. IInv => NoEndDereference
  BY DEF IInv, IteratorInv
<1> QED BY <1>1, Invariance, PTL

\* With one address no step takes a socket in progress or alive away.
LEMMA SingleAddressStep ==
  ASSUME IInv, [Next]_vars, ~Zeroconf, Len(addresses) = 1, sock \in {"syn", "est"}
  PROVE  sock' \in {"syn", "est", "eof", "dead"}
<1>1. /\ canon = "empty" /\ group = "none" /\ resolv = "idle"
      /\ timer # "armed"
      /\ "HUP" \notin evs /\ "RDHUP" \notin evs
  <2>1. addresses # <<>>
    BY DEF IInv, SocketInv
  <2> QED BY <2>1 DEF IInv, PlainInv, SingleInv, HangUp
<1>2. CASE EpollHUP \/ EpollRDHUP
  BY <1>1, <1>2 DEF EpollHUP, EpollRDHUP, Current
<1>3. CASE TimerConnect \/ TimerPeer
  BY <1>1, <1>3 DEF TimerConnect, TimerPeer
<1>4. CASE Resolved \/ ResolveFailed \/ ResolveAgain
  BY <1>1, <1>4 DEF Resolved, ResolveFailed, ResolveAgain
<1>5. CASE InitService \/ SvcResolved \/ SvcRemoved
  BY <1>1, <1>5 DEF InitService, SvcResolved, SvcRemoved
<1>6. CASE GroupCreated \/ GroupEstablished \/ GroupLost
  BY <1>1, <1>6 DEF GroupCreated, GroupEstablished, GroupLost
<1>7. CASE Handshake \/ PeerActs
  BY <1>7 DEF Handshake, PeerActs
<1>8. CASE InitHost \/ Poll \/ Dispatch \/ EpollIN \/ EpollOUT \/ EpollERR
           \/ NetworkChanges \/ DropStream \/ UNCHANGED vars
  BY <1>8 DEF InitHost, Poll, Dispatch, EpollIN, EpollOUT, EpollERR, NetworkChanges,
              DropStream, vars
<1> QED
  BY <1>2, <1>3, <1>4, <1>5, <1>6, <1>7, <1>8 DEF Next

\* Without Zeroconf and with one address, no callback of the client ends a
\* connection that is being made or is alive.
THEOREM SingleAddressIsStable == Spec => SingleAddressStable
<1>1. IInv /\ [Next]_vars
        => [~Zeroconf /\ Len(addresses) = 1 /\ sock \in {"syn", "est"}
              => sock' \in {"syn", "est", "eof", "dead"}]_vars
  BY SingleAddressStep
<1> QED BY <1>1, Invariance, PTL DEF Spec, SingleAddressStable
=============================================================================
