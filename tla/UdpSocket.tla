----------------------------- MODULE UdpSocket -----------------------------
(***************************************************************************)
(* What the UDP server (src/src/impl/udpsvr.h) and the UDP client          *)
(* (src/src/impl/udpcli.h) share: one non-blocking socket, edge-triggered  *)
(* in the loop, the datagrams waiting in it, and the clients made for      *)
(* their senders, found by name through weak pointers.                     *)
(***************************************************************************)
EXTENDS IOLoop, Sequences, SockAddr

CONSTANTS
  Client,     \* the client objects made in one run: the bound of the model
  Name,       \* the names under which senders are known
  Ep,         \* the endpoint object
  Traffic,    \* bound: the configurations in which peers send and the send buffer fills
  MaxQueue,   \* bound: datagrams waiting in the socket
  MaxFaults   \* bound: handlers in which system calls fail for no cause of a peer

ASSUME UdpAssumption == Obj = {Ep} /\ Ep \notin Client /\ MaxQueue \in Nat /\ MaxFaults \in Nat

VARIABLES
  kind,     \* "server" or "client"; never changes
  zeroconf, \* IOLoopSvc::zeroconf() returns an object; never changes
  cfg,      \* the configuration init was called with; never changes
  mode,     \* "new" before init, then "up", "gone" once destroyed
  addr,     \* the address the server is bound to; the one the client sends to
  sock,     \* _fd: "none" is -1, else "open"
  group,    \* _group: "none", "idle" (nothing committed), "registering", "established"
  queue,    \* the datagrams in the socket: "data", or "zero" for one without payload
  edge,     \* the socket has an edge-triggered event to report
  room,     \* the socket has room for a datagram to send
  entry,    \* _streams: the client under each name, or {} if there never was one
  life,     \* a client: "new", "open", "shut" after on_close, "dead" once destroyed
  told,     \* how often on_close of a client was called
  got,      \* clients that data were delivered to
  hand,     \* the client the datagram just received is for: {} or a singleton
  mute,     \* why nothing is written: "no", "full" (EAGAIN), "refused", or "unset"
  faults    \* handlers with failing system calls so far

epVars == <<kind, zeroconf, cfg, mode, addr, sock, group>>
udpVars == <<epVars, queue, edge, room, entry, life, told, got,
             hand, mute, faults>>
clientVars == <<entry, life, told, got, hand>>

Writer == Client \cup {Ep}

UdpTypeOK ==
  /\ LoopTypeOK
  /\ kind \in {"server", "client"} /\ zeroconf \in BOOLEAN
  /\ mode \in {"new", "up", "gone"} /\ sock \in {"none", "open"}
  /\ group \in {"none", "idle", "registering", "established"}
  /\ queue \in Seq({"data", "zero"}) /\ Len(queue) <= MaxQueue
  /\ edge \in BOOLEAN /\ room \in BOOLEAN
  /\ entry \in [Name -> SUBSET Client]
  /\ life \in [Client -> {"new", "open", "shut", "dead"}] /\ told \in [Client -> Nat]
  /\ got \in SUBSET Client /\ hand \in SUBSET Client
  /\ mute \in [Writer -> {"no", "full", "refused", "unset"}]
  /\ faults \in 0..MaxFaults

UdpInit ==
  /\ LoopInit
  /\ mode = "new" /\ addr = Empty /\ sock = "none" /\ group = "none" /\ queue = <<>> /\ edge = FALSE /\ room = TRUE
  /\ entry = [n \in Name |-> {}] /\ life = [c \in Client |-> "new"]
  /\ told = [c \in Client |-> 0] /\ got = {} /\ hand = {}
  /\ mute = [w \in Writer |-> "unset"] /\ faults = 0

\* In this handler some system call fails (f) or none does.
Fault(f) == (f => faults < MaxFaults) /\ faults' = IF f THEN faults + 1 ELSE faults
OnFault(f, S) == IF f THEN S ELSE {}
UpIdle == mode = "up" /\ Idle

\* poll()->add, once or again (EEXIST); a descriptor added reports what is ready.
AddSocket(f) ==
  \/ Ep \notin poll.set /\ poll' = Add(poll, Ep) /\ edge' = TRUE
  \/ (f \/ Ep \in poll.set) /\ UNCHANGED <<poll, edge>>

\* writeable() of the clients of S.
Writeable(m, S) == [w \in Writer |-> IF w \in S THEN "no" ELSE m[w]]

Alive(c) == life[c] \in {"open", "shut"}

-----------------------------------------------------------------------------
(* The loop and epollIN. *)

UdpPoll ==
  /\ Wait({Ep}, [o \in Obj |-> IF ~edge THEN {}
                               ELSE (IF queue # <<>> THEN {"IN"} ELSE {})
                                      \cup (IF room THEN {"OUT"} ELSE {})])
  /\ edge' = FALSE
  /\ UNCHANGED <<poll, event, loop, epVars, queue, room, clientVars, mute, faults>>

UdpEvent == Dispatch(Ep, mode = "gone") /\ UNCHANGED udpVars

Stop == StopLoop /\ UNCHANGED udpVars

\* run() returns: cleanup, which does nothing here, is called through every listed
\* pointer.
End == LeaveLoop({}, poll.listed[Ep] > 0 /\ mode = "gone") /\ UNCHANGED udpVars

\* The sender's name is that of its service, known or not by now, or its address;
\* its client is the one in the map, or a new one, which the owner keeps.
Receive(n) ==
  /\ Current(Ep, "IN") /\ sock = "open" /\ hand = {}
  /\ queue # <<>> /\ Head(queue) = "data"
  /\ queue' = Tail(queue)
  /\ \/ \E c \in entry[n] : Alive(c) /\ hand' = {c} /\ UNCHANGED <<entry, life, mute>>
     \/ /\ \A c \in entry[n] : ~Alive(c)
        /\ \E c \in Client :
             /\ life[c] = "new" /\ life' = [life EXCEPT ![c] = "open"]
             /\ entry' = [entry EXCEPT ![n] = {c}] /\ hand' = {c}
             /\ mute' = Writeable(mute, {c})
  /\ UNCHANGED <<loopVars, epVars, edge, room, told, got, faults>>

\* on_read.
Deliver ==
  /\ Current(Ep, "IN") /\ hand # {}
  /\ got' = got \cup hand /\ hand' = {}
  /\ UNCHANGED <<loopVars, epVars, queue, edge, room, entry, life, told, mute, faults>>

\* Mutant of NothingToRead: one datagram is read for an event.
MutNothingToRead == TRUE
\* FIONREAD is 0 for an empty queue, and for a datagram without payload at its head,
\* which is never taken out.
NothingToRead == queue # <<>> => Head(queue) = "zero"

ReadEnds ==
  /\ Current(Ep, "IN") /\ sock = "open" /\ hand = {} /\ NothingToRead
  /\ Handled(Ep, "IN")
  /\ UNCHANGED <<poll, batch, loop, udpVars>>

-----------------------------------------------------------------------------
(* The owner and the peers. *)

\* write of a client: sendto finds room; or none (EAGAIN); or it fails for a reason no
\* room cures, which comes up again with the next write.
WriteFails(w, why) ==
  /\ UpIdle /\ mute[w] = "no" /\ mute' = [mute EXCEPT ![w] = why]
  /\ why = "full" => ~room
  /\ why = "refused" => faults < MaxFaults
  /\ faults' = IF why = "refused" THEN faults + 1 ELSE faults
  /\ UNCHANGED <<loopVars, epVars, queue, edge, room, clientVars>>

\* The owner lets go of a client, outside its handlers.
OwnerDrops(c) ==
  /\ UpIdle /\ Alive(c) /\ life' = [life EXCEPT ![c] = "dead"]
  /\ mute' = [mute EXCEPT ![c] = "unset"]
  /\ UNCHANGED <<loopVars, epVars, queue, edge, room, entry, told, got, hand, faults>>

\* The destructor, also from on_connect or on_read, after which epollIN only leaves:
\* del, on_close of the living clients, close.
Destroy ==
  /\ mode = "up" /\ Running
  /\ Idle \/ (Current(Ep, "IN") /\ hand # {})
  /\ mode' = "gone" /\ sock' = "none" /\ group' = "none" /\ queue' = <<>> /\ edge' = FALSE
  /\ got' \in {got, got \cup hand} /\ hand' = {} /\ event' = [event EXCEPT ![Ep] = {}]
  /\ poll' = IF sock = "open" THEN Forget(poll, {Ep}) ELSE poll
  /\ LET T == IF sock = "none" THEN {}
              ELSE {c \in Client : Alive(c) /\ \E n \in Name : c \in entry[n]} IN
       /\ told' = [c \in Client |-> told[c] + IF c \in T THEN 1 ELSE 0]
       /\ \E keep \in SUBSET T :
            life' = [c \in Client |-> IF c \notin T THEN life[c]
                                      ELSE IF c \in keep THEN "shut" ELSE "dead"]
  /\ mute' = [w \in Writer |-> "unset"] /\ room' = TRUE
  /\ UNCHANGED <<batch, loop, kind, zeroconf, cfg, addr, entry, faults>>

Arrives(d) ==
  /\ Running /\ cfg \in Traffic /\ sock = "open" /\ Len(queue) < MaxQueue
  /\ queue' = Append(queue, d) /\ edge' = (edge \/ Ep \in poll.set)
  /\ UNCHANGED <<loopVars, epVars, room, clientVars, mute, faults>>

SendBuffer ==
  /\ Running /\ cfg \in Traffic /\ sock = "open" /\ room' = ~room /\ edge' = (edge \/ (~room /\ Ep \in poll.set))
  /\ UNCHANGED <<loopVars, epVars, queue, clientVars, mute, faults>>

UdpCommon ==
  \/ UdpPoll \/ UdpEvent \/ Stop \/ End
  \/ (\E n \in Name : Receive(n)) \/ Deliver \/ ReadEnds
  \/ (\E c \in Client : OwnerDrops(c)) \/ Destroy
  \/ (\E d \in {"data", "zero"} : Arrives(d)) \/ SendBuffer
=============================================================================
