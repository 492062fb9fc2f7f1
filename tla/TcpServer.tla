----------------------------- MODULE TcpServer -----------------------------
(***************************************************************************)
(* The TCP server endpoint (src/src/impl/tcpsvr.h) on the event loop: the  *)
(* listening socket and how it is made and remade, with and without a      *)
(* registered Avahi service, and the streams of the connections it         *)
(* accepts.  A stream is an object of the loop of its own; its owner (the  *)
(* router, or a test program) may let go of it in on_close, when a new one *)
(* connects under its name, and may write to any stream from any handler.  *)
(***************************************************************************)
EXTENDS IOLoop, FiniteSets

CONSTANTS
  Stream,      \* the connections accepted in one run: the bound of the model
  Srv,         \* the server object itself
  MaxBacklog,  \* bound: connections waiting to be accepted
  MaxFaults    \* bound: handlers in which system calls fail for no cause of a peer

ASSUME TcpServerAssumption ==
  /\ Obj = Stream \cup {Srv} /\ Srv \notin Stream /\ IsFiniteSet(Stream)
  /\ MaxBacklog \in Nat /\ MaxFaults \in Nat

VARIABLES
  zeroconf, \* IOLoopSvc::zeroconf() returns an object; never changes
  mode,     \* "new" before init, then "up"
  lsock,    \* _fd: "none" is -1, "bare" is bound, "listen" is listening
  timer,    \* _timer: "off" (no timerfd), "idle", "armed", "lost" (arming failed)
  resolv,   \* _resolv: "idle", "query", "retry" (5 s timer), "lost"
  group,    \* _group: "none", "idle" (nothing committed), "registering", "established", or
            \* "unasked" (made, but whether it is empty could not be asked)
  conn,     \* a stream: "none", its connection "open", "eof" or "rst", "closed" (_fd is -1),
            \* or freed: "gone" (let go of in its own handler), "broken" (in a write),
            \* "replaced" (without on_close)
  rx,       \* data of a connection: "never" any, "unread", or "read" by now
  told,     \* how often on_close of a stream was called
  room,     \* the stream's own _is_writeable
  edge,     \* streams with an edge-triggered event to report
  backlog,  \* connections waiting in the listening socket
  faults    \* handlers with failing system calls so far

vars == <<loopVars, zeroconf, mode, lsock, timer, resolv, group, conn, rx, told, room, edge,
          backlog, faults>>

Connected == {"open", "eof", "rst"}
Freed == {"gone", "broken", "replaced"}
Live(s) == conn[s] \in Connected \cup {"closed"}

TypeOK ==
  /\ LoopTypeOK
  /\ zeroconf \in BOOLEAN
  /\ mode \in {"new", "up"}
  /\ lsock \in {"none", "bare", "listen"}
  /\ timer \in {"off", "idle", "armed", "lost"}
  /\ resolv \in {"idle", "query", "retry", "lost"}
  /\ group \in {"none", "unasked", "idle", "registering", "established"}
  /\ conn \in [Stream -> {"none", "closed"} \cup Connected \cup Freed]
  /\ rx \in [Stream -> {"never", "unread", "read"}]
  /\ told \in [Stream -> Nat] /\ room \in [Stream -> BOOLEAN]
  /\ edge \in SUBSET Stream
  /\ backlog \in 0..MaxBacklog
  /\ faults \in 0..MaxFaults

Init ==
  /\ LoopInit
  /\ zeroconf \in BOOLEAN
  /\ mode = "new" /\ lsock = "none" /\ timer = "off" /\ resolv = "idle" /\ group = "none"
  /\ conn = [s \in Stream |-> "none"] /\ rx = [s \in Stream |-> "never"]
  /\ told = [s \in Stream |-> 0] /\ room = [s \in Stream |-> TRUE] /\ edge = {}
  /\ backlog = 0 /\ faults = 0

streamVars == <<conn, rx, told, room, edge>>
serverVars == <<zeroconf, mode, lsock, timer, resolv, group>>

\* In this handler some system call fails (f) or none does.
Fault(f) ==
  /\ f => faults < MaxFaults
  /\ faults' = IF f THEN faults + 1 ELSE faults
OnFault(f, S) == IF f THEN S ELSE {}

-----------------------------------------------------------------------------
(* Making the listening socket. *)

\* Timer::arm_oneshoot(3s); only the creation of the timerfd can fail.
Arm(t, f) == timer' \in {"armed"} \cup OnFault(f /\ t \in {"off", "lost"}, {"lost"})

\* create_socket: the old descriptor leaves the loop and is closed, a new one is bound;
\* that fails without a fault too, when another program has the port.
Unlistened == Forget(poll, {Srv})

\* Mutant of ListenFailed: the error of listen_socket is reported, no timer armed.
MutListenFailedNoTimer(t, f) == f /\ lsock' \in {"none", "listen"} /\ timer' = t

\* listen_socket fails: listen(2) does, which closes the socket, or the registration
\* with the loop, which leaves it listening unseen; the caller arms the timer.
ListenFailed(t, f) == f /\ lsock' \in {"none", "listen"} /\ Arm(t, f)

\* listen_socket, on a bound socket that is not in the loop.
Listen(p, t, f) ==
  \/ lsock' = "listen" /\ poll' = Add(p, Srv) /\ timer' = t
  \/ ListenFailed(t, f) /\ poll' = p

\* create_service: a bound socket, whose port is then added to the group and
\* committed.  When the service is refused and the group can be reset, neither
\* error nor timer is left.
CreateService(t, f) ==
  /\ poll' = Unlistened
  /\ \/ lsock' = "none" /\ Arm(t, f)
        /\ group' = IF group = "none" THEN "idle" ELSE group
     \/ /\ lsock' = "bare"
        /\ \/ group' = "registering" /\ timer' = t
           \/ group' = "idle" /\ timer' = t
           \/ f /\ group' \in {"idle", group} \ {"none"} /\ Arm(t, f)

\* The group's on_failure destroys the group, and with it the callback that is
\* running and its captured this, before it arms the timer.
GroupFailed(t, f) ==
  /\ group' = "none"
  /\ \/ Arm(t, f) /\ UNCHANGED loop
     \/ timer' = t /\ loop' = "undefined"

\* create: without Zeroconf a listening socket at once; else nothing while a service
\* has the address, a new group if there is none yet, and the service.  A new group that
\* cannot be asked whether it is empty calls neither on_create nor on_failure.
Create(t, f) ==
  \/ /\ ~zeroconf
     /\ UNCHANGED <<group, loop>>
     /\ \/ lsock' = "none" /\ Arm(t, f) /\ poll' = Unlistened
        \/ Listen(Unlistened, t, f)
  \/ /\ zeroconf
     /\ \/ Arm(t, f) /\ UNCHANGED <<lsock, group, poll, loop>>
        \/ group = "none" /\ GroupFailed(t, f) /\ UNCHANGED <<lsock, poll>>
        \/ /\ f /\ group = "none" /\ group' = "unasked" /\ timer' = t
           /\ UNCHANGED <<lsock, poll, loop>>
        \/ CreateService(t, f) /\ UNCHANGED loop

\* init with no address, or with one that needs no look-up.
InitAddress ==
  /\ mode = "new" /\ Idle
  /\ mode' = "up"
  /\ \E f \in BOOLEAN : Fault(f) /\ Create(timer, f)
  /\ UNCHANGED <<batch, event, zeroconf, resolv, streamVars, backlog>>

\* init with a host name: the resolver is asked, or cannot be.
Requery(f) == resolv' \in {"query"} \cup OnFault(f, {"lost"})
InitName ==
  /\ mode = "new" /\ Idle
  /\ mode' = "up"
  /\ \E f \in BOOLEAN : Fault(f) /\ Requery(f)
  /\ UNCHANGED <<loopVars, zeroconf, lsock, timer, group, streamVars, backlog>>

Resolved ==
  /\ Idle /\ resolv = "query" /\ resolv' = "idle"
  /\ \E f \in BOOLEAN : Fault(f) /\ Create(timer, f)
  /\ UNCHANGED <<batch, event, zeroconf, mode, streamVars, backlog>>

ResolveFailed ==
  /\ Idle /\ resolv = "query"
  /\ Fault(TRUE) /\ resolv' \in {"retry", "lost"}
  /\ UNCHANGED <<loopVars, zeroconf, mode, lsock, timer, group, streamVars, backlog>>

ResolveAgain ==
  /\ Idle /\ resolv = "retry"
  /\ \E f \in BOOLEAN : Fault(f) /\ Requery(f)
  /\ UNCHANGED <<loopVars, zeroconf, mode, lsock, timer, group, streamVars, backlog>>

TimerShoots ==
  /\ Idle /\ timer = "armed"
  /\ \E f \in BOOLEAN : Fault(f) /\ Create("idle", f)
  /\ UNCHANGED <<batch, event, zeroconf, mode, resolv, streamVars, backlog>>

\* The registration is established: listen.
GroupEstablished ==
  /\ Idle /\ group = "registering" /\ group' = "established"
  /\ \E f \in BOOLEAN : Fault(f) /\ Listen(poll, timer, f)
  /\ UNCHANGED <<batch, event, loop, zeroconf, mode, resolv, streamVars, backlog>>

\* A collision, also of an established service: reset the group, create in 3 s.
GroupCollision ==
  /\ Idle /\ group \in {"registering", "established"}
  /\ \E f \in BOOLEAN :
       /\ Fault(f)
       /\ group' \in {"idle"} \cup OnFault(f, {group})
       /\ Arm(timer, f)
  /\ UNCHANGED <<loopVars, zeroconf, mode, lsock, resolv, streamVars, backlog>>

GroupFailure ==
  /\ Idle /\ group \in {"registering", "established"}
  /\ \E f \in BOOLEAN : Fault(f) /\ GroupFailed(timer, f)
  /\ UNCHANGED <<poll, batch, event, zeroconf, mode, lsock, resolv, streamVars, backlog>>

-----------------------------------------------------------------------------
(* The loop. *)

ReadyBits(o) ==
  CASE o = Srv -> IF lsock = "listen" /\ backlog > 0 THEN {"IN"} ELSE {}
    [] o # Srv /\ o \notin edge -> {}
    [] o \in edge /\ conn[o] = "open" -> IF rx[o] = "unread" THEN {"IN", "OUT"} ELSE {"OUT"}
    [] o \in edge /\ conn[o] = "eof" -> {"IN", "OUT"}
    [] o \in edge /\ conn[o] = "rst" -> {"IN", "OUT", "ERR", "HUP"}
    [] OTHER -> {}

Poll ==
  /\ \E S \in SUBSET Obj : Wait(S, [o \in Obj |-> ReadyBits(o)]) /\ edge' = edge \ S
  /\ UNCHANGED <<poll, event, loop, serverVars, conn, rx, told, room, backlog, faults>>

NextEvent(o) ==
  /\ Dispatch(o, o \in Stream /\ conn[o] \in Freed)
  /\ UNCHANGED <<serverVars, streamVars, backlog, faults>>

\* run() returns: cleanup closes the descriptors of all listed objects.
End ==
  /\ LET L == {o \in Obj : poll.listed[o] > 0} IN
       /\ LeaveLoop(L, \E s \in L \cap Stream : conn[s] \in Freed)
       /\ conn' = [s \in Stream |-> IF s \in L /\ Live(s) THEN "closed" ELSE conn[s]]
       /\ lsock' = IF Srv \in L THEN "none" ELSE lsock
  /\ UNCHANGED <<zeroconf, mode, timer, resolv, group, rx, told, room, edge, backlog, faults>>

Stop == StopLoop /\ UNCHANGED <<serverVars, streamVars, backlog, faults>>

-----------------------------------------------------------------------------
(* The streams. *)

\* What writes to the streams of W do: a stream whose peer has reset the connection
\* may find a broken pipe (it is in hurt then: taken out of the loop, closed, told),
\* one may come out short, one that is closed always does.  Then room is gone.
Writes(W, hurt, short) ==
  /\ W \subseteq {s \in Stream : Live(s)}
  /\ hurt \subseteq {s \in W : room[s] /\ conn[s] = "rst"}
  /\ short \subseteq W \ hurt
  /\ {s \in W : room[s] /\ conn[s] = "closed"} \subseteq short
  /\ room' = [s \in Stream |-> room[s] /\ s \notin hurt \cup short]

\* Mutant of CloseAndTell: the descriptor is closed without poll()->del.
MutCloseNoDel(S, keep, own) ==
  /\ conn' = [s \in Stream |-> IF s \notin S THEN conn[s] ELSE IF s \in keep THEN "closed"
                               ELSE IF s \in own THEN "gone" ELSE "broken"]
  /\ told' = [s \in Stream |-> IF s \in S THEN told[s] + 1 ELSE told[s]]
  /\ poll' = Close(poll, S)
  /\ edge' = edge \ S

\* del, cleanup and on_close of the streams of S: the owner keeps some, the others
\* are freed, by their own handler or by a write of another one's.
CloseAndTell(S, keep, own) ==
  /\ conn' = [s \in Stream |-> IF s \notin S THEN conn[s] ELSE IF s \in keep THEN "closed"
                               ELSE IF s \in own THEN "gone" ELSE "broken"]
  /\ told' = [s \in Stream |-> IF s \in S THEN told[s] + 1 ELSE told[s]]
  /\ poll' = Forget(poll, S)
  /\ edge' = edge \ S

\* The owner writes to streams from a handler of another endpoint.
OwnerWrites ==
  /\ Idle
  /\ \E W, hurt, short, keep \in SUBSET Stream :
       /\ W # {} /\ keep \subseteq hurt /\ Writes(W, hurt, short)
       /\ CloseAndTell(hurt, keep, {})
  /\ UNCHANGED <<batch, event, loop, serverVars, rx, backlog, faults>>

\* epollIN reads all there is, then finds nothing left and takes the connection for
\* closed, whether its peer closed it or not; its owner writes from on_read to any
\* streams.  A stream its own reader's write closed gets an error instead.
StreamIN(s) ==
  /\ Current(s, "IN")
  /\ IF conn[s] = "closed"
       THEN Handled(s, "IN") /\ UNCHANGED <<poll, loop, streamVars>>
       ELSE \E W, hurt, short, keep \in SUBSET Stream :
              /\ keep \subseteq hurt \cup {s} /\ Writes(W, hurt, short)
              /\ rx[s] # "unread" => W = {}
              /\ rx' = [rx EXCEPT ![s] = IF @ = "unread" THEN "read" ELSE @]
              /\ CloseAndTell(hurt \cup {s}, keep, {s} \ hurt)
              /\ IF s \notin hurt THEN Stopped(s) /\ UNCHANGED loop
                 ELSE IF s \in keep THEN Handled(s, "IN") /\ UNCHANGED loop
                 ELSE Stopped(s) /\ loop' = "undefined"
  /\ UNCHANGED <<batch, serverVars, backlog, faults>>

\* Mutant of StreamOUT: a stream that cannot write any more is taken for a dead one.
MutStreamOUTCloses(s) ==
  /\ Current(s, "OUT") /\ Handled(s, "OUT")
  /\ CloseAndTell(IF room[s] THEN {} ELSE {s}, {}, {s})
  /\ UNCHANGED <<batch, loop, serverVars, rx, room, backlog, faults>>

\* epollOUT calls writeable(), which was called when the stream was accepted and
\* does nothing again; it leaves the stream's own _is_writeable as it is.
StreamOUT(s) ==
  /\ Current(s, "OUT") /\ Handled(s, "OUT")
  /\ UNCHANGED <<poll, batch, loop, serverVars, streamVars, backlog, faults>>

StreamERR(s) ==
  /\ Current(s, "ERR") /\ Handled(s, "ERR")
  /\ UNCHANGED <<poll, batch, loop, serverVars, streamVars, backlog, faults>>

\* Mutant of StreamHUP: whether the stream is closed already is not looked at.
MutStreamHUPAgain(s) ==
  /\ Current(s, "HUP") /\ Handled(s, "HUP")
  /\ \E keep \in SUBSET {s} : CloseAndTell({s}, keep, {s})
  /\ UNCHANGED <<batch, loop, serverVars, rx, room, backlog, faults>>

\* epollHUP closes a stream that is not closed yet.
StreamHUP(s) ==
  /\ Current(s, "HUP") /\ Handled(s, "HUP")
  /\ \E keep \in SUBSET {s} : CloseAndTell({s} \ {x \in Stream : conn[x] = "closed"}, keep, {s})
  /\ UNCHANGED <<batch, loop, serverVars, rx, room, backlog, faults>>

StreamBit == \E s \in Stream : StreamIN(s) \/ StreamOUT(s) \/ StreamERR(s) \/ StreamHUP(s)

\* The server's epollIN: accept until nothing waits or a call fails, which drops the
\* connection at hand.  The streams of A are new; deaf are those whose registration
\* with the loop failed; the owner drops the streams of R, whose names they take over.
Accept ==
  /\ Current(Srv, "IN") /\ Handled(Srv, "IN")
  /\ IF lsock # "listen"
       THEN UNCHANGED <<poll, conn, edge, backlog, faults>>
       ELSE \E A, R, deaf \in SUBSET Stream, f \in BOOLEAN, lost \in 0..1 :
              /\ Fault(f)
              /\ A \subseteq {s \in Stream : conn[s] = "none"} /\ deaf \subseteq A
              /\ R \subseteq {s \in Stream : Live(s)} /\ Cardinality(R) <= Cardinality(A)
              /\ (deaf # {} \/ lost = 1) => f
              /\ Cardinality(A) + lost <= backlog
              /\ ~f => Cardinality(A) = backlog
              /\ backlog' = backlog - Cardinality(A) - lost
              /\ conn' = [s \in Stream |-> IF s \in A THEN "open"
                                            ELSE IF s \in R THEN "replaced" ELSE conn[s]]
              /\ poll' = [set |-> (poll.set \ R) \cup (A \ deaf),
                          listed |-> [o \in Obj |-> poll.listed[o] + IF o \in A \ deaf THEN 1 ELSE 0]]
              /\ edge' = (edge \ R) \cup (A \ deaf)
  /\ UNCHANGED <<batch, loop, serverVars, rx, told, room>>

-----------------------------------------------------------------------------
(* The peers. *)

PeerConnects ==
  /\ Idle /\ lsock = "listen"
  /\ backlog < MaxBacklog
  /\ backlog + Cardinality({s \in Stream : conn[s] # "none"}) < Cardinality(Stream)
  /\ backlog' = backlog + 1
  /\ UNCHANGED <<loopVars, serverVars, streamVars, faults>>

PeerActs(s) ==
  /\ Idle
  /\ \/ conn[s] = "open" /\ rx[s] # "unread" /\ rx' = [rx EXCEPT ![s] = "unread"] /\ UNCHANGED conn
     \/ conn[s] = "open" /\ conn' = [conn EXCEPT ![s] = "eof"] /\ UNCHANGED rx
     \/ conn[s] \in {"open", "eof"} /\ conn' = [conn EXCEPT ![s] = "rst"] /\ UNCHANGED rx
  /\ edge' = edge \cup ({s} \cap poll.set)
  /\ UNCHANGED <<loopVars, serverVars, told, room, backlog, faults>>

-----------------------------------------------------------------------------
Next ==
  \/ InitAddress \/ InitName \/ Resolved \/ ResolveFailed \/ ResolveAgain
  \/ TimerShoots \/ GroupEstablished \/ GroupCollision \/ GroupFailure
  \/ Poll \/ (\E o \in Obj : NextEvent(o)) \/ Stop \/ End
  \/ StreamBit \/ Accept \/ OwnerWrites
  \/ PeerConnects \/ (\E s \in Stream : PeerActs(s))

Spec == Init /\ [][Next]_vars

-----------------------------------------------------------------------------
(* Properties. *)

\* The list of the loop and the batch hold pointers to living objects, but for
\* streams replaced by a namesake, whose destructor does not call del, and for
\* events of a stream that another handler of the batch wrote to and found broken.
LoopKnowsItsObjects ==
  \A s \in Stream :
    /\ poll.listed[s] > 0 => Live(s) \/ conn[s] = "replaced"
    /\ batch[s] # {} => Live(s) \/ conn[s] \in {"replaced", "broken"}

\* A configured server listens, or something will call it again: its timer, its
\* resolver, the answer to its registration.  The exceptions: a service that Avahi
\* refuses to add to a group it can reset leaves the server with a bound socket and
\* nothing else, and so does a new group that could not be asked whether it is empty.
GaveUp == timer = "lost" \/ resolv = "lost"
RefusedService == zeroconf /\ group = "idle" /\ lsock = "bare"
UnaskedGroup == zeroconf /\ group = "unasked"
NeverDormant ==
  mode = "up" /\ Running =>
    \/ lsock = "listen" /\ Srv \in poll.set
    \/ timer = "armed" \/ resolv \in {"query", "retry"} \/ group = "registering"
    \/ RefusedService \/ UnaskedGroup \/ GaveUp

\* The server ends the connection of a peer that is still there only in the handler
\* that delivered its data, or when a namesake replaces it or the loop ends.
HangsUpOnlyAfterData ==
  [][\A s \in Stream : conn[s] = "open" /\ conn'[s] \in {"closed", "gone", "broken"}
        => rx[s] = "unread" \/ loop = "stop"]_vars

\* The streams keep the promises of endpoints.h to their owner: on_connect once, data
\* only before on_close, on_close at most once, whoever closes a stream, and when.
Contract == INSTANCE ClientContract WITH
  Client <- Stream,
  life <- [s \in Stream |-> IF conn[s] = "none" THEN "new"
                            ELSE IF conn[s] \in Freed THEN "dead"
                            ELSE IF conn[s] = "closed" /\ told[s] > 0 THEN "shut" ELSE "open"],
  got <- {s \in Stream : rx[s] = "read"}
KeepsContract == Contract!Spec
=============================================================================
