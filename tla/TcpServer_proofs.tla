-------------------------- MODULE TcpServer_proofs --------------------------
(***************************************************************************)
(* Safety of the TCP server for every finite set of connections, every     *)
(* length of its backlog and any number of failing system calls, with and  *)
(* without Zeroconf, and what it promises the owner of its streams.        *)
(***************************************************************************)
EXTENDS TcpServer, FiniteSetTheorems, TLAPS

USE TcpServerAssumption

\* One event is handled at a time, through a pointer to a stream that lives.
EventInv ==
  /\ \A o, p \in Obj : event[o] # {} /\ event[p] # {} => o = p
  /\ \A o \in Obj : event[o] # {} => batch[o] = {}
  /\ \A s \in Stream : event[s] # {} => Live(s)

\* The descriptor of a listed stream is in the interest set for as long as it is
\* open: Poll::del, which looks there, takes the stream out of the list as well.
SetInv ==
  \A s \in Stream : conn[s] \in Connected /\ poll.listed[s] > 0 => s \in poll.set

\* The bits fetched for a stream that is still open tell the truth; none of them comes
\* after HUP, whose handler may free the stream.
StreamBits == {"IN", "OUT", "ERR", "HUP"}
BitsInv ==
  \A s \in Stream :
    /\ batch[s] \cup event[s] \subseteq StreamBits
    /\ conn[s] = "open" /\ "IN" \in batch[s] \cup event[s] => rx[s] = "unread"
    /\ conn[s] = "open" => "HUP" \notin batch[s] \cup event[s]

\* A stream that has read was closed in that handler, and one that was told.
UntoldInv ==
  \A s \in Stream : conn[s] \in Connected \cup {"none"} => told[s] = 0 /\ rx[s] # "read"

StreamInv == LoopKnowsItsObjects /\ EventInv /\ SetInv /\ BitsInv /\ UntoldInv

IInv == TypeOK /\ NeverDormant /\ StreamInv

-----------------------------------------------------------------------------
(* The listening socket. *)

Timers == {"off", "idle", "armed", "lost"}
Groups == {"none", "unasked", "idle", "registering", "established"}
Polls == [set : SUBSET Obj, listed : [Obj -> Nat]]

\* The reasons NeverDormant names.
Awake ==
  \/ lsock = "listen" /\ Srv \in poll.set
  \/ timer = "armed" \/ resolv \in {"query", "retry"} \/ group = "registering"
  \/ RefusedService \/ UnaskedGroup \/ GaveUp

\* p and q differ for the server only.
SameStreams(p, q) ==
  \A s \in Stream : q.listed[s] = p.listed[s] /\ (s \in q.set <=> s \in p.set)

\* Arming the timer arms it or loses it.
LEMMA ArmResult ==
  ASSUME NEW t, NEW f \in BOOLEAN, Arm(t, f)
  PROVE  timer' \in {"armed", "lost"}
BY DEF Arm, OnFault

\* Taking the server out of the loop, or putting it in, concerns no stream.
LEMMA PollsType ==
  ASSUME TypeOK
  PROVE  /\ Unlistened \in Polls /\ SameStreams(poll, Unlistened)
         /\ \A p \in Polls : Add(p, Srv) \in Polls /\ SameStreams(p, Add(p, Srv))
                             /\ Srv \in Add(p, Srv).set
BY DEF TypeOK, LoopTypeOK, Unlistened, Forget, Add, Polls, SameStreams

\* listen_socket ends in a socket that the loop knows, or in the timer.
LEMMA ListenResult ==
  ASSUME NEW p \in Polls, NEW t \in Timers, NEW f \in BOOLEAN, TypeOK, Listen(p, t, f)
  PROVE  /\ lsock' \in {"none", "listen"} /\ timer' \in Timers
         /\ poll' \in Polls /\ SameStreams(p, poll')
         /\ (lsock' = "listen" /\ Srv \in poll'.set) \/ timer' \in {"armed", "lost"}
<1>1. CASE lsock' = "listen" /\ poll' = Add(p, Srv) /\ timer' = t
  BY <1>1, PollsType
<1>2. CASE ListenFailed(t, f) /\ poll' = p
  BY <1>2, ArmResult DEF ListenFailed, Timers, SameStreams
<1> QED BY <1>1, <1>2 DEF Listen

\* create ends with a reason to be awake, however it ends.
LEMMA CreateResult ==
  ASSUME TypeOK, NEW t \in Timers, NEW f \in BOOLEAN, Create(t, f),
         zeroconf' = zeroconf
  PROVE  /\ lsock' \in {"none", "bare", "listen"} /\ timer' \in Timers /\ group' \in Groups
         /\ poll' \in Polls /\ SameStreams(poll, poll')
         /\ loop' \in {loop, "undefined"}
         /\ loop' # "undefined" => Awake'
<1> USE DEF Awake, GaveUp, RefusedService, UnaskedGroup
<1>0. /\ Unlistened \in Polls /\ SameStreams(poll, Unlistened)
      /\ poll \in Polls /\ SameStreams(poll, poll)
      /\ lsock \in {"none", "bare", "listen"} /\ group \in Groups
  BY PollsType DEF TypeOK, LoopTypeOK, Polls, SameStreams, Groups
<1>1. CASE ~zeroconf
  <2>1. UNCHANGED <<group, loop>>
    BY <1>1 DEF Create
  <2>2. CASE lsock' = "none" /\ Arm(t, f) /\ poll' = Unlistened
    BY <1>0, <2>1, <2>2, ArmResult DEF Timers
  <2>3. CASE Listen(Unlistened, t, f)
    <3>1. /\ lsock' \in {"none", "listen"} /\ timer' \in Timers
          /\ poll' \in Polls /\ SameStreams(Unlistened, poll')
          /\ (lsock' = "listen" /\ Srv \in poll'.set) \/ timer' \in {"armed", "lost"}
      BY <1>0, <2>3, ListenResult
    <3>2. SameStreams(poll, poll')
      BY <1>0, <3>1 DEF SameStreams
    <3> QED BY <1>0, <2>1, <3>1, <3>2
  <2> QED BY <1>1, <2>2, <2>3 DEF Create
<1>2. CASE zeroconf
  <2>1. CASE Arm(t, f) /\ UNCHANGED <<lsock, group, poll, loop>>
    BY <1>0, <2>1, ArmResult DEF Timers
  <2>2. CASE group = "none" /\ GroupFailed(t, f) /\ UNCHANGED <<lsock, poll>>
    BY <1>0, <2>2, ArmResult DEF GroupFailed, Timers, Groups
  <2>3. CASE CreateService(t, f) /\ UNCHANGED loop
    <3>1. poll' = Unlistened
      BY <2>3 DEF CreateService
    <3>2. CASE lsock' = "none" /\ Arm(t, f) /\ group' = IF group = "none" THEN "idle" ELSE group
      BY <1>0, <2>3, <3>1, <3>2, ArmResult DEF Timers, Groups
    <3>3. CASE lsock' = "bare" /\ group' = "registering" /\ timer' = t
      BY <1>0, <2>3, <3>1, <3>3 DEF Groups
    <3>4. CASE lsock' = "bare" /\ group' = "idle" /\ timer' = t
      BY <1>0, <1>2, <2>3, <3>1, <3>4 DEF Groups
    <3>5. CASE lsock' = "bare" /\ f /\ group' \in {"idle", group} \ {"none"} /\ Arm(t, f)
      BY <1>0, <2>3, <3>1, <3>5, ArmResult DEF Timers, Groups
    <3> QED BY <2>3, <3>2, <3>3, <3>4, <3>5 DEF CreateService
  <2>4. CASE /\ f /\ group = "none" /\ group' = "unasked" /\ timer' = t
             /\ UNCHANGED <<lsock, poll, loop>>
    BY <1>0, <1>2, <2>4 DEF Groups
  <2> QED BY <1>2, <2>1, <2>2, <2>3, <2>4 DEF Create
<1> QED BY <1>1, <1>2 DEF TypeOK

\* Counting a failing call keeps the counter within its bound.
LEMMA FaultType ==
  ASSUME TypeOK, NEW f \in BOOLEAN, Fault(f)
  PROVE  faults' \in 0..MaxFaults
BY DEF TypeOK, Fault

\* A step of the server that concerns no stream keeps what holds of the streams.
LEMMA ServerKeepsStreams ==
  ASSUME StreamInv, SameStreams(poll, poll'), UNCHANGED <<batch, event, streamVars>>
  PROVE  StreamInv'
<1>1. UNCHANGED <<conn, rx, told>> /\ \A s \in Stream : Live(s)' <=> Live(s)
  BY DEF streamVars, Live
<1>2. LoopKnowsItsObjects'
  BY <1>1 DEF StreamInv, LoopKnowsItsObjects, SameStreams
<1>3. EventInv'
  BY <1>1 DEF StreamInv, EventInv
<1>4. SetInv' /\ BitsInv' /\ UntoldInv'
  BY <1>1 DEF StreamInv, SetInv, BitsInv, UntoldInv, SameStreams
<1> QED BY <1>2, <1>3, <1>4 DEF StreamInv

\* What a handler of the server's own leaves behind.
LEMMA ServerStep ==
  ASSUME IInv, SameStreams(poll, poll'), UNCHANGED <<batch, event, streamVars, zeroconf, backlog>>,
         poll' \in Polls, loop' \in {"run", "stop", "end", "undefined"},
         mode' \in {"new", "up"}, lsock' \in {"none", "bare", "listen"},
         timer' \in Timers, resolv' \in {"idle", "query", "retry", "lost"}, group' \in Groups,
         faults' \in 0..MaxFaults,
         mode' = "up" /\ loop' \in {"run", "stop"} => Awake'
  PROVE  IInv'
<1>1. StreamInv'
  BY ServerKeepsStreams DEF IInv
<1>2. TypeOK'
  BY DEF IInv, TypeOK, LoopTypeOK, streamVars, Timers, Groups, Polls
<1>3. NeverDormant'
  BY DEF NeverDormant, Running, Awake
<1> QED BY <1>1, <1>2, <1>3 DEF IInv

LEMMA InitIInv == Init => IInv
<1> SUFFICES ASSUME Init PROVE IInv
  OBVIOUS
<1>1. TypeOK
  BY DEF Init, LoopInit, TypeOK, LoopTypeOK, None, Connected
<1>2. StreamInv
  BY DEF Init, LoopInit, None, StreamInv, LoopKnowsItsObjects, EventInv, SetInv, BitsInv,
         UntoldInv, Connected
<1>3. NeverDormant
  BY DEF Init, NeverDormant
<1> QED BY <1>1, <1>2, <1>3 DEF IInv

\* init, the resolver, the timer and the group: every handler of the server.
ServerActs ==
  \/ InitAddress \/ InitName \/ Resolved \/ ResolveFailed \/ ResolveAgain
  \/ TimerShoots \/ GroupEstablished \/ GroupCollision \/ GroupFailure

\* Each of them keeps the invariant, and leaves the streams and the events alone.
LEMMA ServerIInv ==
  ASSUME IInv, ServerActs
  PROVE  IInv' /\ UNCHANGED <<batch, event, streamVars>>
<1> USE DEF ServerActs
<1>1. TypeOK /\ poll \in Polls /\ SameStreams(poll, poll)
  BY DEF IInv, TypeOK, LoopTypeOK, Polls, SameStreams
<1>2. /\ mode \in {"new", "up"} /\ lsock \in {"none", "bare", "listen"}
      /\ timer \in Timers /\ resolv \in {"idle", "query", "retry", "lost"} /\ group \in Groups
      /\ loop \in {"run", "stop", "end", "undefined"} /\ "idle" \in Timers
      /\ timer = "armed" => timer \in Timers
  BY <1>1 DEF TypeOK, LoopTypeOK, Timers, Groups
<1>3. CASE InitAddress \/ Resolved \/ TimerShoots
  <2>1. PICK t \in Timers, f \in BOOLEAN : Fault(f) /\ Create(t, f)
    BY <1>2, <1>3 DEF InitAddress, Resolved, TimerShoots
  <2>2. /\ UNCHANGED <<batch, event, streamVars, zeroconf, backlog>>
        /\ mode' \in {mode, "up"} /\ resolv' \in {resolv, "idle"}
    BY <1>3 DEF InitAddress, Resolved, TimerShoots
  <2>3. /\ lsock' \in {"none", "bare", "listen"} /\ timer' \in Timers /\ group' \in Groups
        /\ poll' \in Polls /\ SameStreams(poll, poll')
        /\ loop' \in {loop, "undefined"}
        /\ loop' # "undefined" => Awake'
    BY <1>1, <2>1, <2>2, CreateResult
  <2>4. faults' \in 0..MaxFaults
    BY <1>1, <2>1, FaultType
  <2> QED BY <1>2, <2>2, <2>3, <2>4, ServerStep
<1>4. CASE InitName \/ ResolveFailed \/ ResolveAgain
  <2>1. PICK f \in BOOLEAN : Fault(f)
    BY <1>4 DEF InitName, ResolveFailed, ResolveAgain
  <2>2. /\ UNCHANGED <<loopVars, zeroconf, lsock, timer, group, streamVars, backlog>>
        /\ mode' \in {mode, "up"} /\ resolv' \in {"query", "retry", "lost"}
    BY <1>4 DEF InitName, ResolveFailed, ResolveAgain, Requery, OnFault
  <2>3. UNCHANGED <<poll, batch, event, loop>>
    BY <2>2 DEF loopVars
  <2>4. faults' \in 0..MaxFaults
    BY <1>1, <2>1, FaultType
  <2>5. Awake'
    BY <2>2 DEF Awake, GaveUp
  <2> QED BY <1>1, <1>2, <2>2, <2>3, <2>4, <2>5, ServerStep
<1>5. CASE GroupEstablished
  <2>1. PICK f \in BOOLEAN : Fault(f) /\ Listen(poll, timer, f)
    BY <1>5 DEF GroupEstablished
  <2>2. /\ UNCHANGED <<batch, event, loop, zeroconf, mode, resolv, streamVars, backlog>>
        /\ group' \in Groups
    BY <1>5 DEF GroupEstablished, Groups
  <2>3. /\ lsock' \in {"none", "listen"} /\ timer' \in Timers
        /\ poll' \in Polls /\ SameStreams(poll, poll')
        /\ (lsock' = "listen" /\ Srv \in poll'.set) \/ timer' \in {"armed", "lost"}
    BY <1>1, <1>2, <2>1, ListenResult
  <2>4. faults' \in 0..MaxFaults
    BY <1>1, <2>1, FaultType
  <2>5. Awake'
    BY <2>3 DEF Awake, GaveUp
  <2> QED BY <1>2, <2>2, <2>3, <2>4, <2>5, ServerStep
<1>6. CASE GroupCollision
  <2>1. PICK f \in BOOLEAN : Fault(f) /\ Arm(timer, f) /\ group' \in {"idle"} \cup OnFault(f, {group})
    BY <1>6 DEF GroupCollision
  <2>2. UNCHANGED <<poll, batch, event, loop, zeroconf, mode, lsock, resolv, streamVars, backlog>>
    BY <1>6 DEF GroupCollision, loopVars
  <2>3. timer' \in {"armed", "lost"} /\ group' \in Groups /\ faults' \in 0..MaxFaults
    BY <1>1, <1>2, <2>1, ArmResult, FaultType DEF OnFault, Groups
  <2>4. Awake' /\ timer' \in Timers
    BY <2>3 DEF Awake, GaveUp, Timers
  <2> QED BY <1>1, <1>2, <2>2, <2>3, <2>4, ServerStep
<1>7. CASE GroupFailure
  <2>1. PICK f \in BOOLEAN : Fault(f) /\ GroupFailed(timer, f)
    BY <1>7 DEF GroupFailure
  <2>2. UNCHANGED <<poll, batch, event, zeroconf, mode, lsock, resolv, streamVars, backlog>>
    BY <1>7 DEF GroupFailure
  <2>3. /\ group' \in Groups /\ timer' \in Timers /\ loop' \in {loop, "undefined"}
        /\ loop' # "undefined" => Awake'
    BY <1>2, <2>1, ArmResult DEF GroupFailed, Groups, Timers, Awake, GaveUp
  <2>4. faults' \in 0..MaxFaults
    BY <1>1, <2>1, FaultType
  <2> QED BY <1>1, <1>2, <2>2, <2>3, <2>4, ServerStep
<1> QED BY <1>3, <1>4, <1>5, <1>6, <1>7

-----------------------------------------------------------------------------
(* The streams. *)

Conns == {"none", "closed"} \cup Connected \cup Freed

\* del, cleanup and on_close of open streams, of which S is the set: what becomes of
\* each stream, and that none is left in the list.
LEMMA CloseResult ==
  ASSUME IInv, NEW S \in SUBSET Stream, NEW keep \in SUBSET Stream, NEW own \in SUBSET Stream,
         \A s \in S : conn[s] \in Connected,
         CloseAndTell(S, keep, own)
  PROVE  /\ conn' \in [Stream -> Conns] /\ told' \in [Stream -> Nat] /\ edge' \in SUBSET Stream
         /\ poll' \in Polls
         /\ \A s \in Stream : IF s \in S
                                THEN /\ told'[s] = told[s] + 1 /\ poll'.listed[s] = 0
                                     /\ conn'[s] \in {"closed", "gone", "broken"}
                                     /\ s \in keep <=> conn'[s] = "closed"
                                     /\ s \notin own => conn'[s] \in {"closed", "broken"}
                                ELSE /\ told'[s] = told[s] /\ conn'[s] = conn[s]
                                     /\ poll'.listed[s] = poll.listed[s]
                                     /\ s \in poll'.set <=> s \in poll.set
         /\ Srv \in poll'.set <=> Srv \in poll.set
<1>1. /\ conn \in [Stream -> Conns] /\ told \in [Stream -> Nat] /\ edge \in SUBSET Stream
      /\ poll \in Polls
  BY DEF IInv, TypeOK, LoopTypeOK, Conns, Polls
<1>2. conn' \in [Stream -> Conns] /\ told' \in [Stream -> Nat] /\ edge' \in SUBSET Stream
  BY <1>1 DEF CloseAndTell, Conns, Freed
<1>3. poll' \in Polls
  BY <1>1 DEF CloseAndTell, Forget, Polls
<1>4. \A s \in S : poll.listed[s] > 0 => s \in poll.set
  BY DEF IInv, StreamInv, SetInv
<1>5. \A s \in Stream : poll.listed[s] \in Nat
  BY <1>1 DEF Polls
<1>6. \A s \in Stream : poll'.listed[s] = IF s \in S THEN 0 ELSE poll.listed[s]
  BY <1>4, <1>5 DEF CloseAndTell, Forget
<1>7. \A s \in Obj : s \in poll'.set <=> s \in poll.set /\ s \notin S
  BY DEF CloseAndTell, Forget
<1>8. \A s \in Stream : told'[s] = IF s \in S THEN told[s] + 1 ELSE told[s]
  BY DEF CloseAndTell
<1>9. \A s \in Stream : conn'[s] = IF s \notin S THEN conn[s] ELSE IF s \in keep THEN "closed"
                                   ELSE IF s \in own THEN "gone" ELSE "broken"
  BY DEF CloseAndTell
<1> QED BY <1>2, <1>3, <1>6, <1>7, <1>8, <1>9

\* What a handler that closes streams keeps of the invariant: those it closes are
\* not handled any more, unless their owner keeps them, and one that its own handler
\* frees has no other event in the batch.
LEMMA CloseKeepsIInv ==
  ASSUME IInv, NEW S \in SUBSET Stream, NEW keep \in SUBSET Stream, NEW own \in SUBSET Stream,
         \A s \in S : conn[s] \in Connected,
         CloseAndTell(S, keep, own),
         \A s \in S \cap own : batch[s] = {},
         event' \in [Obj -> SUBSET Bits], \A o \in Obj : event'[o] \subseteq event[o],
         \A s \in S : event'[s] = {} \/ s \in keep,
         rx' \in [Stream -> {"never", "unread", "read"}],
         \A s \in Stream \ S : rx'[s] = rx[s],
         room' \in [Stream -> BOOLEAN],
         loop' \in {loop, "undefined"},
         UNCHANGED <<batch, serverVars, backlog, faults>>
  PROVE  IInv'
<1>1. /\ conn' \in [Stream -> Conns] /\ told' \in [Stream -> Nat] /\ edge' \in SUBSET Stream
      /\ poll' \in Polls
      /\ \A s \in Stream : IF s \in S
                             THEN /\ told'[s] = told[s] + 1 /\ poll'.listed[s] = 0
                                  /\ conn'[s] \in {"closed", "gone", "broken"}
                                  /\ s \in keep <=> conn'[s] = "closed"
                                  /\ s \notin own => conn'[s] \in {"closed", "broken"}
                             ELSE /\ told'[s] = told[s] /\ conn'[s] = conn[s]
                                  /\ poll'.listed[s] = poll.listed[s]
                                  /\ s \in poll'.set <=> s \in poll.set
      /\ Srv \in poll'.set <=> Srv \in poll.set
  BY CloseResult
<1>2. TypeOK'
  BY <1>1 DEF IInv, TypeOK, LoopTypeOK, serverVars, Polls, Conns
<1>3. LoopKnowsItsObjects'
  BY <1>1 DEF IInv, StreamInv, LoopKnowsItsObjects, Live, Connected
<1>4. EventInv'
  BY <1>1 DEF IInv, StreamInv, EventInv, Live
<1>5. SetInv' /\ UntoldInv'
  BY <1>1 DEF IInv, StreamInv, SetInv, UntoldInv, Connected
<1>6. BitsInv'
  BY <1>1 DEF IInv, StreamInv, BitsInv, TypeOK, LoopTypeOK
<1>7. NeverDormant'
  BY <1>1 DEF IInv, NeverDormant, Running, GaveUp, RefusedService, UnaskedGroup, serverVars
<1> QED BY <1>2, <1>3, <1>4, <1>5, <1>6, <1>7 DEF IInv, StreamInv

\* The streams whose writes break are open.
LEMMA WritesResult ==
  ASSUME TypeOK, NEW W, NEW hurt, NEW short, Writes(W, hurt, short)
  PROVE  /\ hurt \in SUBSET Stream /\ room' \in [Stream -> BOOLEAN]
         /\ \A s \in hurt : conn[s] = "rst" /\ conn[s] \in Connected
BY DEF Writes, TypeOK, Connected

\* A stream with a current bit is the only object with an event, has no other event
\* in the batch, and lives.
LEMMA CurrentResult ==
  ASSUME IInv, NEW s \in Stream, NEW b \in Bits, Current(s, b)
  PROVE  /\ Running /\ b \in event[s] /\ batch[s] = {} /\ Live(s)
         /\ \A o \in Obj \ {s} : event[o] = {}
         /\ event \in [Obj -> SUBSET Bits]
         /\ \A e \in SUBSET event[s] : [event EXCEPT ![s] = e] \in [Obj -> SUBSET Bits]
         /\ b = "HUP" => event[s] = {"HUP"}
<1>1. event \in [Obj -> SUBSET Bits]
  BY DEF IInv, TypeOK, LoopTypeOK
<1>2. Running /\ b \in event[s] /\ batch[s] = {} /\ Live(s)
  BY DEF Current, IInv, StreamInv, EventInv
<1>3. \A o \in Obj \ {s} : event[o] = {}
  BY <1>2 DEF IInv, StreamInv, EventInv
<1>4. b = "HUP" => event[s] = {"HUP"}
  <2>1. event[s] \subseteq StreamBits
    BY DEF IInv, StreamInv, BitsInv
  <2>2. Before("HUP") = {"IN", "OUT", "PRI", "ERR"}
    BY DEF Before
  <2> QED BY <1>2, <2>1, <2>2 DEF Current, StreamBits
<1> QED BY <1>1, <1>2, <1>3, <1>4

\* What is ready of a stream: no OUT without an edge, IN only with data to read or
\* without its peer, HUP only after a reset.
LEMMA ReadyResult ==
  ASSUME TypeOK
  PROVE  /\ \A o \in Obj : ReadyBits(o) \in SUBSET StreamBits
         /\ \A s \in Stream : ReadyBits(s) # {} =>
              /\ conn[s] \in Connected
              /\ conn[s] = "open" => "HUP" \notin ReadyBits(s)
              /\ conn[s] = "open" /\ "IN" \in ReadyBits(s) => rx[s] = "unread"
BY DEF ReadyBits, StreamBits, Connected

-----------------------------------------------------------------------------
(* The steps of the loop, the streams and the peers. *)

LEMMA PollIInv == IInv /\ Poll => IInv'
<1> SUFFICES ASSUME IInv, Poll PROVE IInv'
  OBVIOUS
<1>1. PICK S \in SUBSET Obj : Wait(S, [o \in Obj |-> ReadyBits(o)]) /\ edge' = edge \ S
  BY DEF Poll
<1>2. /\ UNCHANGED <<poll, event, loop, serverVars, conn, rx, told, room, backlog, faults>>
      /\ event = None /\ batch = None
  BY <1>1 DEF Poll, Wait, Idle
<1>3. /\ batch' = [o \in Obj |-> IF o \in S THEN ReadyBits(o) ELSE {}]
      /\ \A o \in S : ReadyBits(o) # {}
  BY <1>1 DEF Wait
<1>4. /\ \A o \in Obj : ReadyBits(o) \in SUBSET StreamBits
      /\ \A s \in Stream : ReadyBits(s) # {} =>
           /\ conn[s] \in Connected
           /\ conn[s] = "open" => "HUP" \notin ReadyBits(s)
           /\ conn[s] = "open" /\ "IN" \in ReadyBits(s) => rx[s] = "unread"
  BY ReadyResult DEF IInv
<1>5. batch' \in [Obj -> SUBSET Bits]
  BY <1>3, <1>4 DEF StreamBits, Bits
<1>6. TypeOK'
  BY <1>1, <1>2, <1>5 DEF IInv, TypeOK, LoopTypeOK, serverVars
<1>7. LoopKnowsItsObjects'
  BY <1>2, <1>3, <1>4 DEF IInv, StreamInv, LoopKnowsItsObjects, Live
<1>8. EventInv'
  BY <1>2 DEF EventInv, None
<1>9. SetInv' /\ UntoldInv'
  BY <1>2 DEF IInv, StreamInv, SetInv, UntoldInv
<1>10. BitsInv'
  BY <1>2, <1>3, <1>4 DEF BitsInv, None, StreamBits
<1>11. NeverDormant'
  BY <1>2 DEF IInv, NeverDormant, Running, GaveUp, RefusedService, UnaskedGroup, serverVars
<1> QED BY <1>6, <1>7, <1>8, <1>9, <1>10, <1>11 DEF IInv, StreamInv

LEMMA NextEventIInv == ASSUME IInv, NEW o \in Obj, NextEvent(o) PROVE IInv'
<1> DEFINE freed == o \in Stream /\ conn[o] \in Freed
<1>1. /\ event = None /\ batch[o] # {} /\ batch' = [batch EXCEPT ![o] = {}]
      /\ event' = IF freed THEN event ELSE [event EXCEPT ![o] = batch[o]]
      /\ loop' = (IF freed THEN "undefined" ELSE loop)
      /\ UNCHANGED <<poll, serverVars, streamVars, backlog, faults>>
  BY DEF NextEvent, Dispatch, Idle
<1>2. TypeOK'
  BY <1>1 DEF IInv, TypeOK, LoopTypeOK, serverVars, streamVars
<1>3. LoopKnowsItsObjects' /\ SetInv' /\ UntoldInv'
  BY <1>1 DEF IInv, StreamInv, LoopKnowsItsObjects, SetInv, UntoldInv, streamVars, Live,
              TypeOK, LoopTypeOK
<1>4. EventInv'
  <2>1. o \in Stream /\ ~freed => Live(o)
    BY <1>1 DEF IInv, StreamInv, LoopKnowsItsObjects, Freed, Live
  <2> HIDE DEF freed
  <2>2. event = [p \in Obj |-> {}] /\ batch \in [Obj -> SUBSET Bits]
    BY <1>1 DEF None, IInv, TypeOK, LoopTypeOK
  <2>3. \A s \in Stream : Live(s)' <=> Live(s)
    BY <1>1 DEF Live, streamVars
  <2> QED BY <1>1, <2>1, <2>2, <2>3 DEF EventInv
<1>5. BitsInv'
  <2> HIDE DEF freed
  <2>1. \A s \in Stream : batch'[s] \cup event'[s] \subseteq batch[s] \cup event[s]
    BY <1>1 DEF IInv, TypeOK, LoopTypeOK, None
  <2> QED BY <1>1, <2>1 DEF IInv, StreamInv, BitsInv, streamVars
<1>6. NeverDormant'
  BY <1>1 DEF IInv, NeverDormant, Running, GaveUp, RefusedService, UnaskedGroup, serverVars
<1> QED BY <1>2, <1>3, <1>4, <1>5, <1>6 DEF IInv, StreamInv

LEMMA EndIInv == IInv /\ End => IInv'
<1> SUFFICES ASSUME IInv, End PROVE IInv'
  OBVIOUS
<1> DEFINE L == {o \in Obj : poll.listed[o] > 0}
<1>1. /\ LeaveLoop(L, \E s \in L \cap Stream : conn[s] \in Freed)
      /\ conn' = [s \in Stream |-> IF s \in L /\ Live(s) THEN "closed" ELSE conn[s]]
      /\ lsock' = (IF Srv \in L THEN "none" ELSE lsock)
      /\ UNCHANGED <<zeroconf, mode, timer, resolv, group, rx, told, room, edge, backlog, faults>>
  BY DEF End
<1> HIDE DEF L
<1>2. /\ event = None /\ batch = None /\ UNCHANGED <<batch, event>>
      /\ loop' \in {"undefined", "end"}
      /\ poll' = [set |-> poll.set \ L, listed |-> [o \in Obj |-> 0]]
  BY <1>1 DEF LeaveLoop, Idle
<1>3. TypeOK'
  BY <1>1, <1>2 DEF IInv, TypeOK, LoopTypeOK
<1>4. LoopKnowsItsObjects' /\ SetInv' /\ EventInv'
  BY <1>2 DEF LoopKnowsItsObjects, SetInv, EventInv, None
<1>5. BitsInv' /\ UntoldInv'
  BY <1>1, <1>2 DEF IInv, StreamInv, BitsInv, UntoldInv, None, Connected
<1>6. NeverDormant'
  BY <1>2 DEF NeverDormant, Running
<1> QED BY <1>3, <1>4, <1>5, <1>6 DEF IInv, StreamInv

LEMMA OwnerWritesIInv == IInv /\ OwnerWrites => IInv'
<1> SUFFICES ASSUME IInv, OwnerWrites PROVE IInv'
  OBVIOUS
<1>1. PICK W \in SUBSET Stream, hurt \in SUBSET Stream, short \in SUBSET Stream,
           keep \in SUBSET Stream : Writes(W, hurt, short) /\ CloseAndTell(hurt, keep, {})
  BY DEF OwnerWrites
<1>2. /\ event = None /\ UNCHANGED <<batch, event, loop, serverVars, rx, backlog, faults>>
  BY DEF OwnerWrites, Idle
<1>3. event \in [Obj -> SUBSET Bits] /\ rx \in [Stream -> {"never", "unread", "read"}] /\ TypeOK
  BY DEF IInv, TypeOK, LoopTypeOK
<1>4. /\ room' \in [Stream -> BOOLEAN] /\ \A s \in hurt : conn[s] \in Connected
  BY <1>1, <1>3, WritesResult
<1>5. {} \in SUBSET Stream /\ \A s \in hurt : event'[s] = {}
  BY <1>2 DEF None
<1> QED BY <1>1, <1>2, <1>3, <1>4, <1>5, CloseKeepsIInv

LEMMA StreamINIInv == ASSUME IInv, NEW s \in Stream, StreamIN(s) PROVE IInv'
<1>1. /\ Running /\ "IN" \in event[s] /\ batch[s] = {} /\ Live(s)
      /\ \A o \in Obj \ {s} : event[o] = {}
      /\ event \in [Obj -> SUBSET Bits]
      /\ \A e \in SUBSET event[s] : [event EXCEPT ![s] = e] \in [Obj -> SUBSET Bits]
  <2>1. Current(s, "IN") /\ "IN" \in Bits
    BY DEF StreamIN, Bits
  <2> QED BY <2>1, CurrentResult
<1>2. UNCHANGED <<batch, serverVars, backlog, faults>>
  BY DEF StreamIN
<1>3. ASSUME NEW e \in SUBSET event[s], event' = [event EXCEPT ![s] = e]
      PROVE  event' \in [Obj -> SUBSET Bits] /\ \A o \in Obj : event'[o] \subseteq event[o]
  BY <1>1, <1>3
<1>4. event[s] \ {"IN"} \in SUBSET event[s] /\ {} \in SUBSET event[s]
  OBVIOUS
<1>5. CASE conn[s] = "closed"
  <2>1. Handled(s, "IN") /\ UNCHANGED <<poll, loop, streamVars>>
    BY <1>5 DEF StreamIN
  <2>2. event' = [event EXCEPT ![s] = event[s] \ {"IN"}]
    BY <2>1 DEF Handled
  <2>3. event' \in [Obj -> SUBSET Bits] /\ \A o \in Obj : event'[o] \subseteq event[o]
    BY <1>3, <1>4, <2>2
  <2>4. UNCHANGED <<conn, rx, told, room, edge, zeroconf, mode, lsock, timer, resolv, group>>
    BY <1>2, <2>1 DEF streamVars, serverVars
  <2>5. TypeOK'
    BY <1>2, <2>1, <2>3, <2>4 DEF IInv, TypeOK, LoopTypeOK
  <2>6. StreamInv'
    BY <1>2, <2>1, <2>3, <2>4
       DEF IInv, StreamInv, LoopKnowsItsObjects, EventInv, SetInv, BitsInv, UntoldInv, Live
  <2>7. NeverDormant'
    BY <2>1, <2>4 DEF IInv, NeverDormant, Running, GaveUp, RefusedService, UnaskedGroup
  <2> QED BY <2>5, <2>6, <2>7 DEF IInv
<1>6. CASE conn[s] # "closed"
  <2>1. PICK W \in SUBSET Stream, hurt \in SUBSET Stream, short \in SUBSET Stream,
             keep \in SUBSET Stream :
          /\ Writes(W, hurt, short)
          /\ rx' = [rx EXCEPT ![s] = IF @ = "unread" THEN "read" ELSE @]
          /\ CloseAndTell(hurt \cup {s}, keep, {s} \ hurt)
          /\ IF s \notin hurt THEN Stopped(s) /\ UNCHANGED loop
             ELSE IF s \in keep THEN Handled(s, "IN") /\ UNCHANGED loop
             ELSE Stopped(s) /\ loop' = "undefined"
    BY <1>6 DEF StreamIN
  <2>2. conn[s] \in Connected
    BY <1>1, <1>6 DEF Live
  <2> DEFINE S == hurt \cup {s}
  <2>3. /\ S \in SUBSET Stream /\ {s} \ hurt \in SUBSET Stream
        /\ \A x \in S \cap ({s} \ hurt) : batch[x] = {}
    BY <1>1
  <2>4. room' \in [Stream -> BOOLEAN] /\ \A x \in S : conn[x] \in Connected
    BY <2>1, <2>2, WritesResult DEF IInv
  <2>5. /\ rx' \in [Stream -> {"never", "unread", "read"}] /\ \A x \in Stream \ S : rx'[x] = rx[x]
        /\ loop' \in {loop, "undefined"}
    BY <2>1 DEF IInv, TypeOK
  <2>6. \/ event' = [event EXCEPT ![s] = {}]
        \/ event' = [event EXCEPT ![s] = event[s] \ {"IN"}] /\ s \in keep
    BY <2>1 DEF Stopped, Handled
  <2>7. event' \in [Obj -> SUBSET Bits] /\ \A o \in Obj : event'[o] \subseteq event[o]
    BY <1>3, <1>4, <2>6
  <2>8. \A x \in S : event'[x] = {} \/ x \in keep
    BY <1>1, <2>6
  <2> HIDE DEF S
  <2>9. CloseAndTell(S, keep, {s} \ hurt)
    BY <2>1 DEF S
  <2> QED BY <1>2, <2>3, <2>4, <2>5, <2>7, <2>8, <2>9, CloseKeepsIInv
<1> QED BY <1>5, <1>6

LEMMA StreamHUPIInv == ASSUME IInv, NEW s \in Stream, StreamHUP(s) PROVE IInv'
<1>1. /\ Running /\ batch[s] = {} /\ Live(s) /\ event[s] = {"HUP"}
      /\ \A o \in Obj \ {s} : event[o] = {}
      /\ event \in [Obj -> SUBSET Bits]
  <2>1. Current(s, "HUP") /\ "HUP" \in Bits
    BY DEF StreamHUP, Bits
  <2> QED BY <2>1, CurrentResult
<1>2. PICK keep \in SUBSET {s} :
        CloseAndTell({s} \ {x \in Stream : conn[x] = "closed"}, keep, {s})
  BY DEF StreamHUP
<1> DEFINE S == {s} \ {x \in Stream : conn[x] = "closed"}
<1>3. /\ S \in SUBSET Stream /\ keep \in SUBSET Stream /\ {s} \in SUBSET Stream
      /\ \A x \in S : conn[x] \in Connected /\ batch[x] = {}
  BY <1>1 DEF Live
<1>4. /\ event' = [event EXCEPT ![s] = event[s] \ {"HUP"}]
      /\ UNCHANGED <<batch, loop, serverVars, rx, room, backlog, faults>>
  BY DEF StreamHUP, Handled
<1>5. /\ event' \in [Obj -> SUBSET Bits] /\ \A o \in Obj : event'[o] \subseteq event[o]
      /\ \A x \in S : event'[x] = {}
  BY <1>1, <1>4
<1>6. rx \in [Stream -> {"never", "unread", "read"}] /\ room \in [Stream -> BOOLEAN]
  BY DEF IInv, TypeOK
<1> HIDE DEF S
<1>7. CloseAndTell(S, keep, {s})
  BY <1>2 DEF S
<1> QED BY <1>3, <1>4, <1>5, <1>6, <1>7, CloseKeepsIInv

\* StreamOUT, StreamERR: a bit goes, nothing else changes.
LEMMA QuietBitIInv ==
  ASSUME IInv, NEW s \in Stream, StreamOUT(s) \/ StreamERR(s)
  PROVE  IInv'
<1>1. PICK b \in Bits : Handled(s, b)
  BY DEF StreamOUT, StreamERR, Bits
<1>2. UNCHANGED <<poll, batch, loop, serverVars, streamVars, backlog, faults>>
  BY DEF StreamOUT, StreamERR
<1>3. event' \in [Obj -> SUBSET Bits] /\ \A o \in Obj : event'[o] \subseteq event[o]
  BY <1>1 DEF Handled, IInv, TypeOK, LoopTypeOK
<1>4. UNCHANGED <<conn, rx, told, room, edge, zeroconf, mode, lsock, timer, resolv, group>>
  BY <1>2 DEF streamVars, serverVars
<1>5. TypeOK'
  BY <1>2, <1>3, <1>4 DEF IInv, TypeOK, LoopTypeOK
<1>6. StreamInv'
  BY <1>2, <1>3, <1>4
     DEF IInv, StreamInv, LoopKnowsItsObjects, EventInv, SetInv, BitsInv, UntoldInv, Live
<1>7. NeverDormant'
  BY <1>2, <1>4 DEF IInv, NeverDormant, Running, GaveUp, RefusedService, UnaskedGroup
<1> QED BY <1>5, <1>6, <1>7 DEF IInv

LEMMA AcceptIInv == IInv /\ Accept => IInv'
<1> SUFFICES ASSUME IInv, Accept PROVE IInv'
  OBVIOUS
<1>1. /\ Handled(Srv, "IN") /\ UNCHANGED <<batch, loop, serverVars, rx, told, room>>
      /\ UNCHANGED <<zeroconf, mode, lsock, timer, resolv, group>>
  BY DEF Accept, serverVars
<1>2. /\ event' \in [Obj -> SUBSET Bits] /\ \A o \in Obj : event'[o] \subseteq event[o]
      /\ \A s \in Stream : event'[s] = event[s]
  BY <1>1 DEF Handled, IInv, TypeOK, LoopTypeOK
<1>3. CASE lsock # "listen"
  <2>1. UNCHANGED <<poll, conn, edge, backlog, faults>>
    BY <1>3 DEF Accept
  <2>2. TypeOK'
    BY <1>1, <1>2, <2>1 DEF IInv, TypeOK, LoopTypeOK
  <2>3. StreamInv'
    BY <1>1, <1>2, <2>1
       DEF IInv, StreamInv, LoopKnowsItsObjects, EventInv, SetInv, BitsInv, UntoldInv, Live
  <2>4. NeverDormant'
    BY <1>1, <2>1 DEF IInv, NeverDormant, Running, GaveUp, RefusedService, UnaskedGroup
  <2> QED BY <2>2, <2>3, <2>4 DEF IInv
<1>4. CASE lsock = "listen"
  <2>1. PICK A \in SUBSET Stream, R \in SUBSET Stream, deaf \in SUBSET Stream,
             f \in BOOLEAN, lost \in 0..1 :
          /\ Fault(f)
          /\ A \subseteq {s \in Stream : conn[s] = "none"} /\ deaf \subseteq A
          /\ R \subseteq {s \in Stream : Live(s)} /\ Cardinality(R) <= Cardinality(A)
          /\ (deaf # {} \/ lost = 1) => f
          /\ Cardinality(A) + lost <= backlog
          /\ ~f => Cardinality(A) = backlog
          /\ backlog' = backlog - Cardinality(A) - lost
          /\ conn' = [s \in Stream |-> IF s \in A THEN "open"
                                        ELSE IF s \in R THEN "replaced" ELSE conn[s]]
          /\ poll' = [set |-> (poll.set \ R) \cup (A \ deaf),
                      listed |-> [o \in Obj |-> poll.listed[o] + IF o \in A \ deaf THEN 1 ELSE 0]]
          /\ edge' = (edge \ R) \cup (A \ deaf)
    BY <1>4 DEF Accept
  <2>2. Cardinality(A) \in Nat
    <3>1. IsFiniteSet(A)
      BY <2>1, FS_Subset
    <3> QED BY <3>1, FS_CardinalityType
  <2>3. backlog' \in 0..MaxBacklog
    <3>1. backlog \in 0..MaxBacklog /\ lost \in Nat
      BY DEF IInv, TypeOK
    <3> DEFINE n == Cardinality(A)
    <3>2. n \in Nat /\ n + lost <= backlog /\ backlog' = backlog - n - lost
      BY <2>1, <2>2
    <3> HIDE DEF n
    <3> QED BY <3>1, <3>2
  <2>4. faults' \in 0..MaxFaults
    BY <2>1, FaultType DEF IInv
  <2>5. poll' \in Polls
    BY <2>1 DEF IInv, TypeOK, LoopTypeOK, Polls
  <2>6. conn' \in [Stream -> Conns] /\ edge' \in SUBSET Stream
    BY <2>1 DEF IInv, TypeOK, Conns, Connected, Freed
  <2>7. TypeOK'
    BY <1>1, <1>2, <2>3, <2>4, <2>5, <2>6
       DEF IInv, TypeOK, LoopTypeOK, Polls, Conns
  <2>8. \A s \in Stream : /\ s \in A => conn[s] = "none" /\ conn'[s] = "open"
                          /\ s \in R => Live(s) /\ conn'[s] = "replaced"
                          /\ s \notin A \cup R => conn'[s] = conn[s]
    BY <2>1 DEF Live, Connected
  <2>9. \A s \in A : poll.listed[s] = 0 /\ batch[s] = {} /\ event[s] = {}
    BY <2>8 DEF IInv, StreamInv, LoopKnowsItsObjects, EventInv, Live, Connected,
                TypeOK, LoopTypeOK
  <2>10. LoopKnowsItsObjects'
    BY <1>1, <2>1, <2>8, <2>9
       DEF IInv, StreamInv, LoopKnowsItsObjects, Live, Connected, TypeOK, LoopTypeOK
  <2>11. EventInv'
    <3>1. \A s \in Stream : event'[s] # {} => s \notin A \cup R
      <4>1. Srv \in Obj /\ event[Srv] # {}
        BY DEF Accept, Current
      <4>2. \A s \in Stream : event[s] = {}
        BY <4>1 DEF IInv, StreamInv, EventInv
      <4> QED BY <1>2, <4>2
    <3> QED BY <1>1, <1>2, <2>8, <3>1 DEF IInv, StreamInv, EventInv, Live
  <2>12. SetInv'
    BY <2>1, <2>8, <2>9 DEF IInv, StreamInv, SetInv, Connected, TypeOK, LoopTypeOK
  <2>13. BitsInv'
    BY <1>1, <1>2, <2>8, <2>9 DEF IInv, StreamInv, BitsInv, StreamBits
  <2>14. UntoldInv'
    BY <1>1, <2>8 DEF IInv, StreamInv, UntoldInv, Connected
  <2>15. NeverDormant'
    <3>1. Srv \in poll.set => Srv \in poll'.set
      BY <2>1
    <3> QED BY <1>1, <3>1 DEF IInv, NeverDormant, Running, GaveUp, RefusedService, UnaskedGroup
  <2> QED BY <2>7, <2>10, <2>11, <2>12, <2>13, <2>14, <2>15 DEF IInv, StreamInv
<1> QED BY <1>3, <1>4

LEMMA PeerConnectsIInv == IInv /\ PeerConnects => IInv'
<1> SUFFICES ASSUME IInv, PeerConnects PROVE IInv'
  OBVIOUS
<1>1. /\ UNCHANGED <<poll, batch, event, loop, serverVars, streamVars, faults>>
      /\ backlog < MaxBacklog /\ backlog' = backlog + 1
  BY DEF PeerConnects, loopVars
<1>2. TypeOK'
  BY <1>1 DEF IInv, TypeOK, LoopTypeOK, serverVars, streamVars
<1>3. StreamInv'
  BY <1>1, ServerKeepsStreams DEF IInv, SameStreams
<1>4. NeverDormant'
  BY <1>1 DEF IInv, NeverDormant, Running, GaveUp, RefusedService, UnaskedGroup, serverVars
<1> QED BY <1>2, <1>3, <1>4 DEF IInv

LEMMA PeerActsIInv == ASSUME IInv, NEW s \in Stream, PeerActs(s) PROVE IInv'
<1>1. /\ UNCHANGED <<poll, batch, event, loop, serverVars, told, room, backlog, faults>>
      /\ event = None
      /\ edge' = edge \cup ({s} \cap poll.set)
  BY DEF PeerActs, loopVars, Idle
<1>2. \/ conn[s] = "open" /\ rx' = [rx EXCEPT ![s] = "unread"] /\ UNCHANGED conn
      \/ conn[s] \in {"open", "eof"} /\ UNCHANGED rx
         /\ conn' \in {[conn EXCEPT ![s] = "eof"], [conn EXCEPT ![s] = "rst"]}
  BY DEF PeerActs
<1>3. TypeOK'
  BY <1>1, <1>2 DEF IInv, TypeOK, LoopTypeOK, serverVars, Connected
<1>4. \A x \in Stream : /\ x # s => conn'[x] = conn[x] /\ rx'[x] = rx[x]
                        /\ x = s => /\ conn[x] \in {"open", "eof"}
                                    /\ conn'[x] \in {"open", "eof", "rst"}
                                    /\ conn'[x] = "open" => rx'[x] = "unread" /\ conn[x] = "open"
                                    /\ rx'[x] \in {rx[x], "unread"}
  BY <1>2 DEF IInv, TypeOK
<1>5. \A x \in Stream : (Live(x)' <=> Live(x)) /\ (conn'[x] \in Connected <=> conn[x] \in Connected)
                        /\ (conn'[x] = "none" <=> conn[x] = "none")
  BY <1>4 DEF Live, Connected
<1>6. LoopKnowsItsObjects' /\ EventInv'
  BY <1>1, <1>4, <1>5 DEF IInv, StreamInv, LoopKnowsItsObjects, EventInv
<1>7. SetInv' /\ UntoldInv'
  BY <1>1, <1>4, <1>5 DEF IInv, StreamInv, SetInv, UntoldInv, Connected
<1>8. BitsInv'
  BY <1>1, <1>4 DEF IInv, StreamInv, BitsInv
<1>9. NeverDormant'
  BY <1>1 DEF IInv, NeverDormant, Running, GaveUp, RefusedService, UnaskedGroup, serverVars
<1> QED BY <1>3, <1>6, <1>7, <1>8, <1>9 DEF IInv, StreamInv

LEMMA StopIInv == IInv /\ (Stop \/ UNCHANGED vars) => IInv'
<1> SUFFICES ASSUME IInv, Stop \/ UNCHANGED vars PROVE IInv'
  OBVIOUS
<1>1. /\ UNCHANGED <<poll, batch, event, serverVars, streamVars, backlog, faults>>
      /\ loop' = loop \/ (loop = "run" /\ loop' = "stop")
  BY DEF Stop, StopLoop, vars, loopVars, serverVars, streamVars
<1>2. TypeOK'
  BY <1>1 DEF IInv, TypeOK, LoopTypeOK, serverVars, streamVars
<1>3. StreamInv'
  BY <1>1, ServerKeepsStreams DEF IInv, SameStreams
<1>4. NeverDormant'
  BY <1>1 DEF IInv, NeverDormant, Running, GaveUp, RefusedService, UnaskedGroup, serverVars
<1> QED BY <1>2, <1>3, <1>4 DEF IInv

LEMMA NextIInv == IInv /\ [Next]_vars => IInv'
<1> SUFFICES ASSUME IInv, [Next]_vars PROVE IInv'
  OBVIOUS
<1>1. CASE ServerActs
  BY <1>1, ServerIInv
<1>2. CASE Poll
  BY <1>2, PollIInv
<1>3. CASE \E o \in Obj : NextEvent(o)
  BY <1>3, NextEventIInv
<1>4. CASE Stop \/ UNCHANGED vars
  BY <1>4, StopIInv
<1>5. CASE End
  BY <1>5, EndIInv
<1>6. CASE StreamBit
  BY <1>6, StreamINIInv, QuietBitIInv, StreamHUPIInv DEF StreamBit
<1>7. CASE Accept
  BY <1>7, AcceptIInv
<1>8. CASE OwnerWrites
  BY <1>8, OwnerWritesIInv
<1>9. CASE PeerConnects
  BY <1>9, PeerConnectsIInv
<1>10. CASE \E s \in Stream : PeerActs(s)
  BY <1>10, PeerActsIInv
<1> QED
  BY <1>1, <1>2, <1>3, <1>4, <1>5, <1>6, <1>7, <1>8, <1>9, <1>10 DEF Next, ServerActs

-----------------------------------------------------------------------------
(* What is proved. *)

\* The inductive invariant holds in every state the server can reach, whatever the
\* order of connections, events, timers and answers of Avahi and the resolver.
THEOREM Invariance == Spec => []IInv
<1> QED BY InitIInv, NextIInv, PTL DEF Spec

\* Every variable of the server, its streams and their loop keeps its type.
THEOREM TypeCorrect == Spec => []TypeOK
<1>1. IInv => TypeOK
  BY DEF IInv
<1> QED BY <1>1, Invariance, PTL

\* The loop holds pointers to living streams (src/src/impl/tcpsvr.h): one that closes
\* itself, or is freed by its own handler, is in neither the list nor the batch; the
\* two exceptions are named, a stream its namesake replaced and one that broke in the
\* write of another handler of the batch.
THEOREM LoopSafe == Spec => []LoopKnowsItsObjects
<1>1. IInv => LoopKnowsItsObjects
  BY DEF IInv, StreamInv
<1> QED BY <1>1, Invariance, PTL

\* A server that was initialised listens or will be called again, by its timer, its
\* resolver or its registration, but for the service Avahi refuses and the group it cannot
\* be asked about.
THEOREM AlwaysAwake == Spec => []NeverDormant
<1>1. IInv => NeverDormant
  BY DEF IInv
<1> QED BY <1>1, Invariance, PTL

\* The action of HangsUpOnlyAfterData.
HangsUpAfterData ==
  \A s \in Stream : conn[s] = "open" /\ conn'[s] \in {"closed", "gone", "broken"}
    => rx[s] = "unread" \/ loop = "stop"

LEMMA HangUpStep ==
  ASSUME IInv, [Next]_vars
  PROVE  HangsUpAfterData
<1> SUFFICES ASSUME NEW s \in Stream, conn[s] = "open",
                    conn'[s] \in {"closed", "gone", "broken"}
             PROVE  rx[s] = "unread" \/ loop = "stop"
  BY DEF HangsUpAfterData
<1>0. conn'[s] # conn[s] /\ conn[s] \in Connected
  BY DEF Connected
<1>1. CASE ServerActs
  BY <1>0, <1>1, ServerIInv DEF streamVars
<1>2. CASE Poll \/ (\E o \in Obj : NextEvent(o)) \/ Stop \/ PeerConnects \/ UNCHANGED vars
  BY <1>0, <1>2 DEF Poll, NextEvent, Stop, PeerConnects, vars, streamVars
<1>3. CASE End
  BY <1>3 DEF End, LeaveLoop
<1>4. ASSUME NEW x \in Stream, StreamIN(x)
      PROVE  rx[s] = "unread"
  <2>1. "IN" \in event[x] /\ Live(x)
    <3>1. Current(x, "IN") /\ "IN" \in Bits
      BY <1>4 DEF StreamIN, Bits
    <3> QED BY <3>1, CurrentResult
  <2>2. CASE conn[x] = "closed"
    BY <1>0, <1>4, <2>2 DEF StreamIN, streamVars
  <2>3. CASE conn[x] # "closed"
    <3>1. PICK W \in SUBSET Stream, hurt \in SUBSET Stream, short \in SUBSET Stream,
               keep \in SUBSET Stream :
            Writes(W, hurt, short) /\ CloseAndTell(hurt \cup {x}, keep, {x} \ hurt)
      BY <1>4, <2>3 DEF StreamIN
    <3>2. /\ hurt \in SUBSET Stream /\ \A y \in hurt : conn[y] = "rst" /\ conn[y] \in Connected
          /\ conn[x] \in Connected /\ hurt \cup {x} \in SUBSET Stream /\ {x} \ hurt \in SUBSET Stream
      BY <2>1, <2>3, <3>1, WritesResult DEF IInv, Live
    <3>3. s \notin hurt \cup {x} => conn'[s] = conn[s]
      BY <3>1 DEF CloseAndTell
    <3>4. s = x
      BY <1>0, <3>2, <3>3
    <3> QED BY <2>1, <3>4 DEF IInv, StreamInv, BitsInv
  <2> QED BY <2>2, <2>3
<1>5. ASSUME NEW x \in Stream, StreamOUT(x) \/ StreamERR(x)
      PROVE  FALSE
  BY <1>0, <1>5 DEF StreamOUT, StreamERR, streamVars
<1>6. ASSUME NEW x \in Stream, StreamHUP(x)
      PROVE  FALSE
  <2>1. "HUP" \in event[x]
    BY <1>6 DEF StreamHUP, Current
  <2>2. conn[x] # "open"
    BY <2>1 DEF IInv, StreamInv, BitsInv
  <2>3. s # x
    BY <2>2
  <2> QED BY <1>0, <1>6, <2>3 DEF StreamHUP, CloseAndTell
<1>7. CASE OwnerWrites
  <2>1. PICK W \in SUBSET Stream, hurt \in SUBSET Stream, short \in SUBSET Stream,
             keep \in SUBSET Stream : Writes(W, hurt, short) /\ CloseAndTell(hurt, keep, {})
    BY <1>7 DEF OwnerWrites
  <2>2. \A y \in hurt : conn[y] = "rst"
    BY <2>1, WritesResult DEF IInv
  <2>3. s \notin hurt
    BY <2>2
  <2> QED BY <1>0, <2>1, <2>3 DEF CloseAndTell
<1>8. CASE Accept
  BY <1>0, <1>8 DEF Accept
<1>9. CASE \E x \in Stream : PeerActs(x)
  BY <1>9 DEF PeerActs, IInv, TypeOK
<1> QED
  BY <1>1, <1>2, <1>3, <1>4, <1>5, <1>6, <1>7, <1>8, <1>9 DEF Next, ServerActs, StreamBit

\* The server ends the connection of a peer that is still there only in the handler
\* that delivered its data, when a namesake replaces it or the loop ends: no late
\* event, and no write of another handler, hangs up on a live peer.
THEOREM NoHangUpOnLivePeer == Spec => HangsUpOnlyAfterData
<1>1. IInv /\ [Next]_vars => [HangsUpAfterData]_vars
  BY HangUpStep
<1> QED BY <1>1, Invariance, PTL DEF Spec, HangsUpOnlyAfterData, HangsUpAfterData

-----------------------------------------------------------------------------
(* The streams keep the promises of endpoints.h. *)

lifeOf(s) == IF conn[s] = "none" THEN "new"
             ELSE IF conn[s] \in Freed THEN "dead"
             ELSE IF conn[s] = "closed" /\ told[s] > 0 THEN "shut" ELSE "open"

\* The step of one stream that the contract allows.
StreamMoves(s) ==
  \/ lifeOf(s)' = lifeOf(s) /\ told'[s] = told[s]
  \/ lifeOf(s) = "new" /\ lifeOf(s)' = "open" /\ told'[s] = told[s]
  \/ lifeOf(s) = "open" /\ lifeOf(s)' \in {"shut", "dead"} /\ told'[s] = told[s] + 1
  \/ lifeOf(s) \in {"new", "open", "shut"} /\ lifeOf(s)' = "dead" /\ told'[s] = told[s]

\* Data reach open streams only, and what was delivered stays so.
StreamReads(s) ==
  /\ rx[s] = "read" => rx'[s] = "read"
  /\ rx'[s] = "read" => rx[s] = "read" \/ lifeOf(s) = "open"

\* Streams closed and told by a handler were open, and only they.
LEMMA CloseMoves ==
  ASSUME IInv, NEW S \in SUBSET Stream, NEW keep \in SUBSET Stream, NEW own \in SUBSET Stream,
         \A s \in S : conn[s] \in Connected,
         CloseAndTell(S, keep, own)
  PROVE  \A s \in Stream : StreamMoves(s)
<1>1. told \in [Stream -> Nat] /\ conn \in [Stream -> Conns]
  BY DEF IInv, TypeOK, Conns
<1>2. \A s \in Stream : IF s \in S
                          THEN told'[s] = told[s] + 1 /\ conn'[s] \in {"closed", "gone", "broken"}
                          ELSE told'[s] = told[s] /\ conn'[s] = conn[s]
  BY CloseResult
<1>3. ASSUME NEW s \in Stream PROVE StreamMoves(s)
  <2>1. CASE s \in S
    BY <1>1, <1>2, <2>1 DEF StreamMoves, lifeOf, Connected, Freed
  <2>2. CASE s \notin S
    BY <1>2, <2>2 DEF StreamMoves, lifeOf
  <2> QED BY <2>1, <2>2
<1> QED BY <1>3

\* Every step moves every stream as the contract allows.
LEMMA MovesStep ==
  ASSUME IInv, [Next]_vars
  PROVE  \A s \in Stream : StreamMoves(s) /\ StreamReads(s)
<1>0. /\ told \in [Stream -> Nat] /\ conn \in [Stream -> Conns]
      /\ rx \in [Stream -> {"never", "unread", "read"}]
      /\ \A s \in Stream : conn[s] \in Connected \cup {"none"} => told[s] = 0 /\ rx[s] # "read"
  BY DEF IInv, TypeOK, Conns, StreamInv, UntoldInv
<1>1. ASSUME UNCHANGED <<conn, told, rx>>
      PROVE  \A s \in Stream : StreamMoves(s) /\ StreamReads(s)
  BY <1>1 DEF StreamMoves, StreamReads, lifeOf
<1>2. CASE ServerActs
  BY <1>1, <1>2, ServerIInv DEF streamVars
<1>3. CASE Poll \/ (\E o \in Obj : NextEvent(o)) \/ Stop \/ PeerConnects \/ UNCHANGED vars
  BY <1>1, <1>3 DEF Poll, NextEvent, Stop, PeerConnects, vars, streamVars
<1>4. CASE End
  <2>1. /\ \A s \in Stream : conn'[s] = conn[s] \/ (Live(s) /\ conn'[s] = "closed")
        /\ UNCHANGED <<told, rx>>
    BY <1>4 DEF End
  <2> QED BY <1>0, <2>1 DEF StreamMoves, StreamReads, lifeOf, Live, Connected, Freed
<1>5. ASSUME NEW x \in Stream, StreamIN(x)
      PROVE  \A s \in Stream : StreamMoves(s) /\ StreamReads(s)
  <2>1. Live(x)
    <3>1. Current(x, "IN") /\ "IN" \in Bits
      BY <1>5 DEF StreamIN, Bits
    <3> QED BY <3>1, CurrentResult
  <2>2. CASE conn[x] = "closed"
    BY <1>1, <1>5, <2>2 DEF StreamIN, streamVars
  <2>3. CASE conn[x] # "closed"
    <3>1. PICK W \in SUBSET Stream, hurt \in SUBSET Stream, short \in SUBSET Stream,
               keep \in SUBSET Stream :
            /\ Writes(W, hurt, short) /\ CloseAndTell(hurt \cup {x}, keep, {x} \ hurt)
            /\ rx' = [rx EXCEPT ![x] = IF @ = "unread" THEN "read" ELSE @]
      BY <1>5, <2>3 DEF StreamIN
    <3>2. /\ hurt \in SUBSET Stream /\ \A y \in hurt : conn[y] \in Connected
          /\ conn[x] \in Connected /\ {x} \ hurt \in SUBSET Stream
      BY <2>1, <2>3, <3>1, WritesResult DEF IInv, Live
    <3> DEFINE S == hurt \cup {x}
    <3>3. S \in SUBSET Stream /\ \A y \in S : conn[y] \in Connected
      BY <3>2
    <3> HIDE DEF S
    <3>4. CloseAndTell(S, keep, {x} \ hurt)
      BY <3>1 DEF S
    <3>5. \A s \in Stream : StreamMoves(s)
      BY <3>2, <3>3, <3>4, CloseMoves
    <3>6. \A s \in Stream : rx'[s] = rx[s] \/ s = x
      BY <1>0, <3>1
    <3>7. lifeOf(x) = "open" /\ (rx[x] = "read" => rx'[x] = "read")
      BY <1>0, <3>1, <3>2 DEF lifeOf, Connected, Freed
    <3> QED BY <3>5, <3>6, <3>7 DEF StreamReads
  <2> QED BY <2>2, <2>3
<1>6. ASSUME NEW x \in Stream, StreamOUT(x) \/ StreamERR(x)
      PROVE  \A s \in Stream : StreamMoves(s) /\ StreamReads(s)
  BY <1>1, <1>6 DEF StreamOUT, StreamERR, streamVars
<1>7. ASSUME NEW x \in Stream, StreamHUP(x)
      PROVE  \A s \in Stream : StreamMoves(s) /\ StreamReads(s)
  <2>1. Live(x)
    <3>1. Current(x, "HUP") /\ "HUP" \in Bits
      BY <1>7 DEF StreamHUP, Bits
    <3> QED BY <3>1, CurrentResult
  <2>2. PICK keep \in SUBSET {x} :
          CloseAndTell({x} \ {y \in Stream : conn[y] = "closed"}, keep, {x})
    BY <1>7 DEF StreamHUP
  <2> DEFINE S == {x} \ {y \in Stream : conn[y] = "closed"}
  <2>3. /\ S \in SUBSET Stream /\ keep \in SUBSET Stream /\ {x} \in SUBSET Stream
        /\ \A y \in S : conn[y] \in Connected
    BY <2>1 DEF Live
  <2> HIDE DEF S
  <2>4. CloseAndTell(S, keep, {x}) /\ UNCHANGED rx
    BY <1>7, <2>2 DEF S, StreamHUP
  <2>5. \A s \in Stream : StreamMoves(s)
    BY <2>3, <2>4, CloseMoves
  <2> QED BY <2>4, <2>5 DEF StreamReads
<1>8. CASE OwnerWrites
  <2>1. PICK W \in SUBSET Stream, hurt \in SUBSET Stream, short \in SUBSET Stream,
             keep \in SUBSET Stream : Writes(W, hurt, short) /\ CloseAndTell(hurt, keep, {})
    BY <1>8 DEF OwnerWrites
  <2>2. {} \in SUBSET Stream /\ \A y \in hurt : conn[y] \in Connected
    BY <2>1, WritesResult DEF IInv
  <2>3. \A s \in Stream : StreamMoves(s)
    BY <2>1, <2>2, CloseMoves
  <2>4. UNCHANGED rx
    BY <1>8 DEF OwnerWrites
  <2> QED BY <2>3, <2>4 DEF StreamReads
<1>9. CASE Accept
  <2>1. UNCHANGED <<told, rx>>
    BY <1>9 DEF Accept
  <2>2. \A s \in Stream : \/ conn'[s] = conn[s]
                          \/ conn[s] = "none" /\ conn'[s] = "open"
                          \/ Live(s) /\ conn'[s] = "replaced"
    BY <1>9 DEF Accept
  <2> QED BY <1>0, <2>1, <2>2 DEF StreamMoves, StreamReads, lifeOf, Live, Connected, Freed
<1>10. ASSUME NEW x \in Stream, PeerActs(x)
       PROVE  \A s \in Stream : StreamMoves(s) /\ StreamReads(s)
  <2>1. /\ UNCHANGED told
        /\ \A s \in Stream : s # x => conn'[s] = conn[s] /\ rx'[s] = rx[s]
        /\ conn[x] \in Connected /\ conn'[x] \in Connected
        /\ rx'[x] \in {rx[x], "unread"}
    BY <1>0, <1>10 DEF PeerActs, Connected
  <2> QED BY <1>0, <2>1 DEF StreamMoves, StreamReads, lifeOf, Connected, Freed
<1> QED
  BY <1>1, <1>2, <1>3, <1>4, <1>5, <1>6, <1>7, <1>8, <1>9, <1>10 DEF Next, ServerActs, StreamBit

LEMMA InitRefines == Init => Contract!Init
BY DEF Init, Contract!Init, Freed

LEMMA StepRefines ==
  ASSUME IInv, [Next]_vars
  PROVE  Contract!Next
<1>1. \A s \in Stream : StreamMoves(s) /\ StreamReads(s)
  BY MovesStep
<1>2. \A s \in Stream : Contract!Stays(s) \/ Contract!Connects(s) \/ Contract!IsTold(s)
                          \/ Contract!IsDestroyed(s)
  BY <1>1 DEF StreamMoves, lifeOf, Contract!Stays, Contract!Connects, Contract!IsTold,
              Contract!IsDestroyed
<1>3. Contract!Reads
  BY <1>1 DEF StreamReads, lifeOf, Contract!Reads
<1> QED BY <1>2, <1>3 DEF Contract!Next

\* The streams of src/src/impl/tcpsvr.h keep what endpoints.h promises of clients:
\* announced once, data only while open, on_close at most once and never after the
\* stream was let go of, whoever closes it: its own handlers, a write from another
\* endpoint's, a namesake or the end of the loop.
THEOREM StreamsKeepContract == Spec => KeepsContract
<1>1. IInv /\ [Next]_vars => [Contract!Next]_(Contract!vars)
  BY StepRefines
<1> QED BY <1>1, InitRefines, Invariance, PTL DEF Spec, KeepsContract, Contract!Spec
=============================================================================
