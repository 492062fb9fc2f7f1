---------------------------- MODULE Uart_proofs ----------------------------
(***************************************************************************)
(* Safety of the UART endpoint and its udev monitor for every set of       *)
(* clients, and however often the device comes, goes and changes.          *)
(***************************************************************************)
EXTENDS Uart, SequenceTheorems, TLAPS

USE UartAssumption

\* Before init nothing of the device exists.
NewInv ==
  mode = "new" =>
    /\ Live = {}
    /\ Uart \notin poll.set /\ batch[Uart] = {} /\ event[Uart] = {}

\* The loop handles one event at a time, and an event of the device that no handler has
\* made stale finds a descriptor: the hang-up, which closes it, is handled last.
EventInv ==
  /\ batch[Uart] \cup event[Uart] \subseteq {"IN", "OUT", "ERR", "HUP"}
  /\ batch[Uart] # {} \/ event[Udev] # {} \/ mode = "gone" => event[Uart] = {}
  /\ fd = "none" /\ ~stale /\ mode # "gone" => batch[Uart] = {} /\ event[Uart] = {}

\* A client without a device is an orphan.
DeviceInv == loop = "run" /\ fd = "none" => Live \subseteq orphan

\* Each move of the device sends at most one message.
MessagesInv == Len(msgs) <= moves

IInv == TypeOK /\ NewInv /\ EventInv /\ DeviceInv /\ MessagesInv

Polls == [set : SUBSET Obj, listed : [Obj -> Nat]]
Timers == {"off", "armed", "lost"}
Lives == {"new", "open", "shut", "dead"}

-----------------------------------------------------------------------------
(* The helpers. *)

\* What the changes of the loop's list return.
LEMMA PollResult ==
  ASSUME NEW p \in Polls
  PROVE  /\ Add(p, Uart) \in Polls /\ Add(p, Udev) \in Polls
         /\ Close(p, {Uart}) \in Polls /\ Forget(p, {Uart}) \in Polls
         /\ Uart \notin Close(p, {Uart}).set /\ Uart \notin Forget(p, {Uart}).set
BY DEF Polls, Add, Close, Forget

\* Counting a failing call keeps the counter within its bound.
LEMMA FaultType ==
  ASSUME TypeOK, NEW f \in BOOLEAN, Fault(f)
  PROVE  faults' \in 0..MaxFaults
BY DEF TypeOK, Fault

\* init_uart_retry ends with an open descriptor or none.
LEMMA InitUartResult ==
  ASSUME TypeOK, NEW p \in Polls, NEW t \in Timers, NEW f \in BOOLEAN, InitUartRetry(p, t, f)
  PROVE  /\ id' \in BOOLEAN /\ data' \in BOOLEAN /\ edge' \in BOOLEAN
         /\ fd' \in {"none", "open"} /\ timer' \in Timers /\ poll' \in Polls
<1>1. id' \in BOOLEAN /\ data' \in BOOLEAN
  BY DEF InitUartRetry, Knows, FindId, TypeOK
<1>2. fd' \in {"none", "open"} /\ edge' \in BOOLEAN /\ timer' \in Timers
  BY DEF InitUartRetry, RetryLater, Timers
<1>3. poll' \in Polls
  BY PollResult DEF InitUartRetry
<1> QED BY <1>1, <1>2, <1>3

\* cleanup leaves no client alive, and tells each living one once.
LEMMA TellResult ==
  ASSUME TypeOK, TellClient
  PROVE  /\ life' \in [Client -> Lives] /\ told' \in [Client -> Nat] /\ Live' = {}
BY DEF TypeOK, TellClient, Live, Lives

-----------------------------------------------------------------------------
LEMMA InitIInv == Init => IInv
<1> SUFFICES ASSUME Init PROVE IInv
  OBVIOUS
<1>1. TypeOK
  <2>1. [set |-> {}, listed |-> [o \in Obj |-> 0]] \in Polls
    BY DEF Polls
  <2>2. poll \in Polls
    BY <2>1, PollResult DEF Init
  <2>3. LoopTypeOK
    BY <2>2 DEF Init, LoopTypeOK, None, Polls
  <2>4. /\ msgs \in Seq({"add", "remove", "change"}) /\ Len(msgs) <= MaxMoves
        /\ moves \in 0..MaxMoves /\ faults \in 0..MaxFaults
    BY DEF Init
  <2> QED BY <2>3, <2>4 DEF Init, TypeOK
<1>2. NewInv /\ EventInv /\ DeviceInv /\ MessagesInv
  BY DEF Init, NewInv, EventInv, DeviceInv, MessagesInv, None, Live, Add
<1> QED BY <1>1, <1>2 DEF IInv

\* A step that closes no descriptor, makes no client and fetches no event.
LEMMA QuietStep ==
  ASSUME IInv, TypeOK', UNCHANGED <<mode, stale>>, fd' = "none" => fd = "none",
         Live' \subseteq Live, Live' \cap orphan \subseteq orphan',
         loop' = "run" => loop = "run",
         batch'[Uart] \cup event'[Uart] \subseteq batch[Uart] \cup event[Uart],
         batch'[Uart] # {} \/ event'[Udev] # {} \/ mode = "gone" => event'[Uart] = {},
         mode = "new" => UNCHANGED poll,
         MessagesInv'
  PROVE  IInv'
BY DEF IInv, NewInv, EventInv, DeviceInv

LEMMA OnActionResult ==
  ASSUME IInv, NEW m, NEW f \in BOOLEAN, OnAction(m, f), mode = "up", mode' = "up",
         loop' = loop, batch' = batch, event[Uart] = {}, event'[Uart] = {}
  PROVE  /\ id' \in BOOLEAN /\ data' \in BOOLEAN /\ edge' \in BOOLEAN
         /\ fd' \in {"none", "open", "hung"} /\ timer' \in Timers /\ poll' \in Polls
         /\ stale' \in BOOLEAN /\ orphan' \in SUBSET Client /\ changed' \in BOOLEAN
         /\ life' \in [Client -> Lives] /\ told' \in [Client -> Nat]
         /\ EventInv' /\ DeviceInv'
<1>0. /\ TypeOK /\ poll \in Polls /\ timer \in Timers /\ EventInv /\ DeviceInv
      /\ life \in [Client -> Lives] /\ told \in [Client -> Nat]
      /\ Close(poll, {Uart}) \in Polls /\ Forget(poll, {Uart}) \in Polls
  BY PollResult DEF IInv, TypeOK, LoopTypeOK, Polls, Timers, Lives
<1>1. CASE m = "add"
  <2>1. Reopen(timer, f) /\ UNCHANGED <<life, told, changed>>
    BY <1>1 DEF OnAction
  <2>2. /\ id' \in BOOLEAN /\ data' \in BOOLEAN /\ edge' \in BOOLEAN
        /\ fd' \in {"none", "open"} /\ timer' \in Timers /\ poll' \in Polls
    BY <1>0, <2>1, InitUartResult DEF Reopen
  <2>3. /\ orphan' = IF fd # "none" /\ fd' = "none" THEN orphan \cup Live ELSE orphan
        /\ stale' = (stale \/ (fd # "none" /\ batch[Uart] # {}))
    BY <2>1 DEF Reopen, Closes
  <2>4. Live' = Live /\ Live \in SUBSET Client
    BY <2>1 DEF Live
  <2>5. DeviceInv'
    BY <1>0, <2>3, <2>4 DEF DeviceInv
  <2>6. EventInv'
    BY <1>0, <2>2, <2>3 DEF EventInv
  <2>7. stale' \in BOOLEAN /\ orphan' \in SUBSET Client /\ changed' \in BOOLEAN
    BY <1>0, <2>1, <2>3, <2>4 DEF TypeOK
  <2> QED BY <1>0, <2>1, <2>2, <2>5, <2>6, <2>7
<1>2. CASE m # "add"
  <2>1. /\ UNCHANGED <<id, timer, orphan>> /\ changed' = (changed \/ m = "change")
        /\ stale' = (stale \/ (fd # "none" /\ batch[Uart] # {}))
        /\ IF fd # "none"
             THEN /\ poll' = Forget(poll, {Uart}) /\ fd' = "none" /\ edge' = FALSE /\ data' = FALSE
                  /\ TellClient
             ELSE UNCHANGED <<poll, fd, edge, data, life, told>>
    BY <1>2 DEF OnAction, Closes
  <2>2. /\ stale' \in BOOLEAN /\ orphan' \in SUBSET Client /\ changed' \in BOOLEAN
    BY <1>0, <2>1 DEF TypeOK
  <2>3. EventInv'
    BY <1>0, <2>1 DEF EventInv
  <2>4. CASE fd # "none"
    <3>1. /\ life' \in [Client -> Lives] /\ told' \in [Client -> Nat] /\ Live' = {}
      BY <1>0, <2>1, <2>4, TellResult
    <3> QED BY <1>0, <2>1, <2>2, <2>3, <2>4, <3>1 DEF TypeOK, DeviceInv
  <2>5. CASE fd = "none"
    BY <1>0, <2>1, <2>2, <2>3, <2>5 DEF TypeOK, DeviceInv, Live
  <2> QED BY <2>4, <2>5
<1> QED BY <1>1, <1>2

\* A step of one of the handlers, the loop, the device or the owner.
LEMMA NextIInv == IInv /\ [Next]_vars => IInv'
<1> SUFFICES ASSUME IInv, [Next]_vars PROVE IInv'
  OBVIOUS
<1>0. /\ TypeOK /\ LoopTypeOK /\ poll \in Polls /\ timer \in Timers
      /\ life \in [Client -> Lives] /\ told \in [Client -> Nat]
      /\ Close(poll, {Uart}) \in Polls /\ Forget(poll, {Uart}) \in Polls
      /\ Uart \in Obj /\ Udev \in Obj
  BY PollResult DEF IInv, TypeOK, LoopTypeOK, Polls, Timers, Lives
<1>1. CASE Start
  <2>1. PICK f \in BOOLEAN : Fault(f) /\ InitUartRetry(poll, timer, f)
    BY <1>1 DEF Start
  <2>2. /\ mode = "new" /\ mode' = "up"
        /\ UNCHANGED <<batch, event, loop, path, dev, msgs, clientVars, exceptions, moves>>
    BY <1>1 DEF Start
  <2>3. /\ id' \in BOOLEAN /\ data' \in BOOLEAN /\ edge' \in BOOLEAN
        /\ fd' \in {"none", "open"} /\ timer' \in Timers /\ poll' \in Polls
    BY <1>0, <2>1, InitUartResult
  <2>4. faults' \in 0..MaxFaults
    BY <1>0, <2>1, FaultType
  <2>5. TypeOK'
    BY <1>0, <2>2, <2>3, <2>4 DEF TypeOK, LoopTypeOK, Polls, Timers, Lives, clientVars, exceptions
  <2>6. Live' = {}
    BY <2>2 DEF IInv, NewInv, Live, clientVars
  <2>7. EventInv'
    BY <2>2 DEF IInv, NewInv, EventInv
  <2> QED BY <2>2, <2>5, <2>6, <2>7 DEF IInv, NewInv, DeviceInv, MessagesInv
<1>2. CASE TimerShoots
  <2>1. PICK f \in BOOLEAN : Fault(f) /\ Reopen("off", f)
    BY <1>2 DEF TimerShoots
  <2>2. /\ mode = "up" /\ event = None
        /\ UNCHANGED <<batch, event, loop, path, mode, dev, msgs, clientVars, changed,
                       moves>>
    BY <1>2 DEF TimerShoots, Idle
  <2>3. /\ id' \in BOOLEAN /\ data' \in BOOLEAN /\ edge' \in BOOLEAN
        /\ fd' \in {"none", "open"} /\ timer' \in Timers /\ poll' \in Polls
    BY <1>0, <2>1, InitUartResult DEF Reopen, Timers
  <2>4. faults' \in 0..MaxFaults
    BY <1>0, <2>1, FaultType
  <2>5. /\ orphan' = IF fd # "none" /\ fd' = "none" THEN orphan \cup Live ELSE orphan
        /\ stale' = (stale \/ (fd # "none" /\ batch[Uart] # {}))
    BY <2>1 DEF Reopen, Closes
  <2>6. Live' = Live /\ Live \in SUBSET Client
    BY <2>2 DEF Live, clientVars
  <2>7. stale' \in BOOLEAN /\ orphan' \in SUBSET Client
    BY <1>0, <2>5, <2>6 DEF TypeOK
  <2>8. TypeOK'
    BY <1>0, <2>2, <2>3, <2>4, <2>7 DEF TypeOK, LoopTypeOK, Polls, Timers, Lives, clientVars
  <2>9. DeviceInv' /\ EventInv'
    BY <1>0, <2>2, <2>5, <2>6 DEF IInv, DeviceInv, EventInv, None
  <2> QED BY <2>2, <2>8, <2>9 DEF IInv, NewInv, MessagesInv
<1>3. CASE Destroy
  <2>1. /\ TellClient /\ mode' = "gone"
        /\ fd' = "none" /\ timer' = "off" /\ edge' = FALSE /\ data' = FALSE
        /\ poll' = IF fd # "none" THEN Forget(poll, {Uart}) ELSE poll
        /\ UNCHANGED <<batch, loop, path, id, dev, msgs, got, exceptions, moves, faults>>
        /\ event = None /\ event' = None
    BY <1>3 DEF Destroy, Idle
  <2>2. /\ life' \in [Client -> Lives] /\ told' \in [Client -> Nat] /\ Live' = {}
    BY <1>0, <2>1, TellResult
  <2>3. TypeOK'
    BY <1>0, <2>1, <2>2 DEF TypeOK, LoopTypeOK, Polls, Timers, Lives, exceptions
  <2>4. EventInv'
    BY <1>0, <2>1 DEF IInv, EventInv, None
  <2> QED BY <2>1, <2>2, <2>3, <2>4 DEF IInv, NewInv, DeviceInv, MessagesInv
<1>4. CASE Stop \/ UNCHANGED vars
  <2>1. /\ UNCHANGED <<poll, batch, event, path, mode, id, fd, timer, dev, data, msgs, edge,
                       life, told, got, stale, orphan, changed, moves, faults>>
        /\ loop' = loop \/ (loop = "run" /\ loop' = "stop")
    BY <1>4 DEF Stop, StopLoop, vars, loopVars, clientVars, exceptions
  <2>2. TypeOK'
    BY <1>0, <2>1 DEF TypeOK, LoopTypeOK
  <2> QED BY <2>1, <2>2 DEF IInv, NewInv, EventInv, DeviceInv, MessagesInv, Live
<1>5. CASE End
  <2>1. /\ loop' \in {"end", "undefined"} /\ UNCHANGED <<batch, event>>
        /\ batch = None /\ event = None
        /\ poll' = [set |-> poll.set \ Obj, listed |-> [o \in Obj |-> 0]]
        /\ UNCHANGED <<path, mode, id, timer, dev, data, msgs, edge, exceptions, moves, faults>>
    BY <1>5 DEF End, LeaveLoop, Idle
  <2>2. \/ mode = "up" /\ fd' = "none" /\ TellClient /\ UNCHANGED got
        \/ UNCHANGED <<fd, life, told, got>>
    BY <1>5 DEF End, clientVars
  <2>3. life' \in [Client -> Lives] /\ told' \in [Client -> Nat]
    BY <1>0, <2>2, TellResult
  <2>4. TypeOK'
    BY <1>0, <2>1, <2>2, <2>3 DEF TypeOK, LoopTypeOK, Lives, exceptions
  <2>5. EventInv'
    BY <1>0, <2>1 DEF IInv, EventInv, None
  <2> QED BY <2>1, <2>2, <2>4, <2>5 DEF IInv, NewInv, DeviceInv, MessagesInv, Live
<1>6. CASE Poll
  <2>1. PICK S \in SUBSET Obj :
          Wait(S, [o \in Obj |-> ReadyBits(o)]) /\ edge' = (edge /\ Uart \notin S)
    BY <1>6 DEF Poll
  <2>2. /\ UNCHANGED <<poll, event, loop, path, mode, id, fd, timer, dev, data, msgs, life, told,
                       got, orphan, changed, moves, faults>>
        /\ stale' = FALSE
    BY <1>6 DEF Poll, clientVars
  <2>3. /\ S \subseteq poll.set
        /\ batch' = [o \in Obj |-> IF o \in S THEN ReadyBits(o) ELSE {}]
        /\ event = None
    BY <2>1 DEF Wait, Idle
  <2>4. \A o \in Obj : ReadyBits(o) \in SUBSET Bits
    BY DEF ReadyBits, Bits
  <2>5. batch' \in [Obj -> SUBSET Bits]
    BY <2>3, <2>4
  <2>6. edge' \in BOOLEAN /\ stale' \in BOOLEAN
    BY <2>1, <2>2
  <2>7. TypeOK'
    BY <1>0, <2>2, <2>5, <2>6 DEF TypeOK, LoopTypeOK
  <2>8. mode = "new" => batch'[Uart] = {} /\ event'[Uart] = {}
    BY <1>0, <2>2, <2>3 DEF IInv, NewInv
  <2>9. /\ ReadyBits(Uart) \subseteq {"IN", "OUT", "ERR", "HUP"}
        /\ fd = "none" => ReadyBits(Uart) = {}
    BY DEF ReadyBits
  <2>10. EventInv'
    BY <1>0, <2>2, <2>3, <2>9 DEF EventInv, None
  <2>11. Live' = Live
    BY <2>2 DEF Live
  <2> QED BY <2>2, <2>7, <2>8, <2>10, <2>11 DEF IInv, NewInv, DeviceInv, MessagesInv
<1>7. ASSUME NEW o \in Obj, NextEvent(o)
      PROVE  IInv'
  <2>1. /\ event = None /\ batch' = [batch EXCEPT ![o] = {}]
        /\ event' \in {event, [event EXCEPT ![o] = batch[o]]}
        /\ loop' \in {"undefined", loop}
        /\ (o = Uart /\ mode = "gone" => event' = event)
        /\ UNCHANGED <<poll, path, mode, id, fd, timer, dev, data, msgs, edge, life, told, got,
                       stale, orphan, changed, moves, faults>>
    BY <1>7 DEF NextEvent, Dispatch, Idle, clientVars, exceptions
  <2>2. TypeOK'
    BY <1>0, <2>1 DEF TypeOK, LoopTypeOK
  <2>3. batch'[Uart] \cup event'[Uart] \subseteq batch[Uart] \cup event[Uart]
    BY <1>0, <2>1 DEF LoopTypeOK
  <2>4. batch'[Uart] # {} \/ event'[Udev] # {} \/ mode = "gone" => event'[Uart] = {}
    BY <1>0, <2>1 DEF LoopTypeOK, None
  <2>5. Live' = Live
    BY <2>1 DEF Live
  <2> QED BY <1>0, <2>1, <2>2, <2>3, <2>4, <2>5, QuietStep DEF IInv, MessagesInv
<1>8. CASE MakeClient
  <2>1. /\ UNCHANGED <<poll, batch, event, loop, path, mode, id, fd, timer, dev, data, msgs, edge,
                       told, got, stale, changed, moves, faults>>
        /\ event[Uart] # {} /\ Live = {}
    BY <1>8 DEF MakeClient, Current, loopVars
  <2>2. PICK c \in Client :
          /\ life[c] = "new" /\ life' = [life EXCEPT ![c] = "open"]
          /\ orphan' = IF stale /\ fd = "none" THEN orphan \cup {c} ELSE orphan
    BY <1>8 DEF MakeClient
  <2>3. life' \in [Client -> Lives] /\ orphan' \in SUBSET Client
    BY <1>0, <2>2 DEF Lives, TypeOK
  <2>4. TypeOK'
    BY <1>0, <2>1, <2>3 DEF TypeOK, LoopTypeOK, Lives
  <2>5. Live' \subseteq {c}
    BY <1>0, <2>1, <2>2 DEF Live
  <2>6. mode # "new" /\ (fd = "none" => stale)
    BY <2>1 DEF IInv, NewInv, EventInv
  <2>7. DeviceInv'
    BY <2>1, <2>2, <2>5, <2>6 DEF DeviceInv
  <2>8. EventInv'
    BY <2>1 DEF IInv, EventInv
  <2> QED BY <2>1, <2>4, <2>6, <2>7, <2>8 DEF IInv, NewInv, MessagesInv
<1>9. CASE UartIN \/ UartOUT \/ UartERR
  <2>1. PICK b \in Bits \ {"HUP"} : event' = [event EXCEPT ![Uart] = event[Uart] \ {b}]
    BY <1>9 DEF UartIN, UartOUT, UartERR, Handled, Bits
  <2>2. /\ UNCHANGED <<poll, batch, loop, path, mode, id, fd, timer, dev, msgs, edge, life, told,
                       stale, orphan, changed, moves, faults>>
        /\ event[Uart] # {}
        /\ got' \in {got, got \cup Live}
    BY <1>9 DEF UartIN, UartOUT, UartERR, Current, clientVars, exceptions
  <2>3. got' \in SUBSET Client /\ data' \in BOOLEAN
    BY <1>0, <1>9, <2>2 DEF Live, TypeOK, UartIN, UartOUT, UartERR
  <2>4. event' \in [Obj -> SUBSET Bits]
    BY <1>0, <2>1 DEF LoopTypeOK
  <2>5. TypeOK'
    BY <1>0, <2>2, <2>3, <2>4 DEF TypeOK, LoopTypeOK
  <2>6. event'[Uart] \subseteq event[Uart] /\ event'[Udev] = event[Udev]
    BY <1>0, <2>1 DEF LoopTypeOK
  <2>7. batch[Uart] = {} /\ event[Udev] = {} /\ mode \notin {"new", "gone"}
    BY <2>2 DEF IInv, NewInv, EventInv
  <2>8. Live' = Live
    BY <2>2 DEF Live
  <2> QED BY <2>2, <2>5, <2>6, <2>7, <2>8, QuietStep DEF IInv, MessagesInv
<1>10. CASE UartHUP
  <2> DEFINE p == IF fd # "none" THEN Forget(poll, {Uart}) ELSE poll
  <2>1. /\ TellClient /\ Handled(Uart, "HUP") /\ event[Uart] # {}
        /\ event[Uart] \cap {"IN", "OUT", "PRI", "ERR"} = {}
        /\ UNCHANGED <<batch, loop, path, mode, dev, msgs, got, exceptions, moves>>
        /\ \/ /\ poll' = p /\ edge' = FALSE /\ fd' = "none" /\ data' = FALSE
              /\ UNCHANGED <<timer, faults, id>>
           \/ \E f \in BOOLEAN : Fault(f) /\ InitUartRetry(p, timer, f)
    BY <1>10 DEF UartHUP, Current, Before
  <2>2. p \in Polls
    BY <1>0
  <2> HIDE DEF p
  <2>3. /\ id' \in BOOLEAN /\ data' \in BOOLEAN /\ edge' \in BOOLEAN
        /\ fd' \in {"none", "open"} /\ timer' \in Timers /\ poll' \in Polls
        /\ faults' \in 0..MaxFaults
    <3>1. CASE /\ poll' = p /\ edge' = FALSE /\ fd' = "none" /\ data' = FALSE
               /\ UNCHANGED <<timer, faults, id>>
      BY <1>0, <2>2, <3>1 DEF TypeOK
    <3>2. ASSUME NEW f \in BOOLEAN, Fault(f), InitUartRetry(p, timer, f)
          PROVE  /\ id' \in BOOLEAN /\ data' \in BOOLEAN /\ edge' \in BOOLEAN
                 /\ fd' \in {"none", "open"} /\ timer' \in Timers /\ poll' \in Polls
                 /\ faults' \in 0..MaxFaults
      BY <1>0, <2>2, <3>2, InitUartResult, FaultType
    <3> QED BY <2>1, <3>1, <3>2
  <2>4. /\ life' \in [Client -> Lives] /\ told' \in [Client -> Nat] /\ Live' = {}
    BY <1>0, <2>1, TellResult
  <2>5. event' \in [Obj -> SUBSET Bits]
    BY <1>0, <2>1 DEF Handled, LoopTypeOK
  <2>6. TypeOK'
    BY <1>0, <2>1, <2>3, <2>4, <2>5 DEF TypeOK, LoopTypeOK, Polls, Timers, Lives, exceptions
  <2>7. event'[Uart] = {} /\ batch'[Uart] = {}
    BY <1>0, <2>1 DEF Handled, LoopTypeOK, IInv, EventInv
  <2>8. EventInv'
    BY <1>0, <2>1, <2>7 DEF IInv, EventInv, Handled, LoopTypeOK
  <2> QED BY <2>1, <2>4, <2>6, <2>8 DEF IInv, NewInv, DeviceInv, MessagesInv
<1>11. CASE UdevIN
  <2>1. /\ Handled(Udev, "IN") /\ event[Udev] # {} /\ msgs # <<>> /\ msgs' = Tail(msgs)
        /\ UNCHANGED <<batch, loop, path, mode, dev, got, moves>>
    BY <1>11 DEF UdevIN, Current
  <2>2. event' \in [Obj -> SUBSET Bits] /\ event[Uart] = {} /\ event'[Uart] = {}
    BY <1>0, <2>1 DEF Handled, LoopTypeOK, IInv, EventInv
  <2>3. /\ msgs' \in Seq({"add", "remove", "change"}) /\ Len(msgs') = Len(msgs) - 1
        /\ Len(msgs) \in Nat
    BY <1>0, <2>1 DEF TypeOK
  <2>4. MessagesInv'
    BY <1>0, <2>1, <2>3 DEF IInv, MessagesInv, TypeOK
  <2>5. CASE mode = "up" /\ id
    <3>1. PICK f \in BOOLEAN : Fault(f) /\ OnAction(Head(msgs), f)
      BY <1>11, <2>5 DEF UdevIN
    <3>2. /\ id' \in BOOLEAN /\ data' \in BOOLEAN /\ edge' \in BOOLEAN
          /\ fd' \in {"none", "open", "hung"} /\ timer' \in Timers /\ poll' \in Polls
          /\ stale' \in BOOLEAN /\ orphan' \in SUBSET Client /\ changed' \in BOOLEAN
          /\ life' \in [Client -> Lives] /\ told' \in [Client -> Nat]
          /\ EventInv' /\ DeviceInv'
      BY <2>1, <2>2, <2>5, <3>1, OnActionResult
    <3>3. faults' \in 0..MaxFaults
      BY <1>0, <3>1, FaultType
    <3>4. TypeOK'
      BY <1>0, <2>1, <2>2, <2>3, <3>2, <3>3 DEF TypeOK, LoopTypeOK, Polls, Timers, Lives
    <3> QED BY <2>1, <2>4, <2>5, <3>2, <3>4 DEF IInv, NewInv
  <2>6. CASE ~(mode = "up" /\ id)
    <3>1. UNCHANGED <<poll, id, fd, timer, data, edge, life, told, stale, orphan, changed,
                    faults>>
      BY <1>11, <2>6 DEF UdevIN, exceptions
    <3>2. TypeOK'
      BY <1>0, <2>1, <2>2, <2>3, <3>1 DEF TypeOK, LoopTypeOK
    <3>3. Live' = Live
      BY <3>1 DEF Live
    <3> QED BY <2>1, <2>2, <2>4, <3>1, <3>2, <3>3, QuietStep
  <2> QED BY <2>5, <2>6
<1>12. CASE Plug \/ Unplug \/ Change
  <2>1. /\ UNCHANGED <<poll, batch, event, loop, path, mode, id, timer, life, told, got, stale,
                       orphan, changed, faults>>
        /\ moves < MaxMoves /\ moves' = moves + 1
        /\ dev' \in {"absent", "present"} /\ fd' \in {fd, "hung"}
        /\ fd' = "none" <=> fd = "none"
        /\ data' \in {data, FALSE}
    BY <1>0, <1>12 DEF Plug, Unplug, Change, Moves, loopVars, clientVars, exceptions, TypeOK
  <2>2. edge' \in BOOLEAN
    BY <1>0, <1>12 DEF Plug, Unplug, Change, TypeOK
  <2>3. PICK m \in {"add", "remove", "change"} : msgs' \in {msgs, Append(msgs, m)}
    BY <1>12 DEF Plug, Unplug, Change, Message
  <2>4. /\ msgs' \in Seq({"add", "remove", "change"}) /\ Len(msgs) \in Nat
        /\ Len(msgs') \in {Len(msgs), Len(msgs) + 1}
    BY <1>0, <2>3 DEF TypeOK
  <2>5. Len(msgs') <= moves' /\ moves' \in 0..MaxMoves
    BY <1>0, <2>1, <2>4 DEF IInv, MessagesInv, TypeOK
  <2>6. Len(msgs') <= MaxMoves
    BY <1>0, <2>4, <2>5
  <2>7. TypeOK'
    <3>1. LoopTypeOK'
      BY <1>0, <2>1 DEF TypeOK, LoopTypeOK
    <3>2. fd' \in {"none", "open", "hung"} /\ data' \in BOOLEAN
      BY <1>0, <2>1 DEF TypeOK
    <3> QED BY <1>0, <2>1, <2>2, <2>4, <2>5, <2>6, <3>1, <3>2 DEF TypeOK
  <2>8. Live' = Live
    BY <2>1 DEF Live
  <2> QED BY <2>1, <2>5, <2>7, <2>8, QuietStep DEF IInv, EventInv, MessagesInv
<1>13. CASE DataArrives
  <2>1. /\ UNCHANGED <<poll, batch, event, loop, path, mode, id, fd, timer, dev, msgs, life, told,
                       got, stale, orphan, changed, moves, faults>>
        /\ data' = TRUE
    BY <1>13 DEF DataArrives, loopVars, clientVars, exceptions
  <2>2. edge' \in BOOLEAN
    BY <1>0, <1>13 DEF DataArrives, TypeOK
  <2>3. TypeOK'
    BY <1>0, <2>1, <2>2 DEF TypeOK, LoopTypeOK
  <2>4. Live' = Live
    BY <2>1 DEF Live
  <2> QED BY <2>1, <2>3, <2>4, QuietStep DEF IInv, EventInv, MessagesInv
<1>14. ASSUME NEW c \in Client, OwnerDrops(c)
       PROVE  IInv'
  <2>1. /\ UNCHANGED <<poll, batch, event, loop, path, mode, id, fd, timer, dev, data, msgs, edge,
                       told, got, stale, orphan, changed, moves, faults>>
        /\ life' = [life EXCEPT ![c] = "dead"]
    BY <1>14 DEF OwnerDrops, loopVars, exceptions
  <2>2. life' \in [Client -> Lives] /\ Live' \subseteq Live
    BY <1>0, <2>1 DEF Lives, Live
  <2>3. TypeOK'
    BY <1>0, <2>1, <2>2 DEF TypeOK, LoopTypeOK, Lives
  <2> QED BY <2>1, <2>2, <2>3, QuietStep DEF IInv, EventInv, MessagesInv
<1> QED
  BY <1>1, <1>2, <1>3, <1>4, <1>5, <1>6, <1>7, <1>8, <1>9, <1>10, <1>11, <1>12, <1>13, <1>14
     DEF Next, LoopSteps, Handlers

-----------------------------------------------------------------------------
\* The inductive invariant holds in every state the endpoint can reach, whatever the
\* order of hang-ups, udev's messages, the timer and data.
THEOREM Invariance == Spec => []IInv
<1> QED BY InitIInv, NextIInv, PTL DEF Spec

\* Every variable of the endpoint, its monitor and their loop keeps its type.
THEOREM TypeCorrect == Spec => []TypeOK
<1>1. IInv => TypeOK
  BY DEF IInv
<1> QED BY <1>1, Invariance, PTL

\* Between two handlers a client of src/src/impl/uart.h belongs to an open device:
\* whoever closes the descriptor tells the client.  The exceptions are the orphans: a
\* client made by an event that was fetched before a handler of the same batch closed
\* the descriptor, and one that a reopening which fails leaves alive.
THEOREM NoClientWithoutDevice == Spec => []ClientHasDevice
<1>1. IInv => ClientHasDevice
  BY DEF IInv, DeviceInv, ClientHasDevice
<1> QED BY <1>1, Invariance, PTL

-----------------------------------------------------------------------------
(* The clients keep the promises of endpoints.h. *)

LEMMA InitRefines == Init => Contract!Init
BY DEF Init, Contract!Init

\* What a step of the contract is, seen from the endpoint: nothing happens to the
\* clients, or one is made, or those alive are told, or data reach those alive.
LEMMA MovesStep ==
  ASSUME IInv, [Next]_vars
  PROVE  \/ UNCHANGED <<life, told>> /\ got' \in {got, got \cup Live}
         \/ TellClient /\ UNCHANGED got
         \/ /\ \E c \in Client : \/ life[c] = "new" /\ life' = [life EXCEPT ![c] = "open"]
                                 \/ life[c] = "open" /\ life' = [life EXCEPT ![c] = "dead"]
            /\ UNCHANGED <<told, got>>
<1>1. CASE Start \/ TimerShoots \/ Stop \/ Poll \/ (\E o \in Obj : NextEvent(o)) \/ UNCHANGED vars
  BY <1>1 DEF Start, TimerShoots, Stop, Poll, NextEvent, vars, clientVars
<1>2. CASE Plug \/ Unplug \/ Change \/ DataArrives
  BY <1>2 DEF Plug, Unplug, Change, DataArrives, clientVars
<1>3. CASE Destroy \/ End \/ UartHUP
  BY <1>3 DEF Destroy, End, UartHUP, clientVars
<1>4. CASE UartIN \/ UartOUT \/ UartERR
  BY <1>4 DEF UartIN, UartOUT, UartERR, clientVars
<1>5. CASE UdevIN
  BY <1>5 DEF UdevIN, OnAction
<1>6. CASE MakeClient
  BY <1>6 DEF MakeClient
<1>7. ASSUME NEW c \in Client, OwnerDrops(c)
      PROVE  /\ life[c] = "open" /\ life' = [life EXCEPT ![c] = "dead"]
             /\ UNCHANGED <<told, got>>
  BY <1>7 DEF OwnerDrops
<1> QED
  BY <1>1, <1>2, <1>3, <1>4, <1>5, <1>6, <1>7 DEF Next, LoopSteps, Handlers

LEMMA StepRefines ==
  ASSUME IInv, [Next]_vars
  PROVE  Contract!Next
<1>0. life \in [Client -> Lives]
  BY DEF IInv, TypeOK, Lives
<1>1. CASE UNCHANGED <<life, told>> /\ got' \in {got, got \cup Live}
  <2>1. \A c \in Client : Contract!Stays(c)
    BY <1>1 DEF Contract!Stays
  <2>2. Contract!Reads
    BY <1>1 DEF Contract!Reads, Live
  <2> QED BY <2>1, <2>2 DEF Contract!Next
<1>2. CASE TellClient /\ UNCHANGED got
  <2>1. \A c \in Client : Contract!Stays(c) \/ Contract!IsTold(c)
    BY <1>2 DEF TellClient, Live, Contract!Stays, Contract!IsTold
  <2> QED BY <1>2, <2>1 DEF Contract!Next, Contract!Reads
<1>3. CASE /\ \E c \in Client : \/ life[c] = "new" /\ life' = [life EXCEPT ![c] = "open"]
                                \/ life[c] = "open" /\ life' = [life EXCEPT ![c] = "dead"]
           /\ UNCHANGED <<told, got>>
  <2>1. \A c \in Client : Contract!Stays(c) \/ Contract!Connects(c) \/ Contract!IsDestroyed(c)
    BY <1>0, <1>3 DEF Contract!Stays, Contract!Connects, Contract!IsDestroyed
  <2> QED BY <1>3, <2>1 DEF Contract!Next, Contract!Reads
<1> QED BY <1>1, <1>2, <1>3, MovesStep

\* The clients of the UART endpoint keep what endpoints.h promises: announced once,
\* data only while open, on_close at most once and never after the client was let go
\* of, whether the hang-up, udev, the destructor or the end of the loop closes it.
THEOREM ClientsKeepContract == Spec => KeepsContract
<1>1. IInv /\ [Next]_vars => [Contract!Next]_(Contract!vars)
  BY StepRefines
<1> QED BY <1>1, InitRefines, Invariance, PTL DEF Spec, KeepsContract, Contract!Spec
=============================================================================
