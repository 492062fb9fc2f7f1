------------------------------- MODULE Uart -------------------------------
(***************************************************************************)
(* The UART endpoint (src/src/impl/uart.h) and the udev monitor            *)
(* (src/src/impl/udev.h), two objects of the event loop: a serial device   *)
(* is opened, closed when it hangs up or udev says so, and opened again    *)
(* when udev reports it or, while its id is not known, every 5 s.  The     *)
(* client of the device is made by the first event it has.  Its owner lets *)
(* go of it in on_close at the latest, as the router does.                 *)
(***************************************************************************)
EXTENDS IOLoop, Sequences

CONSTANTS
  Client,       \* the client objects made in one run: the bound of the model
  Uart, Udev,   \* the two objects of the loop
  MaxMoves,     \* bound: how often the device is plugged, unplugged or changed
  MaxFaults     \* bound: handlers in which system calls fail though the device is there

ASSUME UartAssumption == Obj = {Uart, Udev} /\ Uart # Udev /\ MaxMoves \in Nat /\ MaxFaults \in Nat

VARIABLES
  path,    \* init's path: "id" under /dev/serial/by-id, "node" of a device with such an
           \* id, or "plain" of a device without; never changes
  mode,    \* "new" before init, then "up", "gone" once destroyed
  id,      \* _usb_id is known, and the endpoint watches udev
  fd,      \* _fd: "none" is -1, else "open", or "hung" since its device was pulled
  timer,   \* _timer: "off", "armed", "lost" (arming failed)
  dev,     \* the device: "absent" or "present"
  data,    \* it has bytes to read
  msgs,    \* udev's messages to the monitor: "add", "remove", "change"
  edge,    \* the descriptor has an edge-triggered event to report
  life,    \* a client: "new", "open", "shut", "dead" once its owner let go of it
  told,    \* how often on_close of a client was called
  got,     \* clients that data were delivered to
  stale,   \* the descriptor was closed while an event of it waited in the batch
  orphan,  \* clients without a descriptor of their own: made by such an event, or left
           \* alive by a reopening that failed
  changed, \* a watcher was told of a change of the device
  moves, faults

exceptions == <<stale, orphan, changed>>
vars == <<loopVars, path, mode, id, fd, timer, dev, data, msgs, edge, life, told, got, exceptions,
          moves, faults>>
clientVars == <<life, told, got>>

TypeOK ==
  /\ LoopTypeOK
  /\ path \in {"id", "node", "plain"} /\ mode \in {"new", "up", "gone"} /\ id \in BOOLEAN
  /\ fd \in {"none", "open", "hung"} /\ timer \in {"off", "armed", "lost"}
  /\ dev \in {"absent", "present"} /\ data \in BOOLEAN /\ edge \in BOOLEAN
  /\ msgs \in Seq({"add", "remove", "change"}) /\ Len(msgs) <= MaxMoves
  /\ life \in [Client -> {"new", "open", "shut", "dead"}] /\ told \in [Client -> Nat]
  /\ got \in SUBSET Client /\ stale \in BOOLEAN /\ orphan \in SUBSET Client /\ changed \in BOOLEAN
  /\ moves \in 0..MaxMoves /\ faults \in 0..MaxFaults

\* UDevIO's constructor puts the monitor into the loop.
Init ==
  /\ batch = None /\ event = None /\ loop = "run"
  /\ poll = Add([set |-> {}, listed |-> [o \in Obj |-> 0]], Udev)
  /\ path \in {"id", "node", "plain"} /\ mode = "new" /\ id = FALSE /\ fd = "none"
  /\ timer = "off" /\ dev \in {"absent", "present"} /\ data = FALSE /\ msgs = <<>> /\ edge = FALSE
  /\ life = [c \in Client |-> "new"] /\ told = [c \in Client |-> 0] /\ got = {}
  /\ stale = FALSE /\ orphan = {} /\ changed = FALSE /\ moves = 0 /\ faults = 0

Fault(f) == (f => faults < MaxFaults) /\ faults' = IF f THEN faults + 1 ELSE faults
Live == {c \in Client : life[c] = "open"}
\* Bound: when all clients have been made, events go on without one.
HasClient == Live # {} \/ \A c \in Client : life[c] # "new"

-----------------------------------------------------------------------------
(* Opening and closing the device. *)

\* find_id, for a path that is no id: the by-id link of the device of that node, which
\* has to be there; find_path: the node of the device with the id.
FindId == path = "node" /\ dev = "present"
FindPath == dev = "present"

\* init_uart: an open descriptor is closed without poll()->del; the id is looked up
\* as long as there is none; a device with an id that is not there is ENODEV.
Knows == id \/ path = "id" \/ FindId
NoDevice == Knows /\ ~FindPath

\* Mutant of RetryLater: no timer is armed for a device that could not be opened.
MutRetryLater(t, f) == timer' = t
RetryLater(t, f) == timer' = "armed" \/ (f /\ timer' = "lost")

\* init_uart_retry, on a descriptor that p has closed: for a device with an id that is
\* not there udev will call; any other failure is tried again in 5 s.
InitUartRetry(p, t, f) ==
  /\ id' = Knows /\ data' = FALSE
  /\ \/ /\ NoDevice
        /\ fd' = "none" /\ poll' = p /\ edge' = FALSE /\ timer' = t
     \/ /\ ~NoDevice /\ (dev = "absent" \/ f)
        /\ fd' = "none" /\ poll' = p /\ edge' = FALSE /\ RetryLater(t, f)
     \/ /\ dev = "present" /\ fd' = "open" /\ timer' = t
        /\ \/ poll' = Add(p, Uart) /\ edge' = TRUE
           \/ f /\ poll' = p /\ edge' = FALSE

\* A closed descriptor takes the events not yet fetched with it, not those of the batch.
Closes == stale' = (stale \/ (fd # "none" /\ batch[Uart] # {}))

\* The same over a descriptor that may be open, of which the client is told nothing.
Reopen(t, f) ==
  /\ InitUartRetry(Close(poll, {Uart}), t, f) /\ Closes
  /\ orphan' = IF fd # "none" /\ fd' = "none" THEN orphan \cup Live ELSE orphan

\* Mutant of TellClient: the client is not looked at first, so cli() makes a new one.
MutTellClient ==
  \E c \in IF Live # {} THEN Live ELSE {x \in Client : life[x] = "new"} :
    told' = [told EXCEPT ![c] = @ + 1] /\ life' = [life EXCEPT ![c] = "dead"]

\* cleanup: on_close of the living client, close.
TellClient ==
  /\ told' = [c \in Client |-> IF c \in Live THEN told[c] + 1 ELSE told[c]]
  /\ life' = [c \in Client |-> IF c \in Live THEN "dead" ELSE life[c]]

Start ==
  /\ mode = "new" /\ mode' = "up" /\ Idle
  /\ \E f \in BOOLEAN : Fault(f) /\ InitUartRetry(poll, timer, f)
  /\ UNCHANGED <<batch, event, loop, path, dev, msgs, clientVars, exceptions, moves>>

TimerShoots ==
  /\ mode = "up" /\ Idle /\ timer = "armed"
  /\ \E f \in BOOLEAN : Fault(f) /\ Reopen("off", f)
  /\ UNCHANGED <<batch, event, loop, path, mode, dev, msgs, clientVars, changed, moves>>

\* The destructor: a descriptor is taken out of the loop, the client told.
Destroy ==
  /\ mode = "up" /\ Idle /\ mode' = "gone"
  /\ poll' = IF fd # "none" THEN Forget(poll, {Uart}) ELSE poll
  /\ fd' = "none" /\ timer' = "off" /\ edge' = FALSE /\ data' = FALSE /\ TellClient
  /\ UNCHANGED <<batch, event, loop, path, id, dev, msgs, got, exceptions, moves, faults>>

-----------------------------------------------------------------------------
(* The loop. *)

ReadyBits(o) ==
  CASE o = Udev -> IF msgs # <<>> THEN {"IN"} ELSE {}
    [] o = Uart /\ ~edge -> {}
    [] o = Uart /\ edge /\ fd = "open" -> IF data THEN {"IN", "OUT"} ELSE {"OUT"}
    [] o = Uart /\ edge /\ fd = "hung" -> {"IN", "OUT", "ERR", "HUP"}
    [] OTHER -> {}

Poll ==
  /\ \E S \in SUBSET Obj :
       Wait(S, [o \in Obj |-> ReadyBits(o)]) /\ edge' = (edge /\ Uart \notin S)
  /\ stale' = FALSE
  /\ UNCHANGED <<poll, event, loop, path, mode, id, fd, timer, dev, data, msgs, clientVars, orphan,
                 changed, moves, faults>>

NextEvent(o) ==
  /\ Dispatch(o, o = Uart /\ mode = "gone")
  /\ UNCHANGED <<path, mode, id, fd, timer, dev, data, msgs, edge, clientVars, exceptions, moves,
                 faults>>

Stop ==
  /\ StopLoop
  /\ UNCHANGED <<path, mode, id, fd, timer, dev, data, msgs, edge, clientVars, exceptions, moves,
                 faults>>

\* run() returns: cleanup of all listed objects.
End ==
  /\ LeaveLoop(Obj, poll.listed[Uart] > 0 /\ mode = "gone")
  /\ IF poll.listed[Uart] > 0 /\ mode = "up"
       THEN fd' = "none" /\ TellClient /\ UNCHANGED got
       ELSE UNCHANGED <<fd, clientVars>>
  /\ UNCHANGED <<path, mode, id, timer, dev, data, msgs, edge, exceptions, moves, faults>>

-----------------------------------------------------------------------------
(* The handlers of the descriptor. *)

\* cli(): the client is made when there is none, with the descriptor of the moment,
\* also when that is -1.
MakeClient ==
  /\ Live = {}
  /\ \/ Current(Uart, "IN") /\ fd = "open" /\ data
     \/ Current(Uart, "OUT")
  /\ \E c \in Client :
       /\ life[c] = "new" /\ life' = [life EXCEPT ![c] = "open"]
       /\ orphan' = IF stale /\ fd = "none" THEN orphan \cup {c} ELSE orphan
  /\ UNCHANGED <<loopVars, path, mode, id, fd, timer, dev, data, msgs, edge, told, got, stale,
                 changed, moves, faults>>

\* epollIN reads all there is; without data, or without a device, only an error.
UartIN ==
  /\ Current(Uart, "IN") /\ Handled(Uart, "IN")
  /\ IF fd = "open" /\ data
       THEN HasClient /\ got' = got \cup Live /\ data' = FALSE
       ELSE UNCHANGED <<got, data>>
  /\ UNCHANGED <<poll, batch, loop, path, mode, id, fd, timer, dev, msgs, edge, life, told, exceptions,
                 moves, faults>>

UartOUT ==
  /\ Current(Uart, "OUT") /\ HasClient /\ Handled(Uart, "OUT")
  /\ UNCHANGED <<poll, batch, loop, path, mode, id, fd, timer, dev, data, msgs, edge, clientVars,
                 exceptions, moves, faults>>

UartERR ==
  /\ Current(Uart, "ERR") /\ Handled(Uart, "ERR")
  /\ UNCHANGED <<poll, batch, loop, path, mode, id, fd, timer, dev, data, msgs, edge, clientVars,
                 exceptions, moves, faults>>

\* epollHUP: del and cleanup; without an id nobody else would open the device again.
UartHUP ==
  /\ Current(Uart, "HUP") /\ Handled(Uart, "HUP") /\ TellClient
  /\ LET p == IF fd # "none" THEN Forget(poll, {Uart}) ELSE poll IN
     IF id
       THEN /\ poll' = p /\ edge' = FALSE /\ fd' = "none" /\ data' = FALSE
            /\ UNCHANGED <<timer, faults, id>>
       ELSE \E f \in BOOLEAN : Fault(f) /\ InitUartRetry(p, timer, f)
  /\ UNCHANGED <<batch, loop, path, mode, dev, msgs, got, exceptions, moves>>

-----------------------------------------------------------------------------
(* udev. *)

\* Mutant of OnAction: udev_remove leaves the client alone.
MutOnAction(m, f) ==
  IF m = "add"
    THEN Reopen(timer, f) /\ UNCHANGED <<life, told, changed>>
    ELSE /\ poll' = Forget(poll, {Uart}) /\ fd' = "none" /\ edge' = FALSE /\ data' = FALSE
         /\ Closes /\ UNCHANGED <<id, timer, life, told, orphan, changed>>

\* on_action for a watcher: "add" opens, whatever is open; anything else, a change of
\* the device too, is taken for its removal.
OnAction(m, f) ==
  IF m = "add"
    THEN Reopen(timer, f) /\ UNCHANGED <<life, told, changed>>
    ELSE /\ changed' = (changed \/ m = "change") /\ Closes /\ UNCHANGED <<id, timer, orphan>>
         /\ IF fd # "none"
              THEN /\ poll' = Forget(poll, {Uart}) /\ fd' = "none" /\ edge' = FALSE /\ data' = FALSE
                   /\ TellClient
              ELSE UNCHANGED <<poll, fd, edge, data, life, told>>

\* The monitor's epollIN takes one message; without an id nobody watches.
UdevIN ==
  /\ Current(Udev, "IN") /\ Handled(Udev, "IN") /\ msgs # <<>>
  /\ msgs' = Tail(msgs)
  /\ IF mode = "up" /\ id
       THEN \E f \in BOOLEAN : Fault(f) /\ OnAction(Head(msgs), f)
       ELSE UNCHANGED <<poll, id, fd, timer, data, edge, life, told, exceptions, faults>>
  /\ UNCHANGED <<batch, loop, path, mode, dev, got, moves>>

-----------------------------------------------------------------------------
(* The device, and the owner. *)

Message(m) == msgs' = IF path = "plain" THEN msgs ELSE Append(msgs, m)
Moves == moves < MaxMoves /\ moves' = moves + 1

Plug ==
  /\ Moves /\ dev = "absent" /\ dev' = "present" /\ Message("add")
  /\ UNCHANGED <<loopVars, path, mode, id, fd, timer, data, edge, clientVars, exceptions,
                 faults>>
Unplug ==
  /\ Moves /\ dev = "present" /\ dev' = "absent" /\ Message("remove")
  /\ fd' = (IF fd = "open" THEN "hung" ELSE fd) /\ data' = FALSE
  /\ edge' = (edge \/ (fd = "open" /\ Uart \in poll.set))
  /\ UNCHANGED <<loopVars, path, mode, id, timer, clientVars, exceptions,
                 faults>>
Change ==
  /\ Moves /\ dev = "present" /\ Message("change")
  /\ UNCHANGED <<loopVars, path, mode, id, fd, timer, dev, data, edge, clientVars, exceptions,
                 faults>>
DataArrives ==
  /\ Running /\ fd = "open" /\ ~data /\ data' = TRUE /\ edge' = (edge \/ Uart \in poll.set)
  /\ UNCHANGED <<loopVars, path, mode, id, fd, timer, dev, msgs, clientVars, exceptions, moves,
                 faults>>
OwnerDrops(c) ==
  /\ Idle /\ life[c] = "open" /\ life' = [life EXCEPT ![c] = "dead"]
  /\ UNCHANGED <<loopVars, path, mode, id, fd, timer, dev, data, msgs, edge, told, got, exceptions,
                 moves, faults>>

Handlers == MakeClient \/ UartIN \/ UartOUT \/ UartERR \/ UartHUP \/ UdevIN
LoopSteps == Poll \/ (\E o \in Obj : NextEvent(o)) \/ Handlers

Next ==
  \/ Start \/ TimerShoots \/ Destroy \/ Stop \/ End \/ LoopSteps
  \/ Plug \/ Unplug \/ Change \/ DataArrives \/ (\E c \in Client : OwnerDrops(c))

\* The loop goes on while there is something to do, and timers go off.
Fairness == WF_vars(LoopSteps) /\ WF_vars(TimerShoots)
Spec == Init /\ [][Next]_vars /\ Fairness

-----------------------------------------------------------------------------
(* Properties. *)

\* Between two handlers a client that was announced and not told belongs to an open
\* device, whoever closes it: hang-up, udev, the destructor.  The exceptions are the
\* orphans: a client that an event makes which was fetched before another handler of the
\* same batch closed the descriptor, and one that an "add" or the timer leaves alive when
\* the device cannot be opened again.
ClientHasDevice == Idle /\ loop = "run" /\ fd = "none" => Live \subseteq orphan

\* What is attached gets opened (readme.md:9), whoever notices it, udev, the timer or
\* the hang-up of its predecessor.  The exceptions: a change, taken for a removal that
\* no "add" follows, a timer that could not be armed, and a device opened out of the
\* loop, whose hang-up nobody sees.
AttachedIsOpened ==
  dev = "present" /\ mode = "up" ~>
    fd = "open" \/ dev = "absent" \/ mode = "gone" \/ loop # "run" \/ changed
      \/ timer = "lost" \/ (faults > 0 /\ Uart \notin poll.set)

\* The clients keep the promises of endpoints.h.
Contract == INSTANCE ClientContract
KeepsContract == Contract!Spec
=============================================================================
