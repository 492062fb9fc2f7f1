------------------------------ MODULE Pollable ------------------------------
(***************************************************************************)
(* The loop's own pollable objects with the numbers of their descriptors:  *)
(* timers (src/src/impl/timer.h) and the signal handler for Ctrl-C         *)
(* (src/src/impl/signal.h).  A number that was closed is given to the next *)
(* object that opens a descriptor.                                         *)
(***************************************************************************)
EXTENDS IOLoop, FiniteSets

CONSTANTS
  Timers,        \* timers, of which
  CtrlC,         \* the signal handler
  NoFd, Nobody,
  MaxFaults,     \* bound: system calls and lookups that fail
  MaxMoves       \* bound: calls of the clients and of Avahi, data, Ctrl-C

NFd == Cardinality(Obj)
Numbers == 1..NFd

ASSUME PollableAssumption ==
  /\ IsFiniteSet(Obj) /\ Timers \subseteq Obj /\ CtrlC \in Obj \ Timers
  /\ NoFd \notin Numbers /\ Nobody \notin Obj /\ MaxFaults \in Nat /\ MaxMoves \in Nat

VARIABLES
  fd,        \* _fd, _sfd of the objects
  owner,     \* the object that opened a number
  due,       \* timerfds: "no", "armed", "expired"
  ctrlC,     \* SIGINT or SIGTERM is pending
  stale,     \* an object kept the number of a descriptor it had closed
  faults, moves

fdVars == <<fd, owner>>
pollableVars == <<fd, owner, due, ctrlC, stale, faults, moves>>

\* handle_CtrlC and SignalImpl::init have been called before the loop runs.
PollableInit ==
  /\ fd = [o \in Obj |-> IF o = CtrlC THEN 1 ELSE NoFd]
  /\ owner = [n \in Numbers |-> IF n = 1 THEN CtrlC ELSE Nobody]
  /\ poll = [set |-> {CtrlC}, listed |-> [o \in Obj |-> IF o = CtrlC THEN 1 ELSE 0]]
  /\ batch = None /\ event = None /\ loop = "run"
  /\ due = [t \in Timers |-> "no"] /\ ctrlC = FALSE /\ stale = FALSE /\ faults = 0 /\ moves = 0

Fault == faults < MaxFaults /\ faults' = faults + 1
NoFault == UNCHANGED faults
Move == moves < MaxMoves /\ moves' = moves + 1

-----------------------------------------------------------------------------
(* What the calls do to the descriptors k.fd, k.owner and to the loop k.poll. *)

Kernel == [fd |-> fd, owner |-> owner, poll |-> poll]
Becomes(k) == fd' = k.fd /\ owner' = k.owner /\ poll' = k.poll

\* timerfd_create, signalfd: the lowest free number.
Create(k, o) ==
  LET n == CHOOSE m \in Numbers :
             k.owner[m] = Nobody /\ \A j \in Numbers : k.owner[j] = Nobody => m <= j IN
  [k EXCEPT !.fd[o] = n, !.owner[n] = o]
Enter(k, o) == [k EXCEPT !.poll = Add(@, o)]

\* close(2) of the number an object holds, which may be another's by now.
Held(k, o) == IF k.fd[o] = NoFd THEN {} ELSE {k.owner[k.fd[o]]} \ {Nobody}
Shut(k, o) ==
  IF k.fd[o] = NoFd THEN k
  ELSE [k EXCEPT !.owner[k.fd[o]] = Nobody, !.poll = Close(@, Held(k, o))]

\* Poll::del(_fd, this): the kernel goes by the number, the list by the object.
Del(k, o) ==
  IF Held(k, o) \cap k.poll.set = {} THEN k
  ELSE [k EXCEPT !.poll = [set |-> @.set \ Held(k, o), listed |-> [@.listed EXCEPT ![o] = 0]]]

\* cleanup(); del and cleanup, when there is a descriptor.
Cleanup(k, o) == [Shut(k, o) EXCEPT !.fd[o] = NoFd]
Release(k, o) == Cleanup(Del(k, o), o)

-----------------------------------------------------------------------------
(* Timers. *)

\* arm: the timerfd is created once and stays with the loop; a failed call is returned,
\* with the descriptor closed and forgotten.
ArmTimer(t, k, armed) ==
  \/ /\ armed /\ NoFault
     /\ Becomes(IF k.fd[t] = NoFd THEN Enter(Create(k, t), t) ELSE k)
     /\ due' = [due EXCEPT ![t] = "armed"]
  \/ /\ ~armed /\ Fault
     /\ Becomes(IF k.fd[t] = NoFd THEN Cleanup(Create(k, t), t) ELSE k)
     /\ UNCHANGED due

\* The time passes.  This, like a signal or data that come, matters only to the next
\* epoll_wait, and is let happen before it.
BeforeWait == Idle /\ batch = None /\ loop = "run"
Expires(t) ==
  /\ BeforeWait /\ due[t] = "armed" /\ due' = [due EXCEPT ![t] = "expired"]
  /\ UNCHANGED <<loopVars, fdVars, ctrlC, stale, faults, moves>>

\* epollIN of a timer: an event that is no longer true is reported as a wrong read.
Shoots(t) == fd[t] # NoFd /\ owner[fd[t]] = t /\ due[t] = "expired"
TimerStale(t) ==
  /\ Current(t, "IN") /\ ~Shoots(t) /\ Handled(t, "IN")
  /\ UNCHANGED <<poll, batch, loop, pollableVars>>

-----------------------------------------------------------------------------
(* The handler for Ctrl-C. *)

Interrupt ==
  /\ BeforeWait /\ Move /\ fd[CtrlC] # NoFd /\ ~ctrlC /\ ctrlC' = TRUE
  /\ UNCHANGED <<loopVars, fdVars, due, stale, faults>>

\* epollIN: the handler stops the loop and destroys itself.
CtrlCIN ==
  /\ Current(CtrlC, "IN") /\ Handled(CtrlC, "IN")
  /\ IF ctrlC /\ CtrlC \in Held(Kernel, CtrlC)
       THEN loop' = "stop" /\ Becomes(Release(Kernel, CtrlC))
       ELSE UNCHANGED <<loop, fdVars, poll>>
  /\ UNCHANGED <<batch, due, ctrlC, stale, faults, moves>>
=============================================================================
