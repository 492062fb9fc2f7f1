------------------------------ MODULE Resolver ------------------------------
(***************************************************************************)
(* Address resolvers (src/src/impl/address.h): AddrInfo runs getaddrinfo_a *)
(* and learns of its end by SIGUSR1, which it reads from a signalfd of its *)
(* own; AddressResolverImpl asks again 5 s after a failure.  The signal is *)
(* one for the process: it is pending once, and any resolver may read it.  *)
(***************************************************************************)
EXTENDS Pollable

CONSTANTS
  Res,        \* the resolvers, as their AddrInfo
  TimerOf     \* their timers

ASSUME ResolverAssumption ==
  Res \subseteq Obj \ (Timers \cup {CtrlC}) /\ TimerOf \in [Res -> Timers]

VARIABLES
  flying,     \* lookups of the resolver's request that run in other threads
  ret,        \* gai_error of the request: "progress", "ok", "failed"
  result,     \* ar_result: "none" is null, "unset" never written, "live", "freed"; only a
              \* success sets it
  pending,    \* SIGUSR1 is pending
  unheard,    \* resolvers whose lookup ended without their having read a signal since
  waiting,    \* the client expects an answer
  lost        \* a call failed, or another one took the signal: nothing drives the query

resolverVars == <<flying, ret, result, pending, unheard, waiting, lost>>

\* The constructor leaves the request as the heap has it: null or any other bits.
ResolverInit ==
  /\ flying = [r \in Res |-> 0] /\ ret = [r \in Res |-> "progress"]
  /\ result \in [Res -> {"none", "unset"}] /\ pending = FALSE /\ unheard = {}
  /\ waiting = {} /\ lost = {}

\* Mutant of Query: the signalfd that could not be entered is not closed.
MutInitLeaks(r, how) ==
  LET k == Release(Kernel, r) IN
  \/ /\ how = "ok" /\ NoFault /\ Becomes(Enter(Create(k, r), r)) /\ UNCHANGED stale
     /\ flying' = [flying EXCEPT ![r] = @ + 1] /\ ret' = [ret EXCEPT ![r] = "progress"]
     /\ waiting' = waiting \cup {r} /\ lost' = lost \ {r}
  \/ /\ how \in {"signalfd", "add"} /\ Fault
     /\ Becomes(IF how = "add" THEN [Create(k, r) EXCEPT !.fd[r] = NoFd] ELSE k)
     /\ lost' = lost \cup {r} /\ UNCHANGED <<flying, ret, waiting, stale>>

\* AddrInfo::init: the old signalfd goes; when a call fails after the new one was made
\* it is closed, but _sfd keeps the number.  A failure is only reported.
Query(r, how) ==
  LET k == Release(Kernel, r)
      k2 == Create(k, r) IN
  \/ /\ how = "ok" /\ NoFault /\ Becomes(Enter(k2, r)) /\ UNCHANGED stale
     /\ flying' = [flying EXCEPT ![r] = @ + 1] /\ ret' = [ret EXCEPT ![r] = "progress"]
     /\ waiting' = waiting \cup {r} /\ lost' = lost \ {r}
  \/ /\ how # "ok" /\ Fault
     /\ \/ how = "signalfd" /\ Becomes(k) /\ UNCHANGED stale
        \/ how = "add" /\ Becomes(Shut(k2, r)) /\ stale' = TRUE
        \/ how = "getaddrinfo" /\ Becomes(Shut(Del(Enter(k2, r), r), r)) /\ stale' = TRUE
     /\ lost' = lost \cup {r} /\ UNCHANGED <<flying, ret, waiting>>
Hows == {"ok", "signalfd", "add", "getaddrinfo"}

\* AddressResolver::init or requery, by a client.
Ask(r, how) ==
  /\ Idle /\ loop = "run" /\ Move /\ Query(r, how)
  /\ UNCHANGED <<batch, event, loop, due, ctrlC, result, pending, unheard>>

\* getaddrinfo_a's thread ends a lookup: the result is set only when there is one, the
\* signal merges with one that is pending.
LookupEnds(r, how) ==
  /\ loop = "run" /\ event = None /\ flying[r] > 0
  /\ flying' = [flying EXCEPT ![r] = @ - 1] /\ ret' = [ret EXCEPT ![r] = how]
  /\ \/ how = "ok" /\ result' = [result EXCEPT ![r] = "live"] /\ NoFault
     \/ how = "failed" /\ UNCHANGED result /\ Fault
  /\ pending' = TRUE /\ unheard' = unheard \cup {r}
  /\ UNCHANGED <<loopVars, fdVars, due, ctrlC, stale, moves, waiting, lost>>

-----------------------------------------------------------------------------
(* The handlers. *)

\* The signal can be read through any signalfd whose number _sfd is.
ReadsSignal(r) == Held(Kernel, r) \cap Res # {} /\ pending
Takes(r) ==
  /\ Current(r, "IN") /\ ReadsSignal(r) /\ Handled(r, "IN")
  /\ pending' = FALSE /\ unheard' = {} /\ UNCHANGED stale

\* freeaddrinfo of ar_result, unless it is null; nothing resets it.
Frees(r) ==
  /\ result' = [result EXCEPT ![r] = IF @ = "none" THEN @ ELSE "freed"]
  /\ loop' = IF result[r] \in {"unset", "freed"} THEN "undefined" ELSE loop

\* epollIN, the request being done: the client is told, the signalfd goes.
Answers(r) ==
  /\ Takes(r) /\ ret[r] = "ok"
  /\ waiting' = waiting \ {r} /\ lost' = lost \cup (unheard \ {r})
  /\ Frees(r) /\ Becomes(Release(Kernel, r)) /\ NoFault
  /\ UNCHANGED <<batch, due, ctrlC, moves, flying, ret>>

\* Mutant of Fails: the error is reported, the timer not armed.
MutFailsNoTimer(r, armed) ==
  /\ Takes(r) /\ ret[r] # "ok" /\ armed /\ NoFault
  /\ lost' = lost \cup (unheard \ {r}) /\ Frees(r) /\ Becomes(Release(Kernel, r))
  /\ UNCHANGED <<batch, due, ctrlC, moves, flying, ret, waiting>>
\* epollIN, the request having failed or, the signal being another's, being at work
\* still: the same, except that the timer is armed.
Fails(r, armed) ==
  /\ Takes(r) /\ ret[r] # "ok"
  /\ lost' = lost \cup (unheard \ {r}) \cup (IF armed THEN {} ELSE {r})
  /\ Frees(r) /\ ArmTimer(TimerOf[r], Release(Kernel, r), armed)
  /\ UNCHANGED <<batch, ctrlC, moves, flying, ret, waiting>>

\* epollIN without a signal to read: of a timer's number, the expiration is taken.
ReadsNothing(r) ==
  /\ Current(r, "IN") /\ ~ReadsSignal(r) /\ Handled(r, "IN")
  /\ due' = [t \in Timers |-> IF t \in Held(Kernel, r) /\ due[t] = "expired" THEN "no" ELSE due[t]]
  /\ UNCHANGED <<poll, batch, loop, fdVars, ctrlC, stale, faults, moves, resolverVars>>

\* The timer: requery.
TimerAsks(r, how) ==
  LET t == TimerOf[r] IN
  /\ Current(t, "IN") /\ Shoots(t) /\ Handled(t, "IN") /\ due' = [due EXCEPT ![t] = "no"]
  /\ Query(r, how)
  /\ UNCHANGED <<batch, loop, ctrlC, moves, result, pending, unheard>>
=============================================================================
