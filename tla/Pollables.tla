----------------------------- MODULE Pollables -----------------------------
(***************************************************************************)
(* Address resolvers, the poll API of Avahi and the handler for Ctrl-C on  *)
(* one loop: they share the batch, the descriptor numbers and the signal.  *)
(***************************************************************************)
EXTENDS Resolver, AvahiPoll

vars == <<loopVars, pollableVars, resolverVars, avahiVars>>

\* Every resolver has a timer of its own, which is not Avahi's.
Kinds ==
  /\ Obj = Res \cup Timers \cup Watches \cup {CtrlC} /\ Res \cap Watches = {}
  /\ \A r \in Res : TimerOf[r] \notin Timeouts /\ \A q \in Res \ {r} : TimerOf[q] # TimerOf[r]
ASSUME KindsAssumption == Kinds

Init == PollableInit /\ ResolverInit /\ AvahiInit

\* What epoll reports of an object.
Ready ==
  [o \in Obj |->
     IF \/ o \in Res /\ pending
        \/ o \in Timers /\ Shoots(o)
        \/ o \in Watches /\ data
        \/ o = CtrlC /\ ctrlC
     THEN {"IN"} ELSE {}]
Freed(o) == o \in Avahi /\ life[o] = "freed"

\* The buffer has room for all that is ready.
Fetch ==
  /\ Wait({o \in poll.set : Ready[o] # {}}, Ready)
  /\ UNCHANGED <<poll, event, loop, pollableVars, resolverVars, avahiVars>>
NextEvent ==
  /\ \E o \in Obj : Dispatch(o, Freed(o))
  /\ UNCHANGED <<pollableVars, resolverVars, avahiVars>>

\* The loop ends: cleanup of every listed object closes its descriptor.
End ==
  LET L == {o \in Obj : poll.listed[o] > 0}
      own == {o \in L : o \in Held(Kernel, o)} IN
  /\ LeaveLoop(own, \E o \in L : Freed(o))
  /\ fd' = [o \in Obj |-> IF o \in L THEN NoFd ELSE fd[o]]
  /\ owner' = [n \in Numbers |-> IF \E o \in L : fd[o] = n THEN Nobody ELSE owner[n]]
  /\ UNCHANGED <<due, ctrlC, stale, faults, moves, resolverVars, avahiVars>>

ResolverHandlers ==
  \E r \in Res :
    /\ \/ Answers(r) \/ \E armed \in BOOLEAN : Fails(r, armed)
       \/ ReadsNothing(r) \/ \E how \in Hows : TimerAsks(r, how)
    /\ UNCHANGED avahiVars
AvahiHandlers ==
  /\ \E w \in Watches : WatchIN(w) \/ \E t \in Timeouts : TimeoutIN(t)
  /\ UNCHANGED resolverVars
LoopSteps ==
  \/ Fetch \/ NextEvent \/ ResolverHandlers \/ AvahiHandlers
  \/ (CtrlCIN \/ \E t \in Timers : TimerStale(t)) /\ UNCHANGED <<resolverVars, avahiVars>>

AvahiCalls ==
  /\ \/ \E w \in Watches : WatchNew(w) \/ WatchUpdate(w) \/ WatchFree(w)
     \/ \E t \in Timeouts :
          \/ \E armed \in BOOLEAN : TimeoutNew(t, armed) \/ TimeoutUpdate(t, armed)
          \/ TimeoutFree(t)
     \/ DataComes
  /\ UNCHANGED resolverVars
Asks == (\E r \in Res, how \in Hows : Ask(r, how)) /\ UNCHANGED avahiVars
Lookups == (\E r \in Res, how \in {"ok", "failed"} : LookupEnds(r, how)) /\ UNCHANGED avahiVars
Time == (\E t \in Timers : Expires(t)) /\ UNCHANGED <<resolverVars, avahiVars>>
Signals == Interrupt /\ UNCHANGED <<resolverVars, avahiVars>>

Next == LoopSteps \/ AvahiCalls \/ Asks \/ Lookups \/ Time \/ Signals \/ End

Spec == Init /\ [][Next]_vars

-----------------------------------------------------------------------------
(* Properties. *)

TypeOK ==
  /\ LoopTypeOK /\ fd \in [Obj -> Numbers \cup {NoFd}] /\ owner \in [Numbers -> Obj \cup {Nobody}]
  /\ due \in [Timers -> {"no", "armed", "expired"}] /\ ctrlC \in BOOLEAN
  /\ stale \in BOOLEAN /\ faults \in 0..MaxFaults
  /\ flying \in [Res -> Nat] /\ ret \in [Res -> {"progress", "ok", "failed"}]
  /\ result \in [Res -> {"none", "unset", "live", "freed"}] /\ pending \in BOOLEAN
  /\ unheard \subseteq Res /\ waiting \subseteq Res /\ lost \subseteq Res /\ moves \in 0..MaxMoves
  /\ life \in [Avahi -> {"new", "alive", "freed"}]
  /\ data \in BOOLEAN /\ doubled \in BOOLEAN /\ fetched \in BOOLEAN

\* Every open descriptor is held by the object that opened it: nothing leaks.  Every
\* object that holds a number owns it and is registered with it: nothing is deaf.  The
\* exception to the second: a failed AddrInfo::init left the number of a descriptor it
\* had closed, which is closed again when another object has it.
HoldsItsOwn ==
  /\ \A n \in Numbers : owner[n] # Nobody => fd[owner[n]] = n
  /\ ~stale => \A o \in Obj : fd[o] # NoFd => owner[fd[o]] = o /\ o \in poll.set

\* The loop uses no freed object, and the result of a query that found addresses is freed
\* once, whoever's signals its resolver reads.  The exceptions: Avahi freed an object
\* whose event had been fetched, or had two watches of its connection; a query that ends
\* without a result frees what ar_result holds, bits never written or the result of the
\* query before; and the stale number.
NoFreedObject ==
  loop = "undefined" =>
    fetched \/ doubled \/ stale \/ \E r \in Res : result[r] = "freed" /\ ret[r] # "ok"

\* A resolver whose client waits is driven by something: a lookup under way or a signal
\* that it will read, or its timer.  The exceptions: a call failed, or another resolver
\* read the signal of this one, after which nothing asks again.
Driven(r) ==
  \/ r \in poll.set /\ (flying[r] > 0 \/ pending)
  \/ due[TimerOf[r]] # "no" /\ TimerOf[r] \in poll.set
NeverForgotten ==
  loop = "run" /\ ~stale => \A r \in waiting \ lost : Driven(r)
=============================================================================
