----------------------------- MODULE AvahiPoll -----------------------------
(***************************************************************************)
(* The loop as Avahi's poll API (src/src/impl/avahi-poll.h): watches of    *)
(* the connection to the daemon and timeouts.  Avahi makes, changes and    *)
(* frees them as it likes, also from the callback of one of them.          *)
(***************************************************************************)
EXTENDS Pollable

CONSTANTS Watches, Timeouts

ASSUME AvahiAssumption ==
  Watches \subseteq Obj \ (Timers \cup {CtrlC}) /\ Timeouts \subseteq Timers

VARIABLES
  life,       \* of a watch or a timeout: "new", "alive", "freed"
  data,       \* the connection has something to read
  doubled,    \* the connection had two watches at a time
  fetched     \* an object was freed whose event had been fetched

avahiVars == <<life, data, doubled, fetched>>

Avahi == Watches \cup Timeouts
AvahiInit ==
  life = [o \in Avahi |-> "new"] /\ data = FALSE /\ doubled = FALSE /\ fetched = FALSE

\* Avahi's calls come from its callbacks, and from the program, here before a wait.
Calls == Move /\ (BeforeWait \/ (Running /\ \E o \in Avahi : event[o] # {}))
otherVars == <<fd, owner, due, ctrlC, stale, faults>>

\* The connection's descriptor is registered for one watch at most: a second add fails,
\* which the constructor ignores; mod hands the registration over.
Registered == poll.set \cap Watches
Become(o, s) == life' = [life EXCEPT ![o] = s]

WatchNew(w) ==
  /\ Calls /\ life[w] = "new" /\ Become(w, "alive")
  /\ poll' = IF Registered = {} THEN Add(poll, w) ELSE poll
  /\ doubled' = (doubled \/ \E v \in Watches : life[v] = "alive")
  /\ UNCHANGED <<batch, event, loop, otherVars, data, fetched>>
WatchUpdate(w) ==
  /\ Calls /\ life[w] = "alive" /\ Registered # {}
  /\ poll' = [poll EXCEPT !.set = (@ \ Watches) \cup {w}]
  /\ UNCHANGED <<batch, event, loop, otherVars, avahiVars>>

\* Mutant of WatchFree: the loop is not told.
MutWatchFreeNoDel(w) ==
  /\ Calls /\ life[w] = "alive" /\ Become(w, "freed")
  /\ fetched' = (fetched \/ batch[w] # {})
  /\ UNCHANGED <<loopVars, otherVars, data, doubled>>
WatchFree(w) ==
  /\ Calls /\ life[w] = "alive" /\ Become(w, "freed")
  /\ poll' = IF Registered = {} THEN poll
             ELSE [set |-> poll.set \ Watches, listed |-> [poll.listed EXCEPT ![w] = 0]]
  /\ fetched' = (fetched \/ batch[w] # {})
  /\ UNCHANGED <<batch, event, loop, otherVars, data, doubled>>

\* timeout_new with or without a time, timeout_update with one (without, it does
\* nothing), timeout_free.
TimeoutNew(t, armed) ==
  /\ Calls /\ life[t] = "new" /\ Become(t, "alive")
  /\ ArmTimer(t, Kernel, armed) \/ (~armed /\ NoFault /\ UNCHANGED <<fd, owner, poll, due>>)
  /\ UNCHANGED <<batch, event, loop, ctrlC, stale, data, doubled, fetched>>
TimeoutUpdate(t, armed) ==
  /\ Calls /\ life[t] = "alive" /\ due[t] # "armed" /\ ArmTimer(t, Kernel, armed)
  /\ UNCHANGED <<batch, event, loop, ctrlC, stale, avahiVars>>
TimeoutFree(t) ==
  /\ Calls /\ life[t] = "alive" /\ Become(t, "freed")
  /\ Becomes(Release(Kernel, t)) /\ due' = [due EXCEPT ![t] = "no"]
  /\ fetched' = (fetched \/ batch[t] # {})
  /\ UNCHANGED <<batch, event, loop, ctrlC, stale, faults, data, doubled>>

DataComes ==
  /\ BeforeWait /\ Move /\ ~data /\ data' = TRUE
  /\ UNCHANGED <<loopVars, otherVars, life, doubled, fetched>>

\* epollEvent and the callback, which reads; the object may be freed by the end of it.
WatchIN(w) ==
  /\ Current(w, "IN") /\ Handled(w, "IN") /\ data' = FALSE
  /\ UNCHANGED <<poll, batch, loop, pollableVars, life, doubled, fetched>>
TimeoutIN(t) ==
  /\ Current(t, "IN") /\ Shoots(t) /\ Handled(t, "IN") /\ due' = [due EXCEPT ![t] = "no"]
  /\ UNCHANGED <<poll, batch, loop, fdVars, ctrlC, stale, faults, moves, avahiVars>>
=============================================================================
