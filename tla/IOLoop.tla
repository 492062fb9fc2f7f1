------------------------------- MODULE IOLoop -------------------------------
(***************************************************************************)
(* The event loop (src/src/loop.cpp, src/src/impl/epoll.h): the kernel's   *)
(* interest set, the list _iowatches of the objects registered with it,    *)
(* and the batch of events that epoll_wait returned, which holds raw       *)
(* pointers to those objects.  An endpoint EXTENDS this module, says which *)
(* bits of its objects are ready, and handles the current bit.             *)
(***************************************************************************)
EXTENDS Integers

CONSTANT Obj     \* the pollable objects

VARIABLES
  poll,    \* set: objects whose descriptor is in the interest set; listed: _iowatches
  batch,   \* bits of the events fetched and not yet dispatched
  event,   \* bits of the event being dispatched that are still to be handled
  loop     \* "run", "stop" (_loop_stop), "end", "undefined" (freed memory was used)

loopVars == <<poll, batch, event, loop>>

Bits == {"IN", "OUT", "PRI", "ERR", "HUP", "RDHUP"}
None == [o \in Obj |-> {}]

LoopTypeOK ==
  /\ poll \in [set : SUBSET Obj, listed : [Obj -> Nat]]
  /\ batch \in [Obj -> SUBSET Bits]
  /\ event \in [Obj -> SUBSET Bits]
  /\ loop \in {"run", "stop", "end", "undefined"}

LoopInit ==
  /\ poll = [set |-> {}, listed |-> [o \in Obj |-> 0]]
  /\ batch = None /\ event = None /\ loop = "run"

\* Poll::add of a descriptor that is not in the set; close(2), which the list does
\* not notice; Poll::del, which fails for a descriptor not in the set and leaves the
\* list alone then, followed by close.
Add(p, o) == [set |-> p.set \cup {o}, listed |-> [p.listed EXCEPT ![o] = @ + 1]]
Close(p, S) == [p EXCEPT !.set = @ \ S]
Forget(p, S) ==
  [set |-> p.set \ S, listed |-> [o \in Obj |-> IF o \in S \cap p.set THEN 0 ELSE p.listed[o]]]

Running == loop \in {"run", "stop"}
Idle == Running /\ event = None

\* epoll_wait: some of the ready objects, with all their ready bits.  _loop_stop is
\* looked at between two batches only.
Wait(S, ready) ==
  /\ Idle /\ batch = None /\ loop = "run"
  /\ S # {} /\ S \subseteq {o \in poll.set : ready[o] # {}}
  /\ batch' = [o \in Obj |-> IF o \in S THEN ready[o] ELSE {}]

\* The next event of the batch, through the pointer it was registered with.
Dispatch(o, freed) ==
  /\ Idle /\ batch[o] # {}
  /\ batch' = [batch EXCEPT ![o] = {}]
  /\ event' = IF freed THEN event ELSE [event EXCEPT ![o] = batch[o]]
  /\ loop' = IF freed THEN "undefined" ELSE loop
  /\ UNCHANGED poll

\* The bit handled next: IN, OUT, PRI, ERR, HUP, RDHUP in that order; a handler
\* that returns STOP ends the event.
Before(b) == CASE b = "IN"  -> {}
               [] b = "OUT" -> {"IN"}
               [] b = "PRI" -> {"IN", "OUT"}
               [] b = "ERR" -> {"IN", "OUT", "PRI"}
               [] b = "HUP" -> {"IN", "OUT", "PRI", "ERR"}
               [] b = "RDHUP" -> Bits \ {"RDHUP"}
Current(o, b) == Running /\ b \in event[o] /\ event[o] \cap Before(b) = {}
Handled(o, b) == event' = [event EXCEPT ![o] = @ \ {b}]
Stopped(o) == event' = [event EXCEPT ![o] = {}]

\* stop() is called by some handler; once the batch is done run() calls cleanup on
\* every listed object and forgets the list.
StopLoop == Idle /\ loop = "run" /\ loop' = "stop" /\ UNCHANGED <<poll, batch, event>>

LeaveLoop(closed, freed) ==
  /\ Idle /\ batch = None /\ loop = "stop"
  /\ loop' = IF freed THEN "undefined" ELSE "end"
  /\ poll' = [set |-> poll.set \ closed, listed |-> [o \in Obj |-> 0]]
  /\ UNCHANGED <<batch, event>>
=============================================================================
