-------------------------- MODULE Pollables_proofs --------------------------
(***************************************************************************)
(* What the resolvers, Avahi's objects and the handler for Ctrl-C may rely *)
(* on, for any number of them, of faults and of calls.                     *)
(***************************************************************************)
EXTENDS Pollables, FiniteSetTheorems, WellFoundedInduction, TLAPS

\* The descriptors and the loop of k, which a call changes.
KernelSet == [fd : [Obj -> Numbers \cup {NoFd}], owner : [Numbers -> Obj \cup {Nobody}],
              poll : [set : SUBSET Obj, listed : [Obj -> Nat]]]

\* A number is held by its owner, and watches hold none: theirs is Avahi's.
Sound(k) ==
  /\ \A n \in Numbers : k.owner[n] # Nobody => k.fd[k.owner[n]] = n
  /\ \A w \in Watches : k.fd[w] = NoFd

\* An object has what it holds and is in the set and the list if it holds something.
Tidy(k) ==
  \A o \in Obj \ Watches :
    /\ k.fd[o] # NoFd => k.owner[k.fd[o]] = o
    /\ o \in k.poll.set <=> k.fd[o] # NoFd
    /\ k.fd[o] = NoFd => k.poll.listed[o] = 0

FdInv == Sound(Kernel) /\ (~stale => Tidy(Kernel))

\* While Avahi has one watch at a time, it is the one that is registered; a timeout it
\* freed holds nothing.
WatchInv ==
  /\ ~doubled =>
       /\ \A w \in Watches : /\ life[w] = "alive" <=> w \in poll.set
                             /\ life[w] # "alive" => poll.listed[w] = 0
       /\ \A v, w \in Watches : life[v] = "alive" /\ life[w] = "alive" => v = w
  /\ \A t \in Timeouts : life[t] # "alive" => fd[t] = NoFd

\* The one event that occurs, and what was fetched of it.
BatchInv ==
  /\ \A o \in Obj : /\ batch[o] \subseteq {"IN"} /\ event[o] \subseteq {"IN"}
                    /\ event[o] # {} => batch[o] = {}
  /\ ~(fetched \/ doubled \/ stale) => \A o \in Avahi : life[o] = "freed" => batch[o] = {}

\* The result of a query that succeeded is freed once: the resolver reads no more then.
ResultInv ==
  ~stale => \A r \in Res : ret[r] = "ok" =>
    \/ result[r] = "live"
    \/ result[r] = "freed" /\ r \notin poll.set /\ batch[r] = {} /\ event[r] = {}

\* What drives the resolver of a client that waits.  The signal it will read is one it
\* has not heard.
DrivenInv ==
  /\ unheard # {} => pending
  /\ Running /\ ~stale => \A r \in waiting \ lost :
       \/ r \in poll.set /\ (flying[r] > 0 \/ r \in unheard)
       \/ due[TimerOf[r]] # "no" /\ TimerOf[r] \in poll.set

IInv == TypeOK /\ FdInv /\ WatchInv /\ BatchInv /\ ResultInv /\ DrivenInv /\ NoFreedObject

-----------------------------------------------------------------------------
(* The numbers. *)

\* What is none, and the watches.
LEMMA Apart == NoFd \notin Numbers /\ Nobody \notin Obj /\ Watches \subseteq Obj
BY PollableAssumption, AvahiAssumption

\* A set of numbers has a least one.
LEMMA LeastNumber ==
  ASSUME NEW S \in SUBSET Nat, S # {}
  PROVE  \E n \in S : \A m \in S : n <= m
<1> DEFINE R == OpToRel(<, Nat)
<1>1. IsWellFoundedOn(R, Nat)
  BY NatLessThanWellFounded
<1>2. \A x, y \in Nat : y < x => <<y, x>> \in R
  BY DEF OpToRel
<1> HIDE DEF R
<1>3. \E x \in S : \A y \in S : ~(<<y, x>> \in R)
  BY <1>1, WFMin
<1>4. \E x \in S : \A y \in S : ~(y < x)
  BY <1>2, <1>3
<1> QED BY <1>4

\* An object that holds none leaves a number free: every number in use is held by
\* another of the others.
LEMMA FreeNumber ==
  ASSUME NEW k \in KernelSet, Sound(k), NEW o \in Obj, k.fd[o] = NoFd
  PROVE  \E n \in Numbers : /\ k.owner[n] = Nobody
                            /\ \A j \in Numbers : k.owner[j] = Nobody => n <= j
<1>1. NFd \in Nat /\ Cardinality(Obj \ {o}) = NFd - 1 /\ IsFiniteSet(Obj \ {o})
  BY FS_CardinalityType, FS_RemoveElement, PollableAssumption DEF NFd
<1>2. IsFiniteSet(Numbers) /\ Cardinality(Numbers) = NFd
  BY <1>1, FS_Interval DEF Numbers
<1>3. \E n \in Numbers : k.owner[n] = Nobody
  <2>1. SUFFICES ASSUME \A n \in Numbers : k.owner[n] # Nobody PROVE FALSE
    OBVIOUS
  <2>2. k.owner \in [Numbers -> Obj \ {o}]
    BY <2>1, Apart DEF KernelSet, Sound
  <2>3. \E x, y \in Numbers : x # y /\ k.owner[x] = k.owner[y]
    BY <1>1, <1>2, <2>2, FS_PigeonHole
  <2> QED BY <2>1, <2>3 DEF Sound
<1>4. {n \in Numbers : k.owner[n] = Nobody} \in SUBSET Nat
  BY <1>1 DEF Numbers
<1> QED BY <1>3, <1>4, LeastNumber

-----------------------------------------------------------------------------
(* What the calls do to the descriptors and the loop. *)

\* The registration of Avahi's connection stays what it is.
SameWatches(k, q) ==
  /\ q.poll.set \cap Watches = k.poll.set \cap Watches
  /\ \A w \in Watches : q.poll.listed[w] = k.poll.listed[w]

\* A new descriptor has a number that was nobody's.
Made(k, o, n, q) ==
  /\ q \in KernelSet /\ Sound(q) /\ q.poll = k.poll /\ k.owner[n] = Nobody
  /\ q.fd = [k.fd EXCEPT ![o] = n] /\ q.owner = [k.owner EXCEPT ![n] = o]

LEMMA CreateResult ==
  ASSUME NEW k \in KernelSet, Sound(k), NEW o \in Obj \ Watches, k.fd[o] = NoFd,
         NEW q, q = Create(k, o)
  PROVE  \E n \in Numbers : Made(k, o, n, q)
<1> DEFINE n == CHOOSE m \in Numbers :
                  k.owner[m] = Nobody /\ \A j \in Numbers : k.owner[j] = Nobody => m <= j
<1>1. n \in Numbers /\ k.owner[n] = Nobody
  BY FreeNumber
<1>2. q = [k EXCEPT !.fd[o] = n, !.owner[n] = o]
  BY DEF Create
<1> HIDE DEF n
<1>3. /\ q \in KernelSet /\ q.poll = k.poll
      /\ q.fd = [k.fd EXCEPT ![o] = n] /\ q.owner = [k.owner EXCEPT ![n] = o]
  <2>1. q = [fd |-> [k.fd EXCEPT ![o] = n], owner |-> [k.owner EXCEPT ![n] = o],
             poll |-> k.poll]
    BY <1>2 DEF KernelSet
  <2> QED BY <1>1, <2>1 DEF KernelSet
<1>4. Sound(q)
  BY <1>1, <1>3, Apart DEF Sound, KernelSet
<1> QED BY <1>1, <1>3, <1>4 DEF Made

\* What is held is nothing of Avahi's; of a tidy object, it is the object.
LEMMA HeldResult ==
  ASSUME NEW k \in KernelSet, Sound(k), NEW o \in Obj \ Watches
  PROVE  /\ Held(k, o) \subseteq Obj \ Watches
         /\ k.fd[o] = NoFd => Held(k, o) = {}
         /\ Tidy(k) /\ k.fd[o] # NoFd => Held(k, o) = {o}
<1>1. CASE k.fd[o] = NoFd
  BY <1>1 DEF Held
<1>2. CASE k.fd[o] # NoFd
  <2>1. k.fd[o] \in Numbers /\ k.owner[k.fd[o]] \in Obj \cup {Nobody}
    BY <1>2 DEF KernelSet
  <2>2. Held(k, o) = {k.owner[k.fd[o]]} \ {Nobody}
    BY <1>2 DEF Held
  <2> QED BY <1>2, <2>1, <2>2, Apart DEF Sound, Tidy
<1> QED BY <1>1, <1>2

\* close(2).
LEMMA ShutResult ==
  ASSUME NEW k \in KernelSet, Sound(k), NEW o \in Obj \ Watches, NEW q, q = Shut(k, o)
  PROVE  /\ q \in KernelSet /\ Sound(q)
         /\ q.fd = k.fd /\ q.poll.listed = k.poll.listed
         /\ q.poll.set = k.poll.set \ Held(k, o)
         /\ \A n \in Numbers : q.owner[n] = IF n = k.fd[o] THEN Nobody ELSE k.owner[n]
<1>1. CASE k.fd[o] = NoFd
  <2>1. q = k /\ Held(k, o) = {}
    BY <1>1, HeldResult DEF Shut
  <2> QED BY <1>1, <2>1, Apart DEF KernelSet
<1>2. CASE k.fd[o] # NoFd
  <2>1. k.fd[o] \in Numbers
    BY <1>2 DEF KernelSet
  <2>2. q = [k EXCEPT !.owner[k.fd[o]] = Nobody, !.poll = Close(@, Held(k, o))]
    BY <1>2 DEF Shut
  <2>3. /\ q.fd = k.fd /\ q.owner = [k.owner EXCEPT ![k.fd[o]] = Nobody]
        /\ q.poll = [k.poll EXCEPT !.set = @ \ Held(k, o)]
        /\ q = [fd |-> q.fd, owner |-> q.owner, poll |-> q.poll]
    BY <2>2 DEF KernelSet, Close
  <2>4. /\ q.poll.listed = k.poll.listed /\ q.poll.set = k.poll.set \ Held(k, o)
        /\ q.poll \in [set : SUBSET Obj, listed : [Obj -> Nat]]
    BY <2>3 DEF KernelSet
  <2>5. q.owner \in [Numbers -> Obj \cup {Nobody}]
    BY <2>3 DEF KernelSet
  <2>6. q \in KernelSet
    BY <2>3, <2>4, <2>5 DEF KernelSet
  <2>7. \A n \in Numbers : q.owner[n] = IF n = k.fd[o] THEN Nobody ELSE k.owner[n]
    BY <2>1, <2>3 DEF KernelSet
  <2> QED BY <2>3, <2>4, <2>6, <2>7 DEF Sound
<1> QED BY <1>1, <1>2

\* Poll::del.
LEMMA DelResult ==
  ASSUME NEW k \in KernelSet, Sound(k), NEW o \in Obj \ Watches, NEW q, q = Del(k, o)
  PROVE  /\ q \in KernelSet /\ Sound(q)
         /\ q.fd = k.fd /\ q.owner = k.owner
         /\ q.poll.set = k.poll.set \ Held(k, o)
         /\ \A p \in Obj \ {o} : q.poll.listed[p] = k.poll.listed[p]
         /\ q.poll.listed[o] = IF Held(k, o) \cap k.poll.set = {} THEN k.poll.listed[o] ELSE 0
<1>1. CASE Held(k, o) \cap k.poll.set = {}
  <2>1. q = k
    BY <1>1 DEF Del
  <2> QED BY <1>1, <2>1, Apart DEF KernelSet
<1>2. CASE Held(k, o) \cap k.poll.set # {}
  <2>1. q = [k EXCEPT !.poll = [set |-> @.set \ Held(k, o),
                                listed |-> [@.listed EXCEPT ![o] = 0]]]
    BY <1>2 DEF Del
  <2>2. /\ q.fd = k.fd /\ q.owner = k.owner
        /\ q.poll = [set |-> k.poll.set \ Held(k, o), listed |-> [k.poll.listed EXCEPT ![o] = 0]]
        /\ q = [fd |-> q.fd, owner |-> q.owner, poll |-> q.poll]
    BY <2>1 DEF KernelSet
  <2>3. q.poll \in [set : SUBSET Obj, listed : [Obj -> Nat]]
    BY <2>2 DEF KernelSet
  <2>4. q \in KernelSet
    BY <2>2, <2>3 DEF KernelSet
  <2> QED BY <1>2, <2>2, <2>4 DEF KernelSet, Sound
<1> QED BY <1>1, <1>2

\* cleanup(): the number is forgotten as well.
LEMMA CleanupResult ==
  ASSUME NEW k \in KernelSet, Sound(k), NEW o \in Obj \ Watches, NEW q, q = Cleanup(k, o)
  PROVE  /\ q \in KernelSet /\ Sound(q)
         /\ q.fd = [k.fd EXCEPT ![o] = NoFd] /\ q.poll.listed = k.poll.listed
         /\ q.poll.set = k.poll.set \ Held(k, o)
         /\ \A n \in Numbers : q.owner[n] = IF n = k.fd[o] THEN Nobody ELSE k.owner[n]
<1>0. PICK s : s = Shut(k, o)
  OBVIOUS
<1>1. /\ s \in KernelSet /\ Sound(s)
      /\ s.fd = k.fd /\ s.poll.listed = k.poll.listed
      /\ s.poll.set = k.poll.set \ Held(k, o)
      /\ \A n \in Numbers : s.owner[n] = IF n = k.fd[o] THEN Nobody ELSE k.owner[n]
  BY <1>0, ShutResult
<1>2. q = [s EXCEPT !.fd[o] = NoFd]
  BY <1>0 DEF Cleanup
<1>3. /\ q.fd = [k.fd EXCEPT ![o] = NoFd] /\ q.owner = s.owner /\ q.poll = s.poll
      /\ q \in KernelSet
  BY <1>1, <1>2, Apart DEF KernelSet
<1>4. Sound(q)
  BY <1>1, <1>3, Apart DEF Sound, KernelSet
<1> QED BY <1>1, <1>3, <1>4

\* del and cleanup: what was tidy stays so, without the object.
LEMMA ReleaseResult ==
  ASSUME NEW k \in KernelSet, Sound(k), NEW o \in Obj \ Watches, NEW q, q = Release(k, o)
  PROVE  /\ q \in KernelSet /\ Sound(q) /\ SameWatches(k, q)
         /\ q.fd = [k.fd EXCEPT ![o] = NoFd]
         /\ Tidy(k) => Tidy(q) /\ q.poll.set = k.poll.set \ {o}
<1>0. PICK d : d = Del(k, o)
  OBVIOUS
<1>1. /\ d \in KernelSet /\ Sound(d)
      /\ d.fd = k.fd /\ d.owner = k.owner
      /\ d.poll.set = k.poll.set \ Held(k, o)
      /\ \A p \in Obj \ {o} : d.poll.listed[p] = k.poll.listed[p]
      /\ d.poll.listed[o] = IF Held(k, o) \cap k.poll.set = {} THEN k.poll.listed[o] ELSE 0
  BY <1>0, DelResult
<1>2. q = Cleanup(d, o)
  BY <1>0 DEF Release
<1>3. Held(d, o) = Held(k, o)
  BY <1>1 DEF Held
<1>4. /\ q \in KernelSet /\ Sound(q)
      /\ q.fd = [k.fd EXCEPT ![o] = NoFd] /\ q.poll.listed = d.poll.listed
      /\ q.poll.set = k.poll.set \ Held(k, o)
      /\ \A n \in Numbers : q.owner[n] = IF n = k.fd[o] THEN Nobody ELSE k.owner[n]
  <2>1. /\ q \in KernelSet /\ Sound(q)
        /\ q.fd = [d.fd EXCEPT ![o] = NoFd] /\ q.poll.listed = d.poll.listed
        /\ q.poll.set = d.poll.set \ Held(d, o)
        /\ \A n \in Numbers : q.owner[n] = IF n = d.fd[o] THEN Nobody ELSE d.owner[n]
    BY <1>1, <1>2, CleanupResult
  <2> QED BY <1>1, <1>3, <2>1
<1>5. Held(k, o) \subseteq Obj \ Watches
  BY HeldResult
<1>6. SameWatches(k, q)
  BY <1>1, <1>4, <1>5, Apart DEF SameWatches
<1>7. ASSUME Tidy(k) PROVE Tidy(q) /\ q.poll.set = k.poll.set \ {o}
  <2>1. k.fd[o] = NoFd => Held(k, o) = {} /\ o \notin k.poll.set /\ k.poll.listed[o] = 0
    BY <1>7, HeldResult DEF Tidy
  <2>2. k.fd[o] # NoFd => Held(k, o) = {o} /\ o \in k.poll.set
    BY <1>7, HeldResult DEF Tidy
  <2>3. q.poll.set = k.poll.set \ {o} /\ q.poll.listed[o] = 0
    BY <1>1, <1>4, <2>1, <2>2
  <2>4. ASSUME NEW p \in Obj \ Watches, p # o, k.fd[p] # NoFd
        PROVE  q.owner[k.fd[p]] = p
    <3>1. k.fd[p] \in Numbers /\ k.owner[k.fd[p]] = p
      BY <1>7, <2>4 DEF Tidy, KernelSet
    <3>2. k.fd[p] # k.fd[o]
      BY <1>7, <2>4, <3>1 DEF Tidy
    <3> QED BY <1>4, <3>1, <3>2
  <2>5. q.fd[o] = NoFd /\ \A p \in Obj \ {o} : q.fd[p] = k.fd[p]
    BY <1>4 DEF KernelSet
  <2>6. ASSUME NEW p \in Obj \ Watches
        PROVE  /\ q.fd[p] # NoFd => q.owner[q.fd[p]] = p
               /\ p \in q.poll.set <=> q.fd[p] # NoFd
               /\ q.fd[p] = NoFd => q.poll.listed[p] = 0
    <3>1. CASE p = o
      BY <2>3, <2>5, <3>1
    <3>2. CASE p # o
      BY <1>1, <1>4, <1>7, <2>3, <2>4, <2>5, <3>2 DEF Tidy
    <3> QED BY <3>1, <3>2
  <2> QED BY <2>3, <2>6 DEF Tidy
<1> QED BY <1>4, <1>6, <1>7

\* A descriptor made and entered.
LEMMA EnterResult ==
  ASSUME NEW k \in KernelSet, Sound(k), NEW o \in Obj \ Watches, k.fd[o] = NoFd,
         NEW q, q = Enter(Create(k, o), o)
  PROVE  /\ q \in KernelSet /\ Sound(q) /\ SameWatches(k, q)
         /\ \A p \in Obj \ {o} : q.fd[p] = k.fd[p]
         /\ q.poll.set = k.poll.set \cup {o}
         /\ Tidy(k) => Tidy(q)
<1>0. PICK c : c = Create(k, o)
  OBVIOUS
<1>1. PICK n \in Numbers : Made(k, o, n, c)
  BY <1>0, CreateResult
<1>2. /\ c \in KernelSet /\ Sound(c) /\ c.poll = k.poll /\ k.owner[n] = Nobody
      /\ c.fd = [k.fd EXCEPT ![o] = n] /\ c.owner = [k.owner EXCEPT ![n] = o]
  BY <1>1 DEF Made
<1>3. q = [c EXCEPT !.poll = Add(@, o)]
  BY <1>0 DEF Enter
<1>4. /\ q.fd = c.fd /\ q.owner = c.owner
      /\ q.poll = [set |-> k.poll.set \cup {o}, listed |-> [k.poll.listed EXCEPT ![o] = @ + 1]]
      /\ q = [fd |-> q.fd, owner |-> q.owner, poll |-> q.poll]
  BY <1>2, <1>3 DEF Add, KernelSet
<1>5. /\ k.poll.set \in SUBSET Obj /\ k.poll.listed \in [Obj -> Nat]
      /\ q.poll \in [set : SUBSET Obj, listed : [Obj -> Nat]]
  BY <1>4 DEF KernelSet
<1>6. q \in KernelSet
  BY <1>2, <1>4, <1>5 DEF KernelSet
<1>7. Sound(q) /\ SameWatches(k, q)
  BY <1>2, <1>4, <1>5 DEF Sound, SameWatches
<1>8. q.fd[o] = n /\ \A p \in Obj \ {o} : q.fd[p] = k.fd[p]
  BY <1>2, <1>4 DEF KernelSet
<1>9. ASSUME Tidy(k), NEW p \in Obj \ Watches
      PROVE  /\ q.fd[p] # NoFd => q.owner[q.fd[p]] = p
             /\ p \in q.poll.set <=> q.fd[p] # NoFd
             /\ q.fd[p] = NoFd => q.poll.listed[p] = 0
  <2>1. CASE p = o
    BY <1>2, <1>4, <1>8, <2>1, Apart DEF KernelSet
  <2>2. CASE p # o
    <3>1. k.fd[p] # NoFd => k.fd[p] \in Numbers /\ k.owner[k.fd[p]] = p
      BY <1>9 DEF Tidy, KernelSet
    <3>2. k.fd[p] # NoFd => q.owner[k.fd[p]] = p
      BY <1>2, <1>4, <3>1, Apart DEF KernelSet
    <3> QED BY <1>4, <1>5, <1>8, <1>9, <2>2, <3>2 DEF Tidy
  <2> QED BY <2>1, <2>2
<1> QED BY <1>4, <1>6, <1>7, <1>8, <1>9 DEF Tidy

\* A descriptor made and given up.
LEMMA GiveUpResult ==
  ASSUME NEW k \in KernelSet, Sound(k), NEW o \in Obj \ Watches, k.fd[o] = NoFd,
         NEW q, q = Cleanup(Create(k, o), o)
  PROVE  /\ q \in KernelSet /\ Sound(q) /\ SameWatches(k, q) /\ q.fd = k.fd
         /\ Tidy(k) => Tidy(q) /\ q.poll.set = k.poll.set
<1>0. PICK c : c = Create(k, o)
  OBVIOUS
<1>1. PICK n \in Numbers : Made(k, o, n, c)
  BY <1>0, CreateResult
<1>2. /\ c \in KernelSet /\ Sound(c) /\ c.poll = k.poll /\ k.owner[n] = Nobody
      /\ c.fd = [k.fd EXCEPT ![o] = n] /\ c.owner = [k.owner EXCEPT ![n] = o]
  BY <1>1 DEF Made
<1>3. /\ q \in KernelSet /\ Sound(q)
      /\ q.fd = [c.fd EXCEPT ![o] = NoFd] /\ q.poll.listed = c.poll.listed
      /\ q.poll.set = c.poll.set \ Held(c, o)
      /\ \A m \in Numbers : q.owner[m] = IF m = c.fd[o] THEN Nobody ELSE c.owner[m]
  <2>1. q = Cleanup(c, o)
    BY <1>0
  <2>2. c \in KernelSet /\ Sound(c)
    BY <1>2
  <2> QED BY <2>1, <2>2, CleanupResult
<1>4. c.fd[o] = n /\ Held(c, o) = {o}
  BY <1>2, Apart DEF Held, KernelSet
<1>5. q.fd = k.fd
  BY <1>2, <1>3 DEF KernelSet
<1>6. \A m \in Numbers : q.owner[m] = k.owner[m]
  BY <1>2, <1>3, <1>4 DEF KernelSet
<1>7. SameWatches(k, q)
  BY <1>2, <1>3, <1>4 DEF SameWatches
<1>8. ASSUME Tidy(k) PROVE Tidy(q) /\ q.poll.set = k.poll.set
  <2>1. q.poll.set = k.poll.set
    BY <1>2, <1>3, <1>4, <1>8 DEF Tidy
  <2>2. \A p \in Obj : k.fd[p] # NoFd => k.fd[p] \in Numbers
    BY DEF KernelSet
  <2>3. q.poll.listed = k.poll.listed
    BY <1>2, <1>3
  <2> QED BY <1>5, <1>6, <1>8, <2>1, <2>2, <2>3 DEF Tidy
<1> QED BY <1>3, <1>5, <1>7, <1>8
-----------------------------------------------------------------------------
(* The same of a step. *)

\* The objects are of one kind each.
LEMMA KindsApart ==
  /\ Res \subseteq Obj \ Watches /\ Timers \subseteq Obj \ Watches /\ CtrlC \in Obj \ Watches
  /\ Watches \subseteq Obj /\ Timeouts \subseteq Timers /\ Avahi \subseteq Obj
  /\ Res \cap Timers = {} /\ CtrlC \notin Res /\ CtrlC \notin Timers
  /\ \A r \in Res : /\ TimerOf[r] \in Timers \ Timeouts
                    /\ \A q \in Res \ {r} : TimerOf[q] # TimerOf[r]
BY PollableAssumption, ResolverAssumption, AvahiAssumption, KindsAssumption DEF Kinds, Avahi

LEMMA KernelType == TypeOK => Kernel \in KernelSet
BY DEF TypeOK, LoopTypeOK, Kernel, KernelSet

LEMMA BecomesResult ==
  ASSUME NEW k \in KernelSet, Becomes(k)
  PROVE  /\ Kernel' = k /\ fd' = k.fd /\ owner' = k.owner /\ poll' = k.poll
         /\ fd' \in [Obj -> Numbers \cup {NoFd}] /\ owner' \in [Numbers -> Obj \cup {Nobody}]
         /\ poll' \in [set : SUBSET Obj, listed : [Obj -> Nat]]
BY DEF Becomes, Kernel, KernelSet

LEMMA FdInvStep ==
  ASSUME Sound(Kernel'), ~stale' => Tidy(Kernel')
  PROVE  FdInv'
BY DEF FdInv, Sound, Tidy, Kernel

\* A step from k that changes the descriptors of the objects S only.
Touches(k, S) ==
  /\ fd' \in [Obj -> Numbers \cup {NoFd}] /\ owner' \in [Numbers -> Obj \cup {Nobody}]
  /\ poll' \in [set : SUBSET Obj, listed : [Obj -> Nat]]
  /\ FdInv' /\ SameWatches(k, Kernel')
  /\ \A p \in Obj \ S : fd'[p] = k.fd[p]
  /\ ~stale' => \A p \in Obj \ S : p \in poll'.set <=> p \in k.poll.set

LEMMA TouchesStep ==
  ASSUME NEW k, NEW S, NEW q \in KernelSet, Becomes(q), Sound(q), ~stale' => Tidy(q),
         SameWatches(k, q), \A p \in Obj \ S : q.fd[p] = k.fd[p],
         ~stale' => \A p \in Obj \ S : p \in q.poll.set <=> p \in k.poll.set
  PROVE  Touches(k, S)
<1>1. /\ Kernel' = q /\ fd' = q.fd /\ owner' = q.owner /\ poll' = q.poll
      /\ fd' \in [Obj -> Numbers \cup {NoFd}] /\ owner' \in [Numbers -> Obj \cup {Nobody}]
      /\ poll' \in [set : SUBSET Obj, listed : [Obj -> Nat]]
  BY BecomesResult
<1>2. FdInv'
  BY <1>1, FdInvStep
<1> QED BY <1>1, <1>2 DEF Touches

\* arm.
LEMMA ArmResult ==
  ASSUME due \in [Timers -> {"no", "armed", "expired"}], faults \in 0..MaxFaults,
         NEW k \in KernelSet, Sound(k), ~stale => Tidy(k),
         NEW t \in Timers, NEW armed \in BOOLEAN, ArmTimer(t, k, armed), UNCHANGED stale
  PROVE  /\ Touches(k, {t}) /\ faults' \in 0..MaxFaults
         /\ due' \in [Timers -> {"no", "armed", "expired"}]
         /\ \A u \in Timers : due'[u] = "no" => due[u] = "no"
         /\ ~stale /\ t \in k.poll.set => t \in poll'.set
         /\ armed => due'[t] = "armed" /\ (~stale => t \in poll'.set)
<1>1. t \in Obj \ Watches /\ t \in Obj
  BY KindsApart
<1>2. faults' \in 0..MaxFaults
  BY PollableAssumption DEF ArmTimer, Fault, NoFault
<1>3. CASE armed
  <2>1. /\ Becomes(IF k.fd[t] = NoFd THEN Enter(Create(k, t), t) ELSE k)
        /\ due' = [due EXCEPT ![t] = "armed"]
    BY <1>3 DEF ArmTimer
  <2>2. CASE k.fd[t] = NoFd
    <3>1. PICK q : q = Enter(Create(k, t), t)
      OBVIOUS
    <3>2. /\ q \in KernelSet /\ Sound(q) /\ SameWatches(k, q)
          /\ \A p \in Obj \ {t} : q.fd[p] = k.fd[p]
          /\ q.poll.set = k.poll.set \cup {t}
          /\ Tidy(k) => Tidy(q)
      BY <1>1, <2>2, <3>1, EnterResult
    <3>3. Becomes(q)
      BY <2>1, <2>2, <3>1
    <3>4. Touches(k, {t})
      BY <3>2, <3>3, TouchesStep
    <3>5. t \in poll'.set
      BY <3>2, <3>3, BecomesResult
    <3> QED BY <1>2, <2>1, <3>4, <3>5
  <2>3. CASE k.fd[t] # NoFd
    <3>1. Becomes(k)
      BY <2>1, <2>3
    <3>2. Touches(k, {t})
      BY <3>1, TouchesStep DEF SameWatches
    <3>3. ~stale => t \in poll'.set
      BY <1>1, <2>3, <3>1, BecomesResult DEF Tidy
    <3> QED BY <1>2, <2>1, <3>2, <3>3
  <2> QED BY <2>2, <2>3
<1>4. CASE ~armed
  <2>1. /\ Becomes(IF k.fd[t] = NoFd THEN Cleanup(Create(k, t), t) ELSE k)
        /\ UNCHANGED due
    BY <1>4 DEF ArmTimer
  <2>2. CASE k.fd[t] = NoFd
    <3>1. PICK q : q = Cleanup(Create(k, t), t)
      OBVIOUS
    <3>2. /\ q \in KernelSet /\ Sound(q) /\ SameWatches(k, q) /\ q.fd = k.fd
          /\ Tidy(k) => Tidy(q) /\ q.poll.set = k.poll.set
      BY <1>1, <2>2, <3>1, GiveUpResult
    <3>3. Becomes(q)
      BY <2>1, <2>2, <3>1
    <3>4. Touches(k, {t})
      BY <3>2, <3>3, TouchesStep
    <3>5. ~stale => poll'.set = k.poll.set
      BY <3>2, <3>3, BecomesResult
    <3> QED BY <1>2, <1>4, <2>1, <3>4, <3>5
  <2>3. CASE k.fd[t] # NoFd
    <3>1. Becomes(k)
      BY <2>1, <2>3
    <3>2. Touches(k, {t})
      BY <3>1, TouchesStep DEF SameWatches
    <3>3. poll'.set = k.poll.set
      BY <3>1, BecomesResult
    <3> QED BY <1>2, <1>4, <2>1, <3>2, <3>3
  <2> QED BY <2>2, <2>3
<1> QED BY <1>3, <1>4

\* del and cleanup of what an object of the loop holds.
LEMMA ReleaseStep ==
  ASSUME TypeOK, FdInv, NEW o \in Obj \ Watches, Becomes(Release(Kernel, o)), UNCHANGED stale
  PROVE  Touches(Kernel, {o}) /\ fd'[o] = NoFd /\ (~stale => o \notin poll'.set)
<1>1. Kernel \in KernelSet /\ Sound(Kernel) /\ (~stale => Tidy(Kernel))
  BY KernelType DEF FdInv
<1>2. PICK q : q = Release(Kernel, o)
  OBVIOUS
<1>3. PICK k \in KernelSet : k = Kernel
  BY <1>1
<1>4. /\ q \in KernelSet /\ Sound(q) /\ SameWatches(k, q)
      /\ q.fd = [k.fd EXCEPT ![o] = NoFd]
      /\ Tidy(k) => Tidy(q) /\ q.poll.set = k.poll.set \ {o}
  BY <1>1, <1>2, <1>3, ReleaseResult
<1>5. \A p \in Obj : q.fd[p] = IF p = o THEN NoFd ELSE k.fd[p]
  BY <1>4 DEF KernelSet
<1>6. Becomes(q)
  BY <1>2
<1>7. Touches(k, {o})
  BY <1>1, <1>3, <1>4, <1>5, <1>6, TouchesStep
<1>8. fd'[o] = NoFd /\ (~stale => o \notin poll'.set)
  BY <1>1, <1>3, <1>4, <1>5, <1>6, BecomesResult
<1> QED BY <1>3, <1>7, <1>8

\* AddrInfo::init.
LEMMA QueryResult ==
  ASSUME TypeOK, FdInv, NEW r \in Res, NEW how \in Hows, Query(r, how)
  PROVE  /\ Touches(Kernel, {r}) /\ faults' \in 0..MaxFaults
         /\ stale' \in BOOLEAN /\ (stale => stale')
         /\ \/ /\ flying' = [flying EXCEPT ![r] = @ + 1] /\ ret' = [ret EXCEPT ![r] = "progress"]
               /\ waiting' = waiting \cup {r} /\ lost' = lost \ {r}
               /\ r \in poll'.set
            \/ /\ UNCHANGED <<flying, ret, waiting>> /\ lost' = lost \cup {r}
               /\ ~stale' => r \notin poll'.set
<1>1. PICK k, m, n : k = Kernel /\ m = Release(Kernel, r) /\ n = Create(m, r)
  OBVIOUS
<1>2. k \in KernelSet /\ Sound(k) /\ (~stale => Tidy(k)) /\ r \in Obj \ Watches /\ r \in Obj
  BY <1>1, KernelType, KindsApart DEF FdInv
<1>3. /\ m \in KernelSet /\ Sound(m) /\ SameWatches(k, m)
      /\ m.fd = [k.fd EXCEPT ![r] = NoFd]
      /\ Tidy(k) => Tidy(m) /\ m.poll.set = k.poll.set \ {r}
  BY <1>1, <1>2, ReleaseResult
<1>4. \A p \in Obj : m.fd[p] = IF p = r THEN NoFd ELSE k.fd[p]
  BY <1>2, <1>3 DEF KernelSet
<1>5. faults' \in 0..MaxFaults
  BY PollableAssumption DEF TypeOK, Query, Fault, NoFault
<1>6. stale \in BOOLEAN
  BY DEF TypeOK
<1>7. CASE how = "ok"
  <2>1. PICK q : q = Enter(n, r)
    OBVIOUS
  <2>2. /\ Becomes(q) /\ UNCHANGED stale
        /\ flying' = [flying EXCEPT ![r] = @ + 1] /\ ret' = [ret EXCEPT ![r] = "progress"]
        /\ waiting' = waiting \cup {r} /\ lost' = lost \ {r}
    BY <1>1, <1>7, <2>1 DEF Query
  <2>3. q = Enter(Create(m, r), r) /\ m.fd[r] = NoFd
    BY <1>1, <1>2, <1>4, <2>1
  <2>4. /\ q \in KernelSet /\ Sound(q) /\ SameWatches(m, q)
        /\ \A p \in Obj \ {r} : q.fd[p] = m.fd[p]
        /\ q.poll.set = m.poll.set \cup {r}
        /\ Tidy(m) => Tidy(q)
    <3>1. m \in KernelSet /\ Sound(m) /\ r \in Obj \ Watches
      BY <1>2, <1>3
    <3> QED BY <2>3, <3>1, EnterResult
  <2>5. SameWatches(k, q)
    BY <1>3, <2>4 DEF SameWatches
  <2>6. /\ \A p \in Obj \ {r} : q.fd[p] = k.fd[p]
        /\ ~stale => \A p \in Obj \ {r} : p \in q.poll.set <=> p \in k.poll.set
        /\ ~stale => Tidy(q)
    BY <1>2, <1>3, <1>4, <2>4
  <2>7. Touches(k, {r})
    BY <2>2, <2>4, <2>5, <2>6, TouchesStep
  <2>8. r \in poll'.set
    BY <2>2, <2>4, BecomesResult
  <2> QED BY <1>1, <1>5, <1>6, <2>2, <2>7, <2>8
<1>8. CASE how = "signalfd"
  <2>1. Becomes(m) /\ UNCHANGED <<stale, flying, ret, waiting>> /\ lost' = lost \cup {r}
    BY <1>1, <1>8 DEF Query
  <2>2. Touches(k, {r})
    BY <1>2, <1>3, <1>4, <2>1, TouchesStep
  <2>3. ~stale => r \notin poll'.set
    BY <1>2, <1>3, <2>1, BecomesResult
  <2> QED BY <1>1, <1>5, <1>6, <2>1, <2>2, <2>3
<1>9. CASE how \in {"add", "getaddrinfo"}
  <2>1. /\ UNCHANGED <<flying, ret, waiting>> /\ lost' = lost \cup {r} /\ stale' = TRUE
        /\ how = "add" => Becomes(Shut(n, r))
        /\ how = "getaddrinfo" => Becomes(Shut(Del(Enter(n, r), r), r))
    BY <1>1, <1>9 DEF Query
  <2>2. m.fd[r] = NoFd
    BY <1>2, <1>4
  <2>3. PICK j \in Numbers : Made(m, r, j, n)
    BY <1>1, <1>2, <1>3, <2>2, CreateResult
  <2>4. /\ n \in KernelSet /\ Sound(n) /\ n.poll = m.poll
        /\ n.fd = [m.fd EXCEPT ![r] = j] /\ n.owner = [m.owner EXCEPT ![j] = r]
    BY <2>3 DEF Made
  <2>5. /\ n.fd[r] = j /\ n.owner[j] = r
        /\ \A p \in Obj \ {r} : n.fd[p] = k.fd[p]
    BY <1>2, <1>3, <1>4, <2>4 DEF KernelSet
  <2>6. \E q : q \in KernelSet /\ Sound(q) /\ Becomes(q) /\ SameWatches(m, q) /\ q.fd = n.fd
    <3>1. CASE how = "add"
      <4>1. PICK q : q = Shut(n, r)
        OBVIOUS
      <4>2. /\ q \in KernelSet /\ Sound(q) /\ q.fd = n.fd /\ q.poll.listed = n.poll.listed
            /\ q.poll.set = n.poll.set \ Held(n, r)
        BY <1>2, <2>4, <4>1, ShutResult
      <4>3. Held(n, r) \subseteq Obj \ Watches
        BY <1>2, <2>4, HeldResult
      <4>4. SameWatches(m, q)
        BY <2>4, <4>2, <4>3 DEF SameWatches
      <4> QED BY <2>1, <3>1, <4>1, <4>2, <4>4
    <3>2. CASE how = "getaddrinfo"
      <4>1. PICK e, d, q : e = Enter(n, r) /\ d = Del(e, r) /\ q = Shut(d, r)
        OBVIOUS
      <4>2. e = Enter(Create(m, r), r)
        BY <1>1, <4>1
      <4>3. e \in KernelSet /\ Sound(e) /\ SameWatches(m, e)
        BY <1>2, <1>3, <2>2, <4>2, EnterResult
      <4>4. e.fd = n.fd
        BY <2>4, <4>1 DEF Enter, KernelSet
      <4>5. /\ d \in KernelSet /\ Sound(d) /\ d.fd = e.fd
            /\ d.poll.set = e.poll.set \ Held(e, r)
            /\ \A p \in Obj \ {r} : d.poll.listed[p] = e.poll.listed[p]
        BY <1>2, <4>1, <4>3, DelResult
      <4>6. /\ q \in KernelSet /\ Sound(q) /\ q.fd = d.fd /\ q.poll.listed = d.poll.listed
            /\ q.poll.set = d.poll.set \ Held(d, r)
        BY <1>2, <4>1, <4>5, ShutResult
      <4>7. Held(e, r) \subseteq Obj \ Watches /\ Held(d, r) \subseteq Obj \ Watches
        BY <1>2, <4>3, <4>5, HeldResult
      <4>8. SameWatches(m, q)
        BY <1>2, <4>3, <4>5, <4>6, <4>7, KindsApart DEF SameWatches
      <4>9. Becomes(q)
        BY <2>1, <3>2, <4>1
      <4> QED BY <4>4, <4>5, <4>6, <4>8, <4>9
    <3> QED BY <1>9, <3>1, <3>2
  <2>7. PICK q \in KernelSet : Sound(q) /\ Becomes(q) /\ SameWatches(m, q) /\ q.fd = n.fd
    BY <2>6
  <2>8. SameWatches(k, q) /\ \A p \in Obj \ {r} : q.fd[p] = k.fd[p]
    BY <1>3, <2>5, <2>7 DEF SameWatches
  <2>9. Touches(k, {r})
    BY <2>1, <2>7, <2>8, TouchesStep
  <2> QED BY <1>1, <1>5, <2>1, <2>9
<1> QED BY <1>7, <1>8, <1>9 DEF Hows
-----------------------------------------------------------------------------
(* The parts of the invariant from one step to the next. *)

\* The registration of the watches, when other objects' descriptors change.
LEMMA WatchStep ==
  ASSUME TypeOK, WatchInv, NEW k, SameWatches(k, Kernel'), SameWatches(Kernel, k),
         \A t \in Timeouts : fd'[t] = fd[t], UNCHANGED <<life, doubled>>
  PROVE  WatchInv'
<1>1. /\ \A w \in Watches : /\ w \in poll'.set <=> w \in poll.set
                            /\ poll'.listed[w] = poll.listed[w]
  BY DEF SameWatches, Kernel
<1> QED BY <1>1 DEF WatchInv

\* The query of an object that still reads is not the one whose result is freed.
LEMMA ReadsOn ==
  ASSUME ResultInv, ~stale, NEW r \in Res, ret[r] = "ok", r \in poll.set \/ event[r] # {}
  PROVE  result[r] = "live"
BY DEF ResultInv

\* A step that leaves the loop, what is held and the queries as they are.
LEMMA QuietIInv ==
  ASSUME IInv, TypeOK',
         UNCHANGED <<fd, owner, poll, batch, loop, stale, life, doubled, fetched>>,
         UNCHANGED <<flying, ret, result, unheard, pending, waiting, lost>>,
         \A o \in Obj : event'[o] \subseteq event[o],
         Running /\ ~stale => \A r \in Res : due'[TimerOf[r]] = "no" => due[TimerOf[r]] = "no"
  PROVE  IInv'
<1>1. FdInv'
  BY DEF IInv, FdInv, Sound, Tidy, Kernel
<1>2. WatchInv'
  BY DEF IInv, WatchInv
<1>3. BatchInv'
  BY DEF IInv, BatchInv
<1>4. ResultInv'
  BY KindsApart DEF IInv, ResultInv
<1>5. DrivenInv'
  <2>1. Running' = Running
    BY DEF Running
  <2>2. ASSUME NEW r \in waiting \ lost, Running, ~stale,
               \/ r \in poll.set /\ (flying[r] > 0 \/ r \in unheard)
               \/ due[TimerOf[r]] # "no" /\ TimerOf[r] \in poll.set
        PROVE  \/ r \in poll.set /\ (flying[r] > 0 \/ r \in unheard)
               \/ due'[TimerOf[r]] # "no" /\ TimerOf[r] \in poll.set
    <3>1. r \in Res
      BY DEF IInv, TypeOK
    <3> QED BY <2>2, <3>1
  <2>3. unheard # {} => pending
    BY DEF IInv, DrivenInv
  <2>4. Running /\ ~stale => \A r \in waiting \ lost :
          \/ r \in poll.set /\ (flying[r] > 0 \/ r \in unheard)
          \/ due'[TimerOf[r]] # "no" /\ TimerOf[r] \in poll.set
    BY <2>2 DEF IInv, DrivenInv
  <2> QED BY <2>1, <2>3, <2>4 DEF DrivenInv
<1>6. NoFreedObject'
  BY DEF IInv, NoFreedObject
<1> QED BY <1>1, <1>2, <1>3, <1>4, <1>5, <1>6 DEF IInv

\* A step that changes what timeouts of Avahi or the signal handler hold, or the watches.
LEMMA HeldIInv ==
  ASSUME IInv, TypeOK', FdInv', WatchInv', NEW S \in SUBSET Obj, S \cap Res = {},
         \A r \in Res : TimerOf[r] \notin S,
         ~stale => \A p \in Obj \ S : p \in poll'.set <=> p \in poll.set,
         UNCHANGED <<batch, stale>>, doubled => doubled',
         UNCHANGED <<flying, ret, result, unheard, pending, waiting, lost>>,
         \A o \in Obj : event'[o] \subseteq event[o],
         \A r \in Res : due'[TimerOf[r]] = due[TimerOf[r]],
         loop' = loop \/ (Running /\ loop' = "stop"), fetched => fetched',
         \A o \in Avahi : life'[o] = "freed" => life[o] = "freed" \/ fetched' \/ batch[o] = {}
  PROVE  IInv'
<1>1. ASSUME ~stale, NEW r \in Res
      PROVE  /\ r \in poll'.set <=> r \in poll.set
             /\ TimerOf[r] \in poll'.set <=> TimerOf[r] \in poll.set
  <2>1. \A p \in Obj \ S : p \in poll'.set <=> p \in poll.set
    BY <1>1
  <2>2. r \in Obj \ S /\ TimerOf[r] \in Obj \ S
    BY KindsApart
  <2> QED BY <2>1, <2>2
<1>2. BatchInv'
  BY DEF IInv, BatchInv
<1>3. ResultInv'
  <2>1. ASSUME NEW r \in Res, ~stale, ret[r] = "ok"
        PROVE  \/ result[r] = "live"
               \/ result[r] = "freed" /\ r \notin poll'.set /\ batch[r] = {} /\ event'[r] = {}
    <3>1. r \in Obj /\ (r \in poll'.set <=> r \in poll.set)
      BY <1>1, <2>1, KindsApart
    <3> QED BY <2>1, <3>1 DEF IInv, ResultInv
  <2> QED BY <2>1 DEF ResultInv
<1>4. DrivenInv'
  <2>1. Running' => Running
    BY DEF Running
  <2>2. ASSUME NEW r \in waiting \ lost, Running, ~stale
        PROVE  \/ r \in poll'.set /\ (flying[r] > 0 \/ r \in unheard)
               \/ due'[TimerOf[r]] # "no" /\ TimerOf[r] \in poll'.set
    <3>0. r \in Res
      BY <2>2 DEF IInv, TypeOK
    <3>1. /\ due'[TimerOf[r]] = due[TimerOf[r]]
          /\ r \in poll'.set <=> r \in poll.set
          /\ TimerOf[r] \in poll'.set <=> TimerOf[r] \in poll.set
      BY <1>1, <2>2, <3>0
    <3> QED BY <2>2, <3>1 DEF IInv, DrivenInv
  <2>3. unheard # {} => pending
    BY DEF IInv, DrivenInv
  <2> QED BY <2>1, <2>2, <2>3 DEF DrivenInv
<1>5. NoFreedObject'
  BY DEF IInv, NoFreedObject
<1> QED BY <1>2, <1>3, <1>4, <1>5 DEF IInv
-----------------------------------------------------------------------------
(* The loop. *)

LEMMA InitIInv == Init => IInv
<1> SUFFICES ASSUME Init PROVE IInv
  OBVIOUS
<1> USE DEF Init, PollableInit, ResolverInit, AvahiInit
<1>1. Obj # {} /\ 1 \in Numbers
  <2>1. NFd \in Nat /\ CtrlC \in Obj
    BY FS_CardinalityType, PollableAssumption DEF NFd
  <2>2. NFd # 0
    BY <2>1, FS_EmptySet, PollableAssumption DEF NFd
  <2> QED BY <2>1, <2>2 DEF Numbers
<1>2. TypeOK
  <2>1. /\ fd \in [Obj -> Numbers \cup {NoFd}] /\ owner \in [Numbers -> Obj \cup {Nobody}]
        /\ LoopTypeOK
    BY <1>1, KindsApart DEF LoopTypeOK, None
  <2>2. faults \in 0..MaxFaults /\ moves \in 0..MaxMoves
    BY PollableAssumption
  <2>3. /\ due \in [Timers -> {"no", "armed", "expired"}] /\ ctrlC \in BOOLEAN /\ stale \in BOOLEAN
        /\ life \in [Avahi -> {"new", "alive", "freed"}]
        /\ data \in BOOLEAN /\ doubled \in BOOLEAN /\ fetched \in BOOLEAN
    OBVIOUS
  <2>4. /\ flying \in [Res -> Nat] /\ ret \in [Res -> {"progress", "ok", "failed"}]
        /\ result \in [Res -> {"none", "unset", "live", "freed"}] /\ pending \in BOOLEAN
        /\ unheard \subseteq Res /\ waiting \subseteq Res /\ lost \subseteq Res
    OBVIOUS
  <2> HIDE DEF Init, PollableInit, ResolverInit, AvahiInit
  <2> QED BY <2>1, <2>2, <2>3, <2>4 DEF TypeOK
<1>3. FdInv
  BY <1>1, KindsApart, Apart DEF FdInv, Sound, Tidy, Kernel
<1>4. WatchInv
  BY KindsApart DEF WatchInv, Avahi
<1>5. BatchInv
  BY KindsApart DEF BatchInv, None, Avahi
<1>6. ResultInv /\ DrivenInv /\ NoFreedObject
  BY DEF ResultInv, DrivenInv, NoFreedObject
<1> QED BY <1>2, <1>3, <1>4, <1>5, <1>6 DEF IInv

\* epoll_wait reports no freed object, which is not registered.
LEMMA FetchIInv == IInv /\ Fetch => IInv'
<1> SUFFICES ASSUME IInv, Fetch PROVE IInv'
  OBVIOUS
<1>1. /\ UNCHANGED <<poll, event, loop, pollableVars, resolverVars, avahiVars>>
      /\ event = None /\ batch = None /\ Running
      /\ batch' = [o \in Obj |-> IF o \in poll.set /\ Ready[o] # {} THEN Ready[o] ELSE {}]
  BY DEF Fetch, Wait, Idle, Running
<1>2. \A o \in Obj : Ready[o] \in {{}, {"IN"}}
  BY DEF Ready
<1>3. /\ batch' \in [Obj -> SUBSET {"IN"}]
      /\ \A o \in Obj : batch'[o] # {} => o \in poll.set
  BY <1>1, <1>2
<1>5. TypeOK'
  BY <1>1, <1>3 DEF IInv, TypeOK, LoopTypeOK, Bits, pollableVars, resolverVars, avahiVars
<1>6. FdInv'
  BY <1>1 DEF IInv, FdInv, Sound, Tidy, Kernel, pollableVars
<1>7. WatchInv' /\ NoFreedObject'
  BY <1>1 DEF IInv, WatchInv, NoFreedObject, pollableVars, avahiVars, resolverVars
<1>8. BatchInv'
  <2>1. \A o \in Obj : event'[o] = {} /\ batch'[o] \subseteq {"IN"}
    BY <1>1, <1>3 DEF None
  <2>2. ASSUME NEW o \in Avahi, life[o] = "freed", ~doubled, ~stale PROVE o \notin poll.set
    <3>1. CASE o \in Watches
      BY <2>2, <3>1 DEF IInv, WatchInv
    <3>2. CASE o \in Timeouts
      <4>1. fd[o] = NoFd /\ o \in Obj \ Watches
        BY <2>2, <3>2, KindsApart DEF IInv, WatchInv
      <4> QED BY <2>2, <4>1 DEF IInv, FdInv, Tidy, Kernel
    <3> QED BY <2>2, <3>1, <3>2 DEF Avahi
  <2>3. ~(fetched \/ doubled \/ stale) => \A o \in Avahi : life[o] = "freed" => batch'[o] = {}
    BY <1>3, <2>2, KindsApart
  <2> QED BY <1>1, <2>1, <2>3 DEF BatchInv, pollableVars, avahiVars
<1>9. ResultInv' /\ DrivenInv'
  <2>1. ASSUME NEW r \in Res, ~stale, ret[r] = "ok"
        PROVE  result[r] = "live" \/ (result[r] = "freed" /\ r \notin poll.set /\ batch'[r] = {} /\ event[r] = {})
    BY <1>3, <2>1, KindsApart DEF IInv, ResultInv
  <2>2. ResultInv'
    BY <1>1, <2>1 DEF ResultInv, pollableVars, resolverVars
  <2>3. DrivenInv'
    BY <1>1 DEF IInv, DrivenInv, Running, pollableVars, resolverVars
  <2> QED BY <2>2, <2>3
<1> QED BY <1>5, <1>6, <1>7, <1>8, <1>9 DEF IInv

\* A freed object is dispatched only if Avahi freed it after the wait, or the
\* exceptions hold.
LEMMA NextEventIInv == IInv /\ NextEvent => IInv'
<1> SUFFICES ASSUME IInv, NextEvent PROVE IInv'
  OBVIOUS
<1>1. PICK o \in Obj : Dispatch(o, Freed(o))
  BY DEF NextEvent
<1>2. /\ UNCHANGED <<poll, pollableVars, resolverVars, avahiVars>>
      /\ event = None /\ batch[o] # {} /\ Running
      /\ batch' = [batch EXCEPT ![o] = {}]
      /\ event' = IF Freed(o) THEN event ELSE [event EXCEPT ![o] = batch[o]]
      /\ loop' = IF Freed(o) THEN "undefined" ELSE loop
  BY <1>1 DEF NextEvent, Dispatch, Idle, Running
<1>3. /\ batch \in [Obj -> SUBSET Bits] /\ event \in [Obj -> SUBSET Bits]
      /\ batch' \in [Obj -> SUBSET Bits] /\ event' \in [Obj -> SUBSET Bits]
      /\ loop' \in {"run", "stop", "end", "undefined"}
  BY <1>2 DEF IInv, TypeOK, LoopTypeOK
<1>4. TypeOK'
  BY <1>2, <1>3 DEF IInv, TypeOK, LoopTypeOK, pollableVars, resolverVars, avahiVars
<1>5. FdInv'
  BY <1>2 DEF IInv, FdInv, Sound, Tidy, Kernel, pollableVars
<1>6. WatchInv'
  BY <1>2 DEF IInv, WatchInv, pollableVars, avahiVars
<1>7. \A p \in Obj : /\ batch'[p] = IF p = o THEN {} ELSE batch[p]
                     /\ event[p] = {}
                     /\ event'[p] # {} => p = o /\ event'[p] = batch[p]
  BY <1>2, <1>3 DEF None
<1>8. BatchInv'
  <2>1. \A p \in Obj : /\ batch'[p] \subseteq {"IN"} /\ event'[p] \subseteq {"IN"}
                       /\ event'[p] # {} => batch'[p] = {}
    BY <1>7 DEF IInv, BatchInv
  <2>2. ~(fetched \/ doubled \/ stale) => \A p \in Avahi : life[p] = "freed" => batch'[p] = {}
    BY <1>7, KindsApart DEF IInv, BatchInv
  <2> QED BY <1>2, <2>1, <2>2 DEF BatchInv, pollableVars, avahiVars
<1>9. ResultInv' /\ DrivenInv'
  <2>1. ASSUME NEW r \in Res, ~stale, ret[r] = "ok"
        PROVE  result[r] = "live" \/ (result[r] = "freed" /\ r \notin poll.set /\ batch'[r] = {} /\ event'[r] = {})
    BY <1>2, <1>7, <2>1, KindsApart DEF IInv, ResultInv
  <2>2. ResultInv'
    BY <1>2, <2>1 DEF ResultInv, pollableVars, resolverVars
  <2>3. DrivenInv'
    BY <1>2 DEF IInv, DrivenInv, Running, pollableVars, resolverVars
  <2> QED BY <2>2, <2>3
<1>10. NoFreedObject'
  BY <1>2 DEF IInv, NoFreedObject, BatchInv, Freed, Running, pollableVars, resolverVars, avahiVars
<1> QED BY <1>4, <1>5, <1>6, <1>8, <1>9, <1>10 DEF IInv
\* The loop ends: what was listed holds nothing.
LEMMA EndIInv == IInv /\ End => IInv'
<1> SUFFICES ASSUME IInv, End PROVE IInv'
  OBVIOUS
<1>1. PICK L, own : /\ L = {o \in Obj : poll.listed[o] > 0}
                    /\ own = {o \in L : o \in Held(Kernel, o)}
  OBVIOUS
<1>2. /\ LeaveLoop(own, \E o \in L : Freed(o))
      /\ fd' = [o \in Obj |-> IF o \in L THEN NoFd ELSE fd[o]]
      /\ owner' = [n \in Numbers |-> IF \E o \in L : fd[o] = n THEN Nobody ELSE owner[n]]
      /\ UNCHANGED <<due, ctrlC, stale, faults, moves, resolverVars, avahiVars>>
  BY <1>1 DEF End
<1>3. /\ loop' = IF \E o \in L : Freed(o) THEN "undefined" ELSE "end"
      /\ poll' = [set |-> poll.set \ own, listed |-> [o \in Obj |-> 0]]
      /\ UNCHANGED <<batch, event>> /\ ~Running'
  BY <1>2 DEF LeaveLoop, Running
<1>4. /\ fd \in [Obj -> Numbers \cup {NoFd}] /\ owner \in [Numbers -> Obj \cup {Nobody}]
      /\ poll.set \in SUBSET Obj /\ poll.listed \in [Obj -> Nat]
  BY DEF IInv, TypeOK, LoopTypeOK
<1>5. /\ fd' \in [Obj -> Numbers \cup {NoFd}] /\ owner' \in [Numbers -> Obj \cup {Nobody}]
      /\ poll' \in [set : SUBSET Obj, listed : [Obj -> Nat]]
  BY <1>2, <1>3, <1>4
<1>6. TypeOK'
  BY <1>2, <1>3, <1>5 DEF IInv, TypeOK, LoopTypeOK, resolverVars, avahiVars
<1>7. /\ Kernel \in KernelSet /\ Sound(Kernel) /\ (~stale => Tidy(Kernel))
  BY KernelType DEF IInv, FdInv
<1>8. Sound(Kernel')
  <2>1. \A n \in Numbers : owner'[n] # Nobody => fd'[owner'[n]] = n
    BY <1>2, <1>4, <1>7 DEF Sound, Kernel
  <2>2. \A w \in Watches : fd'[w] = NoFd
    BY <1>2, <1>4, <1>7, KindsApart DEF Sound, Kernel
  <2> QED BY <2>1, <2>2 DEF Sound, Kernel
<1>9. ASSUME ~stale, NEW o \in Obj \ Watches
      PROVE  /\ fd'[o] # NoFd => owner'[fd'[o]] = o
             /\ o \in poll'.set <=> fd'[o] # NoFd
             /\ poll'.listed[o] = 0
  <2>1. /\ fd[o] # NoFd => owner[fd[o]] = o
        /\ o \in poll.set <=> fd[o] # NoFd
        /\ fd[o] = NoFd => poll.listed[o] = 0
    BY <1>7, <1>9 DEF Tidy, Kernel
  <2>2. CASE o \in L
    <3>1. fd[o] # NoFd
      BY <1>1, <2>1, <2>2
    <3>2. Held(Kernel, o) = {o}
      BY <1>7, <1>9, <3>1, HeldResult DEF Kernel
    <3>3. o \notin poll'.set
      BY <1>1, <1>3, <2>2, <3>2
    <3> QED BY <1>2, <1>3, <2>2, <3>3
  <2>3. CASE o \notin L
    <3>1. fd'[o] = fd[o] /\ o \notin own
      BY <1>1, <1>2, <2>3
    <3>2. ASSUME fd[o] # NoFd PROVE owner'[fd[o]] = o
      <4>1. fd[o] \in Numbers /\ owner[fd[o]] = o
        BY <1>4, <2>1, <3>2
      <4>2. ASSUME NEW p \in L, fd[p] = fd[o] PROVE FALSE
        <5>1. p \in Obj \ Watches
          BY <1>1, <1>7, <3>2, <4>2 DEF Sound, Kernel
        <5>2. owner[fd[p]] = p
          BY <1>7, <1>9, <3>2, <4>2, <5>1 DEF Tidy, Kernel
        <5> QED BY <2>3, <4>1, <4>2, <5>2
      <4> QED BY <1>2, <4>1, <4>2
    <3> QED BY <1>3, <2>1, <3>1, <3>2
  <2> QED BY <2>2, <2>3
<1>10. FdInv'
  <2>1. ~stale' => Tidy(Kernel')
    BY <1>2, <1>9 DEF Tidy, Kernel
  <2> QED BY <1>8, <2>1, FdInvStep
<1>11. WatchInv'
  <2>1. ASSUME NEW w \in Watches
        PROVE  (w \in poll'.set <=> w \in poll.set) /\ poll'.listed[w] = 0
    <3>1. Held(Kernel, w) = {} /\ w \in Obj
      BY <1>7, KindsApart DEF Sound, Held
    <3> QED BY <1>1, <1>3, <3>1
  <2>2. \A t \in Timeouts : fd[t] = NoFd => fd'[t] = NoFd
    BY <1>2, KindsApart
  <2> QED BY <1>2, <2>1, <2>2 DEF IInv, WatchInv, avahiVars
<1>12. BatchInv' /\ DrivenInv'
  BY <1>2, <1>3 DEF IInv, BatchInv, DrivenInv, resolverVars, avahiVars
<1>13. ResultInv'
  BY <1>2, <1>3 DEF IInv, ResultInv, resolverVars
<1>14. NoFreedObject'
  <2>1. ASSUME NEW o \in L, Freed(o), ~stale, ~doubled PROVE FALSE
    <3>1. o \in Avahi /\ life[o] = "freed" /\ o \in Obj /\ poll.listed[o] > 0
      BY <1>1, <2>1 DEF Freed
    <3>2. CASE o \in Watches
      BY <2>1, <3>1, <3>2 DEF IInv, WatchInv
    <3>3. CASE o \in Timeouts
      BY <1>7, <2>1, <3>1, <3>3, KindsApart DEF IInv, WatchInv, Tidy, Kernel
    <3> QED BY <3>1, <3>2, <3>3 DEF Avahi
  <2>2. loop' = "undefined" => stale \/ doubled
    BY <1>3, <2>1
  <2> QED BY <1>2, <2>2 DEF NoFreedObject, avahiVars
<1> QED BY <1>6, <1>10, <1>11, <1>12, <1>13, <1>14 DEF IInv

-----------------------------------------------------------------------------
(* The resolvers. *)

\* A bit has been handled.
LEMMA HandledResult ==
  ASSUME TypeOK, NEW o \in Obj, Handled(o, "IN")
  PROVE  /\ event' \in [Obj -> SUBSET Bits]
         /\ \A p \in Obj : event'[p] = IF p = o THEN event[p] \ {"IN"} ELSE event[p]
BY DEF TypeOK, LoopTypeOK, Handled

\* AddrInfo::init, by a client or the timer.
LEMMA QueryIInv ==
  ASSUME IInv, TypeOK', NEW r \in Res, NEW how \in Hows, Query(r, how),
         UNCHANGED <<batch, loop, result, pending, unheard, avahiVars>>,
         \A o \in Obj : event'[o] \subseteq event[o],
         \A q \in Res \ {r} : due'[TimerOf[q]] = due[TimerOf[q]]
  PROVE  IInv'
<1>1. /\ Touches(Kernel, {r}) /\ stale' \in BOOLEAN /\ (stale => stale')
      /\ \/ /\ flying' = [flying EXCEPT ![r] = @ + 1] /\ ret' = [ret EXCEPT ![r] = "progress"]
            /\ waiting' = waiting \cup {r} /\ lost' = lost \ {r}
            /\ r \in poll'.set
         \/ /\ UNCHANGED <<flying, ret, waiting>> /\ lost' = lost \cup {r}
            /\ ~stale' => r \notin poll'.set
  BY QueryResult DEF IInv
<1>2. /\ FdInv' /\ SameWatches(Kernel, Kernel')
      /\ \A p \in Obj \ {r} : fd'[p] = fd[p]
      /\ ~stale' => \A p \in Obj \ {r} : p \in poll'.set <=> p \in poll.set
  BY <1>1 DEF Touches, Kernel
<1>3. WatchInv'
  <2>1. \A t \in Timeouts : fd'[t] = fd[t]
    BY <1>2, KindsApart
  <2> QED BY <1>2, <2>1, WatchStep DEF IInv, SameWatches, avahiVars
<1>4. BatchInv'
  BY <1>1 DEF IInv, BatchInv, avahiVars
<1>5. flying \in [Res -> Nat] /\ ret \in [Res -> {"progress", "ok", "failed"}] /\ waiting \subseteq Res
  BY DEF IInv, TypeOK
<1>6. ResultInv'
  <2>1. ASSUME NEW q \in Res, ~stale', ret'[q] = "ok"
        PROVE  \/ result[q] = "live"
               \/ result[q] = "freed" /\ q \notin poll'.set /\ batch[q] = {} /\ event'[q] = {}
    <3>1. ret[q] = "ok" /\ (q = r => q \notin poll'.set)
      BY <1>1, <1>5, <2>1
    <3>2. q \in Obj /\ (q # r => (q \in poll'.set <=> q \in poll.set))
      BY <1>2, <2>1, KindsApart
    <3> QED BY <1>1, <2>1, <3>1, <3>2 DEF IInv, ResultInv
  <2> QED BY <2>1 DEF ResultInv
<1>7. DrivenInv'
  <2>1. Running' => Running
    BY DEF Running
  <2>2. ASSUME NEW q \in waiting' \ lost', Running, ~stale'
        PROVE  \/ q \in poll'.set /\ (flying'[q] > 0 \/ q \in unheard)
               \/ due'[TimerOf[q]] # "no" /\ TimerOf[q] \in poll'.set
    <3>1. CASE q = r
      BY <1>1, <1>5, <2>2, <3>1
    <3>2. CASE q # r
      <4>1. /\ q \in waiting \ lost /\ q \in Res /\ flying'[q] = flying[q]
            /\ due'[TimerOf[q]] = due[TimerOf[q]]
        BY <1>1, <1>5, <2>2, <3>2
      <4>2. /\ q \in poll'.set <=> q \in poll.set
            /\ TimerOf[q] \in poll'.set <=> TimerOf[q] \in poll.set
        <5>1. q \in Obj \ {r} /\ TimerOf[q] \in Obj \ {r}
          BY <3>2, <4>1, KindsApart
        <5> QED BY <1>2, <2>2, <5>1
      <4> QED BY <1>1, <2>2, <4>1, <4>2 DEF IInv, DrivenInv
    <3> QED BY <3>1, <3>2
  <2>3. unheard # {} => pending
    BY DEF IInv, DrivenInv
  <2> QED BY <2>1, <2>2, <2>3 DEF DrivenInv
<1>8. NoFreedObject'
  BY <1>1, <1>5 DEF IInv, NoFreedObject, avahiVars
<1> QED BY <1>2, <1>3, <1>4, <1>6, <1>7, <1>8 DEF IInv

LEMMA AskIInv ==
  ASSUME IInv, NEW r \in Res, NEW how \in Hows, Ask(r, how), UNCHANGED avahiVars
  PROVE  IInv'
<1>1. /\ Query(r, how) /\ Move
      /\ UNCHANGED <<batch, event, loop, due, ctrlC, result, pending, unheard>>
  BY DEF Ask
<1>2. /\ Touches(Kernel, {r}) /\ faults' \in 0..MaxFaults /\ stale' \in BOOLEAN
      /\ \/ /\ flying' = [flying EXCEPT ![r] = @ + 1] /\ ret' = [ret EXCEPT ![r] = "progress"]
            /\ waiting' = waiting \cup {r} /\ lost' = lost \ {r}
         \/ UNCHANGED <<flying, ret, waiting>> /\ lost' = lost \cup {r}
  BY <1>1, QueryResult DEF IInv
<1>3. /\ flying' \in [Res -> Nat] /\ ret' \in [Res -> {"progress", "ok", "failed"}]
      /\ waiting' \subseteq Res /\ lost' \subseteq Res
  BY <1>2 DEF IInv, TypeOK
<1>4. moves' \in 0..MaxMoves
  BY <1>1, PollableAssumption DEF Move, IInv, TypeOK
<1>5. TypeOK'
  BY <1>1, <1>2, <1>3, <1>4 DEF IInv, TypeOK, LoopTypeOK, Touches, avahiVars
<1> QED BY <1>1, <1>5, QueryIInv

LEMMA TimerAsksIInv ==
  ASSUME IInv, NEW r \in Res, NEW how \in Hows, TimerAsks(r, how), UNCHANGED avahiVars
  PROVE  IInv'
<1>1. /\ Query(r, how) /\ Handled(TimerOf[r], "IN") /\ due' = [due EXCEPT ![TimerOf[r]] = "no"]
      /\ UNCHANGED <<batch, loop, ctrlC, moves, result, pending, unheard>>
  BY DEF TimerAsks
<1>2. /\ Touches(Kernel, {r}) /\ faults' \in 0..MaxFaults /\ stale' \in BOOLEAN
      /\ \/ /\ flying' = [flying EXCEPT ![r] = @ + 1] /\ ret' = [ret EXCEPT ![r] = "progress"]
            /\ waiting' = waiting \cup {r} /\ lost' = lost \ {r}
         \/ UNCHANGED <<flying, ret, waiting>> /\ lost' = lost \cup {r}
  BY <1>1, QueryResult DEF IInv
<1>3. /\ flying' \in [Res -> Nat] /\ ret' \in [Res -> {"progress", "ok", "failed"}]
      /\ waiting' \subseteq Res /\ lost' \subseteq Res
  BY <1>2 DEF IInv, TypeOK
<1>4. /\ TimerOf[r] \in Timers /\ TimerOf[r] \in Obj
      /\ \A q \in Res \ {r} : TimerOf[q] \in Timers /\ TimerOf[q] # TimerOf[r]
  BY KindsApart
<1>5. /\ due' \in [Timers -> {"no", "armed", "expired"}]
      /\ \A q \in Res \ {r} : due'[TimerOf[q]] = due[TimerOf[q]]
  BY <1>1, <1>4 DEF IInv, TypeOK
<1>6. event' \in [Obj -> SUBSET Bits] /\ \A o \in Obj : event'[o] \subseteq event[o]
  BY <1>1, <1>4, HandledResult DEF IInv
<1>7. TypeOK'
  BY <1>1, <1>2, <1>3, <1>5, <1>6 DEF IInv, TypeOK, LoopTypeOK, Touches, avahiVars
<1> QED BY <1>1, <1>5, <1>6, <1>7, QueryIInv
LEMMA LookupIInv ==
  ASSUME IInv, NEW r \in Res, NEW how \in {"ok", "failed"}, LookupEnds(r, how), UNCHANGED avahiVars
  PROVE  IInv'
<1>1. /\ flying[r] > 0 /\ flying' = [flying EXCEPT ![r] = @ - 1] /\ ret' = [ret EXCEPT ![r] = how]
      /\ result' = IF how = "ok" THEN [result EXCEPT ![r] = "live"] ELSE result
      /\ pending' = TRUE /\ unheard' = unheard \cup {r}
      /\ UNCHANGED <<poll, batch, event, loop, fd, owner, due, ctrlC, stale, moves, waiting, lost>>
      /\ loop = "run"
  BY DEF LookupEnds, loopVars, fdVars
<1>2. faults' \in 0..MaxFaults
  BY PollableAssumption DEF LookupEnds, Fault, NoFault, IInv, TypeOK
<1>3. /\ flying \in [Res -> Nat] /\ flying' \in [Res -> Nat]
      /\ ret \in [Res -> {"progress", "ok", "failed"}] /\ ret' \in [Res -> {"progress", "ok", "failed"}]
      /\ result \in [Res -> {"none", "unset", "live", "freed"}]
      /\ result' \in [Res -> {"none", "unset", "live", "freed"}]
      /\ waiting \subseteq Res
  BY <1>1 DEF IInv, TypeOK
<1>4. TypeOK'
  BY <1>1, <1>2, <1>3 DEF IInv, TypeOK, LoopTypeOK, avahiVars
<1>5. FdInv'
  BY <1>1 DEF IInv, FdInv, Sound, Tidy, Kernel
<1>6. WatchInv' /\ BatchInv'
  BY <1>1 DEF IInv, WatchInv, BatchInv, avahiVars
<1>7. ResultInv'
  <2>1. ASSUME NEW q \in Res, ~stale, ret'[q] = "ok"
        PROVE  \/ result'[q] = "live"
               \/ result'[q] = "freed" /\ q \notin poll.set /\ batch[q] = {} /\ event[q] = {}
    <3>1. CASE q = r
      BY <1>1, <1>3, <2>1, <3>1
    <3>2. CASE q # r
      BY <1>1, <1>3, <2>1, <3>2 DEF IInv, ResultInv
    <3> QED BY <3>1, <3>2
  <2> QED BY <1>1, <2>1 DEF ResultInv
<1>8. DrivenInv'
  <2>1. ASSUME NEW q \in waiting \ lost, Running, ~stale
        PROVE  \/ q \in poll.set /\ (flying'[q] > 0 \/ q \in unheard')
               \/ due[TimerOf[q]] # "no" /\ TimerOf[q] \in poll.set
    <3>1. CASE q = r
      BY <1>1, <2>1, <3>1 DEF IInv, DrivenInv
    <3>2. CASE q # r
      BY <1>1, <1>3, <2>1, <3>2 DEF IInv, DrivenInv
    <3> QED BY <3>1, <3>2
  <2>2. Running' = Running
    BY <1>1 DEF Running
  <2> QED BY <1>1, <2>1, <2>2 DEF DrivenInv
<1>9. NoFreedObject'
  BY <1>1 DEF NoFreedObject
<1> QED BY <1>4, <1>5, <1>6, <1>7, <1>8, <1>9 DEF IInv

\* A resolver reads the signal, and frees its result once.
LEMMA TakesIInv ==
  ASSUME IInv, TypeOK', NEW r \in Res, Takes(r), Frees(r),
         Touches(Kernel, {r, TimerOf[r]}), ~stale => r \notin poll'.set,
         UNCHANGED <<batch, flying, ret, avahiVars>>,
         lost \cup (unheard \ {r}) \subseteq lost', waiting' \subseteq waiting,
         \A u \in Timers : due'[u] = "no" => due[u] = "no",
         ~stale /\ TimerOf[r] \in poll.set => TimerOf[r] \in poll'.set,
         r \in waiting' \ lost' => due'[TimerOf[r]] # "no" /\ (~stale => TimerOf[r] \in poll'.set)
  PROVE  IInv'
<1>1. /\ Handled(r, "IN") /\ pending' = FALSE /\ unheard' = {} /\ UNCHANGED stale
      /\ Running /\ "IN" \in event[r]
      /\ result' = [result EXCEPT ![r] = IF @ = "none" THEN @ ELSE "freed"]
      /\ loop' = IF result[r] \in {"unset", "freed"} THEN "undefined" ELSE loop
  BY DEF Takes, Frees, Current
<1>2. /\ FdInv' /\ SameWatches(Kernel, Kernel')
      /\ \A p \in Obj \ {r, TimerOf[r]} : fd'[p] = fd[p]
      /\ ~stale => \A p \in Obj \ {r, TimerOf[r]} : p \in poll'.set <=> p \in poll.set
  BY <1>1 DEF Touches, Kernel
<1>3. /\ r \in Obj /\ TimerOf[r] \in Timers \ Timeouts
      /\ result \in [Res -> {"none", "unset", "live", "freed"}] /\ waiting \subseteq Res
      /\ \A o \in Obj : event'[o] = IF o = r THEN event[o] \ {"IN"} ELSE event[o]
  BY <1>1, KindsApart, HandledResult DEF IInv, TypeOK
<1>4. WatchInv'
  <2>1. \A t \in Timeouts : fd'[t] = fd[t]
    BY <1>2, <1>3, KindsApart
  <2> QED BY <1>2, <2>1, WatchStep DEF IInv, SameWatches, avahiVars
<1>5. BatchInv' /\ batch[r] = {} /\ event'[r] = {}
  <2>1. /\ \A o \in Obj : event'[o] = IF o = r THEN event[o] \ {"IN"} ELSE event[o]
        /\ r \in Obj /\ "IN" \in event[r] /\ UNCHANGED stale
    BY <1>1, <1>3
  <2> QED BY <2>1 DEF IInv, BatchInv, avahiVars
<1>6. ASSUME ~stale, ret[r] = "ok" PROVE result[r] = "live"
  BY <1>1, <1>6, ReadsOn DEF IInv
<1>7. ResultInv'
  <2>1. ASSUME NEW q \in Res, ~stale, ret[q] = "ok"
        PROVE  \/ result'[q] = "live"
               \/ result'[q] = "freed" /\ q \notin poll'.set /\ batch[q] = {} /\ event'[q] = {}
    <3>1. CASE q = r
      BY <1>1, <1>3, <1>5, <1>6, <2>1, <3>1
    <3>2. CASE q # r
      <4>1. q \in Obj \ {r, TimerOf[r]}
        BY <2>1, <3>2, KindsApart
      <4> QED BY <1>1, <1>2, <1>3, <2>1, <3>2, <4>1 DEF IInv, ResultInv
    <3> QED BY <3>1, <3>2
  <2> QED BY <1>1, <2>1 DEF ResultInv
<1>8. DrivenInv'
  <2>1. ASSUME NEW q \in waiting' \ lost', ~stale
        PROVE  \/ q \in poll'.set /\ flying[q] > 0
               \/ due'[TimerOf[q]] # "no" /\ TimerOf[q] \in poll'.set
    <3>1. CASE q = r
      BY <2>1, <3>1
    <3>2. CASE q # r
      <4>1. q \in waiting \ lost /\ q \notin unheard /\ q \in Res
        BY <1>3, <2>1, <3>2
      <4>2. /\ q \in Obj \ {r, TimerOf[r]} /\ TimerOf[q] \in Timers
            /\ TimerOf[q] \in Obj \ {r, TimerOf[r]}
        BY <3>2, <4>1, KindsApart
      <4>3. /\ q \in poll'.set <=> q \in poll.set
            /\ TimerOf[q] \in poll'.set <=> TimerOf[q] \in poll.set
            /\ due'[TimerOf[q]] = "no" => due[TimerOf[q]] = "no"
        BY <1>2, <2>1, <4>2
      <4>4. \/ q \in poll.set /\ (flying[q] > 0 \/ q \in unheard)
            \/ due[TimerOf[q]] # "no" /\ TimerOf[q] \in poll.set
        BY <1>1, <2>1, <4>1 DEF IInv, DrivenInv
      <4> QED BY <4>1, <4>3, <4>4
    <3> QED BY <3>1, <3>2
  <2> QED BY <1>1, <2>1 DEF DrivenInv
<1>9. NoFreedObject'
  <2>1. ASSUME result[r] \in {"unset", "freed"}, ~stale PROVE result'[r] = "freed" /\ ret[r] # "ok"
    BY <1>1, <1>3, <1>6, <2>1
  <2>2. loop' = "undefined" => result[r] \in {"unset", "freed"}
    BY <1>1 DEF Running
  <2> QED BY <1>1, <2>1, <2>2 DEF NoFreedObject, avahiVars
<1> QED BY <1>2, <1>4, <1>5, <1>7, <1>8, <1>9 DEF IInv

\* The types after a signal was read.
LEMMA TakesType ==
  ASSUME TypeOK, NEW r \in Res, Takes(r), Frees(r), NEW k, NEW S, Touches(k, S), faults' \in 0..MaxFaults,
         UNCHANGED <<batch, ctrlC, moves, flying, ret, avahiVars>>,
         waiting' \subseteq Res, lost' \subseteq Res,
         due' \in [Timers -> {"no", "armed", "expired"}]
  PROVE  TypeOK'
<1>1. /\ Handled(r, "IN") /\ pending' = FALSE /\ unheard' = {} /\ UNCHANGED stale
      /\ result' = [result EXCEPT ![r] = IF @ = "none" THEN @ ELSE "freed"]
      /\ loop' = IF result[r] \in {"unset", "freed"} THEN "undefined" ELSE loop
  BY DEF Takes, Frees
<1>2. event' \in [Obj -> SUBSET Bits]
  BY <1>1, HandledResult, KindsApart
<1>3. /\ result' \in [Res -> {"none", "unset", "live", "freed"}]
      /\ loop' \in {"run", "stop", "end", "undefined"}
  BY <1>1 DEF TypeOK, LoopTypeOK
<1> QED BY <1>1, <1>2, <1>3 DEF TypeOK, LoopTypeOK, Touches, avahiVars

LEMMA AnswersIInv ==
  ASSUME IInv, NEW r \in Res, Answers(r), UNCHANGED avahiVars
  PROVE  IInv'
<1>1. /\ Takes(r) /\ Frees(r) /\ Becomes(Release(Kernel, r)) /\ NoFault /\ UNCHANGED stale
      /\ waiting' = waiting \ {r} /\ lost' = lost \cup (unheard \ {r})
      /\ UNCHANGED <<batch, due, ctrlC, moves, flying, ret>>
  BY DEF Answers, Takes
<1>2. r \in Obj \ Watches /\ TimerOf[r] \in Obj \ {r}
  BY KindsApart
<1>3. Touches(Kernel, {r}) /\ (~stale => r \notin poll'.set)
  BY <1>1, <1>2, ReleaseStep DEF IInv
<1>4. Touches(Kernel, {r, TimerOf[r]})
  BY <1>3 DEF Touches
<1>5. ~stale /\ TimerOf[r] \in poll.set => TimerOf[r] \in poll'.set
  BY <1>1, <1>2, <1>3 DEF Touches, Kernel
<1>6. TypeOK'
  <2>1. /\ faults' \in 0..MaxFaults /\ due' \in [Timers -> {"no", "armed", "expired"}]
        /\ waiting' \subseteq Res /\ lost' \subseteq Res
    BY <1>1 DEF IInv, TypeOK, NoFault
  <2> QED BY <1>1, <1>3, <2>1, TakesType DEF IInv
<1> QED BY <1>1, <1>3, <1>4, <1>5, <1>6, TakesIInv

LEMMA FailsIInv ==
  ASSUME IInv, NEW r \in Res, NEW armed \in BOOLEAN, Fails(r, armed), UNCHANGED avahiVars
  PROVE  IInv'
<1>1. /\ Takes(r) /\ Frees(r) /\ ArmTimer(TimerOf[r], Release(Kernel, r), armed) /\ UNCHANGED stale
      /\ lost' = lost \cup (unheard \ {r}) \cup (IF armed THEN {} ELSE {r})
      /\ UNCHANGED <<batch, ctrlC, moves, flying, ret, waiting>>
  BY DEF Fails, Takes
<1>2. r \in Obj \ Watches /\ TimerOf[r] \in Obj \ {r} /\ TimerOf[r] \in Timers /\ r \in Obj
  BY KindsApart
<1>3. PICK k, m : k = Kernel /\ m = Release(Kernel, r)
  OBVIOUS
<1>4. k \in KernelSet /\ Sound(k) /\ (~stale => Tidy(k))
  BY <1>3, KernelType DEF IInv, FdInv
<1>5. /\ m \in KernelSet /\ Sound(m) /\ SameWatches(k, m)
      /\ m.fd = [k.fd EXCEPT ![r] = NoFd]
      /\ Tidy(k) => Tidy(m) /\ m.poll.set = k.poll.set \ {r}
  BY <1>2, <1>3, <1>4, ReleaseResult
<1>6. /\ due \in [Timers -> {"no", "armed", "expired"}] /\ faults \in 0..MaxFaults
      /\ ArmTimer(TimerOf[r], m, armed)
  BY <1>1, <1>3 DEF IInv, TypeOK
<1>7. /\ Touches(m, {TimerOf[r]}) /\ faults' \in 0..MaxFaults
      /\ due' \in [Timers -> {"no", "armed", "expired"}]
      /\ \A u \in Timers : due'[u] = "no" => due[u] = "no"
      /\ ~stale /\ TimerOf[r] \in m.poll.set => TimerOf[r] \in poll'.set
      /\ armed => due'[TimerOf[r]] = "armed" /\ (~stale => TimerOf[r] \in poll'.set)
  <2>1. /\ TimerOf[r] \in Timers /\ m \in KernelSet /\ Sound(m) /\ (~stale => Tidy(m))
        /\ UNCHANGED stale
    BY <1>1, <1>2, <1>4, <1>5
  <2> QED BY <1>6, <2>1, ArmResult
<1>8. Touches(k, {r, TimerOf[r]})
  <2>1. SameWatches(k, Kernel')
    BY <1>5, <1>7 DEF Touches, SameWatches
  <2>2. \A p \in Obj \ {r, TimerOf[r]} : fd'[p] = k.fd[p]
    BY <1>4, <1>5, <1>7 DEF Touches, KernelSet
  <2>3. ~stale' => \A p \in Obj \ {r, TimerOf[r]} : p \in poll'.set <=> p \in k.poll.set
    BY <1>1, <1>4, <1>5, <1>7 DEF Touches
  <2> QED BY <1>7, <2>1, <2>2, <2>3 DEF Touches
<1>9. ~stale => r \notin poll'.set /\ (TimerOf[r] \in poll.set => TimerOf[r] \in poll'.set)
  <2>1. ~stale => /\ r \in poll'.set <=> r \in m.poll.set
                  /\ m.poll.set = poll.set \ {r}
    BY <1>1, <1>2, <1>3, <1>4, <1>5, <1>7 DEF Touches, Kernel
  <2> QED BY <1>2, <1>7, <2>1
<1>10. TypeOK'
  <2>1. waiting' \subseteq Res /\ lost' \subseteq Res
    BY <1>1 DEF IInv, TypeOK
  <2> QED BY <1>1, <1>7, <2>1, TakesType DEF IInv
<1>11. r \in waiting' \ lost' => due'[TimerOf[r]] # "no" /\ (~stale => TimerOf[r] \in poll'.set)
  BY <1>1, <1>7
<1>12. lost \cup (unheard \ {r}) \subseteq lost' /\ waiting' \subseteq waiting
  BY <1>1
<1> QED BY <1>1, <1>3, <1>7, <1>8, <1>9, <1>10, <1>11, <1>12, TakesIInv
\* Without a signal to read, the expiration of a timer is taken only through a stale number.
LEMMA ReadsNothingIInv ==
  ASSUME IInv, NEW r \in Res, ReadsNothing(r), UNCHANGED avahiVars
  PROVE  IInv'
<1>1. /\ Handled(r, "IN")
      /\ due' = [t \in Timers |-> IF t \in Held(Kernel, r) /\ due[t] = "expired" THEN "no" ELSE due[t]]
      /\ UNCHANGED <<poll, batch, loop, fd, owner, ctrlC, stale, faults, moves>>
      /\ UNCHANGED <<flying, ret, result, pending, unheard, waiting, lost>>
  BY DEF ReadsNothing, fdVars, resolverVars
<1>2. r \in Obj \ Watches /\ r \in Obj /\ r \notin Timers
  BY KindsApart
<1>3. event' \in [Obj -> SUBSET Bits] /\ \A o \in Obj : event'[o] \subseteq event[o]
  BY <1>1, <1>2, HandledResult DEF IInv
<1>4. due' \in [Timers -> {"no", "armed", "expired"}]
  BY <1>1 DEF IInv, TypeOK
<1>5. TypeOK'
  BY <1>1, <1>3, <1>4 DEF IInv, TypeOK, LoopTypeOK, avahiVars
<1>6. ASSUME ~stale, NEW q \in Res PROVE due'[TimerOf[q]] = due[TimerOf[q]]
  <2>1. Held(Kernel, r) \subseteq {r}
    <3>1. Kernel \in KernelSet /\ Sound(Kernel) /\ Tidy(Kernel)
      BY <1>6, KernelType DEF IInv, FdInv
    <3> QED BY <1>2, <3>1, HeldResult
  <2> QED BY <1>1, <1>2, <2>1, KindsApart
<1> QED BY <1>1, <1>3, <1>5, <1>6, QuietIInv DEF avahiVars

-----------------------------------------------------------------------------
(* The timers, the signal handler and Avahi. *)

\* A handler that only reads.
LEMMA ReadIInv ==
  ASSUME IInv, NEW o \in Obj, Handled(o, "IN"),
         UNCHANGED <<poll, batch, loop, fd, owner, ctrlC, stale, faults, moves>>,
         UNCHANGED <<resolverVars, life, doubled, fetched>>,
         data' \in BOOLEAN, due' \in [Timers -> {"no", "armed", "expired"}],
         \A r \in Res : due'[TimerOf[r]] = due[TimerOf[r]]
  PROVE  IInv'
<1>1. event' \in [Obj -> SUBSET Bits] /\ \A p \in Obj : event'[p] \subseteq event[p]
  BY HandledResult DEF IInv
<1>2. TypeOK'
  BY <1>1 DEF IInv, TypeOK, LoopTypeOK, resolverVars
<1> QED BY <1>1, <1>2, QuietIInv DEF resolverVars

LEMMA ReadersIInv ==
  ASSUME IInv,
         \/ UNCHANGED <<resolverVars, avahiVars>> /\ \E t \in Timers : TimerStale(t)
         \/ UNCHANGED resolverVars /\ \E w \in Watches : WatchIN(w)
         \/ UNCHANGED resolverVars /\ \E t \in Timeouts : TimeoutIN(t)
  PROVE  IInv'
<1>1. due \in [Timers -> {"no", "armed", "expired"}] /\ data \in BOOLEAN
  BY DEF IInv, TypeOK
<1>2. ASSUME NEW t \in Timers, TimerStale(t), UNCHANGED <<resolverVars, avahiVars>> PROVE IInv'
  <2>1. t \in Obj
    BY KindsApart
  <2> QED BY <1>1, <1>2, <2>1, ReadIInv DEF TimerStale, pollableVars, avahiVars
<1>3. ASSUME NEW w \in Watches, WatchIN(w), UNCHANGED resolverVars PROVE IInv'
  <2>1. w \in Obj
    BY KindsApart
  <2> QED BY <1>1, <1>3, <2>1, ReadIInv DEF WatchIN, pollableVars
<1>4. ASSUME NEW t \in Timeouts, TimeoutIN(t), UNCHANGED resolverVars PROVE IInv'
  <2>1. /\ Handled(t, "IN") /\ due' = [due EXCEPT ![t] = "no"]
        /\ UNCHANGED <<poll, batch, loop, fd, owner, ctrlC, stale, faults, moves, avahiVars>>
    BY <1>4 DEF TimeoutIN, fdVars
  <2>2. due' \in [Timers -> {"no", "armed", "expired"}] /\ t \in Obj
    BY <1>1, <2>1, KindsApart
  <2>3. \A r \in Res : due'[TimerOf[r]] = due[TimerOf[r]]
    BY <1>1, <2>1, KindsApart
  <2> QED BY <1>1, <1>4, <2>1, <2>2, <2>3, ReadIInv DEF avahiVars
<1> QED BY <1>2, <1>3, <1>4

\* What happens around the process.
LEMMA OutsideIInv ==
  ASSUME IInv,
         \/ (\E t \in Timers : Expires(t)) /\ UNCHANGED <<resolverVars, avahiVars>>
         \/ Interrupt /\ UNCHANGED <<resolverVars, avahiVars>>
         \/ DataComes /\ UNCHANGED resolverVars
  PROVE  IInv'
<1>1. /\ UNCHANGED <<poll, batch, event, loop, fd, owner, stale, faults, life, doubled, fetched>>
      /\ UNCHANGED <<flying, ret, result, pending, unheard, waiting, lost>>
  BY DEF Expires, Interrupt, DataComes, loopVars, fdVars, otherVars, resolverVars, avahiVars
<1>2. /\ due' \in [Timers -> {"no", "armed", "expired"}]
      /\ \A u \in Timers : due'[u] = "no" => due[u] = "no"
  BY DEF IInv, TypeOK, Expires, Interrupt, DataComes, otherVars
<1>3. ctrlC' \in BOOLEAN /\ data' \in BOOLEAN
  BY DEF IInv, TypeOK, Expires, Interrupt, DataComes, otherVars, avahiVars
<1>4. moves' \in 0..MaxMoves
  BY PollableAssumption DEF IInv, TypeOK, Expires, Interrupt, DataComes, Move
<1>5. TypeOK'
  BY <1>1, <1>2, <1>3, <1>4 DEF IInv, TypeOK, LoopTypeOK
<1>6. \A r \in Res : due'[TimerOf[r]] = "no" => due[TimerOf[r]] = "no"
  BY <1>2, KindsApart
<1> QED BY <1>1, <1>5, <1>6, QuietIInv

\* The handler for Ctrl-C destroys itself.
LEMMA CtrlCIInv ==
  ASSUME IInv, CtrlCIN, UNCHANGED <<resolverVars, avahiVars>>
  PROVE  IInv'
<1>1. /\ Handled(CtrlC, "IN") /\ Running
      /\ UNCHANGED <<batch, due, ctrlC, stale, faults, moves>>
      /\ UNCHANGED <<flying, ret, result, pending, unheard, waiting, lost>>
      /\ UNCHANGED <<life, data, doubled, fetched>>
  BY DEF CtrlCIN, Current, resolverVars, avahiVars
<1>2. CtrlC \in Obj \ Watches /\ CtrlC \in Obj /\ CtrlC \notin Res /\ CtrlC \notin Timers
  BY KindsApart
<1>3. event' \in [Obj -> SUBSET Bits] /\ \A p \in Obj : event'[p] \subseteq event[p]
  BY <1>1, <1>2, HandledResult DEF IInv
<1>4. CASE loop' = "stop" /\ Becomes(Release(Kernel, CtrlC))
  <2>1. Touches(Kernel, {CtrlC})
    BY <1>1, <1>2, <1>4, ReleaseStep DEF IInv
  <2>2. TypeOK'
    BY <1>1, <1>3, <1>4, <2>1 DEF IInv, TypeOK, LoopTypeOK, Touches
  <2>3. /\ FdInv' /\ SameWatches(Kernel, Kernel')
        /\ \A p \in Obj \ {CtrlC} : fd'[p] = fd[p]
        /\ ~stale => \A p \in Obj \ {CtrlC} : p \in poll'.set <=> p \in poll.set
    BY <1>1, <2>1 DEF Touches, Kernel
  <2>4. WatchInv'
    <3>1. \A t \in Timeouts : fd'[t] = fd[t]
      BY <1>2, <2>3, KindsApart
    <3> QED BY <1>1, <2>3, <3>1, WatchStep DEF IInv, SameWatches
  <2>5. {CtrlC} \in SUBSET Obj /\ {CtrlC} \cap Res = {} /\ \A r \in Res : TimerOf[r] \notin {CtrlC}
    BY <1>2, KindsApart
  <2> QED BY <1>1, <1>3, <1>4, <2>2, <2>3, <2>4, <2>5, HeldIInv
<1>5. CASE UNCHANGED <<loop, fdVars, poll>>
  <2>1. TypeOK'
    BY <1>1, <1>3, <1>5 DEF IInv, TypeOK, LoopTypeOK, fdVars
  <2> QED BY <1>1, <1>3, <1>5, <2>1, QuietIInv DEF fdVars
<1> QED BY <1>4, <1>5 DEF CtrlCIN
\* A call of Avahi about one of its timeouts, which is alive after it or holds nothing.
LEMMA TimeoutIInv ==
  ASSUME IInv, NEW t \in Timeouts, Move, Touches(Kernel, {t}), faults' \in 0..MaxFaults,
         due' \in [Timers -> {"no", "armed", "expired"}],
         \A u \in Timers \ {t} : due'[u] = due[u],
         life' \in [Avahi -> {"new", "alive", "freed"}],
         \A o \in Avahi \ {t} : life'[o] = life[o],
         life'[t] # "alive" => fd'[t] = NoFd,
         fetched' \in BOOLEAN, fetched => fetched',
         life'[t] = "freed" => fetched' \/ batch[t] = {},
         UNCHANGED <<batch, event, loop, ctrlC, stale, data, doubled, resolverVars>>
  PROVE  IInv'
<1>1. moves' \in 0..MaxMoves
  BY PollableAssumption DEF Move, IInv, TypeOK
<1>2. TypeOK'
  BY <1>1 DEF IInv, TypeOK, LoopTypeOK, Touches, resolverVars
<1>3. /\ FdInv' /\ SameWatches(Kernel, Kernel')
      /\ \A p \in Obj \ {t} : fd'[p] = fd[p]
      /\ ~stale => \A p \in Obj \ {t} : p \in poll'.set <=> p \in poll.set
  BY DEF Touches, Kernel
<1>4. t \in Timers /\ t \notin Watches /\ t \notin Res /\ \A r \in Res : TimerOf[r] \in Timers \ {t}
  BY KindsApart
<1>5. WatchInv'
  <2>1. \A w \in Watches : /\ w \in poll'.set <=> w \in poll.set
                           /\ poll'.listed[w] = poll.listed[w]
                           /\ life'[w] = life[w]
    BY <1>3, <1>4 DEF SameWatches, Kernel, Avahi
  <2>2. ASSUME NEW u \in Timeouts, life'[u] # "alive" PROVE fd'[u] = NoFd
    <3>1. CASE u = t
      BY <2>2, <3>1
    <3>2. CASE u # t
      <4>1. u \in Obj \ {t} /\ u \in Avahi \ {t}
        BY <3>2, KindsApart DEF Avahi
      <4> QED BY <1>3, <2>2, <4>1 DEF IInv, WatchInv
    <3> QED BY <3>1, <3>2
  <2> QED BY <2>1, <2>2 DEF IInv, WatchInv
<1>6. {t} \in SUBSET Obj /\ {t} \cap Res = {} /\ \A r \in Res : TimerOf[r] \notin {t}
  BY <1>4, KindsApart
<1>7. \A r \in Res : due'[TimerOf[r]] = due[TimerOf[r]]
  BY <1>4
<1>8. \A o \in Avahi : life'[o] = "freed" => life[o] = "freed" \/ fetched' \/ batch[o] = {}
  OBVIOUS
<1> QED BY <1>2, <1>3, <1>5, <1>6, <1>7, <1>8, HeldIInv DEF resolverVars

LEMMA TimeoutsIInv ==
  ASSUME IInv, NEW t \in Timeouts, UNCHANGED resolverVars,
         \/ \E armed \in BOOLEAN : TimeoutNew(t, armed) \/ TimeoutUpdate(t, armed)
         \/ TimeoutFree(t)
  PROVE  IInv'
<1>1. /\ t \in Timers /\ t \in Obj \ Watches /\ t \in Avahi /\ Timeouts \subseteq Avahi
  BY KindsApart DEF Avahi
<1>2. /\ due \in [Timers -> {"no", "armed", "expired"}] /\ faults \in 0..MaxFaults
      /\ life \in [Avahi -> {"new", "alive", "freed"}] /\ fetched \in BOOLEAN
      /\ fd \in [Obj -> Numbers \cup {NoFd}] /\ owner \in [Numbers -> Obj \cup {Nobody}]
      /\ poll \in [set : SUBSET Obj, listed : [Obj -> Nat]]
  BY DEF IInv, TypeOK, LoopTypeOK
<1>3. Kernel \in KernelSet /\ Sound(Kernel) /\ (~stale => Tidy(Kernel)) /\ FdInv
  BY KernelType DEF IInv, FdInv
<1>4. ASSUME NEW armed \in BOOLEAN, ArmTimer(t, Kernel, armed), UNCHANGED stale
      PROVE  /\ Touches(Kernel, {t}) /\ faults' \in 0..MaxFaults
             /\ due' \in [Timers -> {"no", "armed", "expired"}]
             /\ \A u \in Timers \ {t} : due'[u] = due[u]
  <2>1. \A u \in Timers \ {t} : due'[u] = due[u]
    BY <1>2, <1>4 DEF ArmTimer
  <2>2. PICK k \in KernelSet : k = Kernel
    BY <1>3
  <2>3. Sound(k) /\ (~stale => Tidy(k)) /\ ArmTimer(t, k, armed)
    BY <1>3, <1>4, <2>2
  <2>4. /\ Touches(k, {t}) /\ faults' \in 0..MaxFaults
        /\ due' \in [Timers -> {"no", "armed", "expired"}]
    <3>1. /\ due \in [Timers -> {"no", "armed", "expired"}] /\ faults \in 0..MaxFaults
          /\ t \in Timers /\ UNCHANGED stale
      BY <1>1, <1>2, <1>4
    <3> QED BY <2>3, <3>1, ArmResult
  <2> QED BY <2>1, <2>2, <2>4
<1>5. ASSUME NEW armed \in BOOLEAN, TimeoutNew(t, armed) PROVE IInv'
  <2>1. /\ Move /\ life' = [life EXCEPT ![t] = "alive"]
        /\ UNCHANGED <<batch, event, loop, ctrlC, stale, data, doubled, fetched>>
        /\ ArmTimer(t, Kernel, armed) \/ (NoFault /\ UNCHANGED <<fd, owner, poll, due>>)
    BY <1>5 DEF TimeoutNew, Calls, Become
  <2>2. /\ life' \in [Avahi -> {"new", "alive", "freed"}] /\ life'[t] = "alive"
        /\ \A o \in Avahi \ {t} : life'[o] = life[o]
    BY <1>1, <1>2, <2>1
  <2>3. CASE ArmTimer(t, Kernel, armed)
    <3>1. /\ Touches(Kernel, {t}) /\ faults' \in 0..MaxFaults
          /\ due' \in [Timers -> {"no", "armed", "expired"}]
          /\ \A u \in Timers \ {t} : due'[u] = due[u]
      BY <1>4, <2>1, <2>3
    <3> QED BY <1>2, <2>1, <2>2, <3>1, TimeoutIInv
  <2>4. CASE NoFault /\ UNCHANGED <<fd, owner, poll, due>>
    <3>1. Touches(Kernel, {t})
      <4>1. FdInv'
        BY <1>3, <2>1, <2>4 DEF FdInv, Sound, Tidy, Kernel
      <4> QED BY <1>2, <2>4, <4>1 DEF Touches, SameWatches, Kernel
    <3>2. /\ faults' \in 0..MaxFaults /\ due' \in [Timers -> {"no", "armed", "expired"}]
          /\ \A u \in Timers \ {t} : due'[u] = due[u]
      BY <1>2, <2>4 DEF NoFault
    <3> QED BY <1>2, <2>1, <2>2, <3>1, <3>2, TimeoutIInv
  <2> QED BY <2>1, <2>3, <2>4
<1>6. ASSUME NEW armed \in BOOLEAN, TimeoutUpdate(t, armed) PROVE IInv'
  <2>1. /\ Move /\ life[t] = "alive" /\ ArmTimer(t, Kernel, armed)
        /\ UNCHANGED <<batch, event, loop, ctrlC, stale, life, data, doubled, fetched>>
    BY <1>6 DEF TimeoutUpdate, Calls, avahiVars
  <2>2. /\ Touches(Kernel, {t}) /\ faults' \in 0..MaxFaults
        /\ due' \in [Timers -> {"no", "armed", "expired"}]
        /\ \A u \in Timers \ {t} : due'[u] = due[u]
    BY <1>4, <2>1
  <2> QED BY <1>2, <2>1, <2>2, TimeoutIInv
<1>7. CASE TimeoutFree(t)
  <2>1. /\ Move /\ life' = [life EXCEPT ![t] = "freed"] /\ Becomes(Release(Kernel, t))
        /\ due' = [due EXCEPT ![t] = "no"] /\ fetched' = (fetched \/ batch[t] # {})
        /\ UNCHANGED <<batch, event, loop, ctrlC, stale, faults, data, doubled>>
    BY <1>7 DEF TimeoutFree, Calls, Become
  <2>2. /\ life' \in [Avahi -> {"new", "alive", "freed"}]
        /\ \A o \in Avahi \ {t} : life'[o] = life[o]
        /\ due' \in [Timers -> {"no", "armed", "expired"}]
        /\ \A u \in Timers \ {t} : due'[u] = due[u]
        /\ faults' \in 0..MaxFaults
    BY <1>1, <1>2, <2>1
  <2>3. Touches(Kernel, {t}) /\ fd'[t] = NoFd
    BY <1>1, <1>3, <2>1, ReleaseStep DEF IInv
  <2>4. fetched' \in BOOLEAN /\ (fetched => fetched') /\ (fetched' \/ batch[t] = {})
    BY <1>2, <2>1
  <2> QED BY <2>1, <2>2, <2>3, <2>4, TimeoutIInv
<1> QED BY <1>5, <1>6, <1>7

\* A call of Avahi about a watch of its connection.
LEMMA WatchesIInv ==
  ASSUME IInv, NEW w \in Watches, UNCHANGED resolverVars,
         WatchNew(w) \/ WatchUpdate(w) \/ WatchFree(w)
  PROVE  IInv'
<1>1. /\ Move /\ UNCHANGED <<batch, event, loop, fd, owner, due, ctrlC, stale, faults, data>>
      /\ UNCHANGED <<flying, ret, result, pending, unheard, waiting, lost>>
  BY DEF WatchNew, WatchUpdate, WatchFree, Calls, otherVars, resolverVars, avahiVars
<1>2. /\ poll.set \in SUBSET Obj /\ poll.listed \in [Obj -> Nat]
      /\ poll = [set |-> poll.set, listed |-> poll.listed]
      /\ life \in [Avahi -> {"new", "alive", "freed"}] /\ fetched \in BOOLEAN /\ doubled \in BOOLEAN
  BY DEF IInv, TypeOK, LoopTypeOK
<1>3. w \in Obj /\ w \in Avahi /\ Watches \subseteq Avahi /\ Watches \subseteq Obj
  BY KindsApart DEF Avahi
<1>4. moves' \in 0..MaxMoves
  BY <1>1, PollableAssumption DEF Move, IInv, TypeOK
\* What each of them does.
<1>5. /\ poll'.set \in SUBSET Obj /\ poll'.listed \in [Obj -> Nat]
      /\ poll' = [set |-> poll'.set, listed |-> poll'.listed]
      /\ life' \in [Avahi -> {"new", "alive", "freed"}] /\ fetched' \in BOOLEAN /\ doubled' \in BOOLEAN
      /\ \A p \in Obj \ Watches : /\ p \in poll'.set <=> p \in poll.set
                                  /\ poll'.listed[p] = poll.listed[p]
      /\ \A o \in Avahi \ {w} : life'[o] = life[o]
      /\ fetched => fetched'
      /\ doubled => doubled'
      /\ life'[w] = "freed" => fetched' \/ batch[w] = {}
  <2>1. CASE WatchNew(w)
    <3>1. /\ life' = [life EXCEPT ![w] = "alive"]
          /\ poll' = IF Registered = {} THEN Add(poll, w) ELSE poll
          /\ doubled' = (doubled \/ \E v \in Watches : life[v] = "alive") /\ fetched' = fetched
      BY <2>1 DEF WatchNew, Become
    <3>2. poll' \in {poll, [set |-> poll.set \cup {w}, listed |-> [poll.listed EXCEPT ![w] = @ + 1]]}
      BY <3>1 DEF Add
    <3> QED BY <1>2, <1>3, <3>1, <3>2
  <2>2. CASE WatchUpdate(w)
    <3>1. /\ poll' = [poll EXCEPT !.set = (@ \ Watches) \cup {w}] /\ life[w] = "alive"
          /\ UNCHANGED <<life, doubled, fetched>>
      BY <2>2 DEF WatchUpdate, avahiVars
    <3> QED BY <1>2, <1>3, <3>1
  <2>3. CASE WatchFree(w)
    <3>1. /\ life' = [life EXCEPT ![w] = "freed"]
          /\ fetched' = (fetched \/ batch[w] # {}) /\ doubled' = doubled
          /\ poll' = IF Registered = {} THEN poll
                     ELSE [set |-> poll.set \ Watches, listed |-> [poll.listed EXCEPT ![w] = 0]]
      BY <2>3 DEF WatchFree, Become
    <3> QED BY <1>2, <1>3, <3>1
  <2> QED BY <2>1, <2>2, <2>3
<1>6. TypeOK'
  BY <1>1, <1>4, <1>5 DEF IInv, TypeOK, LoopTypeOK
<1>7. FdInv'
  BY <1>1, <1>5 DEF IInv, FdInv, Sound, Tidy, Kernel
<1>8. WatchInv'
  <2>1. \A t \in Timeouts : life'[t] # "alive" => fd'[t] = NoFd
    <3>1. \A t \in Timeouts : t \in Avahi \ {w}
      BY KindsApart DEF Avahi
    <3> QED BY <1>1, <1>5, <3>1 DEF IInv, WatchInv
  <2>2. ASSUME ~doubled'
        PROVE  /\ \A v \in Watches : /\ life'[v] = "alive" <=> v \in poll'.set
                                     /\ life'[v] # "alive" => poll'.listed[v] = 0
               /\ \A v, u \in Watches : life'[v] = "alive" /\ life'[u] = "alive" => v = u
    <3>1. /\ ~doubled
          /\ \A v \in Watches : /\ life[v] = "alive" <=> v \in poll.set
                                /\ life[v] # "alive" => poll.listed[v] = 0
          /\ \A v, u \in Watches : life[v] = "alive" /\ life[u] = "alive" => v = u
      BY <1>5, <2>2 DEF IInv, WatchInv
    <3>2. CASE WatchNew(w)
      <4>1. \A v \in Watches : life[v] # "alive"
        BY <2>2, <3>2 DEF WatchNew
      <4>2. Registered = {}
        BY <3>1, <4>1 DEF Registered
      <4>3. poll'.set = poll.set \cup {w} /\ poll'.listed = [poll.listed EXCEPT ![w] = @ + 1]
        BY <3>2, <4>2 DEF WatchNew, Add
      <4>4. life' = [life EXCEPT ![w] = "alive"]
        BY <3>2 DEF WatchNew, Become
      <4>5. \A v \in Watches : life'[v] = "alive" <=> v = w
        BY <1>2, <1>3, <4>1, <4>4
      <4> QED BY <1>2, <1>3, <3>1, <4>1, <4>3, <4>5
    <3>3. CASE WatchUpdate(w)
      <4>1. poll'.set = (poll.set \ Watches) \cup {w} /\ poll'.listed = poll.listed /\ life' = life
        BY <1>2, <3>3 DEF WatchUpdate, avahiVars
      <4>2. life[w] = "alive"
        BY <3>3 DEF WatchUpdate
      <4> QED BY <1>3, <3>1, <4>1, <4>2
    <3>4. CASE WatchFree(w)
      <4>1. life[w] = "alive" /\ life' = [life EXCEPT ![w] = "freed"]
        BY <3>4 DEF WatchFree, Become
      <4>2. Registered # {}
        BY <1>3, <3>1, <4>1 DEF Registered
      <4>3. poll'.set = poll.set \ Watches /\ poll'.listed = [poll.listed EXCEPT ![w] = 0]
        BY <3>4, <4>2 DEF WatchFree
      <4>4. \A v \in Watches : life'[v] # "alive"
        BY <1>2, <1>3, <3>1, <4>1
      <4>5. \A v \in Watches : poll'.listed[v] = 0
        BY <1>2, <1>3, <3>1, <4>1, <4>3
      <4> QED BY <4>3, <4>4, <4>5
    <3> QED BY <3>2, <3>3, <3>4
  <2> QED BY <2>1, <2>2 DEF WatchInv
<1>9. Watches \in SUBSET Obj /\ Watches \cap Res = {} /\ \A r \in Res : TimerOf[r] \notin Watches
  BY KindsApart
<1>10. \A o \in Avahi : life'[o] = "freed" => life[o] = "freed" \/ fetched' \/ batch[o] = {}
  BY <1>5
<1>11. ~stale => \A p \in Obj \ Watches : p \in poll'.set <=> p \in poll.set
  BY <1>5
<1>12. doubled => doubled'
  BY <1>5
<1>13. fetched => fetched'
  BY <1>5
<1> QED BY <1>1, <1>6, <1>7, <1>8, <1>9, <1>10, <1>11, <1>12, <1>13, HeldIInv

-----------------------------------------------------------------------------
(* The theorems. *)

LEMMA NextIInv == IInv /\ [Next]_vars => IInv'
<1> SUFFICES ASSUME IInv, [Next]_vars PROVE IInv'
  OBVIOUS
<1>1. CASE LoopSteps
  <2>1. CASE Fetch
    BY <2>1, FetchIInv
  <2>2. CASE NextEvent
    BY <2>2, NextEventIInv
  <2>3. CASE ResolverHandlers
    BY <2>3, AnswersIInv, FailsIInv, ReadsNothingIInv, TimerAsksIInv DEF ResolverHandlers
  <2>4. CASE AvahiHandlers
    BY <2>4, ReadersIInv DEF AvahiHandlers
  <2>5. CASE CtrlCIN /\ UNCHANGED <<resolverVars, avahiVars>>
    BY <2>5, CtrlCIInv
  <2>6. CASE (\E t \in Timers : TimerStale(t)) /\ UNCHANGED <<resolverVars, avahiVars>>
    BY <2>6, ReadersIInv
  <2> QED BY <1>1, <2>1, <2>2, <2>3, <2>4, <2>5, <2>6 DEF LoopSteps
<1>2. CASE AvahiCalls
  BY <1>2, WatchesIInv, TimeoutsIInv, OutsideIInv DEF AvahiCalls
<1>3. CASE Asks
  BY <1>3, AskIInv DEF Asks
<1>4. CASE Lookups
  BY <1>4, LookupIInv DEF Lookups
<1>5. CASE Time
  BY <1>5, OutsideIInv DEF Time
<1>6. CASE Signals
  BY <1>6, OutsideIInv DEF Signals
<1>7. CASE End
  BY <1>7, EndIInv
<1>8. CASE UNCHANGED vars
  <2>1. /\ UNCHANGED <<poll, batch, event, loop, fd, owner, due, ctrlC, stale, faults, moves>>
        /\ UNCHANGED <<flying, ret, result, pending, unheard, waiting, lost>>
        /\ UNCHANGED <<life, data, doubled, fetched>>
    BY <1>8 DEF vars, loopVars, pollableVars, resolverVars, avahiVars
  <2>2. TypeOK'
    BY <2>1 DEF IInv, TypeOK, LoopTypeOK
  <2> QED BY <2>1, <2>2, QuietIInv
<1> QED BY <1>1, <1>2, <1>3, <1>4, <1>5, <1>6, <1>7, <1>8 DEF Next

\* The invariant that the others follow from.
THEOREM Invariance == Spec => []IInv
<1>1. Init => IInv
  BY InitIInv
<1>2. IInv /\ [Next]_vars => IInv'
  BY NextIInv
<1> QED BY <1>1, <1>2, PTL DEF Spec

\* The objects' descriptors, what the loop knows and what the queries are at have the
\* values they are declared with.
THEOREM TypeCorrect == Spec => []TypeOK
<1>1. IInv => TypeOK
  BY DEF IInv
<1> QED BY <1>1, Invariance, PTL

\* No descriptor leaks, and but for the number a failed AddrInfo::init keeps nobody is
\* deaf, however the numbers are used again.
THEOREM NothingLeaks == Spec => []HoldsItsOwn
<1>1. IInv => HoldsItsOwn
  <2> SUFFICES ASSUME IInv PROVE HoldsItsOwn
    OBVIOUS
  <2>1. \A n \in Numbers : owner[n] # Nobody => fd[owner[n]] = n
    BY DEF IInv, FdInv, Sound, Kernel
  <2>2. ~stale => \A o \in Obj : fd[o] # NoFd => owner[fd[o]] = o /\ o \in poll.set
    <3>1. ASSUME ~stale, NEW o \in Obj, fd[o] # NoFd
          PROVE  owner[fd[o]] = o /\ o \in poll.set
      <4>1. o \notin Watches
        BY <3>1 DEF IInv, FdInv, Sound, Kernel
      <4> QED BY <3>1, <4>1 DEF IInv, FdInv, Tidy, Kernel
    <3> QED BY <3>1
  <2> QED BY <2>1, <2>2 DEF HoldsItsOwn
<1> QED BY <1>1, Invariance, PTL

\* But for the four exceptions, the loop and the resolvers use nothing that was freed.
THEOREM NothingFreedIsUsed == Spec => []NoFreedObject
<1>1. IInv => NoFreedObject
  BY DEF IInv
<1> QED BY <1>1, Invariance, PTL

\* A client that waits is answered or asked for again, whatever the other resolvers do,
\* but for the exceptions.
THEOREM NobodyIsForgotten == Spec => []NeverForgotten
<1>1. IInv => NeverForgotten
  <2> SUFFICES ASSUME IInv, loop = "run", ~stale, NEW r \in waiting \ lost PROVE Driven(r)
    BY DEF NeverForgotten
  <2>1. \/ r \in poll.set /\ (flying[r] > 0 \/ r \in unheard)
        \/ due[TimerOf[r]] # "no" /\ TimerOf[r] \in poll.set
    BY DEF IInv, DrivenInv, Running
  <2>2. r \in unheard => pending
    BY DEF IInv, DrivenInv
  <2> QED BY <2>1, <2>2 DEF Driven
<1> QED BY <1>1, Invariance, PTL
=============================================================================
