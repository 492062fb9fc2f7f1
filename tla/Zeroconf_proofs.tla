-------------------------- MODULE Zeroconf_proofs --------------------------
(***************************************************************************)
(* What the tables of the service listener say of the network, for every   *)
(* set of services, interfaces and addresses, and any number of changes.   *)
(***************************************************************************)
EXTENDS Zeroconf, TLAPS

USE ZeroconfAssumption

Message == [is : {"new", "remove", "found", "failed"}, rec : Record]
Is(i, is, r) == msgs[i].is = is /\ msgs[i].rec = r
Forgetting(s) == doing = [is |-> "forget", svc |-> s]

\* A record that is announced will be known, or is and stays so: its resolver is at
\* work, or its service has been resolved.
Sure(r) == asking[r] > 0 \/ (Known(SvcOf[r]) /\ ~Forgetting(SvcOf[r]))

\* The last the messages under way say of r is not that it went.
OnTheWay(r) ==
  \/ \E i \in 1..Len(msgs) : /\ Is(i, "new", r) \/ Is(i, "found", r)
                             /\ \A j \in (i + 1)..Len(msgs) : ~Is(j, "remove", r)
  \/ (\A j \in 1..Len(msgs) : ~Is(j, "remove", r)) /\ Sure(r)
ArrivalInv == \A r \in air : SvcOf[r] \in broken \/ OnTheWay(r)

\* Of a service that is not announced, a removal is under way behind everything that
\* could make it known.
RemovalAfter(i, s) ==
  \E j \in (i + 1)..Len(msgs) : msgs[j].is = "remove" /\ SvcOf[msgs[j].rec] = s
Departs(s) ==
  /\ Known(s) => Forgetting(s) \/ RemovalAfter(0, s)
  /\ \A i \in 1..Len(msgs) : msgs[i].is = "found" /\ SvcOf[msgs[i].rec] = s => RemovalAfter(i, s)
DepartureInv == client = "running" => \A s \in Svc \ broken : OnAir(s) \/ Departs(s)

\* The watchers agree with the table, but for the service being told of; so do the
\* claimed ports.
WatcherInv ==
  \A s \in Svc :
    /\ doing.svc # s => (s \in known <=> Known(s))
    /\ doing = [is |-> "tell", svc |-> s] => Known(s)
    /\ Forgetting(s) => s \notin known
    /\ s \in ports <=> Known(s) /\ s \in Claims

\* Where addresses and their names come from; and the names of a service that has
\* nothing in common with another one.
NameOf(s) == IF EndpointOf[s] = NoName THEN s ELSE EndpointOf[s]
Addresses(s) == ToSet(service[s])
NamesInv ==
  /\ \A s \in Svc : \A a \in Addresses(s) : \E r \in Record : SvcOf[r] = s /\ AddrOf[r] = a
  /\ \A a \in Addr : names[a] # NoName =>
       /\ \E r \in Record : AddrOf[r] = a /\ names[a] = NameOf(SvcOf[r])
       /\ \E s \in Svc : a \in Addresses(s)
  /\ \A s \in Svc : \A a \in Addresses(s) : Distinct(s) =>
       /\ names[a] = NameOf(s)
       /\ EndpointOf[s] # NoName => aliases[EndpointOf[s]] = s

\* Whoever is told of a service finds it by its endpoint's name.
TellInv ==
  doing.is = "tell" => /\ Known(doing.svc)
                       /\ EndpointOf[doing.svc] # NoName => aliases[EndpointOf[doing.svc]] = doing.svc

IInv == TypeOK /\ ArrivalInv /\ DepartureInv /\ WatcherInv /\ NamesInv /\ TellInv

-----------------------------------------------------------------------------
(* The queue of messages. *)

\* Sending appends, receiving takes the first.
LEMMA SendResult ==
  ASSUME msgs \in Seq(Message), NEW m \in Message, msgs' = Append(msgs, m)
  PROVE  /\ msgs' \in Seq(Message) /\ Len(msgs) \in Nat /\ Len(msgs') = Len(msgs) + 1
         /\ \A i \in 1..Len(msgs) : msgs'[i] = msgs[i]
         /\ msgs'[Len(msgs')] = m
OBVIOUS

LEMMA ReceiveResult ==
  ASSUME msgs \in Seq(Message), msgs # <<>>, msgs' = Tail(msgs)
  PROVE  /\ msgs' \in Seq(Message) /\ Len(msgs) \in Nat /\ Len(msgs) >= 1
         /\ Len(msgs') = Len(msgs) - 1
         /\ \A i \in 1..Len(msgs') : msgs'[i] = msgs[i + 1]
         /\ Head(msgs) = msgs[1] /\ Head(msgs) \in Message
OBVIOUS

\* A record on the way stays there when a message is sent that is not its removal.
LEMMA SendOnTheWay ==
  ASSUME msgs \in Seq(Message), NEW m \in Message, msgs' = Append(msgs, m),
         NEW r, m.is # "remove" \/ m.rec # r, OnTheWay(r), Sure(r) => Sure(r)'
  PROVE  OnTheWay(r)'
<1>1. /\ Len(msgs) \in Nat /\ Len(msgs') = Len(msgs) + 1
      /\ \A i \in 1..Len(msgs) : msgs'[i] = msgs[i]
      /\ msgs'[Len(msgs')] = m
  BY SendResult
<1>2. \A j \in 1..Len(msgs') : \/ j \in 1..Len(msgs) /\ (Is(j, "remove", r)' <=> Is(j, "remove", r))
                               \/ ~Is(j, "remove", r)'
  BY <1>1 DEF Is
<1>3. ASSUME NEW i \in 1..Len(msgs), Is(i, "new", r) \/ Is(i, "found", r),
             \A j \in (i + 1)..Len(msgs) : ~Is(j, "remove", r)
      PROVE  OnTheWay(r)'
  <2>1. i \in 1..Len(msgs') /\ (Is(i, "new", r) \/ Is(i, "found", r))'
    BY <1>1, <1>3 DEF Is
  <2>2. \A j \in (i + 1)..Len(msgs') : ~Is(j, "remove", r)'
    BY <1>1, <1>2, <1>3
  <2> QED BY <2>1, <2>2 DEF OnTheWay
<1>4. ASSUME \A j \in 1..Len(msgs) : ~Is(j, "remove", r), Sure(r)
      PROVE  OnTheWay(r)'
  BY <1>2, <1>4 DEF OnTheWay
<1> QED BY <1>3, <1>4 DEF OnTheWay

\* It stays there when a message is received, whose handler makes sure of it.
LEMMA ReceiveOnTheWay ==
  ASSUME msgs \in Seq(Message), msgs # <<>>, msgs' = Tail(msgs),
         NEW r, OnTheWay(r),
         Is(1, "new", r) \/ Is(1, "found", r) => Sure(r)',
         ~Is(1, "remove", r) /\ Sure(r) => Sure(r)'
  PROVE  OnTheWay(r)'
<1>1. /\ Len(msgs) \in Nat /\ Len(msgs) >= 1 /\ Len(msgs') = Len(msgs) - 1
      /\ \A i \in 1..Len(msgs') : msgs'[i] = msgs[i + 1]
  BY ReceiveResult
<1>2. \A j \in 1..Len(msgs') : Is(j, "remove", r)' <=> Is(j + 1, "remove", r)
  BY <1>1 DEF Is
<1>3. ASSUME NEW i \in 1..Len(msgs), Is(i, "new", r) \/ Is(i, "found", r),
             \A j \in (i + 1)..Len(msgs) : ~Is(j, "remove", r)
      PROVE  OnTheWay(r)'
  <2>1. \A j \in 1..Len(msgs') : j >= i => ~Is(j, "remove", r)'
    BY <1>1, <1>2, <1>3
  <2>2. CASE i = 1
    BY <1>3, <2>1, <2>2 DEF OnTheWay
  <2>3. CASE i # 1
    <3>1. i - 1 \in 1..Len(msgs') /\ (i - 1) + 1 = i
      BY <1>1, <2>3
    <3>2. Is(i - 1, "new", r)' \/ Is(i - 1, "found", r)'
      BY <1>1, <1>3, <3>1 DEF Is
    <3>3. \A j \in ((i - 1) + 1)..Len(msgs') : ~Is(j, "remove", r)'
      BY <1>1, <2>1, <3>1
    <3> QED BY <3>1, <3>2, <3>3 DEF OnTheWay
  <2> QED BY <2>2, <2>3
<1>4. ASSUME \A j \in 1..Len(msgs) : ~Is(j, "remove", r), Sure(r)
      PROVE  OnTheWay(r)'
  <2>1. ~Is(1, "remove", r)
    BY <1>1, <1>4
  <2>2. \A j \in 1..Len(msgs') : ~Is(j, "remove", r)'
    BY <1>1, <1>2, <1>4
  <2> QED BY <1>4, <2>1, <2>2 DEF OnTheWay
<1> QED BY <1>3, <1>4 DEF OnTheWay

\* A removal under way stays behind what it is behind.
LEMMA SendDeparts ==
  ASSUME msgs \in Seq(Message), NEW m \in Message, msgs' = Append(msgs, m),
         NEW s, Departs(s), m.is # "found" \/ SvcOf[m.rec] # s,
         Known(s)' <=> Known(s), Forgetting(s)' <=> Forgetting(s)
  PROVE  Departs(s)'
<1>1. /\ Len(msgs) \in Nat /\ Len(msgs') = Len(msgs) + 1
      /\ \A i \in 1..Len(msgs) : msgs'[i] = msgs[i]
      /\ msgs'[Len(msgs')] = m
  BY SendResult
<1>2. ASSUME NEW i \in 0..Len(msgs), RemovalAfter(i, s) PROVE RemovalAfter(i, s)'
  BY <1>1, <1>2 DEF RemovalAfter
<1>3. ASSUME NEW i \in 1..Len(msgs'), msgs'[i].is = "found", SvcOf[msgs'[i].rec] = s
      PROVE  RemovalAfter(i, s)'
  BY <1>1, <1>2, <1>3 DEF Departs
<1>4. Known(s)' => Forgetting(s)' \/ RemovalAfter(0, s)'
  BY <1>1, <1>2 DEF Departs
<1> QED BY <1>3, <1>4 DEF Departs

\* Sending the removal itself puts it behind everything.
LEMMA RemoveDeparts ==
  ASSUME msgs \in Seq(Message), NEW m \in Message, msgs' = Append(msgs, m), m.is = "remove"
  PROVE  Departs(SvcOf[m.rec])'
<1>1. /\ Len(msgs) \in Nat /\ Len(msgs') = Len(msgs) + 1
      /\ msgs'[Len(msgs')] = m
  BY SendResult
<1>2. \A i \in 0..Len(msgs) : RemovalAfter(i, SvcOf[m.rec])'
  BY <1>1 DEF RemovalAfter
<1>3. \A i \in 1..Len(msgs') : msgs'[i].is = "found" => i \in 0..Len(msgs)
  BY <1>1
<1> QED BY <1>1, <1>2, <1>3 DEF Departs

\* Receiving a message that is no removal of s, or whose handler forgets s.
LEMMA ReceiveDeparts ==
  ASSUME msgs \in Seq(Message), msgs # <<>>, msgs' = Tail(msgs), NEW s, Departs(s),
         IF msgs[1].is = "remove" /\ SvcOf[msgs[1].rec] = s
           THEN Forgetting(s)'
           ELSE IF msgs[1].is = "found" /\ SvcOf[msgs[1].rec] = s
                  THEN TRUE
                  ELSE Known(s)' => Known(s) /\ ~Forgetting(s)
  PROVE  Departs(s)'
<1>1. /\ Len(msgs) \in Nat /\ Len(msgs) >= 1 /\ Len(msgs') = Len(msgs) - 1
      /\ \A i \in 1..Len(msgs') : msgs'[i] = msgs[i + 1]
  BY ReceiveResult
<1>2. ASSUME NEW i \in 1..Len(msgs), RemovalAfter(i, s) PROVE RemovalAfter(i - 1, s)'
  <2>1. PICK j \in (i + 1)..Len(msgs) : msgs[j].is = "remove" /\ SvcOf[msgs[j].rec] = s
    BY <1>2 DEF RemovalAfter
  <2>2. j - 1 \in ((i - 1) + 1)..Len(msgs') /\ msgs'[j - 1] = msgs[j]
    BY <1>1
  <2> QED BY <2>1, <2>2 DEF RemovalAfter
<1>3. ASSUME NEW i \in 1..Len(msgs'), msgs'[i].is = "found", SvcOf[msgs'[i].rec] = s
      PROVE  RemovalAfter(i, s)'
  <2>1. i + 1 \in 1..Len(msgs) /\ RemovalAfter(i + 1, s) /\ (i + 1) - 1 = i
    BY <1>1, <1>3 DEF Departs
  <2> QED BY <1>2, <2>1
<1>4. Known(s)' => Forgetting(s)' \/ RemovalAfter(0, s)'
  <2>1. CASE msgs[1].is = "found" /\ SvcOf[msgs[1].rec] = s
    <3>1. 1 \in 1..Len(msgs) /\ RemovalAfter(1, s)
      BY <1>1, <2>1 DEF Departs
    <3>2. RemovalAfter(1 - 1, s)'
      BY <1>2, <3>1
    <3> QED BY <3>2
  <2>2. CASE ~(msgs[1].is = "found" /\ SvcOf[msgs[1].rec] = s)
             /\ ~(msgs[1].is = "remove" /\ SvcOf[msgs[1].rec] = s) /\ Known(s)'
    <3>1. RemovalAfter(0, s)
      BY <2>2 DEF Departs
    <3>2. RemovalAfter(1, s) /\ 1 \in 1..Len(msgs)
      <4>1. PICK j \in (0 + 1)..Len(msgs) : msgs[j].is = "remove" /\ SvcOf[msgs[j].rec] = s
        BY <3>1 DEF RemovalAfter
      <4>2. j \in (1 + 1)..Len(msgs)
        BY <1>1, <2>2, <4>1
      <4> QED BY <1>1, <4>1, <4>2 DEF RemovalAfter
    <3>3. RemovalAfter(1 - 1, s)'
      BY <1>2, <3>2
    <3> QED BY <3>3
  <2> QED BY <2>1, <2>2
<1> QED BY <1>3, <1>4 DEF Departs

\* A record announced or resolved last is on the way.
LEMMA SendArrives ==
  ASSUME msgs \in Seq(Message), NEW m \in Message, msgs' = Append(msgs, m),
         m.is \in {"new", "found"}
  PROVE  OnTheWay(m.rec)'
<1>1. /\ Len(msgs) \in Nat /\ Len(msgs') = Len(msgs) + 1
      /\ msgs'[Len(msgs')] = m
  BY SendResult
<1>2. Len(msgs') \in 1..Len(msgs') /\ \A j \in (Len(msgs') + 1)..Len(msgs') : FALSE
  BY <1>1
<1> QED BY <1>1, <1>2 DEF OnTheWay, Is

-----------------------------------------------------------------------------
(* The steps of the daemon, which leave the tables alone. *)

LEMMA TablesStep ==
  ASSUME IInv, UNCHANGED <<tables, known, doing>>
  PROVE  WatcherInv' /\ NamesInv' /\ TellInv'
<1>1. UNCHANGED <<service, names, aliases, ports, known, doing>>
  BY DEF tables
<1>2. WatcherInv'
  BY <1>1 DEF IInv, WatcherInv, Known, Forgetting
<1>3. NamesInv'
  BY <1>1 DEF IInv, NamesInv, Addresses
<1>4. TellInv'
  BY <1>1 DEF IInv, TellInv, Known
<1> QED BY <1>2, <1>3, <1>4

LEMMA InitIInv == Init => IInv
<1> SUFFICES ASSUME Init PROVE IInv
  OBVIOUS
<1>1. TypeOK
  BY DEF Init, TypeOK
<1>2. ArrivalInv /\ WatcherInv /\ TellInv
  BY DEF Init, ArrivalInv, WatcherInv, TellInv, Known, Forgetting, Idle
<1>3. DepartureInv
  BY DEF Init, DepartureInv, Departs, Known
<1>4. \A s \in Svc : Addresses(s) = {}
  BY DEF Init, Addresses, ToSet
<1>5. NamesInv
  BY <1>4 DEF Init, NamesInv
<1> QED BY <1>1, <1>2, <1>3, <1>5 DEF IInv

LEMMA MsgsType == IInv => msgs \in Seq(Message)
BY DEF IInv, TypeOK, Message

LEMMA AnnounceIInv == ASSUME IInv, NEW r \in Record, Announce(r) PROVE IInv'
<1> DEFINE m == [is |-> "new", rec |-> r]
<1>1. /\ m \in Message /\ m.is = "new" /\ m.rec = r /\ msgs \in Seq(Message)
      /\ msgs' = Append(msgs, m) /\ air' = air \cup {r}
      /\ events < MaxEvents /\ events' = events + 1
      /\ UNCHANGED <<client, asking, tables, known, doing, group, broken>>
  BY MsgsType DEF Announce, Send, Event, Message
<1> HIDE DEF m
<1>2. UNCHANGED service
  BY <1>1 DEF tables
<1>3. TypeOK'
  BY <1>1, SendResult DEF IInv, TypeOK, Message, tables
<1>4. ArrivalInv'
  <2>1. ASSUME NEW q \in air', SvcOf[q] \notin broken', q # r PROVE OnTheWay(q)'
    <3>1. OnTheWay(q)
      BY <1>1, <2>1 DEF IInv, ArrivalInv
    <3>2. Sure(q) => Sure(q)'
      BY <1>1, <1>2 DEF Sure, Known, Forgetting
    <3> QED BY <1>1, <2>1, <3>1, <3>2, SendOnTheWay
  <2>2. OnTheWay(r)'
    BY <1>1, SendArrives
  <2> QED BY <2>1, <2>2 DEF ArrivalInv
<1>5. DepartureInv'
  <2>1. ASSUME NEW s \in Svc \ broken, client = "running" PROVE OnAir(s)' \/ Departs(s)'
    <3>1. OnAir(s) => OnAir(s)'
      BY <1>1 DEF OnAir
    <3>2. Departs(s) => Departs(s)'
      BY <1>1, <1>2, SendDeparts DEF Known, Forgetting
    <3> QED BY <2>1, <3>1, <3>2 DEF IInv, DepartureInv
  <2> QED BY <1>1, <2>1 DEF DepartureInv
<1> QED BY <1>1, <1>3, <1>4, <1>5, TablesStep DEF IInv

\* Withdrawing a record, by the daemon or by a collision of the record registered here.
LEMMA WithdrawStep ==
  ASSUME IInv, NEW r \in air, msgs' = Append(msgs, [is |-> "remove", rec |-> r]),
         air' = air \ {r}, group' \in {"none", "empty", "registering", "established"},
         events < MaxEvents, events' = events + 1,
         UNCHANGED <<client, asking, tables, known, doing, broken>>
  PROVE  IInv'
<1> DEFINE m == [is |-> "remove", rec |-> r]
<1>1. /\ m \in Message /\ m.is = "remove" /\ m.rec = r /\ msgs \in Seq(Message)
      /\ r \in Record /\ msgs' = Append(msgs, m)
  BY MsgsType DEF IInv, TypeOK, Message
<1> HIDE DEF m
<1>2. UNCHANGED service
  BY DEF tables
<1>3. TypeOK'
  BY <1>1, SendResult DEF IInv, TypeOK, Message, tables
<1>4. ArrivalInv'
  <2>1. ASSUME NEW q \in air', SvcOf[q] \notin broken' PROVE OnTheWay(q)'
    <3>1. OnTheWay(q) /\ q # r
      BY <2>1 DEF IInv, ArrivalInv
    <3>2. Sure(q) => Sure(q)'
      BY <1>2 DEF Sure, Known, Forgetting
    <3> QED BY <1>1, <3>1, <3>2, SendOnTheWay
  <2> QED BY <2>1 DEF ArrivalInv
<1>5. DepartureInv'
  <2>1. ASSUME NEW s \in Svc \ broken, client = "running" PROVE OnAir(s)' \/ Departs(s)'
    <3>1. CASE s = SvcOf[r]
      BY <1>1, <3>1, RemoveDeparts
    <3>2. CASE s # SvcOf[r]
      <4>1. OnAir(s) => OnAir(s)'
        BY <3>2 DEF OnAir
      <4>2. Departs(s) => Departs(s)'
        BY <1>1, <1>2, SendDeparts DEF Known, Forgetting
      <4> QED BY <2>1, <4>1, <4>2 DEF IInv, DepartureInv
    <3> QED BY <3>1, <3>2
  <2> QED BY <2>1 DEF DepartureInv
<1> QED BY <1>3, <1>4, <1>5, TablesStep DEF IInv

LEMMA AnswerIInv ==
  ASSUME IInv, NEW r \in Record, NEW is \in {"found", "failed"}, Answer(r, is)
  PROVE  IInv'
<1> DEFINE m == [is |-> is, rec |-> r]
<1>1. /\ m \in Message /\ m.is = is /\ m.rec = r /\ msgs \in Seq(Message)
      /\ msgs' = Append(msgs, m)
      /\ asking[r] > 0 /\ asking' = [asking EXCEPT ![r] = @ - 1]
      /\ broken' = IF is = "failed" \/ r \notin air THEN broken \cup {SvcOf[r]} ELSE broken
      /\ UNCHANGED <<client, air, tables, known, doing, group, events>>
  BY MsgsType DEF Answer, Send, Message
<1> HIDE DEF m
<1>2. UNCHANGED service
  BY <1>1 DEF tables
<1>3. TypeOK'
  <2>1. asking' \in [Record -> Nat] /\ broken' \in SUBSET Svc
    BY <1>1 DEF IInv, TypeOK
  <2> QED BY <1>1, <2>1, SendResult DEF IInv, TypeOK, Message, tables
<1>4. ArrivalInv'
  <2>1. ASSUME NEW q \in air', SvcOf[q] \notin broken' PROVE OnTheWay(q)'
    <3>1. OnTheWay(q) /\ q \in Record
      BY <1>1, <2>1 DEF IInv, ArrivalInv, TypeOK
    <3>2. CASE q = r
      BY <1>1, <2>1, <3>2, SendArrives
    <3>3. CASE q # r
      <4>1. Sure(q) => Sure(q)'
        BY <1>1, <1>2, <3>1, <3>3 DEF Sure, Known, Forgetting, IInv, TypeOK
      <4> QED BY <1>1, <3>1, <3>3, <4>1, SendOnTheWay
    <3> QED BY <3>2, <3>3
  <2> QED BY <2>1 DEF ArrivalInv
<1>5. DepartureInv'
  <2>1. ASSUME NEW s \in Svc \ broken', client = "running", ~OnAir(s)' PROVE Departs(s)'
    <3>1. ~OnAir(s) /\ s \notin broken
      BY <1>1, <2>1 DEF OnAir
    <3>2. SvcOf[r] # s
      BY <1>1, <2>1, <3>1 DEF OnAir
    <3>3. Departs(s)
      BY <2>1, <3>1 DEF IInv, DepartureInv
    <3> QED BY <1>1, <1>2, <3>2, <3>3, SendDeparts DEF Known, Forgetting
  <2> QED BY <1>1, <2>1 DEF DepartureInv
<1> QED BY <1>1, <1>3, <1>4, <1>5, TablesStep DEF IInv

LEMMA ClientFailsIInv == IInv /\ ClientFails => IInv'
<1> SUFFICES ASSUME IInv, ClientFails PROVE IInv'
  OBVIOUS
<1>1. /\ client' = "failure" /\ air' = {} /\ msgs' = <<>> /\ asking' = [r \in Record |-> 0]
      /\ events < MaxEvents /\ events' = events + 1
      /\ UNCHANGED <<tables, known, doing, group, broken>>
  BY DEF ClientFails, Event
<1>2. TypeOK'
  BY <1>1 DEF IInv, TypeOK, tables
<1>3. ArrivalInv' /\ DepartureInv'
  BY <1>1 DEF ArrivalInv, DepartureInv
<1> QED BY <1>1, <1>2, <1>3, TablesStep DEF IInv

LEMMA GroupIInv ==
  ASSUME IInv, GroupCreate \/ GroupEstablished \/ GroupCollision
  PROVE  IInv'
<1>0. Own \in Record /\ msgs \in Seq(Message) /\ air \in SUBSET Record
  BY MsgsType DEF IInv, TypeOK
<1>1. ASSUME UNCHANGED <<client, msgs, asking, tables, known, doing, broken>>,
             air' \subseteq air, air \subseteq air',
             group' \in {"none", "empty", "registering", "established"}, events' \in 0..MaxEvents
      PROVE  IInv'
  <2>1. air' = air /\ UNCHANGED <<service, names, aliases, ports>>
    BY <1>1 DEF tables
  <2>2. TypeOK'
    BY <1>1, <2>1 DEF IInv, TypeOK
  <2>3. ArrivalInv'
    BY <1>1, <2>1 DEF IInv, ArrivalInv, OnTheWay, Is, Sure, Known, Forgetting
  <2>4. DepartureInv'
    BY <1>1, <2>1 DEF IInv, DepartureInv, OnAir, Departs, RemovalAfter, Known, Forgetting
  <2> QED BY <1>1, <2>2, <2>3, <2>4, TablesStep DEF IInv
<1>2. CASE GroupCreate
  <2>1. /\ UNCHANGED <<client, air, msgs, asking, tables, known, doing, broken>>
        /\ group' \in {"none", "empty", "registering", "established"}
        /\ events' \in 0..MaxEvents
    BY <1>2 DEF GroupCreate, Event, IInv, TypeOK
  <2> QED BY <1>1, <2>1
<1>3. CASE GroupEstablished
  <2> DEFINE m == [is |-> "new", rec |-> Own]
  <2>1. /\ m \in Message /\ m.is = "new" /\ m.rec = Own
        /\ msgs' = Append(msgs, m) /\ air' = air \cup {Own} /\ group' = "established"
        /\ UNCHANGED <<client, asking, tables, known, doing, broken, events>>
    BY <1>0, <1>3 DEF GroupEstablished, Send, Message
  <2> HIDE DEF m
  <2>2. UNCHANGED service
    BY <2>1 DEF tables
  <2>3. TypeOK'
    BY <1>0, <2>1, SendResult DEF IInv, TypeOK, Message, tables
  <2>4. ArrivalInv'
    <3>1. ASSUME NEW q \in air', SvcOf[q] \notin broken', q # Own PROVE OnTheWay(q)'
      <4>1. OnTheWay(q)
        BY <2>1, <3>1 DEF IInv, ArrivalInv
      <4>2. Sure(q) => Sure(q)'
        BY <2>1, <2>2 DEF Sure, Known, Forgetting
      <4> QED BY <1>0, <2>1, <3>1, <4>1, <4>2, SendOnTheWay
    <3>2. OnTheWay(Own)'
      BY <1>0, <2>1, SendArrives
    <3> QED BY <3>1, <3>2 DEF ArrivalInv
  <2>5. DepartureInv'
    <3>1. ASSUME NEW s \in Svc \ broken, client = "running" PROVE OnAir(s)' \/ Departs(s)'
      <4>1. OnAir(s) => OnAir(s)'
        BY <2>1 DEF OnAir
      <4>2. Departs(s) => Departs(s)'
        BY <1>0, <2>1, <2>2, SendDeparts DEF Known, Forgetting
      <4> QED BY <3>1, <4>1, <4>2 DEF IInv, DepartureInv
    <3> QED BY <2>1, <3>1 DEF DepartureInv
  <2> QED BY <2>1, <2>3, <2>4, <2>5, TablesStep DEF IInv
<1>4. CASE GroupCollision
  <2>1. /\ group' = "empty" /\ air' = air \ {Own} /\ events < MaxEvents /\ events' = events + 1
        /\ IF Own \in air THEN msgs' = Append(msgs, [is |-> "remove", rec |-> Own])
                          ELSE UNCHANGED msgs
        /\ UNCHANGED <<client, asking, tables, known, doing, broken>>
    BY <1>4 DEF GroupCollision, Send, Event
  <2>2. CASE Own \in air
    BY <2>1, <2>2, WithdrawStep
  <2>3. CASE Own \notin air
    <3>1. events' \in 0..MaxEvents
      BY <2>1 DEF IInv, TypeOK
    <3> QED BY <1>1, <2>1, <2>3, <3>1
  <2> QED BY <2>2, <2>3
<1> QED BY <1>2, <1>3, <1>4

-----------------------------------------------------------------------------
(* The handlers of the listener. *)

\* The record of the message a handler takes.
LEMMA HeadResult ==
  ASSUME IInv, NEW is, Receive(is)
  PROVE  /\ msgs \in Seq(Message) /\ msgs # <<>> /\ msgs' = Tail(msgs)
         /\ msgs' \in Seq(Message) /\ doing = Idle
         /\ Head(msgs) = msgs[1] /\ msgs[1].is = is /\ msgs[1].rec \in Record
BY MsgsType, ReceiveResult DEF Receive, Message

\* No service forgets or is told of between two messages.
LEMMA IdleResult ==
  ASSUME doing = Idle
  PROVE  \A s \in Svc : ~Forgetting(s) /\ doing # [is |-> "tell", svc |-> s] /\ doing.svc # s
BY DEF Idle, Forgetting

LEMMA BrowserIInv ==
  ASSUME IInv, BrowserNew \/ ResolverFailed
  PROVE  IInv'
<1>0. PICK r \in Record : r = msgs[1].rec
  BY HeadResult DEF BrowserNew, ResolverFailed
<1>1. /\ msgs \in Seq(Message) /\ msgs # <<>> /\ msgs' = Tail(msgs)
      /\ msgs' \in Seq(Message)
      /\ \/ msgs[1].is = "new" /\ asking' = [asking EXCEPT ![r] = @ + 1] /\ UNCHANGED broken
         \/ msgs[1].is = "new" /\ UNCHANGED asking /\ broken' = broken \cup {SvcOf[r]}
         \/ msgs[1].is = "failed" /\ UNCHANGED <<asking, broken>>
  BY <1>0, HeadResult DEF BrowserNew, ResolverFailed
<1>2. /\ UNCHANGED <<client, air, group, events, tables, known, doing>>
      /\ UNCHANGED <<service, names, aliases, ports>>
  BY DEF BrowserNew, ResolverFailed, tables, daemonVars
<1>3. asking \in [Record -> Nat] /\ asking' \in [Record -> Nat]
  <2>1. asking \in [Record -> Nat]
    BY DEF IInv, TypeOK
  <2> QED BY <1>1, <2>1
<1>7. broken \subseteq broken' /\ broken' \in SUBSET Svc
  BY <1>1 DEF IInv, TypeOK
<1>4. TypeOK'
  BY <1>1, <1>2, <1>3, <1>7 DEF IInv, TypeOK, Message
<1>5. ArrivalInv'
  <2>1. ASSUME NEW q \in air', SvcOf[q] \notin broken' PROVE OnTheWay(q)'
    <3>1. OnTheWay(q) /\ q \in Record
      BY <1>2, <1>7, <2>1 DEF IInv, ArrivalInv, TypeOK
    <3>2. Sure(q) => Sure(q)'
      <4>0. asking[q] \in Nat /\ asking'[q] \in {asking[q], asking[q] + 1}
        <5>1. CASE asking' = [asking EXCEPT ![r] = @ + 1]
          <6>1. CASE q = r
            BY <1>3, <3>1, <5>1, <6>1
          <6>2. CASE q # r
            BY <1>3, <3>1, <5>1, <6>2
          <6> QED BY <6>1, <6>2
        <5>2. CASE UNCHANGED asking
          BY <1>3, <3>1, <5>2
        <5> QED BY <1>1, <5>1, <5>2
      <4>1. asking[q] > 0 => asking'[q] > 0
        BY <4>0
      <4>2. Known(SvcOf[q])' = Known(SvcOf[q]) /\ Forgetting(SvcOf[q])' = Forgetting(SvcOf[q])
        BY <1>2 DEF Known, Forgetting
      <4> QED BY <4>1, <4>2 DEF Sure
    <3>3. Is(1, "new", q) \/ Is(1, "found", q) => Sure(q)'
      <4>1. ASSUME Is(1, "new", q) \/ Is(1, "found", q)
            PROVE  q = r /\ asking' = [asking EXCEPT ![r] = @ + 1]
        BY <1>0, <1>1, <2>1, <4>1 DEF Is
      <4>2. asking[r] \in Nat
        BY <1>3
      <4> QED BY <1>3, <4>1, <4>2 DEF Sure
    <3> QED BY <1>1, <3>1, <3>2, <3>3, ReceiveOnTheWay
  <2> QED BY <2>1 DEF ArrivalInv
<1>6. DepartureInv'
  <2>1. ASSUME NEW s \in Svc, Departs(s) PROVE Departs(s)'
    <3>1. \A x \in Svc : ~Forgetting(x)
      BY HeadResult, IdleResult DEF BrowserNew, ResolverFailed
    <3>2. Known(s)' => Known(s) /\ ~Forgetting(s)
      BY <1>2, <3>1 DEF Known
    <3> QED BY <1>1, <2>1, <3>2, ReceiveDeparts
  <2> QED BY <1>2, <1>7, <2>1 DEF IInv, DepartureInv, OnAir
<1> QED BY <1>2, <1>4, <1>5, <1>6, TablesStep DEF IInv

\* The elements of a list with one more at its head.
LEMMA PrependSet ==
  ASSUME NEW S, NEW L \in Seq(S), NEW x \in S
  PROVE  ToSet(<<x>> \o L) = ToSet(L) \cup {x}
<1> DEFINE M == <<x>> \o L
<1>1. /\ Len(L) \in Nat /\ M \in Seq(S) /\ Len(M) = Len(L) + 1 /\ M[1] = x
      /\ \A i \in 1..Len(L) : M[i + 1] = L[i]
  OBVIOUS
<1> HIDE DEF M
<1>2. ToSet(M) = {M[i] : i \in 1..Len(M)} /\ ToSet(L) = {L[i] : i \in 1..Len(L)}
  <2>1. DOMAIN M = 1..Len(M) /\ DOMAIN L = 1..Len(L)
    BY <1>1
  <2> QED BY <2>1 DEF ToSet
<1>3. ASSUME NEW y \in ToSet(M) PROVE y \in ToSet(L) \cup {x}
  <2>1. PICK i \in 1..Len(M) : y = M[i]
    BY <1>2
  <2>2. i # 1 => i - 1 \in 1..Len(L) /\ (i - 1) + 1 = i
    BY <1>1
  <2> QED BY <1>1, <1>2, <2>1, <2>2
<1>4. ASSUME NEW y \in ToSet(L) PROVE y \in ToSet(M)
  <2>1. PICK i \in 1..Len(L) : y = L[i]
    BY <1>2
  <2>2. i + 1 \in 1..Len(M)
    BY <1>1
  <2> QED BY <1>1, <1>2, <2>1, <2>2
<1>5. x \in ToSet(M)
  BY <1>1, <1>2
<1> QED BY <1>3, <1>4, <1>5 DEF M

LEMMA ResolvedIInv == IInv /\ Resolved => IInv'
<1> SUFFICES ASSUME IInv, Resolved PROVE IInv'
  OBVIOUS
<1>0. PICK r \in Record : r = msgs[1].rec
  BY HeadResult DEF Resolved, Found
<1> DEFINE t == SvcOf[r]
           b == AddrOf[r]
           e == EndpointOf[t]
<1>1. /\ msgs \in Seq(Message) /\ msgs # <<>> /\ msgs' = Tail(msgs)
      /\ msgs' \in Seq(Message) /\ doing = Idle
      /\ Head(msgs) = msgs[1] /\ msgs[1].is = "found"
  BY HeadResult DEF Resolved, Found
<1>2. /\ UNCHANGED <<client, air, group, events, asking, known, broken>>
      /\ service' = [service EXCEPT ![t] = <<b>> \o @]
      /\ names' = [names EXCEPT ![b] = NameOf(t)]
      /\ aliases' = IF e = NoName THEN aliases ELSE [aliases EXCEPT ![e] = t]
      /\ ports' = ports \cup ({t} \cap Claims)
      /\ doing' = [is |-> "tell", svc |-> t]
  BY <1>0, <1>1 DEF Resolved, daemonVars, NameOf
<1>3. /\ t \in Svc /\ b \in Addr /\ e \in Endpoint \cup {NoName}
      /\ service \in [Svc -> Seq(Addr)]
      /\ names \in [Addr -> Svc \cup Endpoint \cup {NoName}]
      /\ aliases \in [Endpoint -> Svc \cup {NoName}]
      /\ air \in SUBSET Record
      /\ \A s \in Svc : ~Forgetting(s) /\ doing.svc # s
  BY <1>1, IdleResult DEF IInv, TypeOK
<1>4. /\ service' \in [Svc -> Seq(Addr)]
      /\ \A s \in Svc \ {t} : service'[s] = service[s]
      /\ service'[t] = <<b>> \o service[t] /\ service'[t] # <<>>
  BY <1>2, <1>3
<1>5. /\ \A s \in Svc \ {t} : Addresses(s)' = Addresses(s)
      /\ Addresses(t)' = Addresses(t) \cup {b}
  <2>1. service[t] \in Seq(Addr)
    BY <1>3
  <2>2. ToSet(<<b>> \o service[t]) = ToSet(service[t]) \cup {b}
    BY <1>3, <2>1, PrependSet
  <2>3. \A s \in Svc \ {t} : Addresses(s)' = Addresses(s)
    BY <1>4 DEF Addresses
  <2>4. Addresses(t)' = ToSet(service'[t])
    BY DEF Addresses
  <2> QED BY <1>4, <2>2, <2>3, <2>4 DEF Addresses
<1>6. /\ NameOf(t) \in Svc \cup Endpoint /\ NameOf(t) # NoName
      /\ r \in Record /\ SvcOf[r] = t /\ AddrOf[r] = b
  BY <1>1, <1>3 DEF NameOf
<1> HIDE DEF t, b, e
<1>7. /\ names' \in [Addr -> Svc \cup Endpoint \cup {NoName}]
      /\ aliases' \in [Endpoint -> Svc \cup {NoName}]
      /\ ports' \in SUBSET Claims /\ doing' \in [is : {"tell", "forget"}, svc : Svc]
  BY <1>2, <1>3, <1>6 DEF IInv, TypeOK
<1>8. TypeOK'
  BY <1>1, <1>2, <1>4, <1>7 DEF IInv, TypeOK, Message
<1>9. \A s \in Svc : Known(s) => Known(s)'
  BY <1>4 DEF Known
<1>10. \A s \in Svc : ~Forgetting(s)'
  BY <1>2 DEF Forgetting
<1>11. ArrivalInv'
  <2>1. ASSUME NEW q \in air', SvcOf[q] \notin broken' PROVE OnTheWay(q)'
    <3>1. OnTheWay(q) /\ q \in Record /\ SvcOf[q] \in Svc
      BY <1>2, <1>3, <2>1 DEF IInv, ArrivalInv, TypeOK
    <3>2. Sure(q) => Sure(q)'
      BY <1>2, <1>9, <1>10, <3>1 DEF Sure
    <3>3. Is(1, "new", q) \/ Is(1, "found", q) => Sure(q)'
      BY <1>0, <1>1, <1>3, <1>4, <1>10, <3>1 DEF Is, Sure, Known, t
    <3> QED BY <1>1, <3>1, <3>2, <3>3, ReceiveOnTheWay
  <2> QED BY <2>1 DEF ArrivalInv
<1>12. DepartureInv'
  <2>1. ASSUME NEW s \in Svc, Departs(s) PROVE Departs(s)'
    <3>1. s # t => (Known(s)' => Known(s) /\ ~Forgetting(s))
      BY <1>3, <1>4 DEF Known
    <3>2. CASE s = t
      BY <1>0, <1>1, <2>1, <3>2, ReceiveDeparts DEF t
    <3>3. CASE s # t
      BY <1>0, <1>1, <2>1, <3>1, <3>3, ReceiveDeparts DEF t
    <3> QED BY <3>2, <3>3
  <2> QED BY <1>2, <2>1 DEF IInv, DepartureInv, OnAir
<1>13. WatcherInv'
  <2>1. ASSUME NEW s \in Svc
        PROVE  /\ doing'.svc # s => (s \in known' <=> Known(s)')
               /\ doing' = [is |-> "tell", svc |-> s] => Known(s)'
               /\ s \in ports' <=> Known(s)' /\ s \in Claims
    <3>1. /\ s \in known <=> Known(s)
          /\ s \in ports <=> Known(s) /\ s \in Claims
      BY <1>3 DEF IInv, WatcherInv
    <3> QED BY <1>2, <1>4, <3>1 DEF Known
  <2> QED BY <1>10, <2>1 DEF WatcherInv
<1>14. NamesInv'
  <2>1. ASSUME NEW s \in Svc, NEW a \in Addresses(s)'
        PROVE  \E q \in Record : SvcOf[q] = s /\ AddrOf[q] = a
    BY <1>5, <1>6, <2>1 DEF IInv, NamesInv
  <2>2. ASSUME NEW a \in Addr, names'[a] # NoName
        PROVE  /\ \E q \in Record : AddrOf[q] = a /\ names'[a] = NameOf(SvcOf[q])
               /\ \E s \in Svc : a \in Addresses(s)'
    <3>1. CASE a = b
      BY <1>2, <1>3, <1>5, <1>6, <3>1
    <3>2. CASE a # b
      <4>1. names'[a] = names[a]
        BY <1>2, <1>3, <3>2
      <4> QED BY <1>5, <2>2, <4>1 DEF IInv, NamesInv
    <3> QED BY <3>1, <3>2
  <2>3. ASSUME NEW s \in Svc, NEW a \in Addresses(s)', Distinct(s)
        PROVE  /\ names'[a] = NameOf(s)
               /\ EndpointOf[s] # NoName => aliases'[EndpointOf[s]] = s
    <3>1. CASE s = t
      <4>1. CASE a = b
        BY <1>2, <1>3, <3>1, <4>1 DEF e
      <4>2. CASE a # b
        <5>1. a \in Addresses(s) /\ names'[a] = names[a]
          BY <1>2, <1>3, <1>5, <2>3, <3>1, <4>2
        <5>2. names[a] = NameOf(s)
          BY <2>3, <5>1 DEF IInv, NamesInv
        <5> QED BY <1>2, <1>3, <3>1, <5>1, <5>2 DEF e
      <4> QED BY <4>1, <4>2
    <3>2. CASE s # t
      <4>1. a \in Addresses(s)
        BY <1>5, <3>2
      <4>2. /\ names[a] = NameOf(s)
            /\ EndpointOf[s] # NoName => aliases[EndpointOf[s]] = s
        BY <2>3, <4>1 DEF IInv, NamesInv
      <4>3. PICK q \in Record : SvcOf[q] = s /\ AddrOf[q] = a
        BY <2>1
      <4>4. a # b
        BY <1>6, <2>3, <3>2, <4>3 DEF Distinct
      <4>5. names'[a] = names[a]
        BY <1>2, <1>3, <4>4
      <4>6. e # NoName => e # EndpointOf[s]
        BY <1>3, <2>3, <3>2 DEF Distinct, e
      <4>7. EndpointOf[s] \in Endpoint \cup {NoName}
        OBVIOUS
      <4> QED BY <1>2, <1>3, <4>2, <4>5, <4>6, <4>7
    <3> QED BY <3>1, <3>2
  <2> QED BY <2>1, <2>2, <2>3 DEF NamesInv
<1>15. TellInv'
  BY <1>2, <1>3, <1>4 DEF TellInv, Known, e
<1> QED BY <1>8, <1>11, <1>12, <1>13, <1>14, <1>15 DEF IInv

LEMMA TellResolvedIInv == IInv /\ TellResolved => IInv'
<1> SUFFICES ASSUME IInv, TellResolved PROVE IInv'
  OBVIOUS
<1>1. /\ doing.is = "tell" /\ doing' = Idle /\ known' = known \cup {doing.svc}
      /\ UNCHANGED <<client, air, group, events, msgs, asking, tables, broken>>
      /\ UNCHANGED <<service, names, aliases, ports>>
  BY DEF TellResolved, tables, daemonVars
<1>2. doing \in [is : {"tell", "forget"}, svc : Svc]
  BY <1>1 DEF IInv, TypeOK, Idle
<1>3. TypeOK'
  BY <1>1, <1>2 DEF IInv, TypeOK
<1>4. \A s \in Svc : (Known(s)' <=> Known(s)) /\ ~Forgetting(s) /\ ~Forgetting(s)' /\ doing'.svc # s
  BY <1>1 DEF Known, Forgetting, Idle
<1>5. ArrivalInv'
  <2>1. \A q \in air : Sure(q)' <=> Sure(q)
    BY <1>1, <1>4 DEF Sure, IInv, TypeOK
  <2> QED BY <1>1, <2>1 DEF IInv, ArrivalInv, OnTheWay, Is
<1>6. DepartureInv'
  BY <1>1, <1>4 DEF IInv, DepartureInv, Departs, RemovalAfter, OnAir
<1>7. WatcherInv'
  <2>1. ASSUME NEW s \in Svc
        PROVE  /\ s \in known' <=> Known(s)'
               /\ s \in ports' <=> Known(s)' /\ s \in Claims
    <3>1. /\ doing.svc # s => (s \in known <=> Known(s))
          /\ doing = [is |-> "tell", svc |-> s] => Known(s)
          /\ s \in ports <=> Known(s) /\ s \in Claims
      BY DEF IInv, WatcherInv
    <3>2. doing.svc = s => Known(s)
      BY <1>1 DEF IInv, TellInv
    <3> QED BY <1>1, <1>4, <3>1, <3>2
  <2>2. \A s \in Svc : doing' # [is |-> "tell", svc |-> s]
    BY <1>1 DEF Idle
  <2> QED BY <1>4, <2>1, <2>2 DEF WatcherInv
<1>8. NamesInv' /\ TellInv'
  BY <1>1 DEF IInv, NamesInv, Addresses, TellInv, Idle
<1> QED BY <1>3, <1>5, <1>6, <1>7, <1>8 DEF IInv

LEMMA RemovedIInv == IInv /\ Removed => IInv'
<1> SUFFICES ASSUME IInv, Removed PROVE IInv'
  OBVIOUS
<1>0. PICK r \in Record : r = msgs[1].rec
  BY HeadResult DEF Removed
<1> DEFINE t == SvcOf[r]
<1>1. /\ msgs \in Seq(Message) /\ msgs # <<>> /\ msgs' = Tail(msgs)
      /\ msgs' \in Seq(Message) /\ doing = Idle
      /\ Head(msgs) = msgs[1] /\ msgs[1].is = "remove"
  BY HeadResult DEF Removed
<1>2. /\ UNCHANGED <<client, air, group, events, asking, service, names, aliases, ports>>
      /\ known' = known \ {t} /\ doing' = [is |-> "forget", svc |-> t]
      /\ broken' = IF \E q \in air \ {r} : SvcOf[q] = t THEN broken \cup {t} ELSE broken
  BY <1>0, <1>1 DEF Removed, daemonVars, tables
<1>3. /\ t \in Svc /\ \A s \in Svc : ~Forgetting(s) /\ doing.svc # s
  BY <1>1, IdleResult
<1> HIDE DEF t
<1>4. TypeOK'
  <2>1. doing' \in [is : {"tell", "forget"}, svc : Svc]
    BY <1>2, <1>3
  <2>2. broken' \in SUBSET Svc /\ known' \in SUBSET Svc
    BY <1>2, <1>3 DEF IInv, TypeOK
  <2> QED BY <1>1, <1>2, <2>1, <2>2 DEF IInv, TypeOK, Message
<1>5. \A s \in Svc : (Known(s)' <=> Known(s)) /\ (Forgetting(s)' <=> s = t)
  BY <1>2 DEF Known, Forgetting
<1>6. ArrivalInv'
  <2>1. ASSUME NEW q \in air', SvcOf[q] \notin broken' PROVE OnTheWay(q)'
    <3>1. OnTheWay(q) /\ q \in Record /\ SvcOf[q] \in Svc
      BY <1>2, <2>1 DEF IInv, ArrivalInv, TypeOK
    <3>2. SvcOf[q] = t => q = r
      BY <1>2, <2>1
    <3>3. ~Is(1, "remove", q) /\ Sure(q) => Sure(q)'
      BY <1>0, <1>1, <1>2, <1>5, <3>1, <3>2 DEF Is, Sure
    <3>4. ~(Is(1, "new", q) \/ Is(1, "found", q))
      BY <1>1 DEF Is
    <3> QED BY <1>1, <3>1, <3>3, <3>4, ReceiveOnTheWay
  <2> QED BY <2>1 DEF ArrivalInv
<1>7. DepartureInv'
  <2>1. ASSUME NEW s \in Svc, Departs(s) PROVE Departs(s)'
    <3>1. CASE s = t
      BY <1>0, <1>1, <1>5, <2>1, <3>1, ReceiveDeparts DEF t
    <3>2. CASE s # t
      <4>1. ~(msgs[1].is = "remove" /\ SvcOf[msgs[1].rec] = s) /\ msgs[1].is # "found"
        BY <1>0, <1>1, <3>2 DEF t
      <4>2. Known(s)' => Known(s) /\ ~Forgetting(s)
        BY <1>3, <1>5
      <4> QED BY <1>1, <2>1, <4>1, <4>2, ReceiveDeparts
    <3> QED BY <3>1, <3>2
  <2> QED BY <1>2, <2>1 DEF IInv, DepartureInv, OnAir
<1>8. WatcherInv'
  BY <1>2, <1>3, <1>5 DEF IInv, WatcherInv
<1>9. NamesInv' /\ TellInv'
  BY <1>2 DEF IInv, NamesInv, Addresses, TellInv
<1> QED BY <1>4, <1>6, <1>7, <1>8, <1>9 DEF IInv

LEMMA ForgetIInv == IInv /\ Forget => IInv'
<1> SUFFICES ASSUME IInv, Forget PROVE IInv'
  OBVIOUS
<1>0. PICK t \in Svc : doing = [is |-> "forget", svc |-> t]
  BY DEF Forget, IInv, TypeOK, Idle
<1>1. /\ UNCHANGED <<client, air, group, events, msgs, asking, known, broken>>
      /\ doing' = Idle /\ ports' = ports \ {t}
      /\ IF Known(t)
           THEN /\ names' = [a \in Addr |-> IF a \in Addresses(t) THEN NoName ELSE names[a]]
                /\ aliases' = IF EndpointNamed(service[t]) \in Endpoint
                                THEN [aliases EXCEPT ![EndpointNamed(service[t])] = NoName] ELSE aliases
                /\ service' = [service EXCEPT ![t] = <<>>]
           ELSE UNCHANGED <<names, aliases, service>>
  BY <1>0 DEF Forget, daemonVars, Addresses
<1>2. /\ service \in [Svc -> Seq(Addr)] /\ air \in SUBSET Record
      /\ names \in [Addr -> Svc \cup Endpoint \cup {NoName}]
      /\ aliases \in [Endpoint -> Svc \cup {NoName}]
  BY DEF IInv, TypeOK
<1>3. /\ service' \in [Svc -> Seq(Addr)] /\ service'[t] = <<>>
      /\ \A s \in Svc \ {t} : service'[s] = service[s]
  <2>1. <<>> \in Seq(Addr)
    OBVIOUS
  <2>2. CASE Known(t)
    <3>1. service' = [service EXCEPT ![t] = <<>>]
      BY <1>1, <2>2
    <3> QED BY <1>2, <2>1, <3>1
  <2>3. CASE ~Known(t)
    BY <1>1, <1>2, <2>3 DEF Known
  <2> QED BY <2>2, <2>3
<1>4. /\ names' \in [Addr -> Svc \cup Endpoint \cup {NoName}]
      /\ aliases' \in [Endpoint -> Svc \cup {NoName}]
  BY <1>1, <1>2
<1>5. TypeOK'
  <2>1. ports' \in SUBSET Claims
    BY <1>1 DEF IInv, TypeOK
  <2> QED BY <1>1, <1>3, <1>4, <2>1 DEF IInv, TypeOK
<1>6. /\ ~Known(t)' /\ \A s \in Svc \ {t} : Known(s)' <=> Known(s)
      /\ \A s \in Svc : (Forgetting(s) <=> s = t) /\ ~Forgetting(s)'
  BY <1>0, <1>1, <1>3 DEF Known, Forgetting, Idle
<1>7. ArrivalInv'
  <2>1. \A q \in air : Sure(q) => Sure(q)'
    BY <1>1, <1>2, <1>6 DEF Sure
  <2> QED BY <1>1, <2>1 DEF IInv, ArrivalInv, OnTheWay, Is
<1>8. DepartureInv'
  BY <1>1, <1>6 DEF IInv, DepartureInv, Departs, RemovalAfter, OnAir
<1>9. WatcherInv'
  <2>1. ASSUME NEW s \in Svc
        PROVE  /\ s \in known' <=> Known(s)'
               /\ s \in ports' <=> Known(s)' /\ s \in Claims
    <3>1. /\ doing.svc # s => (s \in known <=> Known(s))
          /\ Forgetting(s) => s \notin known
          /\ s \in ports <=> Known(s) /\ s \in Claims
      BY DEF IInv, WatcherInv
    <3>2. doing.svc = t
      BY <1>0
    <3> QED BY <1>1, <1>6, <3>1, <3>2
  <2>2. \A s \in Svc : doing' # [is |-> "tell", svc |-> s]
    BY <1>1 DEF Idle
  <2> QED BY <1>6, <2>1, <2>2 DEF WatcherInv
<1>10. Addresses(t)' = {} /\ \A s \in Svc \ {t} : Addresses(s)' = Addresses(s)
  <2>1. ToSet(<<>>) = {}
    BY DEF ToSet
  <2> QED BY <1>3, <2>1 DEF Addresses
<1>11. NamesInv'
  <2>1. ASSUME NEW s \in Svc, NEW a \in Addresses(s)'
        PROVE  \E q \in Record : SvcOf[q] = s /\ AddrOf[q] = a
    BY <1>10, <2>1 DEF IInv, NamesInv
  <2>2. ASSUME NEW a \in Addr, names'[a] # NoName
        PROVE  /\ \E q \in Record : AddrOf[q] = a /\ names'[a] = NameOf(SvcOf[q])
               /\ \E s \in Svc : a \in Addresses(s)'
    <3>1. names'[a] = names[a] /\ (Known(t) => a \notin Addresses(t))
      BY <1>1, <1>2, <2>2
    <3>2. ~Known(t) => Addresses(t) = {}
      BY DEF Known, Addresses, ToSet
    <3> QED BY <1>10, <2>2, <3>1, <3>2 DEF IInv, NamesInv
  <2>3. ASSUME NEW s \in Svc, NEW a \in Addresses(s)', Distinct(s)
        PROVE  /\ names'[a] = NameOf(s)
               /\ EndpointOf[s] # NoName => aliases'[EndpointOf[s]] = s
    <3>1. s # t /\ a \in Addresses(s)
      BY <1>10, <2>3
    <3>2. /\ names[a] = NameOf(s)
          /\ EndpointOf[s] # NoName => aliases[EndpointOf[s]] = s
      BY <2>3, <3>1 DEF IInv, NamesInv
    <3>3. PICK q \in Record : SvcOf[q] = s /\ AddrOf[q] = a
      BY <2>1
    \* No address of the service forgotten is one of s, nor has the name of s.
    <3>4. ASSUME NEW b \in Addresses(t)
          PROVE  b # a /\ (EndpointOf[s] # NoName => names[b] # EndpointOf[s])
      <4>1. PICK p \in Record : SvcOf[p] = t /\ AddrOf[p] = b
        BY <3>4 DEF IInv, NamesInv
      <4>2. b # a
        BY <2>3, <3>1, <3>3, <4>1 DEF Distinct
      <4>3. ASSUME EndpointOf[s] # NoName, names[b] = EndpointOf[s] PROVE FALSE
        <5>1. b \in Addr
          BY <4>1
        <5>2. PICK o \in Record : AddrOf[o] = b /\ names[b] = NameOf(SvcOf[o])
          BY <4>3, <5>1 DEF IInv, NamesInv
        <5>3. SvcOf[o] \in Svc /\ EndpointOf[s] \notin Svc
          BY <2>3 DEF Distinct
        <5>4. EndpointOf[SvcOf[o]] = EndpointOf[s] /\ EndpointOf[SvcOf[o]] # NoName
          BY <4>3, <5>2, <5>3 DEF NameOf
        <5>5. SvcOf[o] = s
          BY <2>3, <5>3, <5>4 DEF Distinct
        <5> QED BY <2>3, <3>1, <4>1, <5>2, <5>5 DEF Distinct
      <4> QED BY <4>2, <4>3
    <3>5. a \in Addr
      BY <3>3
    <3>6. names'[a] = NameOf(s)
      BY <1>1, <1>2, <3>2, <3>4, <3>5
    <3>7. Known(t) /\ EndpointOf[s] # NoName => EndpointNamed(service[t]) # EndpointOf[s]
      <4>1. ASSUME Known(t), EndpointOf[s] # NoName PROVE Last(service[t]) \in Addresses(t)
        <5>1. service[t] \in Seq(Addr) /\ service[t] # <<>>
          BY <1>2, <4>1 DEF Known
        <5>2. Len(service[t]) \in DOMAIN service[t]
          BY <5>1
        <5> QED BY <5>2 DEF Last, Addresses, ToSet
      <4> QED BY <3>4, <4>1 DEF EndpointNamed
    <3> QED BY <1>1, <1>2, <3>2, <3>6, <3>7
  <2> QED BY <2>1, <2>2, <2>3 DEF NamesInv
<1>12. TellInv'
  BY <1>1 DEF TellInv, Idle
<1> QED BY <1>5, <1>7, <1>8, <1>9, <1>11, <1>12 DEF IInv

LEMMA NextIInv == IInv /\ [Next]_vars => IInv'
<1> SUFFICES ASSUME IInv, [Next]_vars PROVE IInv'
  OBVIOUS
<1>1. ASSUME NEW r \in Record, Announce(r) PROVE IInv'
  BY <1>1, AnnounceIInv
<1>2. ASSUME NEW r \in Record, Withdraw(r) PROVE IInv'
  <2>1. /\ r \in air /\ msgs' = Append(msgs, [is |-> "remove", rec |-> r])
        /\ air' = air \ {r} /\ group' = group /\ events < MaxEvents /\ events' = events + 1
        /\ UNCHANGED <<client, asking, tables, known, doing, broken>>
    BY <1>2 DEF Withdraw, Send, Event
  <2>2. group' \in {"none", "empty", "registering", "established"}
    BY <2>1 DEF IInv, TypeOK
  <2> QED BY <2>1, <2>2, WithdrawStep
<1>3. CASE Answers
  BY <1>3, AnswerIInv DEF Answers
<1>4. CASE ClientFails
  BY <1>4, ClientFailsIInv
<1>5. CASE BrowserNew \/ ResolverFailed
  BY <1>5, BrowserIInv
<1>6. CASE Resolved
  BY <1>6, ResolvedIInv
<1>7. CASE TellResolved
  BY <1>7, TellResolvedIInv
<1>8. CASE Removed
  BY <1>8, RemovedIInv
<1>9. CASE Forget
  BY <1>9, ForgetIInv
<1>10. CASE GroupCreate \/ GroupEstablished \/ GroupCollision
  BY <1>10, GroupIInv
<1>11. CASE UNCHANGED vars
  <2>1. /\ UNCHANGED <<client, air, msgs, asking, tables, known, doing, group, broken, events>>
        /\ UNCHANGED service
    BY <1>11 DEF vars, tables
  <2>2. TypeOK'
    BY <2>1 DEF IInv, TypeOK, tables
  <2>3. ArrivalInv'
    BY <2>1 DEF IInv, ArrivalInv, OnTheWay, Is, Sure, Known, Forgetting
  <2>4. DepartureInv'
    BY <2>1 DEF IInv, DepartureInv, OnAir, Departs, RemovalAfter, Known, Forgetting
  <2> QED BY <2>1, <2>2, <2>3, <2>4, TablesStep DEF IInv
<1> QED
  BY <1>1, <1>2, <1>3, <1>4, <1>5, <1>6, <1>7, <1>8, <1>9, <1>10, <1>11 DEF Next, Handlers

-----------------------------------------------------------------------------
\* The inductive invariant holds in every state the listener can reach, however the
\* daemon's messages, its resolvers and the group interleave.
THEOREM Invariance == Spec => []IInv
<1> QED BY InitIInv, NextIInv, PTL DEF Spec

\* Every variable keeps its type, and the queue holds messages about records.
THEOREM TypeCorrect == Spec => []TypeOK
<1>1. IInv => TypeOK
  BY DEF IInv
<1> QED BY <1>1, Invariance, PTL

\* Once the messages are handled and the resolvers have answered, the tables of
\* src/src/impl/zeroconf.h and the watching endpoints know exactly the services that
\* are announced, but for those of which a resolver failed or answered late, or that
\* lost one interface of several.
THEOREM TablesFollowTheNetwork == Spec => []KnowsTheNetwork
<1>1. ASSUME IInv PROVE KnowsTheNetwork
  <2> SUFFICES ASSUME Quiet, NEW s \in Svc \ broken
               PROVE  /\ Known(s) <=> OnAir(s)
                      /\ s \in known <=> Known(s)
                      /\ s \in ports <=> OnAir(s) /\ s \in Claims
    BY DEF KnowsTheNetwork
  <2>1. /\ client = "running" /\ msgs = <<>> /\ Len(msgs) = 0 /\ doing = Idle
        /\ \A r \in Record : asking[r] = 0
    BY DEF Quiet
  <2>2. OnAir(s) => Known(s)
    <3>1. ASSUME NEW r \in air, SvcOf[r] = s PROVE Known(s)
      <4>1. r \in Record /\ OnTheWay(r)
        BY <1>1, <3>1 DEF IInv, ArrivalInv, TypeOK
      <4>2. Sure(r)
        BY <2>1, <4>1 DEF OnTheWay
      <4> QED BY <2>1, <3>1, <4>1, <4>2 DEF Sure
    <3> QED BY <3>1 DEF OnAir
  <2>3. Known(s) => OnAir(s)
    <3>1. ~RemovalAfter(0, s)
      BY <2>1 DEF RemovalAfter
    <3>2. ~Forgetting(s)
      BY <2>1, IdleResult
    <3> QED BY <1>1, <2>1, <3>1, <3>2 DEF IInv, DepartureInv, Departs
  <2>4. /\ s \in known <=> Known(s)
        /\ s \in ports <=> Known(s) /\ s \in Claims
    BY <1>1, <2>1, IdleResult DEF IInv, WatcherInv
  <2> QED BY <2>2, <2>3, <2>4
<1> QED BY <1>1, Invariance, PTL

\* A watcher that looks up, from svc_resolved, what it is told of finds it; every name
\* leads to a known service, and the addresses of a known service lead back to it,
\* unless it has an address or a name in common with another one.
THEOREM LookUpsAgree == Spec => []LooksUpWhatItTells
<1>1. ASSUME IInv PROVE LooksUpWhatItTells
  <2>1. ASSUME doing.is = "tell"
        PROVE  /\ doing.svc \notin Endpoint => ServiceInfo(doing.svc) = {doing.svc}
               /\ EndpointOf[doing.svc] # NoName => ServiceInfo(EndpointOf[doing.svc]) = {doing.svc}
    <3>1. doing.svc \in Svc /\ Known(doing.svc)
      BY <1>1, <2>1 DEF IInv, TypeOK, TellInv, Idle
    <3>2. EndpointOf[doing.svc] # NoName =>
            /\ EndpointOf[doing.svc] \in Endpoint
            /\ aliases[EndpointOf[doing.svc]] = doing.svc
            /\ doing.svc # NoName
      BY <1>1, <2>1, <3>1 DEF IInv, TellInv
    <3> QED BY <3>1, <3>2 DEF ServiceInfo
  <2>2. ASSUME NEW a \in Addr, names[a] # NoName
        PROVE  \E s \in Svc : a \in ToSet(service[s])
    BY <1>1, <2>2 DEF IInv, NamesInv, Addresses
  <2>3. ASSUME NEW s \in Svc, NEW a \in ToSet(service[s]), Distinct(s)
        PROVE  QueryName(a) = <<s, IF EndpointOf[s] = NoName THEN s ELSE EndpointOf[s]>>
    <3>1. /\ names[a] = NameOf(s)
          /\ EndpointOf[s] # NoName => aliases[EndpointOf[s]] = s
      BY <1>1, <2>3 DEF IInv, NamesInv, Addresses
    <3>2. s \notin Endpoint /\ s # NoName /\ EndpointOf[s] \in Endpoint \cup {NoName}
      BY <2>3 DEF Distinct
    <3> QED BY <3>1, <3>2 DEF QueryName, NameOf
  <2> QED BY <2>1, <2>2, <2>3 DEF LooksUpWhatItTells
<1> QED BY <1>1, Invariance, PTL
=============================================================================
