----------------------------- MODULE Zeroconf -----------------------------
(***************************************************************************)
(* The services known by Zeroconf: the browser and the resolvers of Avahi  *)
(* (src/src/avahi-cpp.cpp), the tables ServiceListener keeps of what they  *)
(* report (src/src/impl/zeroconf.h), the endpoints that watch it, and the  *)
(* group under which an endpoint registers a service of its own.  Avahi's  *)
(* daemon answers through one ordered connection; its records are of a     *)
(* service on an interface.                                                *)
(***************************************************************************)
EXTENDS Integers, Sequences, SequencesExt

CONSTANTS
  Record,    \* the records of services on interfaces: the daemon announces these
  SvcOf,     \* the service of a record
  AddrOf,    \* the address a record resolves to
  Svc, Addr, Endpoint,
  EndpointOf,   \* the "endpoint" of a service's TXT record, or NoName
  Claims,       \* services named <port>-<ip>-claim
  NoName,
  Own,          \* the record of the service registered here
  MaxEvents     \* bound: changes of what is announced

ASSUME ZeroconfAssumption ==
  /\ SvcOf \in [Record -> Svc] /\ AddrOf \in [Record -> Addr]
  /\ EndpointOf \in [Svc -> Endpoint \cup {NoName}] /\ NoName \notin Endpoint \cup Svc
  /\ Claims \subseteq Svc /\ Own \in Record /\ MaxEvents \in Nat

VARIABLES
  client,    \* the Avahi client: "running" or "failure" (the daemon is gone)
  air,       \* the records announced
  msgs,      \* the daemon's messages under way: [is, rec]
  asking,    \* how many resolvers are at work for a record
  service,   \* _service: the addresses of a service, the latest first
  names,     \* names: the name of an address
  aliases,   \* aliases: the service of an endpoint
  ports,     \* ports: the services whose port is claimed
  known,     \* the services a watching endpoint was told of and not yet rid of
  doing,     \* the handler at work: "none", or [is |-> "tell" or "forget", svc]
  group,     \* the group: "none", "empty", "registering", "established"
  broken,    \* services for which a resolver failed or could not be made, answered late, or
             \* one interface of several went
  events

vars == <<client, air, msgs, asking, service, names, aliases, ports, known, doing, group, broken, events>>
tables == <<service, names, aliases, ports>>
daemonVars == <<client, air, group, events>>

Known(s) == service[s] # <<>>
Idle == [is |-> "none", svc |-> NoName]

TypeOK ==
  /\ client \in {"running", "failure"} /\ air \in SUBSET Record
  /\ msgs \in Seq([is : {"new", "remove", "found", "failed"}, rec : Record])
  /\ doing \in [is : {"tell", "forget"}, svc : Svc] \cup {Idle}
  /\ asking \in [Record -> Nat] /\ service \in [Svc -> Seq(Addr)]
  /\ names \in [Addr -> Svc \cup Endpoint \cup {NoName}]
  /\ aliases \in [Endpoint -> Svc \cup {NoName}]
  /\ ports \in SUBSET Claims /\ known \in SUBSET Svc /\ broken \in SUBSET Svc
  /\ group \in {"none", "empty", "registering", "established"}
  /\ events \in 0..MaxEvents

Init ==
  /\ client = "running" /\ air = {} /\ msgs = <<>> /\ asking = [r \in Record |-> 0]
  /\ service = [s \in Svc |-> <<>>] /\ names = [a \in Addr |-> NoName]
  /\ aliases = [e \in Endpoint |-> NoName] /\ ports = {} /\ known = {} /\ doing = Idle
  /\ group = "none" /\ broken = {} /\ events = 0

-----------------------------------------------------------------------------
(* The daemon. *)

Send(is, r) == msgs' = Append(msgs, [is |-> is, rec |-> r])
Event == events < MaxEvents /\ events' = events + 1

Announce(r) ==
  /\ client = "running" /\ r \notin air \cup {Own} /\ Event
  /\ air' = air \cup {r} /\ Send("new", r)
  /\ UNCHANGED <<client, asking, tables, known, doing, group, broken>>
Withdraw(r) ==
  /\ client = "running" /\ r \in air \ {Own} /\ Event
  /\ air' = air \ {r} /\ Send("remove", r)
  /\ UNCHANGED <<client, asking, tables, known, doing, group, broken>>

\* A resolver's one answer; it may find in the cache what was withdrawn meanwhile.
Answer(r, is) ==
  /\ client = "running" /\ asking[r] > 0 /\ asking' = [asking EXCEPT ![r] = @ - 1]
  /\ Send(is, r)
  /\ broken' = IF is = "failed" \/ r \notin air THEN broken \cup {SvcOf[r]} ELSE broken
  /\ UNCHANGED <<client, air, tables, known, doing, group, events>>

\* The daemon goes: the queries of the client are told, who have no on_failure; the list
\* of groups that would be told is never filled.  Nothing connects again.
ClientFails ==
  /\ client = "running" /\ client' = "failure" /\ Event
  /\ air' = {} /\ msgs' = <<>> /\ asking' = [r \in Record |-> 0]
  /\ UNCHANGED <<tables, known, doing, group, broken>>

-----------------------------------------------------------------------------
(* The browser and the listener. *)

Receive(is) == doing = Idle /\ msgs # <<>> /\ Head(msgs).is = is /\ msgs' = Tail(msgs)

\* A resolver's record of a service of the pattern, with its TXT pairs; the resolver is freed.
Found == Receive("found")

\* A resolver for what is announced; when none can be made, an on_failure nobody set is told.
BrowserNew ==
  /\ Receive("new")
  /\ LET r == Head(msgs).rec IN
       \/ asking' = [asking EXCEPT ![r] = @ + 1] /\ UNCHANGED broken
       \/ broken' = broken \cup {SvcOf[r]} /\ UNCHANGED asking
  /\ UNCHANGED <<daemonVars, tables, known, doing>>

\* The failure of a resolver is for an on_failure nobody set; it is not asked again.
ResolverFailed ==
  /\ Receive("failed")
  /\ UNCHANGED <<daemonVars, asking, tables, known, doing, broken>>

\* Mutant of Resolved: the watchers are not told of a service without an endpoint's name.
MutResolved ==
  /\ Found
  /\ LET r == Head(msgs).rec
         s == SvcOf[r] IN
       /\ service' = [service EXCEPT ![s] = <<AddrOf[r]>> \o @]
       /\ names' = [names EXCEPT ![AddrOf[r]] = IF EndpointOf[s] = NoName THEN s ELSE EndpointOf[s]]
       /\ ports' = ports \cup ({s} \cap Claims)
       /\ IF EndpointOf[s] = NoName
            THEN UNCHANGED <<aliases, doing>>
            ELSE aliases' = [aliases EXCEPT ![EndpointOf[s]] = s]
                 /\ doing' = [is |-> "tell", svc |-> s]
  /\ UNCHANGED <<daemonVars, asking, known, broken>>
\* on_resolve: the tables, then the watchers.
Resolved ==
  /\ Found
  /\ LET r == Head(msgs).rec
         s == SvcOf[r]
         a == AddrOf[r]
         e == EndpointOf[s] IN
       /\ service' = [service EXCEPT ![s] = <<a>> \o @]
       /\ names' = [names EXCEPT ![a] = IF e = NoName THEN s ELSE e]
       /\ aliases' = IF e = NoName THEN aliases ELSE [aliases EXCEPT ![e] = s]
       /\ ports' = ports \cup ({s} \cap Claims)
       /\ doing' = [is |-> "tell", svc |-> s]
  /\ UNCHANGED <<daemonVars, asking, known, broken>>
TellResolved ==
  /\ doing.is = "tell" /\ known' = known \cup {doing.svc} /\ doing' = Idle
  /\ UNCHANGED <<daemonVars, msgs, asking, tables, broken>>

\* on_remove of a record, which is taken for the whole service: the watchers first.
Removed ==
  /\ Receive("remove")
  /\ LET r == Head(msgs).rec
         s == SvcOf[r] IN
       /\ known' = known \ {s} /\ doing' = [is |-> "forget", svc |-> s]
       /\ broken' = IF \E q \in air \ {r} : SvcOf[q] = s THEN broken \cup {s} ELSE broken
  /\ UNCHANGED <<daemonVars, asking, tables>>

\* Removal erases the name of each address; the name the last one had is taken for the
\* endpoint's: none for an address met before, whose name is erased by then.
EndpointNamed(L) ==
  LET a == Last(L) IN
  IF \E k \in 1..Len(L) - 1 : L[k] = a THEN NoName ELSE names[a]

\* Mutant of Forget: the names stay.
MutForget ==
  /\ doing.is = "forget" /\ doing' = Idle
  /\ LET s == doing.svc IN
       /\ ports' = ports \ {s} /\ service' = [service EXCEPT ![s] = <<>>]
       /\ UNCHANGED <<names, aliases>>
  /\ UNCHANGED <<daemonVars, msgs, asking, known, broken>>

Forget ==
  /\ doing.is = "forget" /\ doing' = Idle
  /\ LET s == doing.svc IN
       /\ ports' = ports \ {s}
       /\ IF Known(s)
            THEN LET e == EndpointNamed(service[s]) IN
                 /\ names' = [a \in Addr |-> IF a \in ToSet(service[s]) THEN NoName ELSE names[a]]
                 /\ aliases' = IF e \in Endpoint THEN [aliases EXCEPT ![e] = NoName] ELSE aliases
                 /\ service' = [service EXCEPT ![s] = <<>>]
            ELSE UNCHANGED <<names, aliases, service>>
  /\ UNCHANGED <<daemonVars, msgs, asking, known, broken>>

\* get_service_info of a service's or an endpoint's name, query_service_name of an
\* address: the service and the endpoint it is of.
ServiceInfo(n) ==
  LET s == IF n \in Endpoint /\ aliases[n] # NoName THEN aliases[n] ELSE n IN
  IF s \in Svc /\ Known(s) THEN {s} ELSE {}
QueryName(a) ==
  LET n == names[a] IN
  IF n \in Endpoint /\ aliases[n] # NoName THEN <<aliases[n], n>> ELSE <<n, n>>

-----------------------------------------------------------------------------
(* The group of the service registered here. *)

\* create, with the owner's on_create, which adds the service and commits the group: a
\* client that does not run, a failed call, are told on_failure.
GroupCreate ==
  /\ group \in {"none", "empty"} /\ doing = Idle
  /\ \/ client = "running" /\ group' \in {"registering", "empty"}
     \/ client = "failure" /\ UNCHANGED group
  /\ Event
  /\ UNCHANGED <<client, air, msgs, asking, tables, known, doing, broken>>

\* The daemon establishes the group and announces its record, or finds a collision,
\* after which the owner resets the group.
GroupEstablished ==
  /\ client = "running" /\ doing = Idle /\ group = "registering" /\ group' = "established"
  /\ air' = air \cup {Own} /\ Send("new", Own)
  /\ UNCHANGED <<client, asking, tables, known, doing, broken, events>>

GroupCollision ==
  /\ client = "running" /\ doing = Idle /\ Event
  /\ group \in {"registering", "established"} /\ group' = "empty"
  /\ air' = air \ {Own}
  /\ IF Own \in air THEN Send("remove", Own) ELSE UNCHANGED msgs
  /\ UNCHANGED <<client, asking, tables, known, doing, broken>>

-----------------------------------------------------------------------------
Handlers == BrowserNew \/ ResolverFailed \/ Resolved \/ TellResolved \/ Removed \/ Forget
Answers == \E r \in Record, is \in {"found", "failed"} : Answer(r, is)

Next ==
  \/ \E r \in Record : Announce(r) \/ Withdraw(r)
  \/ Answers \/ ClientFails \/ Handlers
  \/ GroupCreate \/ GroupEstablished \/ GroupCollision

\* The loop reads the daemon's messages; the daemon ends its resolvers.
Fairness == WF_vars(Handlers) /\ WF_vars(Answers)
Spec == Init /\ [][Next]_vars /\ Fairness

-----------------------------------------------------------------------------
(* Properties. *)

\* When no message is under way, the tables say of a service what the network does, and
\* so do the watchers.  The exceptions, in which nothing corrects them: a resolver that
\* failed or could not be made, one that answered late, and a service of which one
\* interface went.
OnAir(s) == \E r \in air : SvcOf[r] = s
Quiet == client = "running" /\ msgs = <<>> /\ doing = Idle /\ \A r \in Record : asking[r] = 0
KnowsTheNetwork ==
  Quiet => \A s \in Svc \ broken : (Known(s) <=> OnAir(s)) /\ (s \in known <=> Known(s))
                                     /\ (s \in ports <=> OnAir(s) /\ s \in Claims)

\* A watcher that looks up, from svc_resolved, the service or the endpoint it is told of
\* finds it; every name leads to a service that is known, and every known service can be
\* found by its addresses.  The exceptions: a service that has an address or a name in
\* common with another one.
Distinct(s) ==
  /\ \A r, q \in Record : SvcOf[r] = s /\ AddrOf[q] = AddrOf[r] => SvcOf[q] = s
  /\ \A t \in Svc \ {s} : EndpointOf[t] # NoName => EndpointOf[t] # EndpointOf[s]
  /\ s \notin Endpoint /\ EndpointOf[s] \notin Svc
LooksUpWhatItTells ==
  /\ doing.is = "tell" =>
       /\ doing.svc \notin Endpoint => ServiceInfo(doing.svc) = {doing.svc}
       /\ EndpointOf[doing.svc] # NoName => ServiceInfo(EndpointOf[doing.svc]) = {doing.svc}
  /\ \A a \in Addr : names[a] # NoName => \E s \in Svc : a \in ToSet(service[s])
  /\ \A s \in Svc : \A a \in ToSet(service[s]) :
       Distinct(s) =>
         QueryName(a) = <<s, IF EndpointOf[s] = NoName THEN s ELSE EndpointOf[s]>>

\* What is announced for long enough becomes known, and stays so.
EventuallyKnown ==
  \A s \in Svc : <>[]OnAir(s) => <>[](s \in broken \/ (Known(s) /\ s \in known))
=============================================================================
