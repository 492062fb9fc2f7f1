------------------------------- MODULE Router -------------------------------
(***************************************************************************)
(* The router application: class Destination, class EndpointStore,         *)
(* construct_route(s) and setup_endpoint of src/app/uav-router.cpp.        *)
(*                                                                         *)
(* Streams are objects at addresses.  The only owner of a stream is the    *)
(* entry of client_entries under its name; every Destination refers to it  *)
(* by address, with a weak pointer, and prunes expired ones when written   *)
(* to; its on_read callback holds a reference to the entry.  An address is *)
(* used again once its object is gone, an identity (the control block of   *)
(* the weak pointers) only when nobody refers to it any more.              *)
(*                                                                         *)
(* Every callback runs to its end in the single thread of the loop, so     *)
(* each is one action.                                                     *)
(***************************************************************************)
EXTENDS RouteTable

CONSTANTS
  Addr,         \* memory addresses (bound: streams alive at once)
  Id,           \* identities (bound: streams alive or still referred to)
  Endpoint,     \* names of the endpoints set up by load_endpoints
  ClientName,   \* names of clients
  WriteEnds,    \* endpoints set up with register_write_end, all but UDP clients
  Static,       \* files and UDP clients, registered once and for all
  RouteTables,  \* the configurations considered
  None          \* no stream, no entry, no reference

VARIABLES
  routes,     \* routes
  heap,       \* the stream object at each address
  entries,    \* client_entries
  dests,      \* EndpointStore::endpoints, the streams in each Destination
  delivered,  \* history: the last stream read, the write ends written to
  twice,      \* history: names of those written to more than once
  undefined   \* an object was used after its destruction

vars == <<routes, heap, entries, dests, delivered, twice, undefined>>

Stream == [id : Id, name : ClientName, ep : Endpoint, reads : Id]
Entry == [node : Id, client : Addr, dest : SUBSET Pattern, chained : SUBSET Endpoint]

ASSUME RouterAssumption ==
  /\ Endpoint \subseteq Name /\ ClientName \subseteq Name /\ Static \subseteq Name
  /\ WriteEnds \subseteq Endpoint
  /\ RouteTables \subseteq SUBSET Route
  /\ \A table \in RouteTables : NoShadow(table)
  /\ Id \cap Static = {}
  /\ None \notin Id \cup Stream \cup Entry

Alive == {a \in Addr : heap[a] # None}
Known(s) == {s.name, s.ep}
Public(s) == [id |-> s.id, name |-> s.name, ep |-> s.ep]

\* What the map, the weak pointers and the callbacks may hold; only patterns that
\* scan_dst found in the routes have a Destination.
TypeOK ==
  /\ routes \in RouteTables
  /\ heap \in [Addr -> Stream \cup {None}]
  /\ entries \in [ClientName -> Entry \cup {None}]
  /\ dests \in [Pattern -> [Addr -> Id \cup {None}]]
  /\ \A p \in Pattern, a \in Addr : dests[p][a] # None => p \in Leaves(routes)
  /\ undefined \in BOOLEAN

Init ==
  /\ routes \in RouteTables
  /\ heap = [a \in Addr |-> None]
  /\ entries = [n \in ClientName |-> None]
  /\ dests = [p \in Pattern |-> [a \in Addr |-> None]]
  /\ delivered = <<>> /\ twice = {} /\ undefined = FALSE

\* connect_to_dest: the Destination of the pattern and, for a name, those of all
\* regular expressions that match it.
Targets(p) ==
  {p} \cup {q \in Leaves(routes) \cap Regex : p \in Name /\ EqualName(q, p)}

\* construct_routes: the Destinations the data of a name goes to.
ConstructRoutes(n) == UNION {Targets(p) : p \in DstOf(routes, n)}

\* Mutant of RegisterWriteEnd: an existing reference at the address is kept.
MutRegisterEmplace(names, a, id) ==
  [p \in Pattern |->
     IF p \in Leaves(routes) /\ (\E n \in names : EqualName(p, n)) /\ dests[p][a] = None
       THEN [dests[p] EXCEPT ![a] = id] ELSE dests[p]]

\* register_write_end, for each of the names of a stream.
RegisterWriteEnd(names, a, id) ==
  [p \in Pattern |->
     IF p \in Leaves(routes) /\ \E n \in names : EqualName(p, n)
       THEN [dests[p] EXCEPT ![a] = id] ELSE dests[p]]

\* An identity without object and without weak pointers.
Fresh(id) ==
  /\ \A a \in Alive : heap[a].id # id /\ heap[a].reads # id
  /\ \A p \in Pattern, a \in Addr : dests[p][a] # id

-----------------------------------------------------------------------------
(* The callback setup_endpoint gives to on_connect.  The entry of the name   *)
(* is created, or taken over from an earlier stream, which then has no owner *)
(* any more.                                                                 *)

\* Mutant of NewEntry: the destination of a taken-over entry is not cleared.
MutEntryNoClear(old, node, a, name, ep) ==
  [node |-> node, client |-> a,
   dest    |-> ConstructRoutes(name) \cup (IF old = None THEN {} ELSE old.dest),
   chained |-> {ep} \cup (IF old = None THEN {} ELSE old.chained)]

\* A new or taken-over entry: its destination is cleared, filled with the routes of
\* the client's name and chained to the destination of the endpoint.
NewEntry(old, node, a, name, ep) ==
  [node |-> node, client |-> a, dest |-> ConstructRoutes(name), chained |-> {ep}]

\* Mutant of Released: the endpoint keeps the stream, too.
MutReleasedNever(old, b) == FALSE

\* Giving an entry another client destroys the earlier one, which nobody else owns.
Released(old, b) == old # None /\ b = old.client

Connect(a, id, name, ep) ==
  LET old  == entries[name]
      node == IF old = None THEN id ELSE old.node
  IN
  /\ ~undefined /\ heap[a] = None /\ Fresh(id)
  /\ dests' = IF ep \in WriteEnds THEN RegisterWriteEnd({name, ep}, a, id) ELSE dests
  /\ entries' = [entries EXCEPT ![name] = NewEntry(old, node, a, name, ep)]
  /\ heap' = [b \in Addr |->
                IF b = a THEN [id |-> id, name |-> name, ep |-> ep, reads |-> node]
                ELSE IF Released(old, b) THEN None ELSE heap[b]]
  /\ UNCHANGED <<routes, delivered, twice, undefined>>

\* on_close: client_entries.erase(cli_name), and the streams the erased entries owned.
Erase(names) ==
  /\ entries' = [n \in ClientName |-> IF n \in names THEN None ELSE entries[n]]
  /\ heap' = [b \in Addr |->
                IF \E n \in names : entries[n] # None /\ entries[n].client = b
                  THEN None ELSE heap[b]]

Close(a) ==
  /\ ~undefined /\ a \in Alive
  /\ Erase({heap[a].name})
  /\ UNCHANGED <<routes, dests, delivered, twice, undefined>>

-----------------------------------------------------------------------------
(* The callback given to on_read: client.destination->write.                 *)

\* The streams a Destination still refers to, and those it is to forget.
Locked(p) == {b \in Alive : dests[p][b] = heap[b].id}
Pruned(p) == [b \in Addr |-> IF b \in Locked(p) THEN dests[p][b] ELSE None]

\* The ways from an entry to the Destinations of the store: the routes of the
\* client's name, and those of the endpoint's.
Paths(e) ==
  ({"client"} \X e.dest) \cup UNION {{ep} \X ConstructRoutes(ep) : ep \in e.chained}

\* What is written to through a Destination: streams, files and UDP clients.
Sinks(p) ==
  {heap[b].id : b \in Locked(p)}
    \cup {f \in Static : p \in Leaves(routes) /\ EqualName(p, f)}

\* More than one way leads to the Destinations of what is known by these names.
Doubled(paths, names) ==
  \E p, q \in paths : /\ p # q
                      /\ \E n \in names : EqualName(p[2], n)
                      /\ \E n \in names : EqualName(q[2], n)

\* The data of the stream at a is written; the streams at broken find that their
\* peer has gone, and close.  A reference that expires on the way is pruned by
\* the next write.
Write(a, e, broken) ==
  LET paths == Paths(e)
      ends  == UNION {Locked(p[2]) : p \in paths}
  IN
  /\ broken \subseteq ends
  /\ delivered' = <<Public(heap[a]), UNION {Sinks(p[2]) : p \in paths}>>
  /\ twice' = {k \in {Known(heap[b]) : b \in ends \ broken} \cup {{f} : f \in Static} :
                 Doubled(paths, k)}
  /\ dests' = [p \in Pattern |->
                 IF \E q \in paths : q[2] = p THEN Pruned(p) ELSE dests[p]]
  /\ Erase({heap[b].name : b \in broken})
  /\ undefined' = (a \in broken)
  /\ UNCHANGED routes

\* The callback refers to the entry that was there when the stream connected.
Read(a, broken) ==
  LET e == entries[heap[a].name] IN
  /\ ~undefined /\ a \in Alive
  /\ IF e # None /\ e.node = heap[a].reads
       THEN Write(a, e, broken)
       ELSE /\ undefined' = TRUE
            /\ UNCHANGED <<routes, heap, entries, dests, delivered, twice>>

Next ==
  \/ \E a \in Addr, id \in Id, n \in ClientName, ep \in Endpoint : Connect(a, id, n, ep)
  \/ \E a \in Addr : Close(a)
  \/ \E a \in Addr : \E broken \in SUBSET Alive : Read(a, broken)

Spec == Init /\ [][Next]_vars

-----------------------------------------------------------------------------
(* Properties. *)

\* A stream is alive exactly as long as the entry with its name owns it, and its
\* callback refers to that entry, even when entries change owners.
OwnedByItsEntry ==
  /\ \A a \in Alive :
       LET e == entries[heap[a].name] IN e # None /\ e.client = a /\ e.node = heap[a].reads
  /\ \A n \in ClientName : entries[n] # None =>
       heap[entries[n].client] # None /\ heap[entries[n].client].name = n

\* Nothing destroyed is used, unless the routes send a stream its own data: then
\* the write may destroy the entry it is working on.
SafeUnlessEcho ==
  undefined => /\ delivered # <<>>
               /\ RoutedTo(routes, Known(delivered[1]), Known(delivered[1]))

\* Data is doubled only for a write end the routes of the stream name twice: under
\* two patterns, or for both the client's and the endpoint's name.
TwiceOnlyIfNamedTwice ==
  \A k \in twice :
    LET from == delivered[1] IN
    \E w \in {"client", "endpoint"} \X Pattern, v \in {"client", "endpoint"} \X Pattern :
      /\ w # v
      /\ \A u \in {w, v} :
           /\ u[2] \in DstOf(routes, IF u[1] = "client" THEN from.name ELSE from.ep)
           /\ \E n \in k : EqualName(u[2], n)

\* The promise: module Routing, for the streams that are alive.
Abs == INSTANCE Routing WITH live <- {Public(heap[a]) : a \in Alive}
ImplementsRouting == Abs!RSpec
=============================================================================
