--------------------------- MODULE Router_proofs ---------------------------
(***************************************************************************)
(* The router's invariants, and that it implements module Routing, for any *)
(* names, patterns, routes without shadowed names, addresses and           *)
(* identities; and what its statistics and the filter that feeds them      *)
(* promise, for any configuration, sizes and number of packets.            *)
(***************************************************************************)
EXTENDS Router, Statistics, SequenceTheorems, WellFoundedInduction, TLAPS

(* The inductive invariant. *)

\* An entry delivers to what the routes of its name and of its endpoint ask for.
RoutedAsAsked ==
  \A n \in ClientName : entries[n] # None =>
    /\ entries[n].dest = DstOf(routes, n)
    /\ entries[n].chained = {heap[entries[n].client].ep}

\* The destinations that name this stream.
Names(p, s) ==
  /\ s.ep \in WriteEnds /\ p \in Leaves(routes)
  /\ \E n \in Known(s) : EqualName(p, n)

\* Exactly the destinations that name a living stream hold a reference to it.
References ==
  \A p \in Pattern, a \in Alive : dests[p][a] = heap[a].id <=> Names(p, heap[a])

\* Living streams have different identities.
Identities == \A a, b \in Alive : heap[a].id = heap[b].id => a = b

IInv ==
  /\ TypeOK /\ OwnedByItsEntry /\ RoutedAsAsked /\ References /\ Identities
  /\ SafeUnlessEcho /\ TwiceOnlyIfNamedTwice

-----------------------------------------------------------------------------
(* Routes. *)

\* A name's data goes to what some route from it delivers to, and nothing else:
\* without shadowed names connect_to_dest adds no destination of its own.
LEMMA Construct ==
  ASSUME routes \in RouteTables, NEW n
  PROVE  /\ DstOf(routes, n) \subseteq Leaves(routes)
         /\ ConstructRoutes(n) = DstOf(routes, n)
<1>1. DstOf(routes, n) \subseteq Leaves(routes)
  BY DEF DstOf, Leaves
<1>2. NoShadow(routes)
  BY RouterAssumption
<1>3. ASSUME NEW p \in DstOf(routes, n) PROVE Targets(p) = {p}
  <2>1. p \in Leaves(routes)
    BY <1>1
  <2> QED BY <1>2, <2>1 DEF Targets, NoShadow
<1>4. ASSUME NEW q PROVE q \in ConstructRoutes(n) <=> q \in DstOf(routes, n)
  <2>1. q \in ConstructRoutes(n) <=> \E p \in DstOf(routes, n) : q \in Targets(p)
    BY Zenon DEF ConstructRoutes
  <2>2. \A p \in DstOf(routes, n) : q \in Targets(p) <=> q = p
    BY <1>3
  <2> QED BY <2>1, <2>2, Zenon
<1> QED BY <1>1, <1>4

\* Routes deliver to patterns only.
LEMMA LeavesType == routes \in RouteTables => Leaves(routes) \subseteq Pattern
<1> SUFFICES ASSUME routes \in RouteTables, NEW p \in Leaves(routes) PROVE p \in Pattern
  OBVIOUS
<1>1. PICK r \in routes : p \in r.dst
  BY DEF Leaves
<1>2. r \in Route
  BY RouterAssumption
<1> QED BY <1>1, <1>2 DEF Route

\* What lives is a stream, and its names are names.
LEMMA AliveType ==
  ASSUME TypeOK, NEW a \in Alive
  PROVE  /\ heap[a] \in Stream
         /\ heap[a].id \in Id /\ heap[a].reads \in Id
         /\ heap[a].name \in ClientName /\ heap[a].ep \in Endpoint
         /\ Known(heap[a]) \subseteq Name
<1>1. heap[a] \in Stream
  BY DEF Alive, TypeOK
<1> QED BY <1>1, RouterAssumption DEF Stream, Known

\* What the map holds under a name is an entry.
LEMMA EntryType ==
  ASSUME TypeOK, NEW n \in ClientName, entries[n] # None
  PROVE  /\ entries[n] \in Entry
         /\ entries[n].node \in Id /\ entries[n].client \in Addr
<1>1. entries[n] \in Entry
  BY DEF TypeOK
<1> QED BY <1>1 DEF Entry

-----------------------------------------------------------------------------
(* Initial states. *)

\* Nothing is connected at first.
LEMMA InitIInv == Init => IInv
<1> SUFFICES ASSUME Init PROVE IInv
  OBVIOUS
<1>1. Alive = {}
  BY DEF Init, Alive
<1>2. TypeOK
  BY DEF Init, TypeOK
<1>3. OwnedByItsEntry /\ RoutedAsAsked /\ References /\ Identities
  BY <1>1 DEF Init, OwnedByItsEntry, RoutedAsAsked, References, Identities
<1>4. SafeUnlessEcho /\ TwiceOnlyIfNamedTwice
  BY DEF Init, SafeUnlessEcho, TwiceOnlyIfNamedTwice
<1> QED BY <1>1, <1>2, <1>3, <1>4 DEF IInv

-----------------------------------------------------------------------------
(* A stream connects. *)

\* Which streams and entries are there afterwards: the new one, and the others but
\* the one that had its name.
NewStreams(a, id, name, ep) ==
  /\ a \notin Alive
  /\ Alive' = {b \in Alive : heap[b].name # name} \cup {a}
  /\ \A b \in Alive' : b # a => heap'[b] = heap[b]
  /\ heap'[a].id = id /\ heap'[a].name = name /\ heap'[a].ep = ep
  /\ heap'[a].reads = entries'[name].node
  /\ heap' \in [Addr -> Stream \cup {None}]

NewEntries(a, name, ep) ==
  /\ entries'[name] \in Entry
  /\ entries'[name].client = a
  /\ entries'[name].dest = DstOf(routes, name)
  /\ entries'[name].chained = {ep}
  /\ entries' \in [ClientName -> Entry \cup {None}]
  /\ \A n \in ClientName : n # name => entries'[n] = entries[n]

\* A connection has that effect: the earlier stream of the name is destroyed.
LEMMA ConnectHeap ==
  ASSUME IInv, NEW a \in Addr, NEW id \in Id, NEW name \in ClientName, NEW ep \in Endpoint,
         Connect(a, id, name, ep)
  PROVE  NewStreams(a, id, name, ep) /\ NewEntries(a, name, ep)
<1> DEFINE old == entries[name]
           node == IF old = None THEN id ELSE old.node
           new == [id |-> id, name |-> name, ep |-> ep, reads |-> node]
           entry == [node |-> node, client |-> a, dest |-> DstOf(routes, name),
                     chained |-> {ep}]
<1> USE DEF IInv
<1>1. node \in Id
  BY EntryType
<1>2. new \in Stream
  BY <1>1 DEF Stream
<1>3. entry \in Entry
  <2>1. DstOf(routes, name) \subseteq Pattern
    BY Construct, LeavesType DEF TypeOK
  <2> QED BY <1>1, <2>1 DEF Entry
<1>4. new # None /\ entry # None
  BY <1>2, <1>3, RouterAssumption
<1>5. /\ heap[a] = None /\ a \notin Alive
      /\ heap' = [b \in Addr |-> IF b = a THEN new
                                 ELSE IF Released(old, b) THEN None ELSE heap[b]]
      /\ entries' = [entries EXCEPT ![name] = entry]
  BY Construct DEF Connect, Alive, NewEntry, TypeOK
<1>6. entries'[name] = entry
  BY <1>5 DEF TypeOK
<1>7. entries' \in [ClientName -> Entry \cup {None}]
  BY <1>3, <1>5 DEF TypeOK
<1>8. heap' \in [Addr -> Stream \cup {None}]
  BY <1>2, <1>5 DEF TypeOK
<1>9. \A b \in Alive : Released(old, b) <=> heap[b].name = name
  BY DEF OwnedByItsEntry, Released
<1>10. \A b \in Alive' : b # a => heap'[b] = heap[b]
  BY <1>5 DEF Alive
<1>11. Alive' = {b \in Alive : heap[b].name # name} \cup {a}
  <2>1. ASSUME NEW b \in Addr, b # a
        PROVE  heap'[b] # None <=> heap[b] # None /\ heap[b].name # name
    BY <1>5, <1>9, <2>1 DEF Alive
  <2>2. heap'[a] # None
    BY <1>4, <1>5
  <2> QED BY <1>5, <2>1, <2>2 DEF Alive
<1>12. heap'[a] = new
  BY <1>5
<1>13. \A n \in ClientName : n # name => entries'[n] = entries[n]
  BY <1>5 DEF TypeOK
<1>14. NewStreams(a, id, name, ep)
  BY <1>5, <1>6, <1>8, <1>10, <1>11, <1>12 DEF NewStreams
<1>15. NewEntries(a, name, ep)
  BY <1>3, <1>6, <1>7, <1>13 DEF NewEntries
<1> QED BY <1>14, <1>15

\* References afterwards: the new stream is known to the destinations that name it,
\* and to no other, whatever was at its address before.
NewReferences(a, id, name, ep) ==
  /\ dests' \in [Pattern -> [Addr -> Id \cup {None}]]
  /\ \A p \in Pattern, b \in Addr : dests'[p][b] # None => p \in Leaves(routes)
  /\ \A p \in Pattern, b \in Addr : b # a => dests'[p][b] = dests[p][b]
  /\ \A p \in Pattern :
       dests'[p][a] = id <=> /\ ep \in WriteEnds /\ p \in Leaves(routes)
                             /\ \E n \in {name, ep} : EqualName(p, n)

\* A connection has that effect on the destinations.
LEMMA ConnectDests ==
  ASSUME IInv, NEW a \in Addr, NEW id \in Id, NEW name \in ClientName, NEW ep \in Endpoint,
         Connect(a, id, name, ep)
  PROVE  NewReferences(a, id, name, ep)
<1> USE DEF IInv, TypeOK
<1>1. \A p \in Pattern : dests[p][a] # id
  BY DEF Connect, Fresh
<1>2. CASE ep \in WriteEnds
  <2>1. dests' = RegisterWriteEnd({name, ep}, a, id)
    BY <1>2 DEF Connect
  <2>2. ASSUME NEW p \in Pattern
        PROVE  dests'[p] = IF p \in Leaves(routes) /\ \E n \in {name, ep} : EqualName(p, n)
                             THEN [dests[p] EXCEPT ![a] = id] ELSE dests[p]
    BY <2>1 DEF RegisterWriteEnd
  <2>3. DOMAIN dests' = Pattern /\ dests' = [p \in Pattern |-> dests'[p]]
    BY <2>1 DEF RegisterWriteEnd
  <2>4. ASSUME NEW p \in Pattern
        PROVE  /\ dests'[p] \in [Addr -> Id \cup {None}]
               /\ \A b \in Addr : dests'[p][b] # None => p \in Leaves(routes)
               /\ \A b \in Addr : b # a => dests'[p][b] = dests[p][b]
               /\ dests'[p][a] = id <=> /\ p \in Leaves(routes)
                                        /\ \E n \in {name, ep} : EqualName(p, n)
    <3>1. dests[p] \in [Addr -> Id \cup {None}]
      OBVIOUS
    <3>2. CASE p \in Leaves(routes) /\ \E n \in {name, ep} : EqualName(p, n)
      <4>1. dests'[p] = [dests[p] EXCEPT ![a] = id]
        BY <2>2, <3>2
      <4> QED BY <3>1, <3>2, <4>1
    <3>3. CASE ~(p \in Leaves(routes) /\ \E n \in {name, ep} : EqualName(p, n))
      <4>1. dests'[p] = dests[p]
        BY <2>2, <3>3
      <4> QED BY <1>1, <3>1, <3>3, <4>1
    <3> QED BY <3>2, <3>3
  <2> QED BY <1>2, <2>3, <2>4 DEF NewReferences
<1>3. CASE ep \notin WriteEnds
  BY <1>1, <1>3 DEF Connect, NewReferences
<1> QED BY <1>2, <1>3

\* A connection preserves the inductive invariant.
LEMMA ConnectIInv ==
  ASSUME IInv, NEW a \in Addr, NEW id \in Id, NEW name \in ClientName, NEW ep \in Endpoint,
         Connect(a, id, name, ep)
  PROVE  IInv'
<1>a. NewStreams(a, id, name, ep) /\ NewEntries(a, name, ep)
  BY ConnectHeap
<1>b. NewReferences(a, id, name, ep)
  BY ConnectDests
<1>1. UNCHANGED <<routes, delivered, twice, undefined>>
  BY DEF Connect
<1> USE DEF IInv, NewStreams, NewEntries, NewReferences
<1>2. TypeOK'
  BY <1>1, <1>a, <1>b DEF TypeOK
<1>3. OwnedByItsEntry'
  <2>1. ASSUME NEW b \in Alive'
        PROVE  /\ entries'[heap'[b].name] # None
               /\ entries'[heap'[b].name].client = b
               /\ entries'[heap'[b].name].node = heap'[b].reads
    <3>1. CASE b = a
      <4>1. entries'[name] # None
        BY <1>a, RouterAssumption
      <4>2. entries'[name].client = a
        BY <1>a
      <4> QED BY <3>1, <4>1, <4>2, <1>a
    <3>2. CASE b # a
      <4>1. b \in Alive /\ heap'[b] = heap[b] /\ heap[b].name # name
        BY <3>2, <1>a
      <4>2. heap[b].name \in ClientName
        BY <4>1, AliveType
      <4>3. entries'[heap[b].name] = entries[heap[b].name]
        BY <4>1, <4>2, <1>a
      <4> QED BY <4>1, <4>3 DEF OwnedByItsEntry
    <3> QED BY <3>1, <3>2
  <2>2. ASSUME NEW n \in ClientName, entries'[n] # None
        PROVE  heap'[entries'[n].client] # None /\ heap'[entries'[n].client].name = n
    <3>1. CASE n = name
      <4>1. entries'[n].client = a
        BY <3>1, <1>a
      <4> QED BY <3>1, <4>1, <1>a DEF Alive
    <3>2. CASE n # name
      <4> DEFINE c == entries[n].client
      <4>1. entries'[n] = entries[n]
        BY <3>2, <1>a
      <4>2. c \in Alive /\ heap[c].name = n
        BY <2>2, <4>1, EntryType DEF OwnedByItsEntry, Alive
      <4>3. c \in Alive' /\ c # a
        BY <3>2, <4>2, <1>a
      <4>4. heap'[c] = heap[c]
        BY <4>3, <1>a
      <4> QED BY <4>1, <4>2, <4>3, <4>4 DEF Alive
    <3> QED BY <3>1, <3>2
  <2> QED BY <2>1, <2>2 DEF OwnedByItsEntry
<1>4. RoutedAsAsked'
  <2> SUFFICES ASSUME NEW n \in ClientName, entries'[n] # None
               PROVE  /\ entries'[n].dest = DstOf(routes, n)
                      /\ entries'[n].chained = {heap'[entries'[n].client].ep}
    BY <1>1 DEF RoutedAsAsked, DstOf
  <2>1. CASE n = name
    <3>1. entries'[n].client = a /\ entries'[n].dest = DstOf(routes, n)
          /\ entries'[n].chained = {ep}
      BY <2>1, <1>a
    <3> QED BY <3>1, <1>a
  <2>2. CASE n # name
    <3> DEFINE c == entries[n].client
    <3>1. entries'[n] = entries[n]
      BY <2>2, <1>a
    <3>2. c \in Alive /\ heap[c].name = n
      BY <3>1, EntryType DEF OwnedByItsEntry, Alive
    <3>3. c \in Alive' /\ c # a
      BY <2>2, <3>2, <1>a
    <3>4. heap'[c] = heap[c]
      BY <3>3, <1>a
    <3> QED BY <3>1, <3>4 DEF RoutedAsAsked
  <2> QED BY <2>1, <2>2
<1>5. References'
  <2> SUFFICES ASSUME NEW p \in Pattern, NEW b \in Alive'
               PROVE  dests'[p][b] = heap'[b].id <=> Names(p, heap[b])'
    BY DEF References
  <2>1. CASE b = a
    <3>1. heap'[b].id = id /\ heap'[b].ep = ep /\ Known(heap'[b]) = {name, ep}
      BY <2>1, <1>a DEF Known
    <3> QED BY <1>1, <2>1, <3>1, <1>b DEF Names, Leaves
  <2>2. CASE b # a
    <3>1. b \in Alive /\ heap'[b] = heap[b]
      BY <2>2, <1>a
    <3>2. dests'[p][b] = dests[p][b]
      BY <2>2, <3>1, <1>b DEF Alive
    <3> QED BY <1>1, <3>1, <3>2 DEF References, Names, Leaves
  <2> QED BY <2>1, <2>2
<1>6. Identities'
  <2>1. \A b \in Alive : heap[b].id # id
    BY DEF Connect, Fresh
  <2> QED BY <2>1, <1>a DEF Identities
<1>7. SafeUnlessEcho' /\ TwiceOnlyIfNamedTwice'
  BY <1>1 DEF SafeUnlessEcho, TwiceOnlyIfNamedTwice, RoutedTo, DstOf
<1> QED BY <1>2, <1>3, <1>4, <1>5, <1>6, <1>7

-----------------------------------------------------------------------------
(* Entries are erased. *)

\* Which streams and entries remain when the streams of D close.
Closed(D) ==
  /\ Alive' = Alive \ D
  /\ \A b \in Alive' : heap'[b] = heap[b]
  /\ heap' \in [Addr -> Stream \cup {None}]
  /\ \A n \in ClientName :
       entries'[n] # None => entries'[n] = entries[n] /\ entries[n].client \notin D
  /\ \A n \in ClientName :
       entries[n] # None /\ entries[n].client \notin D => entries'[n] = entries[n]
  /\ entries' \in [ClientName -> Entry \cup {None}]

\* Erasing the entries of some streams destroys these streams and no others.
LEMMA EraseResult ==
  ASSUME IInv, NEW D \in SUBSET Alive, Erase({heap[b].name : b \in D})
  PROVE  Closed(D)
<1> DEFINE gone == {heap[b].name : b \in D}
<1> USE DEF IInv
<1>1. /\ heap' = [b \in Addr |->
                    IF \E n \in gone : entries[n] # None /\ entries[n].client = b
                      THEN None ELSE heap[b]]
      /\ entries' = [n \in ClientName |-> IF n \in gone THEN None ELSE entries[n]]
  BY DEF Erase
<1>2. gone \subseteq ClientName
  BY AliveType
<1>3. ASSUME NEW b \in Alive
      PROVE  (\E n \in gone : entries[n] # None /\ entries[n].client = b) <=> b \in D
  <2>1. ASSUME NEW n \in gone, entries[n] # None, entries[n].client = b
        PROVE  b \in D
    <3>1. PICK d \in D : n = heap[d].name
      BY <2>1
    <3> QED BY <2>1, <3>1 DEF OwnedByItsEntry
  <2>2. ASSUME b \in D
        PROVE  \E n \in gone : entries[n] # None /\ entries[n].client = b
    <3>1. heap[b].name \in gone
      BY <2>2
    <3> QED BY <3>1 DEF OwnedByItsEntry
  <2> QED BY <2>1, <2>2
<1>4. ASSUME NEW n \in ClientName, entries[n] # None
      PROVE  n \in gone <=> entries[n].client \in D
  <2> DEFINE c == entries[n].client
  <2>1. c \in Alive /\ heap[c].name = n
    BY <1>4, EntryType DEF OwnedByItsEntry, Alive
  <2>2. ASSUME n \in gone PROVE c \in D
    <3>1. PICK d \in D : n = heap[d].name
      BY <2>2
    <3> QED BY <3>1 DEF OwnedByItsEntry
  <2>3. ASSUME c \in D PROVE n \in gone
    BY <2>1, <2>3
  <2> QED BY <2>2, <2>3
<1> HIDE DEF gone
<1>5. Alive' = Alive \ D
  BY <1>1, <1>3 DEF Alive
<1>6. \A b \in Alive' : heap'[b] = heap[b]
  BY <1>1 DEF Alive
<1>7. heap' \in [Addr -> Stream \cup {None}]
  BY <1>1 DEF TypeOK
<1>8. entries' \in [ClientName -> Entry \cup {None}]
  BY <1>1 DEF TypeOK
<1>9. \A n \in ClientName :
         entries'[n] # None => entries'[n] = entries[n] /\ entries[n].client \notin D
  BY <1>1, <1>4
<1>10. \A n \in ClientName :
         entries[n] # None /\ entries[n].client \notin D => entries'[n] = entries[n]
  BY <1>1, <1>4
<1> QED BY <1>5, <1>6, <1>7, <1>8, <1>9, <1>10 DEF Closed

\* When the streams of D close and the destinations forget no living stream, what the
\* invariant says of streams, entries and references is preserved.
LEMMA ClosedIInv ==
  ASSUME IInv, NEW D \in SUBSET Alive, Closed(D), routes' = routes,
         dests' \in [Pattern -> [Addr -> Id \cup {None}]],
         \A p \in Pattern, b \in Addr : dests'[p][b] # None => p \in Leaves(routes),
         \A p \in Pattern, b \in Alive :
           dests'[p][b] = heap[b].id <=> dests[p][b] = heap[b].id,
         undefined' \in BOOLEAN
  PROVE  (TypeOK /\ OwnedByItsEntry /\ RoutedAsAsked /\ References /\ Identities)'
<1> USE DEF IInv
<1>1. TypeOK'
  BY DEF TypeOK, Closed
<1>2. OwnedByItsEntry'
  <2>1. ASSUME NEW b \in Alive'
        PROVE  /\ entries'[heap'[b].name] # None
               /\ entries'[heap'[b].name].client = b
               /\ entries'[heap'[b].name].node = heap'[b].reads
    <3>1. b \in Alive /\ b \notin D /\ heap'[b] = heap[b]
      BY DEF Closed
    <3>2. heap[b].name \in ClientName
      BY <3>1, AliveType
    <3>3. entries[heap[b].name] # None /\ entries[heap[b].name].client = b
      BY <3>1 DEF OwnedByItsEntry
    <3>4. entries'[heap[b].name] = entries[heap[b].name]
      BY <3>1, <3>2, <3>3 DEF Closed
    <3> QED BY <3>1, <3>3, <3>4 DEF OwnedByItsEntry
  <2>2. ASSUME NEW n \in ClientName, entries'[n] # None
        PROVE  heap'[entries'[n].client] # None /\ heap'[entries'[n].client].name = n
    <3> DEFINE c == entries[n].client
    <3>1. entries'[n] = entries[n] /\ c \notin D
      BY <2>2 DEF Closed
    <3>2. c \in Alive /\ heap[c].name = n
      BY <2>2, <3>1, EntryType DEF OwnedByItsEntry, Alive
    <3>3. c \in Alive' /\ heap'[c] = heap[c]
      BY <3>1, <3>2 DEF Closed
    <3> QED BY <3>1, <3>2, <3>3 DEF Alive
  <2> QED BY <2>1, <2>2 DEF OwnedByItsEntry
<1>3. RoutedAsAsked'
  <2> SUFFICES ASSUME NEW n \in ClientName, entries'[n] # None
               PROVE  /\ entries'[n].dest = DstOf(routes, n)
                      /\ entries'[n].chained = {heap'[entries'[n].client].ep}
    BY DEF RoutedAsAsked, DstOf
  <2> DEFINE c == entries[n].client
  <2>1. entries'[n] = entries[n] /\ c \notin D
    BY DEF Closed
  <2>2. c \in Alive
    BY <2>1, EntryType DEF OwnedByItsEntry, Alive
  <2>3. heap'[c] = heap[c]
    BY <2>1, <2>2 DEF Closed
  <2> QED BY <2>1, <2>3 DEF RoutedAsAsked
<1>4. References'
  <2> SUFFICES ASSUME NEW p \in Pattern, NEW b \in Alive'
               PROVE  dests'[p][b] = heap'[b].id <=> Names(p, heap[b])'
    BY DEF References
  <2>1. b \in Alive /\ heap'[b] = heap[b]
    BY DEF Closed
  <2> QED BY <2>1 DEF References, Names, Leaves
<1>5. Identities'
  BY DEF Identities, Closed
<1> QED BY <1>1, <1>2, <1>3, <1>4, <1>5

\* A close preserves the inductive invariant.
LEMMA CloseIInv == ASSUME IInv, NEW a \in Addr, Close(a) PROVE IInv'
<1>1. a \in Alive /\ Erase({heap[a].name}) /\ UNCHANGED <<routes, dests, delivered, twice, undefined>>
  BY DEF Close
<1>2. {a} \in SUBSET Alive /\ {heap[b].name : b \in {a}} = {heap[a].name}
  BY <1>1
<1>3. Closed({a})
  BY <1>1, <1>2, EraseResult
<1>4. (TypeOK /\ OwnedByItsEntry /\ RoutedAsAsked /\ References /\ Identities)'
  BY <1>1, <1>2, <1>3, ClosedIInv DEF IInv, TypeOK
<1>5. SafeUnlessEcho' /\ TwiceOnlyIfNamedTwice'
  BY <1>1 DEF IInv, SafeUnlessEcho, TwiceOnlyIfNamedTwice, RoutedTo, DstOf
<1> QED BY <1>4, <1>5 DEF IInv

-----------------------------------------------------------------------------
(* Data is read from a stream. *)

\* The entry a stream's callback refers to leads to the destinations of the stream's
\* name and of its endpoint.
LEMMA PathsOf ==
  ASSUME IInv, NEW a \in Alive
  PROVE  LET e == entries[heap[a].name] IN
         /\ Paths(e) = ({"client"} \X DstOf(routes, heap[a].name))
                         \cup ({heap[a].ep} \X DstOf(routes, heap[a].ep))
         /\ \A w \in Paths(e) : /\ w[2] \in Leaves(routes) /\ w[2] \in Pattern
                                /\ \E n \in Known(heap[a]) : w[2] \in DstOf(routes, n)
         /\ \A n \in Known(heap[a]) : \A p \in DstOf(routes, n) : \E w \in Paths(e) : w[2] = p
<1> DEFINE e == entries[heap[a].name]
           byName == {"client"} \X DstOf(routes, heap[a].name)
           byEndpoint == {heap[a].ep} \X DstOf(routes, heap[a].ep)
<1> USE DEF IInv
<1>1. heap[a].name \in ClientName /\ e # None /\ e.client = a
  BY AliveType DEF OwnedByItsEntry
<1>2. e.dest = DstOf(routes, heap[a].name) /\ e.chained = {heap[a].ep}
  BY <1>1 DEF RoutedAsAsked
<1>3. ConstructRoutes(heap[a].ep) = DstOf(routes, heap[a].ep)
  BY Construct DEF TypeOK
<1>4. Paths(e) = byName \cup byEndpoint
  BY <1>2, <1>3 DEF Paths
<1>5. DstOf(routes, heap[a].name) \subseteq Leaves(routes)
      /\ DstOf(routes, heap[a].ep) \subseteq Leaves(routes)
      /\ Leaves(routes) \subseteq Pattern
  BY Construct, LeavesType DEF TypeOK
<1>6. ASSUME NEW w \in Paths(e)
      PROVE  /\ w[2] \in Leaves(routes) /\ w[2] \in Pattern
             /\ \E n \in Known(heap[a]) : w[2] \in DstOf(routes, n)
  <2>1. w[2] \in DstOf(routes, heap[a].name) \/ w[2] \in DstOf(routes, heap[a].ep)
    BY <1>4
  <2> QED BY <1>5, <2>1 DEF Known
<1>7. ASSUME NEW n \in Known(heap[a]), NEW p \in DstOf(routes, n)
      PROVE  \E w \in Paths(e) : w[2] = p
  <2>1. CASE n = heap[a].name
    <3>1. <<"client", p>> \in Paths(e)
      BY <1>4, <2>1
    <3> QED BY <3>1
  <2>2. CASE n = heap[a].ep
    <3>1. <<heap[a].ep, p>> \in Paths(e)
      BY <1>4, <2>2
    <3> QED BY <3>1
  <2> QED BY <2>1, <2>2 DEF Known
<1> QED BY <1>4, <1>6, <1>7

\* The entry of a living stream is there, so its data is written.
LEMMA ReadWrites ==
  ASSUME IInv, NEW a \in Addr, NEW broken \in SUBSET Alive, Read(a, broken)
  PROVE  a \in Alive /\ Write(a, entries[heap[a].name], broken)
<1>1. a \in Alive
  BY DEF Read
<1>2. entries[heap[a].name] # None /\ entries[heap[a].name].node = heap[a].reads
  BY <1>1 DEF IInv, OwnedByItsEntry
<1> QED BY <1>1, <1>2 DEF Read

\* What a write leaves of the references: all of those to living streams.
LEMMA WriteDests ==
  ASSUME IInv, NEW e, NEW a, NEW broken, Write(a, e, broken)
  PROVE  /\ dests' \in [Pattern -> [Addr -> Id \cup {None}]]
         /\ \A p \in Pattern, b \in Addr : dests'[p][b] # None => p \in Leaves(routes)
         /\ \A p \in Pattern, b \in Alive :
              dests'[p][b] = heap[b].id <=> dests[p][b] = heap[b].id
<1> DEFINE Reached(p) == \E q \in Paths(e) : q[2] = p
<1> USE DEF IInv
<1>1. dests' = [p \in Pattern |-> IF Reached(p) THEN Pruned(p) ELSE dests[p]]
  BY DEF Write
<1> HIDE DEF Reached
<1>2. ASSUME NEW p \in Pattern
      PROVE  /\ dests'[p] \in [Addr -> Id \cup {None}]
             /\ \A b \in Addr : dests'[p][b] # None => dests[p][b] # None
             /\ \A b \in Alive : dests'[p][b] = heap[b].id <=> dests[p][b] = heap[b].id
  <2>1. dests[p] \in [Addr -> Id \cup {None}]
    BY DEF TypeOK
  <2>2. CASE ~Reached(p)
    BY <1>1, <2>1, <2>2
  <2>3. CASE Reached(p)
    <3>1. dests'[p] = [b \in Addr |-> IF b \in Locked(p) THEN dests[p][b] ELSE None]
      BY <1>1, <2>3 DEF Pruned
    <3>2. \A b \in Alive : b \in Addr /\ heap[b].id # None
      BY AliveType, RouterAssumption DEF Alive
    <3> QED BY <2>1, <3>1, <3>2 DEF Locked
  <2> QED BY <2>2, <2>3
<1> QED BY <1>1, <1>2 DEF TypeOK

\* Writing preserves the inductive invariant, even when streams close on the way.
LEMMA ReadIInv ==
  ASSUME IInv, NEW a \in Addr, NEW broken \in SUBSET Alive, Read(a, broken)
  PROVE  IInv'
<1> DEFINE e == entries[heap[a].name]
<1>1. a \in Alive /\ Write(a, e, broken)
  BY ReadWrites
<1>2. routes' = routes /\ undefined' = (a \in broken) /\ Erase({heap[b].name : b \in broken})
  BY <1>1 DEF Write
<1>3. Closed(broken)
  BY <1>2, EraseResult
<1>4. (TypeOK /\ OwnedByItsEntry /\ RoutedAsAsked /\ References /\ Identities)'
  <2>1. /\ dests' \in [Pattern -> [Addr -> Id \cup {None}]]
        /\ \A p \in Pattern, b \in Addr : dests'[p][b] # None => p \in Leaves(routes)
        /\ \A p \in Pattern, b \in Alive :
             dests'[p][b] = heap[b].id <=> dests[p][b] = heap[b].id
    BY <1>1, WriteDests
  <2> QED BY <1>2, <1>3, <2>1, ClosedIInv
<1>5. delivered'[1] = Public(heap[a]) /\ delivered' # <<>>
  <2>1. delivered' = <<Public(heap[a]), UNION {Sinks(w[2]) : w \in Paths(e)}>>
    BY <1>1 DEF Write
  <2> QED BY <2>1
<1>6. Known(delivered'[1]) = Known(heap[a]) /\ delivered'[1].name = heap[a].name
      /\ delivered'[1].ep = heap[a].ep
  BY <1>5 DEF Known, Public
<1>7. SafeUnlessEcho'
  <2> SUFFICES ASSUME a \in broken
               PROVE  RoutedTo(routes, Known(heap[a]), Known(heap[a]))
    BY <1>2, <1>5, <1>6 DEF SafeUnlessEcho, RoutedTo, DstOf
  <2>1. PICK w \in Paths(e) : a \in Locked(w[2])
    <3>1. a \in UNION {Locked(w[2]) : w \in Paths(e)}
      BY <1>1 DEF Write
    <3> QED BY <3>1
  <2>2. /\ w[2] \in Pattern
        /\ \E n \in Known(heap[a]) : w[2] \in DstOf(routes, n)
    BY <1>1, PathsOf
  <2>3. \E m \in Known(heap[a]) : EqualName(w[2], m)
    BY <1>1, <2>1, <2>2 DEF Locked, IInv, References, Names
  <2> QED BY <2>2, <2>3 DEF RoutedTo
<1>8. TwiceOnlyIfNamedTwice'
  <2> SUFFICES ASSUME NEW k \in twice'
               PROVE  \E w \in {"client", "endpoint"} \X Pattern,
                         v \in {"client", "endpoint"} \X Pattern :
                        /\ w # v
                        /\ \A u \in {w, v} :
                             /\ u[2] \in DstOf(routes, IF u[1] = "client" THEN heap[a].name
                                                                        ELSE heap[a].ep)
                             /\ \E n \in k : EqualName(u[2], n)
    BY <1>2, <1>6 DEF TwiceOnlyIfNamedTwice, DstOf
  <2>1. Doubled(Paths(e), k)
    BY <1>1 DEF Write
  <2>2. PICK p \in Paths(e), q \in Paths(e) :
          /\ p # q
          /\ \E n \in k : EqualName(p[2], n)
          /\ \E n \in k : EqualName(q[2], n)
    BY <2>1 DEF Doubled
  <2> DEFINE Tag(w) == <<IF w \in {"client"} \X DstOf(routes, heap[a].name)
                           THEN "client" ELSE "endpoint", w[2]>>
  <2>3. ASSUME NEW w \in Paths(e)
        PROVE  /\ Tag(w) \in {"client", "endpoint"} \X Pattern
               /\ Tag(w)[2] = w[2]
               /\ w[2] \in DstOf(routes, IF Tag(w)[1] = "client" THEN heap[a].name
                                                               ELSE heap[a].ep)
    BY <1>1, PathsOf
  <2>4. Tag(p) # Tag(q)
    BY <1>1, <2>2, PathsOf
  <2> HIDE DEF Tag
  <2>5. Tag(p) \in {"client", "endpoint"} \X Pattern
        /\ Tag(q) \in {"client", "endpoint"} \X Pattern
    BY <2>3
  <2>6. \A u \in {Tag(p), Tag(q)} :
          /\ u[2] \in DstOf(routes, IF u[1] = "client" THEN heap[a].name ELSE heap[a].ep)
          /\ \E n \in k : EqualName(u[2], n)
    BY <2>2, <2>3
  <2> QED BY <2>4, <2>5, <2>6
<1> QED BY <1>4, <1>7, <1>8 DEF IInv

-----------------------------------------------------------------------------
\* Every step preserves the inductive invariant.
LEMMA NextIInv == IInv /\ [Next]_vars => IInv'
<1> SUFFICES ASSUME IInv, [Next]_vars PROVE IInv'
  OBVIOUS
<1>1. ASSUME NEW a \in Addr, NEW id \in Id, NEW n \in ClientName, NEW ep \in Endpoint,
             Connect(a, id, n, ep)
      PROVE  IInv'
  BY <1>1, ConnectIInv
<1>2. ASSUME NEW a \in Addr, Close(a) PROVE IInv'
  BY <1>2, CloseIInv
<1>3. ASSUME NEW a \in Addr, NEW broken \in SUBSET Alive, Read(a, broken) PROVE IInv'
  BY <1>3, ReadIInv
<1>4. CASE UNCHANGED vars
  BY <1>4 DEF vars, IInv, TypeOK, OwnedByItsEntry, RoutedAsAsked, References, Identities,
              SafeUnlessEcho, TwiceOnlyIfNamedTwice, Alive, Names, Leaves, DstOf, RoutedTo
<1> QED BY <1>1, <1>2, <1>3, <1>4 DEF Next

\* The inductive invariant holds in every state of the router.
THEOREM Invariance == Spec => []IInv
<1>1. IInv /\ [Next]_vars => IInv'
  BY NextIInv
<1> QED BY InitIInv, <1>1, PTL DEF Spec

\* What the heap, the map and the weak pointers hold, for any configuration.
THEOREM TypeCorrect == Spec => []TypeOK
BY Invariance, PTL DEF IInv

\* Streams and entries of client_entries own each other one to one, and every
\* callback on_read refers to its own entry, whoever took it over.
THEOREM StreamsAreOwned == Spec => []OwnedByItsEntry
BY Invariance, PTL DEF IInv

\* The router uses a destroyed stream or entry only when routes lead from a stream
\* to itself, for any configuration without shadowed names.
THEOREM SafeWithoutEcho == Spec => []SafeUnlessEcho
BY Invariance, PTL DEF IInv

\* Data is written twice to a write end only when the routes name it twice.
THEOREM OnceUnlessNamedTwice == Spec => []TwiceOnlyIfNamedTwice
BY Invariance, PTL DEF IInv

-----------------------------------------------------------------------------
(* The router implements module Routing: its living streams, as they are known by *)
(* identity, name and endpoint, are the connected streams.                        *)

Live == {Public(heap[b]) : b \in Alive}

\* What lives is known by a stream of module Routing, and by one only.
LEMMA PublicType ==
  ASSUME IInv
  PROVE  /\ \A b \in Alive : /\ Public(heap[b]) \in Abs!RStream
                             /\ Public(heap[b]).id = heap[b].id
                             /\ Public(heap[b]).name = heap[b].name
                             /\ Public(heap[b]).ep = heap[b].ep
                             /\ Known(Public(heap[b])) = Known(heap[b])
         /\ \A b, c \in Alive : Public(heap[b]) = Public(heap[c]) => b = c
<1>1. ASSUME NEW b \in Alive
      PROVE  /\ Public(heap[b]) \in Abs!RStream
             /\ Public(heap[b]).id = heap[b].id
             /\ Public(heap[b]).name = heap[b].name
             /\ Public(heap[b]).ep = heap[b].ep
             /\ Known(Public(heap[b])) = Known(heap[b])
  <2>1. heap[b].id \in Id /\ heap[b].name \in Name /\ heap[b].ep \in Endpoint
    BY AliveType, RouterAssumption DEF IInv
  <2> QED BY <2>1 DEF Public, Known, Abs!RStream
<1>2. \A b, c \in Alive : Public(heap[b]) = Public(heap[c]) => b = c
  BY <1>1 DEF IInv, Identities
<1> QED BY <1>1, <1>2

\* Nothing is connected at first.
LEMMA InitRefines == Init => Abs!RInit
BY DEF Init, Alive, Abs!RInit

\* A new stream is the only one of its name.
LEMMA ConnectRefines ==
  ASSUME IInv, NEW a \in Addr, NEW id \in Id, NEW name \in ClientName, NEW ep \in Endpoint,
         Connect(a, id, name, ep)
  PROVE  Abs!RNext
<1> DEFINE s == [id |-> id, name |-> name, ep |-> ep]
<1>1. NewStreams(a, id, name, ep)
  BY ConnectHeap
<1>2. s \in Abs!RStream
  BY RouterAssumption DEF Abs!RStream
<1>3. \A t \in Live : t.id # s.id
  <2>1. \A b \in Alive : heap[b].id # id
    BY DEF Connect, Fresh
  <2> QED BY <2>1, PublicType DEF Live
<1>4. Public(heap'[a]) = s
  BY <1>1 DEF NewStreams, Public
<1>5. Live' = {t \in Live : t.name # s.name} \cup {s}
  <2>1. Live' = {Public(heap'[b]) : b \in Alive'}
    BY DEF Live, Public
  <2>2. Alive' = {b \in Alive : heap[b].name # name} \cup {a}
    BY <1>1 DEF NewStreams
  <2>3. ASSUME NEW b \in Alive, heap[b].name # name
        PROVE  Public(heap'[b]) = Public(heap[b])
    <3>1. b # a /\ b \in Alive'
      BY <1>1, <2>2, <2>3 DEF NewStreams
    <3> QED BY <1>1, <3>1 DEF NewStreams
  <2>4. \A b \in Alive : Public(heap[b]).name = heap[b].name
    BY PublicType
  <2>5. ASSUME NEW t PROVE t \in Live' <=> t \in {u \in Live : u.name # name} \cup {s}
    BY <1>4, <2>1, <2>2, <2>3, <2>4 DEF Live
  <2> QED BY <2>5
<1>6. UNCHANGED <<routes, delivered>>
  BY DEF Connect
<1>7. Abs!RConnect(s)
  BY <1>3, <1>5, <1>6 DEF Abs!RConnect, Live
<1> QED BY <1>2, <1>7 DEF Abs!RNext

\* The streams of D close: they are not connected any more, the others still are.
LEMMA ClosedLive ==
  ASSUME IInv, NEW D \in SUBSET Alive, Closed(D)
  PROVE  Live' = Live \ {Public(heap[b]) : b \in D}
<1>1. Live' = {Public(heap'[b]) : b \in Alive'}
  BY DEF Live, Public
<1>2. Alive' = Alive \ D /\ \A b \in Alive' : heap'[b] = heap[b]
  BY DEF Closed
<1>3. \A b, c \in Alive : Public(heap[b]) = Public(heap[c]) => b = c
  BY PublicType
<1>4. ASSUME NEW t PROVE t \in Live' <=> t \in Live \ {Public(heap[b]) : b \in D}
  BY <1>1, <1>2, <1>3 DEF Live
<1> QED BY <1>4

\* A close is a close.
LEMMA CloseRefines == ASSUME IInv, NEW a \in Addr, Close(a) PROVE Abs!RNext
<1>1. a \in Alive /\ Erase({heap[a].name}) /\ UNCHANGED <<routes, delivered>>
  BY DEF Close
<1>2. {a} \in SUBSET Alive /\ {heap[b].name : b \in {a}} = {heap[a].name}
      /\ {Public(heap[b]) : b \in {a}} = {Public(heap[a])}
  BY <1>1
<1>3. Live' = Live \ {Public(heap[a])}
  BY <1>1, <1>2, EraseResult, ClosedLive
<1>4. Public(heap[a]) \in Live
  BY <1>1 DEF Live
<1>5. Abs!RClose(Public(heap[a]))
  BY <1>1, <1>3 DEF Abs!RClose, Live
<1> QED BY <1>4, <1>5 DEF Abs!RNext, Live

\* What is written to is what the routes name.
LEMMA SinksAreReceivers ==
  ASSUME IInv, NEW a \in Alive
  PROVE  UNION {Sinks(w[2]) : w \in Paths(entries[heap[a].name])}
           = Abs!Receivers(Public(heap[a]))
<1> DEFINE e == entries[heap[a].name]
           s == Public(heap[a])
           Asked(p) == \E n \in Known(heap[a]) : p \in DstOf(routes, n)
<1>1. ASSUME NEW p PROVE (\E w \in Paths(e) : w[2] = p) <=> Asked(p)
  BY PathsOf
<1>2. \A w \in Paths(e) : w[2] \in Pattern /\ w[2] \in Leaves(routes)
  BY PathsOf
<1>3. ASSUME NEW t
      PROVE  t \in UNION {Sinks(w[2]) : w \in Paths(e)} <=>
               \E p : Asked(p) /\ p \in Pattern /\ p \in Leaves(routes) /\ t \in Sinks(p)
  BY <1>1, <1>2
<1>4. Abs!Known(s) = Known(heap[a])
  BY PublicType DEF Abs!Known, Known
<1>5. ASSUME NEW b \in Alive
      PROVE  Abs!RoutedTo(routes, Abs!Known(s), Abs!Known(Public(heap[b])))
               <=> \E m \in Known(heap[b]) : \E p : Asked(p) /\ EqualName(p, m)
  <2>1. Abs!Known(Public(heap[b])) = Known(heap[b])
    BY PublicType DEF Abs!Known, Known
  <2> QED BY <1>4, <2>1 DEF Abs!RoutedTo, Abs!DstOf, Abs!EqualName, DstOf, EqualName
<1>6. ASSUME NEW f
      PROVE  Abs!RoutedTo(routes, Abs!Known(s), {f}) <=> \E p : Asked(p) /\ EqualName(p, f)
  BY <1>4 DEF Abs!RoutedTo, Abs!DstOf, Abs!EqualName, DstOf, EqualName
<1>7. \A p : Asked(p) => p \in Leaves(routes) /\ p \in Pattern
  BY <1>1, <1>2
<1>8. ASSUME NEW t
      PROVE  (\E p : Asked(p) /\ p \in Pattern /\ p \in Leaves(routes) /\ t \in Sinks(p))
               <=> \/ \E b \in Alive : /\ t = heap[b].id /\ heap[b].ep \in WriteEnds
                                       /\ \E m \in Known(heap[b]) :
                                            \E p : Asked(p) /\ EqualName(p, m)
                   \/ t \in Static /\ \E p : Asked(p) /\ EqualName(p, t)
  <2>1. ASSUME NEW p \in Pattern, p \in Leaves(routes)
        PROVE  t \in Sinks(p) <=>
                 \/ \E b \in Alive : /\ t = heap[b].id /\ heap[b].ep \in WriteEnds
                                     /\ \E m \in Known(heap[b]) : EqualName(p, m)
                 \/ t \in Static /\ EqualName(p, t)
    <3>1. \A b \in Alive : b \in Locked(p) <=> Names(p, heap[b])
      BY DEF IInv, References, Locked
    <3>2. Locked(p) \subseteq Alive
      BY DEF Locked
    <3> QED BY <2>1, <3>1, <3>2 DEF Sinks, Names
  <2> HIDE DEF Asked
  <2> QED BY <1>7, <2>1
<1>9. ASSUME NEW t
      PROVE  t \in Abs!Receivers(s) <=>
               \/ \E b \in Alive : /\ t = heap[b].id /\ heap[b].ep \in WriteEnds
                                   /\ \E m \in Known(heap[b]) :
                                        \E p : Asked(p) /\ EqualName(p, m)
               \/ t \in Static /\ \E p : Asked(p) /\ EqualName(p, t)
  <2>1. \A b \in Alive : Public(heap[b]).id = heap[b].id /\ Public(heap[b]).ep = heap[b].ep
    BY PublicType
  <2> HIDE DEF Asked, s
  <2> QED BY <1>5, <1>6, <2>1 DEF Abs!Receivers
<1> QED
  <2> HIDE DEF Asked, s, e
  <2>1. \A t : t \in UNION {Sinks(w[2]) : w \in Paths(e)} <=> t \in Abs!Receivers(s)
    BY <1>3, <1>8, <1>9
  <2>2. UNION {Sinks(w[2]) : w \in Paths(e)} = Abs!Receivers(s)
    BY <2>1
  <2> QED BY <2>2 DEF e, s

\* A read is a delivery: nothing but receivers is written to or found broken.
LEMMA ReadRefines ==
  ASSUME IInv, NEW a \in Addr, NEW broken \in SUBSET Alive, Read(a, broken)
  PROVE  Abs!RNext
<1> DEFINE e == entries[heap[a].name]
           s == Public(heap[a])
           D == {Public(heap[b]) : b \in broken}
<1>1. a \in Alive /\ Write(a, e, broken)
  BY ReadWrites
<1>2. /\ routes' = routes
      /\ Erase({heap[b].name : b \in broken})
      /\ delivered' = <<s, UNION {Sinks(w[2]) : w \in Paths(e)}>>
      /\ broken \subseteq UNION {Locked(w[2]) : w \in Paths(e)}
  BY <1>1 DEF Write
<1>3. UNION {Sinks(w[2]) : w \in Paths(e)} = Abs!Receivers(s)
  BY <1>1, SinksAreReceivers
<1>4. \A t \in D : t.id \in Abs!Receivers(s)
  <2> SUFFICES ASSUME NEW b \in broken
               PROVE  Public(heap[b]).id \in UNION {Sinks(w[2]) : w \in Paths(e)}
    BY <1>3
  <2>1. PICK w \in Paths(e) : b \in Locked(w[2])
    BY <1>2
  <2>2. heap[b].id \in Sinks(w[2])
    BY <2>1 DEF Sinks
  <2> QED BY <2>2, PublicType
<1>5. Live' = Live \ D
  BY <1>2, EraseResult, ClosedLive
<1>6. s \in Live /\ D \in SUBSET Live
  BY <1>1 DEF Live
<1>7. Abs!RDeliver(s, D)
  BY <1>2, <1>3, <1>4, <1>5 DEF Abs!RDeliver, Live
<1> QED BY <1>6, <1>7 DEF Abs!RNext, Live

\* For any configuration without shadowed names, every behaviour of the router is
\* one of module Routing: data goes to the connected write ends its routes name and
\* to no other, whatever addresses, entries and names were used before.
THEOREM RouterImplementsRouting == Spec => ImplementsRouting
<1>1. IInv /\ [Next]_vars => [Abs!RNext]_(Abs!rvars)
  <2> SUFFICES ASSUME IInv, [Next]_vars PROVE [Abs!RNext]_(Abs!rvars)
    OBVIOUS
  <2>1. ASSUME NEW a \in Addr, NEW id \in Id, NEW n \in ClientName, NEW ep \in Endpoint,
               Connect(a, id, n, ep)
        PROVE  Abs!RNext
    BY <2>1, ConnectRefines
  <2>2. ASSUME NEW a \in Addr, Close(a) PROVE Abs!RNext
    BY <2>2, CloseRefines
  <2>3. ASSUME NEW a \in Addr, NEW broken \in SUBSET Alive, Read(a, broken) PROVE Abs!RNext
    BY <2>3, ReadRefines
  <2>4. CASE UNCHANGED vars
    BY <2>4 DEF vars, Abs!rvars, Alive, Public
  <2> QED BY <2>1, <2>2, <2>3, <2>4 DEF Next
<1> QED BY InitRefines, Invariance, <1>1, PTL DEF Spec, ImplementsRouting, Abs!RSpec

-----------------------------------------------------------------------------
(* Loops.  A recursive function on 0..n that says what a loop has made of V after each of *)
(* its rounds exists, and what every round keeps is kept.                                 *)

LEMMA LeastNumber ==
  ASSUME NEW S \in SUBSET Nat, S # {}
  PROVE  \E n \in S : \A m \in S : n <= m
<1> DEFINE R == OpToRel(<, Nat)
<1>1. IsWellFoundedOn(R, Nat) /\ \A x, y \in Nat : y < x => <<y, x>> \in R
  BY NatLessThanWellFounded DEF OpToRel
<1> HIDE DEF R
<1>2. \E x \in S : \A y \in S : ~(<<y, x>> \in R)
  BY <1>1, WFMin
<1>3. \E x \in S : \A y \in S : ~(y < x)
  BY <1>1, <1>2
<1> QED BY <1>3

\* What holds of 0, and of i if it holds of i - 1, holds up to n.
Passes(T, n) == \A i \in 1..n : i - 1 \in T => i \in T

LEMMA UpTo ==
  ASSUME NEW n \in Nat, NEW T, 0 \in T, Passes(T, n)
  PROVE  \A i \in 0..n : i \in T
<1> SUFFICES ASSUME NEW j \in 0..n, j \notin T PROVE FALSE
  OBVIOUS
<1>1. PICK S : S = {i \in 0..n : i \notin T}
  OBVIOUS
<1>2. S \in SUBSET Nat /\ S # {}
  BY <1>1
<1>3. PICK k \in S : \A m \in S : k <= m
  BY <1>2, LeastNumber
<1>4. k \in 1..n /\ k \notin T /\ k - 1 \in 0..n
  BY <1>1, <1>3
<1>5. k - 1 \in T
  <2>1. SUFFICES ASSUME k - 1 \in S PROVE FALSE
    BY <1>1, <1>4
  <2> QED BY <1>3, <1>4, <2>1
<1> QED BY <1>4, <1>5 DEF Passes

\* f says what n rounds of F make of k.
Rounds(f, F, n, k) == f[0] = k /\ \A i \in 1..n : f[i] = F[<<i, f[i - 1]>>]

LEMMA LoopExists ==
  ASSUME NEW V, NEW n \in Nat, NEW k \in V, NEW F \in [(1..n) \X V -> V]
  PROVE  \E f \in [0..n -> V] : Rounds(f, F, n, k)
<1> DEFINE T == {j \in Nat : \E f \in [0..j -> V] : Rounds(f, F, j, k)}
<1>1. 0 \in T
  <2>1. PICK f : f = [i \in 0..0 |-> k]
    OBVIOUS
  <2>2. f \in [0..0 -> V] /\ f[0] = k
    BY <2>1
  <2>3. Rounds(f, F, 0, k)
    BY <2>2 DEF Rounds
  <2> QED BY <2>2, <2>3
<1>2. ASSUME NEW j \in 1..n, j - 1 \in T PROVE j \in T
  <2>1. PICK g \in [0..(j - 1) -> V] : Rounds(g, F, j - 1, k)
    BY <1>2
  <2>2. PICK f : f = [i \in 0..j |-> IF i = j THEN F[<<j, g[j - 1]>>] ELSE g[i]]
    OBVIOUS
  <2>3. g[j - 1] \in V /\ F[<<j, g[j - 1]>>] \in V
    OBVIOUS
  <2>4. \A i \in 0..j : i # j => i \in 0..(j - 1)
    OBVIOUS
  <2>5. f \in [0..j -> V]
    BY <2>2, <2>3, <2>4
  <2>6. f[j] = F[<<j, g[j - 1]>>] /\ \A i \in 0..(j - 1) : f[i] = g[i]
    BY <2>2
  <2>7. ASSUME NEW i \in 1..j PROVE f[i] = F[<<i, f[i - 1]>>]
    <3>1. i - 1 \in 0..(j - 1) /\ f[i - 1] = g[i - 1]
      BY <2>6
    <3>2. CASE i = j
      BY <2>6, <3>1, <3>2
    <3>3. CASE i # j
      <4>1. i \in 1..(j - 1) /\ i \in 0..(j - 1)
        BY <3>3
      <4> QED BY <2>1, <2>6, <3>1, <4>1 DEF Rounds
    <3> QED BY <3>2, <3>3
  <2>8. f[0] = k
    <3>1. 0 \in 0..(j - 1)
      OBVIOUS
    <3> QED BY <2>1, <2>6, <3>1 DEF Rounds
  <2>9. Rounds(f, F, j, k)
    BY <2>7, <2>8 DEF Rounds
  <2> QED BY <2>5, <2>9
<1> HIDE DEF T
<1>3. n \in T
  BY <1>1, <1>2, UpTo DEF Passes
<1> QED BY <1>3 DEF T

-----------------------------------------------------------------------------
(* Streams of metrics: what they say of a counter, and that a metric leaves it so. *)

Metric == [{"event"} -> Nat] \cup UNION {[C -> Nat] : C \in SUBSET Counters}
Piece == Metric \cup {LF}
Streams == [room : {"all", "part", "none", "error"}, blocked : BOOLEAN, pack : Seq(Piece),
            queue : Nat, written : Seq(Piece), spoilt : BOOLEAN]

\* n is what the last metric with counter c says; there is none.
LastIn(q, c, n) ==
  \E i \in DOMAIN q : /\ c \in DOMAIN q[i] /\ q[i][c] = n
                      /\ \A j \in DOMAIN q : j > i => c \notin DOMAIN q[j]
Lacks(q, c) == \A i \in DOMAIN q : c \notin DOMAIN q[i]

Tells(k, c, n) == LastIn(k.pack, c, n) \/ (Lacks(k.pack, c) /\ LastIn(k.written, c, n))
Wakes(k) == Full(k) => k.blocked /\ k.room \in {"none", "error"}

\* Every metric is followed by a line feed.
Lines(q) ==
  \A i \in DOMAIN q : DOMAIN q[i] # {} => i + 1 \in DOMAIN q /\ DOMAIN q[i + 1] = {}
Neat(k) == ~k.spoilt => Lines(k.pack) /\ Lines(k.written)

\* r is a stream that says of c what k says; that waits for its sink if k does, and is made of
\* lines if k is.
Agree(k, r, c) == \A n \in Nat : Tells(k, c, n) => Tells(r, c, n)
KeepsOn(k, r) == r \in Streams /\ (Wakes(k) => Wakes(r)) /\ (Neat(k) => Neat(r))

\* Two sequences one after the other say what the second one says, or else the first.
LEMMA Concat ==
  ASSUME NEW M, NEW q \in Seq(M), NEW r \in Seq(M), NEW c, NEW n
  PROVE  /\ LastIn(r, c, n) => LastIn(q \o r, c, n)
         /\ LastIn(q, c, n) /\ Lacks(r, c) => LastIn(q \o r, c, n)
         /\ Lacks(q, c) /\ Lacks(r, c) => Lacks(q \o r, c)
<1>1. PICK s : s = q \o r
  OBVIOUS
<1>2. PICK a \in Nat : a = Len(q)
  OBVIOUS
<1>3. PICK b \in Nat : b = Len(r)
  OBVIOUS
<1>4. DOMAIN q = 1..a /\ DOMAIN r = 1..b /\ DOMAIN s = 1..(a + b)
  BY <1>1, <1>2, <1>3
<1>5. (\A i \in 1..a : s[i] = q[i]) /\ \A i \in 1..b : a + i \in 1..(a + b) /\ s[a + i] = r[i]
  BY <1>1, <1>2, <1>3
<1>6. \A i \in (1..(a + b)) \ 1..a : i - a \in 1..b /\ s[i] = r[i - a]
  BY <1>1, <1>2, <1>3
<1>7. ASSUME LastIn(r, c, n) PROVE LastIn(s, c, n)
  <2>1. PICK i \in 1..b : /\ c \in DOMAIN r[i] /\ r[i][c] = n
                          /\ \A j \in 1..b : j > i => c \notin DOMAIN r[j]
    BY <1>4, <1>7 DEF LastIn
  <2>2. PICK x \in 1..(a + b) : x = a + i
    BY <1>5
  <2>3. s[x] = r[i]
    BY <1>5, <2>2
  <2>4. ASSUME NEW j \in 1..(a + b), j > x PROVE c \notin DOMAIN s[j]
    <3>1. j - a \in 1..b /\ j - a > i /\ s[j] = r[j - a]
      BY <1>6, <2>2, <2>4
    <3> QED BY <2>1, <3>1
  <2> QED BY <1>4, <2>1, <2>3, <2>4 DEF LastIn
<1>8. ASSUME LastIn(q, c, n), Lacks(r, c) PROVE LastIn(s, c, n)
  <2>1. PICK i \in 1..a : /\ c \in DOMAIN q[i] /\ q[i][c] = n
                          /\ \A j \in 1..a : j > i => c \notin DOMAIN q[j]
    BY <1>4, <1>8 DEF LastIn
  <2>2. i \in 1..(a + b) /\ s[i] = q[i]
    BY <1>5
  <2>3. ASSUME NEW j \in 1..(a + b), j > i PROVE c \notin DOMAIN s[j]
    <3>1. CASE j \in 1..a
      BY <1>5, <2>1, <2>3, <3>1
    <3>2. CASE j \notin 1..a
      BY <1>4, <1>6, <1>8, <3>2 DEF Lacks
    <3> QED BY <3>1, <3>2
  <2> QED BY <1>4, <2>1, <2>2, <2>3 DEF LastIn
<1>9. ASSUME Lacks(q, c), Lacks(r, c) PROVE Lacks(s, c)
  <2>1. ASSUME NEW j \in 1..(a + b) PROVE c \notin DOMAIN s[j]
    <3>1. CASE j \in 1..a
      BY <1>4, <1>5, <1>9, <3>1 DEF Lacks
    <3>2. CASE j \notin 1..a
      BY <1>4, <1>6, <1>9, <3>2 DEF Lacks
    <3> QED BY <3>1, <3>2
  <2> QED BY <1>4, <2>1 DEF Lacks
<1> QED BY <1>1, <1>7, <1>8, <1>9

\* Lines after lines are lines.
LEMMA MoreLines ==
  ASSUME NEW M, NEW q \in Seq(M), NEW r \in Seq(M), Lines(q), Lines(r)
  PROVE  Lines(q \o r)
<1>1. PICK s : s = q \o r
  OBVIOUS
<1>2. PICK a \in Nat : a = Len(q)
  OBVIOUS
<1>3. PICK b \in Nat : b = Len(r)
  OBVIOUS
<1>4. DOMAIN q = 1..a /\ DOMAIN r = 1..b /\ DOMAIN s = 1..(a + b)
  BY <1>1, <1>2, <1>3
<1>5. (\A i \in 1..a : s[i] = q[i]) /\ \A i \in 1..b : a + i \in 1..(a + b) /\ s[a + i] = r[i]
  BY <1>1, <1>2, <1>3
<1>6. \A i \in (1..(a + b)) \ 1..a : i - a \in 1..b /\ s[i] = r[i - a]
  BY <1>1, <1>2, <1>3
<1>7. ASSUME NEW i \in 1..(a + b), DOMAIN s[i] # {}
      PROVE  i + 1 \in 1..(a + b) /\ DOMAIN s[i + 1] = {}
  <2>1. CASE i \in 1..a
    <3>1. i + 1 \in 1..a /\ DOMAIN q[i + 1] = {}
      BY <1>4, <1>5, <1>7, <2>1 DEF Lines
    <3> QED BY <1>5, <3>1
  <2>2. CASE i \notin 1..a
    <3>1. PICK j \in 1..b : j = i - a /\ s[i] = r[j]
      BY <1>6, <2>2
    <3>2. j + 1 \in 1..b /\ DOMAIN r[j + 1] = {}
      BY <1>4, <1>7, <3>1 DEF Lines
    <3>3. a + (j + 1) \in 1..(a + b) /\ s[a + (j + 1)] = r[j + 1]
      BY <1>5, <3>2
    <3>4. a + (j + 1) = i + 1
      BY <3>1
    <3> QED BY <3>2, <3>3, <3>4
  <2> QED BY <2>1, <2>2
<1> QED BY <1>1, <1>4, <1>7 DEF Lines

\* A line feed has no counters.
LEMMA FeedIs ==
  /\ LF \in Piece /\ DOMAIN LF = {}
  /\ \A q \in Seq({LF}) : q \in Seq(Piece) /\ Lines(q) /\ \A c : Lacks(q, c)
<1>1. LF \in Piece
  BY DEF Piece
<1>2. DOMAIN LF = {}
  <2>1. Len(LF) = 0 /\ LF \in Seq(Nat)
    BY DEF LF
  <2> QED BY <2>1
<1>3. ASSUME NEW q \in Seq({LF}) PROVE q \in Seq(Piece) /\ Lines(q) /\ \A c : Lacks(q, c)
  <2>1. \A i \in DOMAIN q : q[i] = LF
    OBVIOUS
  <2>2. q \in Seq(Piece)
    BY <1>1
  <2> QED BY <1>2, <2>1, <2>2 DEF Lines, Lacks
<1> QED BY <1>1, <1>2, <1>3

\* What a stream says, its sink has been told or will be.
LEMMA ToldByAll ==
  ASSUME NEW k \in Streams, NEW c, NEW n, Tells(k, c, n)
  PROVE  LastIn(k.written \o k.pack, c, n)
<1>1. k.written \in Seq(Piece) /\ k.pack \in Seq(Piece)
  BY DEF Streams
<1> QED BY <1>1, Concat DEF Tells

LEMMA TakenIs ==
  ASSUME NEW p \in Seq(Piece), NEW c, NEW n
  PROVE  /\ Taken(p) \in Seq(Piece)
         /\ Lacks(p, c) => Lacks(Taken(p), c)
<1>1. CASE p = <<>>
  <2>1. Taken(p) = <<>>
    BY <1>1 DEF Taken
  <2> QED BY <2>1 DEF Lacks
<1>2. CASE p # <<>>
  <2>1. PICK h \in Piece : h = Head(p) /\ h = p[1] /\ 1 \in DOMAIN p
    BY <1>2
  <2>2. Taken(p) = <<h>>
    BY <1>2, <2>1 DEF Taken
  <2>3. PICK y : y = <<h>>
    OBVIOUS
  <2>4. y \in Seq(Piece) /\ DOMAIN y = {1} /\ y[1] = h
    BY <2>3
  <2> QED BY <2>1, <2>2, <2>3, <2>4 DEF Lacks
<1> QED BY <1>1, <1>2

\* Writing the pack keeps what the stream says, and leaves no full pack that nobody waits for.
LEMMA WritePackKeeps ==
  ASSUME NEW k \in Streams
  PROVE  /\ WritePack(k) \in Streams /\ Wakes(WritePack(k)) /\ (Neat(k) => Neat(WritePack(k)))
         /\ \A c : Agree(k, WritePack(k), c)
<1>1. PICK p \in Seq(Piece) : p = k.pack
  BY DEF Streams
<1>2. PICK w \in Seq(Piece) : w = k.written
  BY DEF Streams
<1>3. PICK t \in Seq(Piece) : t = Taken(p)
  BY TakenIs
<1>4. w \o p \in Seq(Piece) /\ w \o t \in Seq(Piece)
  BY <1>2, <1>3
<1>5. CASE k.room = "all"
  <2>1. PICK r : r = [k EXCEPT !.pack = <<>>, !.written = w \o p]
    OBVIOUS
  <2>2. WritePack(k) = r
    BY <1>1, <1>2, <1>5, <2>1 DEF WritePack
  <2>3. <<>> \in Seq(Piece)
    OBVIOUS
  <2>4. r \in Streams /\ r.pack = <<>> /\ r.written = w \o p /\ r.spoilt = k.spoilt
    BY <1>4, <2>1, <2>3 DEF Streams
  <2>5. Wakes(r)
    <3>1. Len(r.pack) = 0 /\ PackSize \in Nat
      BY <2>4, InfluxAssumption
    <3> QED BY <3>1 DEF Wakes, Full, PackLen
  <2>6. ASSUME NEW c, NEW n \in Nat, Tells(k, c, n) PROVE Tells(r, c, n)
    <3>1. LastIn(w \o p, c, n)
      BY <1>1, <1>2, <2>6, Concat DEF Tells
    <3>2. Lacks(r.pack, c)
      BY <2>4 DEF Lacks
    <3> QED BY <2>4, <3>1, <3>2 DEF Tells
  <2>7. ASSUME Neat(k) PROVE Neat(r)
    <3>1. ASSUME ~r.spoilt PROVE Lines(r.pack) /\ Lines(r.written)
      <4>1. Lines(p) /\ Lines(w)
        BY <1>1, <1>2, <2>4, <2>7, <3>1 DEF Neat
      <4>2. Lines(w \o p)
        BY <4>1, MoreLines
      <4>3. Lines(<<>>)
        BY DEF Lines
      <4> QED BY <2>4, <4>2, <4>3
    <3> QED BY <3>1 DEF Neat
  <2> QED BY <2>2, <2>4, <2>5, <2>6, <2>7 DEF Agree
<1>6. CASE k.room = "part"
  <2>1. PICK r : r = [k EXCEPT !.written = w \o t, !.room = "none", !.blocked = TRUE,
                           !.spoilt = TRUE]
    OBVIOUS
  <2>2. WritePack(k) = r
    BY <1>1, <1>2, <1>3, <1>6, <2>1 DEF WritePack
  <2>3. r \in Streams /\ r.pack = p /\ r.written = w \o t /\ r.blocked /\ r.room = "none" /\ r.spoilt
    BY <1>1, <1>4, <2>1 DEF Streams
  <2>4. ASSUME NEW c, NEW n \in Nat, Tells(k, c, n) PROVE Tells(r, c, n)
    <3>1. CASE LastIn(p, c, n)
      BY <2>3, <3>1 DEF Tells
    <3>2. CASE Lacks(p, c) /\ LastIn(w, c, n)
      <4>1. Lacks(t, c)
        BY <1>3, <3>2, TakenIs
      <4>2. LastIn(w \o t, c, n)
        BY <3>2, <4>1, Concat
      <4> QED BY <2>3, <3>2, <4>2 DEF Tells
    <3> QED BY <1>1, <1>2, <2>4, <3>1, <3>2 DEF Tells
  <2> QED BY <2>2, <2>3, <2>4 DEF Agree, Wakes, Neat
<1>7. CASE k.room \in {"none", "error"}
  <2>1. PICK r : r = [k EXCEPT !.blocked = TRUE]
    OBVIOUS
  <2>2. WritePack(k) = r
    BY <1>7, <2>1 DEF WritePack
  <2>3. /\ r \in Streams /\ r.pack = p /\ r.written = w /\ r.blocked /\ r.room = k.room
        /\ r.spoilt = k.spoilt
    BY <1>1, <1>2, <2>1 DEF Streams
  <2> QED BY <1>1, <1>2, <1>7, <2>2, <2>3 DEF Agree, Wakes, Tells, Neat
<1> QED BY <1>5, <1>6, <1>7 DEF Streams

\* A metric's text and its line: they say its counters and no other.
LEMMA TextIs ==
  ASSUME NEW metric \in Metric, NEW c, NEW t \in {Text(metric), Line(metric)}
  PROVE  /\ t \in Seq(Piece)
         /\ c \notin DOMAIN metric => Lacks(t, c)
         /\ c \in DOMAIN metric => LastIn(t, c, metric[c])
         /\ Lines(Line(metric))
<1>1. PICK f : f = <<LF>>
  OBVIOUS
<1>2. f \in Seq(Piece) /\ DOMAIN f = {1} /\ Len(f) = 1 /\ f[1] = LF
  <2>1. LF \in Piece
    BY DEF Piece
  <2> QED BY <1>1, <2>1
<1>3. Lacks(f, c) /\ Lines(f)
  BY <1>2, FeedIs DEF Lacks, Lines
<1>4. PICK y : y = <<metric>>
  OBVIOUS
<1>5. y \in Seq(Piece) /\ DOMAIN y = {1} /\ Len(y) = 1 /\ y[1] = metric
  <2>1. metric \in Piece
    BY DEF Piece
  <2> QED BY <1>4, <2>1
<1>6. CASE DOMAIN metric = {}
  <2>1. PICK x : x = <<>>
    OBVIOUS
  <2>2. Text(metric) = x /\ Line(metric) = x \o f
    BY <1>1, <1>6, <2>1 DEF Text, Line
  <2>3. x \in Seq(Piece) /\ x \o f = f
    BY <1>2, <2>1
  <2>4. Lacks(x, c)
    BY <2>1 DEF Lacks
  <2> QED BY <1>2, <1>3, <1>6, <2>2, <2>3, <2>4
<1>7. CASE DOMAIN metric # {}
  <2>1. Text(metric) = y /\ Line(metric) = y \o f
    BY <1>1, <1>4, <1>7 DEF Text, Line
  <2>2. c \notin DOMAIN metric => Lacks(y, c)
    BY <1>5 DEF Lacks
  <2>3. c \in DOMAIN metric => LastIn(y, c, metric[c])
    BY <1>5 DEF LastIn
  <2>4. PICK z : z = y \o f
    OBVIOUS
  <2>5. z \in Seq(Piece) /\ DOMAIN z = 1..2 /\ z[2] = LF
    <3>1. y \in Seq(Piece) /\ f \in Seq(Piece)
      BY <1>2, <1>5
    <3>2. /\ z \in Seq(Piece) /\ Len(z) = Len(y) + Len(f)
          /\ \A i \in 1..Len(f) : z[Len(y) + i] = f[i]
      BY <2>4, <3>1
    <3>3. 1 \in 1..Len(f) /\ Len(y) + 1 = 2 /\ Len(z) = 2
      BY <1>2, <1>5, <3>2
    <3>4. z[2] = f[1]
      BY <3>2, <3>3
    <3> QED BY <1>2, <3>2, <3>3, <3>4
  <2>6. Lines(z)
    <3>1. DOMAIN z[2] = {}
      BY <2>5, FeedIs
    <3>2. ASSUME NEW i \in 1..2, DOMAIN z[i] # {} PROVE i + 1 \in 1..2 /\ DOMAIN z[i + 1] = {}
      <4>1. i = 1
        BY <3>1, <3>2
      <4> QED BY <3>1, <4>1
    <3> QED BY <2>5, <3>2 DEF Lines
  <2>7. c \notin DOMAIN metric => Lacks(z, c)
    BY <1>2, <1>3, <1>5, <2>2, <2>4, Concat
  <2>8. c \in DOMAIN metric => LastIn(z, c, metric[c])
    BY <1>2, <1>3, <1>5, <2>3, <2>4, Concat
  <2> QED BY <1>5, <2>1, <2>2, <2>3, <2>4, <2>5, <2>6, <2>7, <2>8
<1> QED BY <1>6, <1>7

\* A metric leaves what is said of the counters it does not have, and says its own.
LEMMA SendKeeps ==
  ASSUME NEW k \in Streams, NEW metric \in Metric
  PROVE  /\ KeepsOn(k, Send(k, metric))
         /\ \A c : c \notin DOMAIN metric => Agree(k, Send(k, metric), c)
         /\ \A c \in DOMAIN metric : Tells(Send(k, metric), c, metric[c])
<1>1. PICK p \in Seq(Piece) : p = k.pack
  BY DEF Streams
<1>2. ASSUME NEW t \in {Text(metric), Line(metric)}
      PROVE  t \in Seq(Piece) /\ p \o t \in Seq(Piece)
  BY TextIs
<1>3. k.written \in Seq(Piece)
  BY DEF Streams
<1>4. ASSUME NEW t \in {Text(metric), Line(metric)},
             NEW r \in Streams, r.pack = p \o t, r.written = k.written
      PROVE  /\ \A c : c \notin DOMAIN metric => Agree(k, r, c)
             /\ \A c \in DOMAIN metric : Tells(r, c, metric[c])
  <2>1. ASSUME NEW c, c \notin DOMAIN metric, NEW n \in Nat, Tells(k, c, n) PROVE Tells(r, c, n)
    <3>1. t \in Seq(Piece) /\ Lacks(t, c)
      BY <2>1, TextIs
    <3>2. CASE LastIn(p, c, n)
      BY <1>4, <3>1, <3>2, Concat DEF Tells
    <3>3. CASE Lacks(p, c) /\ LastIn(k.written, c, n)
      BY <1>4, <3>1, <3>3, Concat DEF Tells
    <3> QED BY <1>1, <2>1, <3>2, <3>3 DEF Tells
  <2>2. ASSUME NEW c \in DOMAIN metric PROVE Tells(r, c, metric[c])
    <3>1. t \in Seq(Piece) /\ LastIn(t, c, metric[c])
      BY TextIs
    <3>2. LastIn(p \o t, c, metric[c])
      BY <3>1, Concat
    <3> QED BY <1>4, <3>2 DEF Tells
  <2> QED BY <2>1, <2>2 DEF Agree
<1>5. PICK t \in {Line(metric)} : t = Line(metric)
  OBVIOUS
<1>6. PICK next : next = [k EXCEPT !.pack = p \o t]
  OBVIOUS
<1>7. /\ next \in Streams /\ next.pack = p \o t /\ next.written = k.written
      /\ next.spoilt = k.spoilt
  BY <1>2, <1>5, <1>6 DEF Streams
<1>8. Neat(k) => Neat(next)
  <2>1. ASSUME Neat(k), ~k.spoilt PROVE Lines(p \o t) /\ Lines(k.written)
    <3>1. Lines(p) /\ Lines(k.written)
      BY <1>1, <2>1 DEF Neat
    <3>2. Lines(t) /\ t \in Seq(Piece)
      BY <1>5, TextIs
    <3> QED BY <3>1, <3>2, MoreLines
  <2> QED BY <1>7, <2>1 DEF Neat
<1>9. CASE Full(k)
  <2>1. PICK q : q = (IF k.queue > QueueMax THEN QueueShrink ELSE k.queue) + 1
    OBVIOUS
  <2>2. q \in Nat
    BY <2>1, InfluxAssumption DEF Streams
  <2>3. PICK u \in {Text(metric)} : u = Text(metric)
    OBVIOUS
  <2>4. PICK r : r = [k EXCEPT !.pack = p \o u, !.spoilt = TRUE, !.queue = q]
    OBVIOUS
  <2>5. /\ r \in Streams /\ r.pack = p \o u /\ r.written = k.written /\ r.blocked = k.blocked
        /\ r.room = k.room /\ r.spoilt
    BY <1>2, <2>2, <2>3, <2>4 DEF Streams
  <2>6. Send(k, metric) = r
    BY <1>1, <1>9, <2>1, <2>3, <2>4 DEF Send
  <2>7. KeepsOn(k, r)
    BY <1>9, <2>5 DEF KeepsOn, Wakes, Neat
  <2> QED BY <1>4, <2>3, <2>5, <2>6, <2>7
<1>10. CASE ~Full(k) /\ Full(next)
  <2>1. Send(k, metric) = WritePack(next)
    BY <1>1, <1>5, <1>6, <1>10 DEF Send
  <2>2. PICK r \in Streams : /\ r = WritePack(next) /\ Wakes(r) /\ (Neat(next) => Neat(r))
                             /\ \A c : Agree(next, r, c)
    BY <1>7, WritePackKeeps
  <2>3. KeepsOn(k, r)
    BY <1>8, <2>2 DEF KeepsOn
  <2>4. ASSUME NEW c, c \notin DOMAIN metric PROVE Agree(k, r, c)
    BY <1>4, <1>5, <1>7, <2>2, <2>4 DEF Agree
  <2>5. ASSUME NEW c \in DOMAIN metric PROVE Tells(r, c, metric[c])
    <3>1. Tells(next, c, metric[c]) /\ Agree(next, r, c)
      BY <1>4, <1>5, <1>7, <2>2
    <3>2. metric[c] \in Nat
      <4>1. PICK C : metric \in [C -> Nat]
        BY DEF Metric
      <4> QED BY <4>1
    <3> QED BY <3>1, <3>2 DEF Agree
  <2> QED BY <2>1, <2>2, <2>3, <2>4, <2>5
<1>11. CASE ~Full(k) /\ ~Full(next)
  <2>1. Send(k, metric) = next
    BY <1>1, <1>5, <1>6, <1>11 DEF Send
  <2>2. KeepsOn(k, next)
    BY <1>7, <1>8, <1>11 DEF KeepsOn, Wakes
  <2> QED BY <1>4, <1>5, <1>7, <2>1, <2>2
<1> QED BY <1>9, <1>10, <1>11

\* A flush that was due: whatever was packed is written, or waits for the sink.
LEMMA FlushKeeps ==
  ASSUME NEW k \in Streams
  PROVE  /\ Flush(k) \in Streams /\ Wakes(Flush(k)) /\ (Neat(k) => Neat(Flush(k)))
         /\ \A c : Agree(k, Flush(k), c)
<1>1. PICK w \in Streams : /\ w = WritePack(k) /\ Wakes(w) /\ (Neat(k) => Neat(w))
                           /\ \A c : Agree(k, w, c)
  BY WritePackKeeps
<1>2. CASE PackLen(k) = 0
  <2>1. Flush(k) = k
    BY <1>2 DEF Flush
  <2>2. Wakes(k)
    BY <1>2, InfluxAssumption DEF Wakes, Full
  <2> QED BY <2>1, <2>2 DEF Agree
<1>3. CASE PackLen(k) # 0 /\ PackLen(w) = 0
  <2>1. PICK fs : fs = [i \in 1..k.queue |-> LF]
    OBVIOUS
  <2>2. PICK v : v = w.written \o fs
    OBVIOUS
  <2>3. PICK r : r = [w EXCEPT !.queue = 0, !.written = v]
    OBVIOUS
  <2>4. Flush(k) = r
    BY <1>1, <1>3, <2>1, <2>2, <2>3 DEF Flush
  <2>5. fs \in Seq({LF})
    <3>1. k.queue \in Nat
      BY DEF Streams
    <3> QED BY <2>1, <3>1
  <2>6. fs \in Seq(Piece) /\ Lines(fs) /\ \A c : Lacks(fs, c)
    BY <2>5, FeedIs
  <2>7. w.written \in Seq(Piece)
    BY DEF Streams
  <2>8. v \in Seq(Piece)
    BY <2>2, <2>6, <2>7
  <2>9. /\ r \in Streams /\ r.pack = w.pack /\ r.written = v /\ r.blocked = w.blocked
        /\ r.room = w.room /\ r.spoilt = w.spoilt
    BY <2>3, <2>8 DEF Streams
  <2>10. Wakes(r)
    BY <1>1, <2>9 DEF Wakes, Full, PackLen
  <2>11. ASSUME NEW c, NEW n \in Nat, Tells(k, c, n) PROVE Tells(r, c, n)
    <3>1. Tells(w, c, n)
      BY <1>1, <2>11 DEF Agree
    <3>2. LastIn(w.written, c, n) => LastIn(v, c, n)
      BY <2>2, <2>6, <2>7, Concat
    <3> QED BY <2>9, <3>1, <3>2 DEF Tells
  <2>12. ASSUME Neat(k) PROVE Neat(r)
    <3>1. Lines(w.written) => Lines(v)
      BY <2>2, <2>6, <2>7, MoreLines
    <3> QED BY <1>1, <2>9, <2>12, <3>1 DEF Neat
  <2> QED BY <2>4, <2>9, <2>10, <2>11, <2>12 DEF Agree
<1>4. CASE PackLen(k) # 0 /\ PackLen(w) # 0
  <2>1. Flush(k) = w
    BY <1>1, <1>4 DEF Flush
  <2> QED BY <1>1, <2>1
<1> QED BY <1>2, <1>3, <1>4

-----------------------------------------------------------------------------
(* The report: its two loops and what is left of a stream and of the list after them. *)

StatTypeOK ==
  /\ cfg \in Configs
  /\ values \in [Counters -> [n : Nat, new : BOOLEAN]]
  /\ InfluxStream \in Streams /\ sink \in {"none", "file", "udp", "other"}
  /\ stats \in Seq(Stats) /\ alive \subseteq Stats /\ timer \in {"off", "on"}
  /\ events \in Seq(Nat) /\ added \in Nat /\ failed \in BOOLEAN

\* The events leave what is said of the counters.
LEMMA EventsKeep ==
  ASSUME StatTypeOK, NEW k \in Streams
  PROVE  /\ KeepsOn(k, ReportEvents(k))
         /\ \A c \in Counters : Agree(k, ReportEvents(k), c)
<1>1. PICK n \in Nat : n = Len(events)
  BY DEF StatTypeOK
<1>2. \A i \in 1..n : events[i] \in Nat
  BY <1>1 DEF StatTypeOK
<1>3. ASSUME NEW i \in 1..n PROVE [event |-> events[i]] \in Metric
  <2>1. PICK m : m = [event |-> events[i]]
    OBVIOUS
  <2>2. m \in [{"event"} -> Nat]
    BY <1>2, <2>1
  <2> QED BY <2>1, <2>2 DEF Metric
<1>4. ASSUME NEW i \in 1..n, NEW c \in Counters PROVE c \notin DOMAIN [event |-> events[i]]
  BY DEF Counters
<1>5. PICK F : F = [x \in (1..n) \X Streams |-> Send(x[2], [event |-> events[x[1]]])]
  OBVIOUS
<1>6. ASSUME NEW i \in 1..n, NEW r \in Streams
      PROVE  F[<<i, r>>] = Send(r, [event |-> events[i]])
  BY <1>5
<1>7. F \in [(1..n) \X Streams -> Streams]
  BY <1>3, <1>5, SendKeeps DEF KeepsOn
<1>8. PICK f \in [0..n -> Streams] : Rounds(f, F, n, k)
  BY <1>7, LoopExists
<1>9. f = [i \in 0..n |-> IF i = 0 THEN k ELSE Send(f[i - 1], [event |-> events[i]])]
  <2>1. ASSUME NEW i \in 1..n PROVE f[i] = Send(f[i - 1], [event |-> events[i]])
    <3>1. i - 1 \in 0..n /\ f[i] = F[<<i, f[i - 1]>>]
      BY <1>8 DEF Rounds
    <3>2. PICK r \in Streams : r = f[i - 1]
      BY <3>1
    <3> QED BY <1>6, <3>1, <3>2
  <2> QED BY <1>8, <2>1 DEF Rounds
<1> DEFINE Is(g) == g = [i \in 0..n |-> IF i = 0 THEN k ELSE Send(g[i - 1], [event |-> events[i]])]
<1>10. ASSUME NEW g, Is(g)
       PROVE  /\ KeepsOn(k, g[n])
              /\ \A c \in Counters : Agree(k, g[n], c)
  <2> DEFINE T == {i \in 0..n : KeepsOn(k, g[i]) /\ \A c \in Counters : Agree(k, g[i], c)}
  <2>1. g[0] = k
    BY <1>10
  <2>2. 0 \in T
    BY <2>1 DEF KeepsOn, Agree
  <2>3. ASSUME NEW i \in 1..n, i - 1 \in T PROVE i \in T
    <3>1. i \in 0..n /\ i - 1 \in 0..n /\ g[i] = Send(g[i - 1], [event |-> events[i]])
      BY <1>10
    <3>2. PICK r \in Streams : r = g[i - 1]
      BY <2>3 DEF KeepsOn
    <3>3. PICK m \in Metric : m = [event |-> events[i]]
      BY <1>3
    <3>4. KeepsOn(r, Send(r, m)) /\ \A c \in Counters : Agree(r, Send(r, m), c)
      BY <1>4, <3>3, SendKeeps
    <3>5. KeepsOn(k, r) /\ \A c \in Counters : Agree(k, r, c)
      BY <2>3, <3>2
    <3>6. KeepsOn(k, Send(r, m)) /\ \A c \in Counters : Agree(k, Send(r, m), c)
      BY <3>4, <3>5 DEF KeepsOn, Agree
    <3> QED BY <3>1, <3>2, <3>3, <3>6
  <2> HIDE DEF T
  <2>4. n \in T
    BY <2>2, <2>3, UpTo DEF Passes
  <2> QED BY <2>4 DEF T
<1>11. PICK g : g = CHOOSE h : Is(h)
  OBVIOUS
<1>12. Is(g)
  <2> HIDE DEF Is
  <2>1. \E h : Is(h)
    BY <1>9 DEF Is
  <2> QED BY <1>11, <2>1
<1>13. ReportEvents(k) = g[n]
  BY <1>1, <1>11 DEF ReportEvents
<1> QED BY <1>10, <1>12, <1>13

\* What the loop over the objects carries along.
Lists == [list : Seq(Stats), stream : Streams]
Listed(l) == {l.list[i] : i \in DOMAIN l.list}

\* An object that is asked to report stays on the list, and leaves to the stream what it says
\* of the counters without news; the counters' object says the news of the others.
LEMMA VisitKeeps ==
  ASSUME StatTypeOK, NEW l \in Lists, NEW s \in Stats
  PROVE  /\ Visit(l, s) \in Lists /\ Listed(Visit(l, s)) \subseteq Listed(l) \cup {s}
         /\ KeepsOn(l.stream, Visit(l, s).stream)
         /\ \A c \in Counters : c \notin News \/ s # "counters" =>
              Agree(l.stream, Visit(l, s).stream, c)
         /\ s = "counters" /\ s \in alive =>
              \A c \in News : Tells(Visit(l, s).stream, c, values[c].n)
<1>1. PICK k \in Streams : k = l.stream
  BY DEF Lists
<1>2. PICK q \in Seq(Stats) : q = l.list
  BY DEF Lists
<1>3. PICK e : e = Append(q, s)
  OBVIOUS
<1>4. e \in Seq(Stats) /\ {e[i] : i \in DOMAIN e} \subseteq {q[i] : i \in DOMAIN q} \cup {s}
  BY <1>2, <1>3
<1>5. CASE s \notin alive
  BY <1>1, <1>5 DEF Visit, Agree, KeepsOn
<1>6. ASSUME s \in alive, NEW r \in Streams,
             r = IF s = "counters" THEN ReportCounters(k) ELSE ReportEvents(k)
      PROVE  /\ Visit(l, s) \in Lists /\ Listed(Visit(l, s)) \subseteq Listed(l) \cup {s}
             /\ Visit(l, s).stream = r
  <2>1. PICK v : v = [list |-> e, stream |-> r]
    OBVIOUS
  <2>2. Visit(l, s) = v
    BY <1>1, <1>2, <1>3, <1>6, <2>1 DEF Visit
  <2>3. v.list = e /\ v.stream = r /\ v \in Lists
    BY <1>4, <2>1 DEF Lists
  <2> QED BY <1>2, <1>4, <2>2, <2>3 DEF Listed
<1>7. CASE s \in alive /\ s = "counters"
  <2>1. PICK m : m = [c \in News |-> values[c].n]
    OBVIOUS
  <2>2. m \in [News -> Nat] /\ News \in SUBSET Counters
    BY <2>1 DEF News, StatTypeOK
  <2>3. m \in Metric /\ DOMAIN m = News /\ \A c \in News : m[c] = values[c].n
    BY <2>1, <2>2 DEF Metric
  <2>4. PICK r : r = Send(k, m)
    OBVIOUS
  <2>5. /\ KeepsOn(k, r)
        /\ \A c : c \notin DOMAIN m => Agree(k, r, c)
        /\ \A c \in DOMAIN m : Tells(r, c, m[c])
    BY <2>3, <2>4, SendKeeps
  <2>6. r \in Streams /\ r = ReportCounters(k)
    BY <2>1, <2>4, <2>5 DEF KeepsOn, ReportCounters
  <2> QED BY <1>1, <1>6, <1>7, <2>3, <2>5, <2>6 DEF KeepsOn
<1>8. CASE s \in alive /\ s # "counters"
  <2>1. PICK r : r = ReportEvents(k)
    OBVIOUS
  <2>2. KeepsOn(k, r) /\ \A c \in Counters : Agree(k, r, c)
    BY <2>1, EventsKeep
  <2> QED BY <1>1, <1>6, <1>8, <2>1, <2>2 DEF KeepsOn
<1> QED BY <1>5, <1>7, <1>8

\* The whole report.
LEMMA ReportKeeps ==
  ASSUME StatTypeOK
  PROVE  /\ Report \in Lists /\ Listed(Report) \subseteq Registered
         /\ KeepsOn(InfluxStream, Report.stream)
         /\ \A c \in Counters \ News : Agree(InfluxStream, Report.stream, c)
         /\ "counters" \in Registered \cap alive =>
              \A c \in News : Tells(Report.stream, c, values[c].n)
<1>1. PICK n \in Nat : n = Len(stats)
  BY DEF StatTypeOK
<1>2. DOMAIN stats = 1..n /\ \A i \in 1..n : stats[i] \in Stats
  BY <1>1 DEF StatTypeOK
<1>3. PICK k : k = [list |-> <<>>, stream |-> InfluxStream]
  OBVIOUS
<1>4. k \in Lists /\ k.stream = InfluxStream /\ Listed(k) = {}
  <2>1. <<>> \in Seq(Stats)
    OBVIOUS
  <2> QED BY <1>3, <2>1 DEF Lists, Listed, StatTypeOK
<1>5. PICK F : F = [x \in (1..n) \X Lists |-> Visit(x[2], stats[x[1]])]
  OBVIOUS
<1>6. ASSUME NEW i \in 1..n, NEW r \in Lists PROVE F[<<i, r>>] = Visit(r, stats[i])
  BY <1>5
<1>7. F \in [(1..n) \X Lists -> Lists]
  BY <1>2, <1>5, VisitKeeps
<1>8. PICK f \in [0..n -> Lists] : Rounds(f, F, n, k)
  BY <1>4, <1>7, LoopExists
<1>9. f = [i \in 0..n |-> IF i = 0 THEN k ELSE Visit(f[i - 1], stats[i])]
  <2>1. ASSUME NEW i \in 1..n PROVE f[i] = Visit(f[i - 1], stats[i])
    <3>1. i - 1 \in 0..n /\ f[i] = F[<<i, f[i - 1]>>]
      BY <1>8 DEF Rounds
    <3>2. PICK r \in Lists : r = f[i - 1]
      BY <3>1
    <3> QED BY <1>6, <3>1, <3>2
  <2> QED BY <1>8, <2>1 DEF Rounds
<1> DEFINE Is(g) == g = [i \in 0..n |-> IF i = 0 THEN [list |-> <<>>, stream |-> InfluxStream]
                                                 ELSE Visit(g[i - 1], stats[i])]
           Good(l, i) ==
             /\ l \in Lists /\ Listed(l) \subseteq Registered
             /\ KeepsOn(InfluxStream, l.stream)
             /\ \A c \in Counters : c \notin News => Agree(InfluxStream, l.stream, c)
             /\ "counters" \in {stats[j] : j \in 1..i} \cap alive =>
                  \A c \in News : Tells(l.stream, c, values[c].n)
<1>10. ASSUME NEW g, Is(g) PROVE Good(g[n], n)
  <2> DEFINE T == {i \in 0..n : Good(g[i], i)}
  <2>1. g[0] = k
    BY <1>3, <1>10
  <2>2. 0 \in T
    <3>1. {stats[j] : j \in 1..0} = {}
      OBVIOUS
    <3>2. Good(k, 0)
      BY <1>4, <3>1 DEF Agree, KeepsOn, StatTypeOK
    <3> QED BY <2>1, <3>2
  <2>3. ASSUME NEW i \in 1..n, i - 1 \in T PROVE i \in T
    <3>1. i \in 0..n /\ i - 1 \in 0..n /\ g[i] = Visit(g[i - 1], stats[i])
      BY <1>10
    <3>2. PICK l \in Lists : l = g[i - 1] /\ Good(l, i - 1)
      BY <2>3
    <3>3. PICK s \in Stats : s = stats[i] /\ s \in Registered
      BY <1>2 DEF Registered
    <3>4. PICK v : v = Visit(l, s)
      OBVIOUS
    <3>5. /\ v \in Lists /\ Listed(v) \subseteq Listed(l) \cup {s}
          /\ KeepsOn(l.stream, v.stream)
          /\ \A c \in Counters : c \notin News \/ s # "counters" => Agree(l.stream, v.stream, c)
          /\ s = "counters" /\ s \in alive => \A c \in News : Tells(v.stream, c, values[c].n)
      BY <3>4, VisitKeeps
    <3>6. ASSUME "counters" \in {stats[j] : j \in 1..i} \cap alive, NEW c \in News
          PROVE  Tells(v.stream, c, values[c].n)
      <4>1. CASE s = "counters"
        BY <3>5, <3>6, <4>1
      <4>2. CASE s # "counters"
        <5>1. "counters" \in {stats[j] : j \in 1..(i - 1)}
          BY <3>3, <3>6, <4>2
        <5>2. Tells(l.stream, c, values[c].n)
          BY <3>2, <3>6, <5>1
        <5>3. c \in Counters /\ values[c].n \in Nat
          BY DEF News, StatTypeOK
        <5> QED BY <3>5, <4>2, <5>2, <5>3 DEF Agree
      <4> QED BY <4>1, <4>2
    <3>7. Good(v, i)
      <4>1. \A c \in Counters : c \notin News => Agree(InfluxStream, v.stream, c)
        BY <3>2, <3>5 DEF Agree
      <4>2. KeepsOn(InfluxStream, v.stream)
        BY <3>2, <3>5 DEF KeepsOn
      <4> QED BY <3>2, <3>3, <3>5, <3>6, <4>1, <4>2
    <3> QED BY <3>1, <3>2, <3>3, <3>4, <3>7
  <2> HIDE DEF T
  <2>4. n \in T
    BY <2>2, <2>3, UpTo DEF Passes
  <2> QED BY <2>4 DEF T
<1>11. PICK g : g = CHOOSE h : Is(h)
  OBVIOUS
<1>12. Is(g)
  <2> HIDE DEF Is
  <2>1. \E h : Is(h)
    BY <1>3, <1>9 DEF Is
  <2> QED BY <1>11, <2>1
<1>13. Report = g[n]
  BY <1>1, <1>11 DEF Report
<1>14. Registered = {stats[j] : j \in 1..n}
  BY <1>2 DEF Registered
<1> QED BY <1>10, <1>12, <1>13, <1>14

-----------------------------------------------------------------------------
(* The inductive invariant.  A full pack waits for a UDP client that calls back; before    *)
(* there is a sink nobody has looked; the stream says of every counter without news its    *)
(* value, and says it in lines until it is spoilt.                                         *)

SaysTheCounters ==
  \A c \in Counters :
    values[c].n > 0 /\ ~values[c].new => Tells(InfluxStream, c, values[c].n)
StatIInv ==
  /\ StatTypeOK
  /\ sink = "none" => blocked /\ room = "none"
  /\ sink \in {"none", "udp"} => Wakes(InfluxStream)
  /\ Neat(InfluxStream)
  /\ alive \cap Registered # {} => timer = "on" \/ failed
  /\ SaysTheCounters

LEMMA BecomesIs ==
  ASSUME NEW k \in Streams, Becomes(k)
  PROVE  InfluxStream' = k
<1>1. k = [room |-> k.room, blocked |-> k.blocked, pack |-> k.pack, queue |-> k.queue,
           written |-> k.written, spoilt |-> k.spoilt]
  BY DEF Streams
<1> QED BY <1>1 DEF Becomes, InfluxStream

LEMMA StatInitInv == StatInit => StatIInv
<1> SUFFICES ASSUME StatInit PROVE StatIInv
  OBVIOUS
<1> USE DEF StatInit, FilterInit, InfluxInit
<1>1. <<>> \in Seq(Piece) /\ <<>> \in Seq(Stats) /\ <<>> \in Seq(Nat)
  OBVIOUS
<1>2. InfluxStream \in Streams
  BY <1>1 DEF InfluxStream, Streams
<1>3. StatTypeOK
  BY <1>1, <1>2 DEF StatTypeOK
<1>4. Wakes(InfluxStream) /\ Neat(InfluxStream)
  <2>1. Lines(<<>>)
    BY DEF Lines
  <2> QED BY <2>1 DEF Wakes, Neat, InfluxStream
<1>5. Registered = {}
  BY DEF Registered
<1>6. SaysTheCounters
  BY DEF SaysTheCounters
<1> QED BY <1>3, <1>4, <1>5, <1>6 DEF StatIInv

Put(k, R, b) == [k EXCEPT !.room = R, !.blocked = b]

\* The steps of the sink: the statistics stay as they are.
LEMMA SinkSteps ==
  ASSUME StatIInv, UNCHANGED <<filterVars, periodVars>>,
         (\E s \in {"file", "udp", "other"} : SetOutput(s)) \/ SinkStalls \/ SinkWriteable
  PROVE  StatIInv'
<1> USE DEF filterVars, periodVars
<1>1. /\ UNCHANGED <<cfg, values, stats, alive, timer, events, added, failed>>
      /\ Registered' = Registered
  BY DEF Registered
<1>2. ASSUME NEW r \in Streams, InfluxStream' = r, sink' \in {"file", "udp", "other"},
             sink' = "udp" => Wakes(r), Neat(r), \A c : Agree(InfluxStream, r, c)
      PROVE  StatIInv'
  <2>1. StatTypeOK'
    BY <1>1, <1>2 DEF StatIInv, StatTypeOK
  <2>2. SaysTheCounters'
    <3>1. ASSUME NEW c \in Counters, values[c].n > 0, ~values[c].new
          PROVE  Tells(r, c, values[c].n)
      <4>1. values[c].n \in Nat
        BY DEF StatIInv, StatTypeOK
      <4> QED BY <1>2, <3>1, <4>1 DEF Agree, StatIInv, SaysTheCounters
    <3> QED BY <1>1, <1>2, <3>1 DEF SaysTheCounters
  <2> QED BY <1>1, <1>2, <2>1, <2>2 DEF StatIInv
<1>3. PICK k \in Streams : k = InfluxStream
  BY DEF StatIInv, StatTypeOK
<1>4. /\ k.room = room /\ k.blocked = blocked /\ k.pack = pack /\ k.queue = queue
      /\ k.written = written /\ k.spoilt = spoilt
  BY <1>3 DEF InfluxStream
<1>5. Neat(k) /\ (sink \in {"none", "udp"} => Wakes(k))
  BY <1>3 DEF StatIInv
<1>6. ASSUME NEW R \in {"all", "part", "none", "error"}, NEW b \in BOOLEAN,
             NEW r, r = Put(k, R, b)
      PROVE  /\ r \in Streams /\ r.room = R /\ r.blocked = b
             /\ r = [room |-> R, blocked |-> b, pack |-> pack, queue |-> queue,
                     written |-> written, spoilt |-> spoilt]
             /\ Neat(r) /\ (\A c : Agree(k, r, c)) /\ (Full(r) <=> Full(k))
  <2>1. /\ r \in Streams /\ r.room = R /\ r.blocked = b /\ r.pack = k.pack
        /\ r.queue = k.queue /\ r.written = k.written /\ r.spoilt = k.spoilt
    BY <1>6 DEF Put, Streams
  <2>2. r = [room |-> R, blocked |-> b, pack |-> pack, queue |-> queue,
             written |-> written, spoilt |-> spoilt]
    BY <1>4, <2>1 DEF Streams
  <2>3. Neat(r) /\ \A c : Agree(k, r, c)
    BY <1>5, <2>1 DEF Neat, Agree, Tells
  <2>4. Full(r) <=> Full(k)
    BY <2>1 DEF Full, PackLen
  <2> QED BY <2>1, <2>2, <2>3, <2>4
<1>7. ASSUME NEW s \in {"file", "udp", "other"}, SetOutput(s) PROVE StatIInv'
  <2>1. /\ sink = "none" /\ sink' = s /\ UNCHANGED <<pack, queue, written, spoilt>>
        /\ room' \in {"all", "part", "none", "error"} /\ blocked' \in BOOLEAN
        /\ s = "udp" => UNCHANGED <<room, blocked>>
    BY <1>3, <1>4, <1>7 DEF SetOutput, Streams
  <2> DEFINE R == room'
             b == blocked'
  <2>2. PICK r : r = Put(k, R, b)
    OBVIOUS
  <2>3. /\ r \in Streams /\ r.room = R /\ r.blocked = b
        /\ r = [room |-> R, blocked |-> b, pack |-> pack, queue |-> queue,
                written |-> written, spoilt |-> spoilt]
        /\ Neat(r) /\ (\A c : Agree(k, r, c)) /\ (Full(r) <=> Full(k))
    <3>1. R \in {"all", "part", "none", "error"} /\ b \in BOOLEAN
      BY <2>1
    <3> HIDE DEF R, b
    <3> QED BY <1>6, <2>2, <3>1
  <2>5. InfluxStream' = r
    BY <2>1, <2>3 DEF InfluxStream
  <2>4. s = "udp" => Wakes(r)
    BY <1>4, <1>5, <2>1, <2>3 DEF Wakes
  <2> QED BY <1>2, <1>3, <2>1, <2>3, <2>4, <2>5
<1>8. CASE SinkStalls
  <2>1. /\ sink \in {"udp", "other"} /\ UNCHANGED <<sink, blocked, pack, queue, written, spoilt>>
        /\ room = "all" /\ room' \in {"all", "part", "none", "error"} /\ blocked \in BOOLEAN
    BY <1>3, <1>4, <1>8 DEF SinkStalls, Streams
  <2> DEFINE R == room'
             b == blocked
  <2>2. PICK r : r = Put(k, R, b)
    OBVIOUS
  <2>3. /\ r \in Streams /\ r.room = R /\ r.blocked = b
        /\ r = [room |-> R, blocked |-> b, pack |-> pack, queue |-> queue,
                written |-> written, spoilt |-> spoilt]
        /\ Neat(r) /\ (\A c : Agree(k, r, c)) /\ (Full(r) <=> Full(k))
    <3>1. R \in {"all", "part", "none", "error"} /\ b \in BOOLEAN
      BY <2>1
    <3> HIDE DEF R, b
    <3> QED BY <1>6, <2>2, <3>1
  <2>5. InfluxStream' = r
    BY <2>1, <2>3 DEF InfluxStream
  <2>4. sink = "udp" => Wakes(r)
    BY <1>4, <1>5, <2>1, <2>3 DEF Wakes
  <2> QED BY <1>2, <1>3, <2>1, <2>3, <2>4, <2>5
<1>9. CASE SinkWriteable
  <2>1. sink' = sink /\ sink \in {"file", "udp", "other"}
    BY <1>9 DEF SinkWriteable, StatIInv, StatTypeOK
  <2>2. PICK R \in {"all", "error"} :
          Becomes(IF sink = "udp" /\ blocked THEN Flush(Put(k, R, FALSE))
                  ELSE Put(k, R, FALSE))
    BY <1>3, <1>9 DEF SinkWriteable, Put
  <2>3. PICK r \in Streams :
          /\ r = Put(k, R, FALSE) /\ r.room = R
          /\ Neat(r) /\ (\A c : Agree(k, r, c)) /\ (Full(r) <=> Full(k))
    <3>1. R \in {"all", "part", "none", "error"}
      OBVIOUS
    <3>2. PICK r : r = Put(k, R, FALSE)
      OBVIOUS
    <3> QED BY <1>6, <3>1, <3>2
  <2>4. CASE sink = "udp" /\ blocked
    <3>1. PICK w \in Streams : /\ w = Flush(r) /\ Wakes(w) /\ Neat(w)
                               /\ \A c : Agree(r, w, c)
      BY <2>3, FlushKeeps
    <3>2. InfluxStream' = w
      BY <2>2, <2>3, <2>4, <3>1, BecomesIs
    <3>3. \A c : Agree(k, w, c)
      BY <2>3, <3>1 DEF Agree
    <3> QED BY <1>2, <1>3, <2>1, <3>1, <3>2, <3>3
  <2>5. CASE ~(sink = "udp" /\ blocked)
    <3>1. InfluxStream' = r
      BY <2>2, <2>3, <2>5, BecomesIs
    <3>2. sink = "udp" => Wakes(r)
      <4>1. ASSUME sink = "udp" PROVE ~Full(k)
        BY <1>4, <1>5, <2>5, <4>1 DEF Wakes
      <4> QED BY <2>3, <4>1 DEF Wakes
    <3> QED BY <1>2, <1>3, <2>1, <2>3, <3>1, <3>2
  <2> QED BY <2>4, <2>5
<1> QED BY <1>7, <1>8, <1>9

\* A packet counts, and what it counts is news; the sending of a message ends its silence.
LEMMA FilterSteps ==
  ASSUME StatIInv, UNCHANGED <<influxVars, periodVars>>, Filters
  PROVE  StatIInv'
<1>1. /\ UNCHANGED <<sink, room, blocked, pack, queue, written, spoilt>>
      /\ UNCHANGED <<stats, alive, timer, events, added, failed>>
  BY DEF influxVars, sinkVars, periodVars
<1>2. InfluxStream' = InfluxStream /\ Registered' = Registered
  BY <1>1 DEF InfluxStream, Registered
<1>3. PICK v : v = values
  OBVIOUS
<1>4. v \in [Counters -> [n : Nat, new : BOOLEAN]]
  BY <1>3 DEF StatIInv, StatTypeOK
<1>5. /\ cfg' = cfg /\ values' \in [Counters -> [n : Nat, new : BOOLEAN]]
      /\ \A c \in Counters : ~values'[c].new => values'[c] = v[c]
  <2>1. ASSUME NEW C
        PROVE  /\ Count(v, C) \in [Counters -> [n : Nat, new : BOOLEAN]]
               /\ \A c \in Counters : ~Count(v, C)[c].new => Count(v, C)[c] = v[c]
    <3>1. ASSUME NEW c \in Counters PROVE v[c].n + 1 \in Nat /\ v[c] \in [n : Nat, new : BOOLEAN]
      BY <1>4
    <3> QED BY <3>1 DEF Count
  <2>2. ASSUME NEW s \in Sys, NEW m \in Msg, FilterWrite(s, m)
        PROVE  cfg' = cfg /\ \E C : values' = Count(v, C)
    BY <1>3, <2>2 DEF FilterWrite
  <2>3. ASSUME NEW m \in Msg, Silence(m) PROVE cfg' = cfg /\ values' = v
    BY <1>3, <2>3 DEF Silence
  <2>4. cfg' = cfg /\ (values' = v \/ \E C : values' = Count(v, C))
    BY <2>2, <2>3 DEF Filters
  <2> QED BY <1>4, <2>1, <2>4
<1>6. StatTypeOK'
  BY <1>1, <1>2, <1>5 DEF StatIInv, StatTypeOK
<1>7. SaysTheCounters'
  BY <1>2, <1>3, <1>5 DEF StatIInv, SaysTheCounters
<1> QED BY <1>1, <1>2, <1>6, <1>7 DEF StatIInv

\* Registration, the objects' end, new events and the timer.
LEMMA PeriodSteps ==
  ASSUME StatIInv, (\E s \in Stats : Register(s) \/ Destroy(s)) \/ AddEvent \/ Expires
  PROVE  StatIInv'
<1>1. UNCHANGED <<cfg, values, sink, room, blocked, pack, queue, written, spoilt>>
  BY DEF Register, Destroy, AddEvent, Expires, filterVars, influxVars, sinkVars
<1>2. InfluxStream' = InfluxStream
  BY <1>1 DEF InfluxStream
<1>3. SaysTheCounters'
  BY <1>1, <1>2 DEF StatIInv, SaysTheCounters
<1>4. ASSUME stats' \in Seq(Stats), alive' \subseteq Stats, timer' \in {"off", "on"},
             events' \in Seq(Nat), added' \in Nat, failed' \in BOOLEAN,
             alive' \cap Registered' # {} => timer' = "on" \/ failed'
      PROVE  StatIInv'
  <2>1. StatTypeOK'
    BY <1>1, <1>2, <1>4 DEF StatIInv, StatTypeOK
  <2> QED BY <1>1, <1>2, <1>3, <1>4, <2>1 DEF StatIInv
<1>5. ASSUME NEW s \in Stats, Register(s) PROVE StatIInv'
  <2>1. PICK q \in Seq(Stats) : q = stats
    BY DEF StatIInv, StatTypeOK
  <2>2. PICK y : y = <<s>>
    OBVIOUS
  <2>3. y \in Seq(Stats)
    BY <2>2
  <2>4. stats' \in Seq(Stats)
    BY <1>5, <2>1, <2>2, <2>3 DEF Register
  <2>5. timer' = "on" \/ (timer' = timer /\ failed' = TRUE)
    BY <1>5 DEF Register
  <2>6. UNCHANGED <<alive, events, added>> /\ failed' \in BOOLEAN
    BY <1>5 DEF Register, StatIInv, StatTypeOK
  <2> QED BY <1>4, <2>4, <2>5, <2>6 DEF StatIInv, StatTypeOK
<1>6. ASSUME NEW s \in Stats, Destroy(s) PROVE StatIInv'
  <2>1. UNCHANGED <<stats, timer, events, added, failed>> /\ alive' \subseteq alive
    BY <1>6 DEF Destroy
  <2>2. Registered' = Registered
    BY <2>1 DEF Registered
  <2> QED BY <1>4, <2>1, <2>2 DEF StatIInv, StatTypeOK
<1>7. CASE AddEvent
  <2>1. UNCHANGED <<stats, alive, timer, failed>> /\ added' \in Nat
    BY <1>7 DEF AddEvent, StatIInv, StatTypeOK
  <2>2. PICK e : e = Append(events, added')
    OBVIOUS
  <2>3. e \in Seq(Nat) /\ e # <<>>
    BY <2>1, <2>2 DEF StatIInv, StatTypeOK
  <2>4. events' \in Seq(Nat)
    BY <1>7, <2>2, <2>3 DEF AddEvent
  <2>5. Registered' = Registered
    BY <2>1 DEF Registered
  <2> QED BY <1>4, <2>1, <2>4, <2>5 DEF StatIInv, StatTypeOK
<1>8. CASE Expires
  <2>1. UNCHANGED <<stats, alive, timer, events, added, failed>>
    BY <1>8 DEF Expires
  <2>2. Registered' = Registered
    BY <2>1 DEF Registered
  <2> QED BY <1>4, <2>1, <2>2 DEF StatIInv, StatTypeOK
<1> QED BY <1>5, <1>6, <1>7, <1>8

\* The timer's callback: the news is told, or its object is gone and it stays news.
LEMMA ShootStep ==
  ASSUME StatIInv, Shoot
  PROVE  StatIInv'
<1>1. UNCHANGED <<cfg, alive, added, failed, sink>>
  BY DEF Shoot, sinkVars
<1>2. CASE sink = "none"
  <2>1. UNCHANGED <<stats, timer, events, values, room, blocked, pack, queue, written, spoilt>>
    BY <1>2 DEF Shoot, sinkVars
  <2>2. InfluxStream' = InfluxStream /\ Registered' = Registered
    BY <2>1 DEF InfluxStream, Registered
  <2>3. StatTypeOK' /\ SaysTheCounters'
    BY <1>1, <2>1, <2>2 DEF StatIInv, StatTypeOK, SaysTheCounters
  <2> QED BY <1>1, <2>1, <2>2, <2>3 DEF StatIInv
<1>3. CASE sink # "none"
  <2> DEFINE Asked == "counters" \in Registered \cap alive
  <2>1. /\ stats' = Report.list /\ timer' = (IF stats' = <<>> THEN "off" ELSE timer)
        /\ Becomes(Report.stream)
        /\ values' = (IF Asked THEN Reported(values) ELSE values)
        /\ events' = IF "events" \in Registered \cap alive THEN <<>> ELSE events
    BY <1>3 DEF Shoot
  <2>2. PICK l \in Lists : l = Report
    BY ReportKeeps DEF StatIInv
  <2>3. /\ Listed(l) \subseteq Registered
        /\ KeepsOn(InfluxStream, l.stream)
        /\ \A c \in Counters \ News : Agree(InfluxStream, l.stream, c)
        /\ Asked => \A c \in News : Tells(l.stream, c, values[c].n)
    BY <2>2, ReportKeeps DEF StatIInv
  <2>4. PICK r \in Streams : r = l.stream
    BY DEF Lists
  <2>5. InfluxStream' = r
    BY <2>1, <2>2, <2>4, BecomesIs
  <2>6. Registered' = Listed(l) /\ stats' \in Seq(Stats)
    BY <2>1, <2>2 DEF Registered, Listed, Lists
  <2>7. alive' \cap Registered' # {} => timer' = "on" \/ failed'
    <3>1. ASSUME alive' \cap Registered' # {} PROVE timer' = "on" \/ failed'
      <4>1. stats' # <<>>
        BY <3>1 DEF Registered
      <4>2. alive \cap Registered # {}
        BY <1>1, <2>3, <2>6, <3>1
      <4> QED BY <1>1, <2>1, <4>1, <4>2 DEF StatIInv
    <3> QED BY <3>1
  <2>8. values' \in [Counters -> [n : Nat, new : BOOLEAN]]
    <3>1. values \in [Counters -> [n : Nat, new : BOOLEAN]]
      BY DEF StatIInv, StatTypeOK
    <3>2. \A c \in Counters : values[c] \in [n : Nat, new : BOOLEAN]
      BY <3>1
    <3> QED BY <2>1, <3>1, <3>2 DEF Reported
  <2>9. StatTypeOK'
    <3>1. events' \in Seq(Nat)
      <4>1. <<>> \in Seq(Nat)
        OBVIOUS
      <4> QED BY <2>1, <4>1 DEF StatIInv, StatTypeOK
    <3>2. timer' \in {"off", "on"}
      BY <2>1 DEF StatIInv, StatTypeOK
    <3> QED BY <1>1, <2>4, <2>5, <2>6, <2>8, <3>1, <3>2 DEF StatIInv, StatTypeOK
  <2>10. SaysTheCounters'
    <3>1. ASSUME NEW c \in Counters, values'[c].n > 0, ~values'[c].new
          PROVE  Tells(r, c, values'[c].n)
      <4>1. values[c] \in [n : Nat, new : BOOLEAN]
        BY DEF StatIInv, StatTypeOK
      <4>2. values'[c].n = values[c].n
        BY <2>1, <4>1 DEF Reported
      <4>3. CASE c \in News
        <5>1. values[c].new
          BY <4>3 DEF News
        <5>2. Asked
          BY <2>1, <3>1, <5>1
        <5> QED BY <2>3, <2>4, <4>2, <4>3, <5>2
      <4>4. CASE c \notin News
        <5>1. ~values[c].new /\ values[c].n > 0
          BY <3>1, <4>2, <4>4 DEF News
        <5>2. Tells(InfluxStream, c, values[c].n)
          BY <5>1 DEF StatIInv, SaysTheCounters
        <5>3. Agree(InfluxStream, r, c)
          BY <2>3, <2>4, <4>4
        <5> QED BY <4>1, <4>2, <5>2, <5>3 DEF Agree
      <4> QED BY <4>3, <4>4
    <3> QED BY <2>5, <3>1 DEF SaysTheCounters
  <2>11. /\ sink' \in {"none", "udp"} => Wakes(InfluxStream)'
         /\ Neat(InfluxStream)'
    BY <1>1, <2>3, <2>4, <2>5 DEF StatIInv, KeepsOn, Wakes, Neat, Full, PackLen
  <2> QED BY <1>1, <1>3, <2>7, <2>9, <2>10, <2>11 DEF StatIInv
<1> QED BY <1>2, <1>3

LEMMA StatStep == StatIInv /\ [StatNext]_statVars => StatIInv'
<1> SUFFICES ASSUME StatIInv, [StatNext]_statVars PROVE StatIInv'
  OBVIOUS
<1>1. CASE (\E s \in Stats : Register(s) \/ Destroy(s)) \/ AddEvent \/ Expires
  BY <1>1, PeriodSteps
<1>2. CASE Shoot
  BY <1>2, ShootStep
<1>3. CASE Filters /\ UNCHANGED <<influxVars, periodVars>>
  BY <1>3, FilterSteps
<1>4. CASE /\ (\E s \in {"file", "udp", "other"} : SetOutput(s)) \/ SinkStalls \/ SinkWriteable
           /\ UNCHANGED <<filterVars, periodVars>>
  BY <1>4, SinkSteps
<1>5. CASE UNCHANGED statVars
  <2>1. /\ UNCHANGED <<sink, room, blocked, pack, queue, written, spoilt, cfg, values>>
        /\ UNCHANGED <<stats, alive, timer, events, added, failed>>
    BY <1>5 DEF statVars, influxVars, sinkVars, periodVars, filterVars
  <2>2. InfluxStream' = InfluxStream /\ Registered' = Registered
    BY <2>1 DEF InfluxStream, Registered
  <2>3. StatTypeOK' /\ SaysTheCounters'
    BY <2>1, <2>2 DEF StatIInv, StatTypeOK, SaysTheCounters
  <2> QED BY <2>1, <2>2, <2>3 DEF StatIInv
<1> QED BY <1>1, <1>2, <1>3, <1>4, <1>5 DEF StatNext

\* The invariant holds.
THEOREM StatInvariant == StatSpec => []StatIInv
BY StatInitInv, StatStep, PTL DEF StatSpec

\* No wakeup of the statistics is lost: see KeepsReporting.
THEOREM StatisticsKeepReporting == StatSpec => []KeepsReporting
<1>1. StatIInv => KeepsReporting
  BY DEF StatIInv, KeepsReporting, Wakes, InfluxStream
<1> QED BY <1>1, StatInvariant, PTL

\* Until a pack is spoilt, the last metric with a counter is on a line of its own and says its
\* value: see LastMetricIsTrue.
THEOREM LastMetricsAreTrue == StatSpec => []LastMetricIsTrue
<1>1. ASSUME StatIInv PROVE LastMetricIsTrue
  <2>1. SUFFICES ASSUME ~spoilt, NEW c \in Counters, values[c].n > 0, ~values[c].new
                 PROVE  Having(c) # {} /\ OnALine(Last(c)) /\ Out[Last(c)][c] = values[c].n
    BY DEF LastMetricIsTrue
  <2>2. PICK n : n = values[c].n
    OBVIOUS
  <2>3. /\ InfluxStream.written = written /\ InfluxStream.pack = pack
        /\ InfluxStream.spoilt = spoilt
    BY DEF InfluxStream
  <2>4. LastIn(Out, c, n)
    BY <1>1, <2>1, <2>2, <2>3, ToldByAll DEF StatIInv, StatTypeOK, SaysTheCounters, Out
  <2>5. PICK i \in DOMAIN Out : /\ c \in DOMAIN Out[i] /\ Out[i][c] = n
                                /\ \A j \in DOMAIN Out : j > i => c \notin DOMAIN Out[j]
    BY <2>4 DEF LastIn
  <2>6. written \in Seq(Piece) /\ pack \in Seq(Piece)
    BY <1>1, <2>3 DEF StatIInv, StatTypeOK, Streams
  <2>7. Out \in Seq(Piece) /\ DOMAIN Out = 1..Len(Out) /\ Len(Out) \in Nat
    BY <2>6 DEF Out
  <2>8. i \in Having(c) /\ \A j \in Having(c) : j <= i
    BY <2>5, <2>7 DEF Having
  <2>9. \A x \in Having(c) : (\A j \in Having(c) : j <= x) => x = i
    BY <2>7, <2>8 DEF Having
  <2>10. Last(c) = i
    BY <2>8, <2>9 DEF Last
  <2>11. Lines(Out)
    <3>1. Lines(written) /\ Lines(pack)
      BY <1>1, <2>1, <2>3 DEF StatIInv, Neat
    <3> QED BY <2>6, <3>1, MoreLines DEF Out
  <2>12. OnALine(i)
    <3>1. i + 1 \in DOMAIN Out /\ DOMAIN Out[i + 1] = {}
      BY <2>5, <2>11 DEF Lines
    <3>2. ASSUME i > 1 PROVE DOMAIN Out[i - 1] = {}
      <4>1. i - 1 \in DOMAIN Out /\ (i - 1) + 1 = i
        BY <2>7, <3>2
      <4>2. DOMAIN Out[i] # {}
        BY <2>5
      <4> QED BY <2>11, <4>1, <4>2 DEF Lines
    <3> QED BY <2>7, <3>1, <3>2 DEF OnALine, IsFeed
  <2> QED BY <2>2, <2>5, <2>8, <2>10, <2>12
<1> QED BY <1>1, StatInvariant, PTL

-----------------------------------------------------------------------------
(* The filter.  A list that is given replaces the one of before, and either of them sets *)
(* allow_sys; nothing ever sets allow_msg.                                               *)

FilterSets == [sys : SUBSET Sys, msg : SUBSET Msg, allow_sys : BOOLEAN, allow_msg : BOOLEAN]

LEMMA SetupIs ==
  ASSUME NEW f \in FilterSets, ~f.allow_msg, NEW allow \in BOOLEAN, NEW ch \in Chapter,
         NEW g, g = Setup(f, allow, ch)
  PROVE  /\ g \in FilterSets /\ ~g.allow_msg
         /\ g.sys = IF ch.sys = {} THEN f.sys ELSE ch.sys
         /\ g.msg = IF ch.msg = {} THEN f.msg ELSE ch.msg
         /\ g.allow_sys = IF ch.sys = {} /\ ch.msg = {} THEN f.allow_sys ELSE allow
<1>1. ch.sys \in SUBSET Sys /\ ch.msg \in SUBSET Msg
  BY DEF Chapter
<1>2. PICK m : m = IF ch.msg = {} THEN f ELSE [f EXCEPT !.allow_sys = allow, !.msg = ch.msg]
  OBVIOUS
<1>3. /\ m \in FilterSets /\ m.sys = f.sys /\ ~m.allow_msg
      /\ m.msg = IF ch.msg = {} THEN f.msg ELSE ch.msg
      /\ m.allow_sys = IF ch.msg = {} THEN f.allow_sys ELSE allow
  <2>1. CASE ch.msg = {}
    BY <1>2, <2>1
  <2>2. CASE ch.msg # {}
    BY <1>1, <1>2, <2>2 DEF FilterSets
  <2> QED BY <2>1, <2>2
<1>4. CASE ch.sys = {}
  <2>1. g = m
    BY <1>2, <1>4 DEF Setup
  <2> QED BY <1>3, <1>4, <2>1
<1>5. CASE ch.sys # {}
  <2>1. g = [m EXCEPT !.allow_sys = allow, !.sys = ch.sys]
    BY <1>2, <1>5 DEF Setup
  <2> QED BY <1>1, <1>3, <1>5, <2>1 DEF FilterSets
<1> QED BY <1>4, <1>5

\* The lists of a filter's configuration do what they say: see DoesWhatItSays.
THEOREM FilterDoesWhatItSays == StatSpec => []DoesWhatItSays
<1>1. ASSUME StatIInv PROVE DoesWhatItSays
  <2>1. PICK a \in Chapter : a = cfg.allow
    BY <1>1, MavlinkFilterAssumption DEF StatIInv, StatTypeOK
  <2>2. PICK d \in Chapter : d = cfg.deny
    BY <1>1, MavlinkFilterAssumption DEF StatIInv, StatTypeOK
  <2>3. PICK f : f = Setup(Start, TRUE, a)
    OBVIOUS
  <2>4. PICK g : g = Setup(f, FALSE, d)
    OBVIOUS
  <2>5. Configured = g
    BY <2>1, <2>2, <2>3, <2>4 DEF Configured
  <2>6. /\ Start \in FilterSets /\ Start.sys = {} /\ Start.msg = {}
        /\ Start.allow_sys = FALSE /\ ~Start.allow_msg
    BY DEF Start, FilterSets
  <2>7. PICK s0 : s0 = Start
    OBVIOUS
  <2>8. /\ f \in FilterSets /\ ~f.allow_msg /\ f.sys = a.sys /\ f.msg = a.msg
        /\ f.allow_sys = IF a.sys = {} /\ a.msg = {} THEN FALSE ELSE TRUE
    <3>1. PICK yes \in BOOLEAN : yes = TRUE
      OBVIOUS
    <3>2. f = Setup(s0, yes, a)
      BY <2>3, <2>7, <3>1
    <3>3. /\ f \in FilterSets /\ ~f.allow_msg
          /\ f.sys = IF a.sys = {} THEN s0.sys ELSE a.sys
          /\ f.msg = IF a.msg = {} THEN s0.msg ELSE a.msg
          /\ f.allow_sys = IF a.sys = {} /\ a.msg = {} THEN s0.allow_sys ELSE yes
      BY <2>6, <2>7, <3>2, SetupIs
    <3> QED BY <2>6, <2>7, <3>1, <3>3
  <2>9. /\ ~g.allow_msg /\ g.sys = (IF d.sys = {} THEN a.sys ELSE d.sys)
        /\ g.msg = (IF d.msg = {} THEN a.msg ELSE d.msg)
        /\ g.allow_sys = IF d.sys = {} /\ d.msg = {} THEN f.allow_sys ELSE FALSE
    <3>1. PICK no \in BOOLEAN : no = FALSE
      OBVIOUS
    <3>2. g = Setup(f, no, d)
      BY <2>4, <3>1
    <3>3. /\ ~g.allow_msg /\ g.sys = (IF d.sys = {} THEN f.sys ELSE d.sys)
          /\ g.msg = (IF d.msg = {} THEN f.msg ELSE d.msg)
          /\ g.allow_sys = IF d.sys = {} /\ d.msg = {} THEN f.allow_sys ELSE no
      <4>1. f \in FilterSets /\ ~f.allow_msg
        BY <2>8
      <4> QED BY <3>2, <4>1, SetupIs
    <3> QED BY <2>8, <3>1, <3>3
  <2>10. ASSUME NEW s \in Sys, NEW m \in Msg, a.sys = {} \/ d.sys = {}
         PROVE  /\ Passed(s, m) = "next" => Says(s, m)
                /\ Says(s, m) /\ a.msg \cup d.msg = {} => Passed(s, m) \in {"next", "freqfilter"}
    <3>1. Passed(s, m) = IF g.sys # {} /\ g.allow_sys # (s \in g.sys) THEN "sysfilter"
                         ELSE IF g.msg # {} /\ g.allow_msg # TRUE THEN "msgfilter"
                         ELSE IF m \in Slow \cap recent THEN "freqfilter" ELSE "next"
      BY <2>5 DEF Passed
    <3>2. Says(s, m) <=> /\ a.sys # {} => s \in a.sys
                         /\ a.msg # {} => m \in a.msg
                         /\ s \notin d.sys /\ m \notin d.msg
      BY <2>1, <2>2 DEF Says
    <3>3. CASE g.msg # {}
      <4>1. Passed(s, m) # "next" /\ a.msg \cup d.msg # {}
        BY <2>9, <3>1, <3>3
      <4> QED BY <4>1
    <3>4. CASE g.msg = {}
      <4>1. a.msg = {} /\ d.msg = {}
        BY <2>9, <3>4
      <4>2. g.sys # {} => (g.allow_sys = (d.sys = {}))
        BY <2>8, <2>9, <4>1
      <4>3. (g.sys = {} \/ (g.allow_sys = (s \in g.sys))) <=> Says(s, m)
        <5>1. CASE d.sys = {}
          BY <2>9, <3>2, <4>1, <4>2, <5>1
        <5>2. CASE d.sys # {}
          <6>1. g.sys = d.sys /\ g.allow_sys = FALSE /\ a.sys = {}
            BY <2>9, <2>10, <5>2
          <6>2. CASE s \in d.sys
            BY <3>2, <5>2, <6>1, <6>2
          <6>3. CASE s \notin d.sys
            <7>1. (s \in g.sys) = FALSE
              BY <6>1, <6>3
            <7>2. Says(s, m)
              BY <3>2, <4>1, <6>1, <6>3
            <7> QED BY <6>1, <7>1, <7>2
          <6> QED BY <6>2, <6>3
        <5> QED BY <5>1, <5>2
      <4> QED BY <3>1, <3>4, <4>3
    <3> QED BY <3>3, <3>4
  <2> QED BY <2>1, <2>2, <2>10 DEF DoesWhatItSays
<1> QED BY <1>1, StatInvariant, PTL
=============================================================================
