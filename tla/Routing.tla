------------------------------ MODULE Routing ------------------------------
(***************************************************************************)
(* What the router application (src/app/uav-router.cpp) promises: data     *)
(* read from a stream is written to all the write ends its routes name     *)
(* that are connected now, and to no other.  Of two streams with one name  *)
(* the later one has the name.                                             *)
(***************************************************************************)
EXTENDS RouteTable

CONSTANTS
  Id,           \* identities of stream objects
  Endpoint,     \* names of the source endpoints
  WriteEnds,    \* the endpoints whose streams can be written to
  Static,       \* names of files and UDP clients: write ends that never close
  RouteTables   \* the configurations considered

VARIABLES
  routes,       \* the routes in the configuration
  live,         \* the connected streams
  delivered     \* the last delivery: the stream read, the write ends written to

rvars == <<routes, live, delivered>>

RStream == [id : Id, name : Name, ep : Endpoint]
Known(s) == {s.name, s.ep}

Receivers(s) ==
  {t.id : t \in {u \in live : u.ep \in WriteEnds /\ RoutedTo(routes, Known(s), Known(u))}}
    \cup {f \in Static : RoutedTo(routes, Known(s), {f})}

RInit == routes \in RouteTables /\ live = {} /\ delivered = <<>>

RConnect(s) ==
  /\ \A t \in live : t.id # s.id
  /\ live' = {t \in live : t.name # s.name} \cup {s}
  /\ UNCHANGED <<routes, delivered>>

RClose(s) ==
  /\ live' = live \ {s}
  /\ UNCHANGED <<routes, delivered>>

\* Some of the receivers may turn out to be closed by their peers.
RDeliver(s, broken) ==
  /\ \A t \in broken : t.id \in Receivers(s)
  /\ delivered' = <<s, Receivers(s)>>
  /\ live' = live \ broken
  /\ UNCHANGED routes

RNext ==
  \/ \E s \in RStream : RConnect(s)
  \/ \E s \in live : RClose(s)
  \/ \E s \in live : \E broken \in SUBSET live : RDeliver(s, broken)

RSpec == RInit /\ [][RNext]_rvars
=============================================================================
