----------------------------- MODULE RouteTable -----------------------------
(***************************************************************************)
(* The "routes" section of the configuration: which names a pattern names, *)
(* and what a set of routes asks for.  A name is an endpoint, a client     *)
(* (peer) or a file; a pattern is a name or a regular expression ('/...'). *)
(* The filters on a route are left out: they choose bytes, not receivers.  *)
(***************************************************************************)
EXTENDS FiniteSets, Integers

CONSTANTS
  Name,      \* names of endpoints, of clients and of files
  Regex,     \* the patterns that begin with '/'
  Match      \* the names each of them matches

Pattern == Name \cup Regex
Route == [src : Pattern, dst : SUBSET Pattern]

ASSUME RouteTableAssumption ==
  /\ Name \cap Regex = {}
  /\ Match \in [Regex -> SUBSET Name]

EqualName(p, n) == IF p \in Regex THEN n \in Match[p] ELSE p = n

\* The patterns some route delivers to: scan_dst registers one Destination each.
Leaves(table) == UNION {r.dst : r \in table}

\* What the routes of a name deliver to.
DstOf(table, n) == UNION {r.dst : r \in {q \in table : EqualName(q.src, n)}}

\* No regular expression used as a destination matches a name used as one.
NoShadow(table) ==
  \A p \in Leaves(table) \cap Name, q \in Leaves(table) \cap Regex : ~EqualName(q, p)

\* A write end known by two names is the destination of a stream known by two.
RoutedTo(table, src, dst) ==
  \E n \in src, m \in dst : \E p \in DstOf(table, n) : EqualName(p, m)
=============================================================================
