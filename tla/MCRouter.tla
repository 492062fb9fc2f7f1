---- MODULE MCRouter ----
(* Two endpoints, the streams of the second cannot be written to (a UDP client,
   which is itself a write end); two client names, a regular expression for them,
   and a file; all configurations of at most two of the routes below.            *)
EXTENDS Router, TLC

CONSTANTS e1, e2, c1, c2, file, rx

MCMatch == rx :> {c1, c2}

MCRoutes ==
  { [src |-> e1, dst |-> {file}],     [src |-> e1, dst |-> {e2, file}],
    [src |-> e2, dst |-> {e1}],       [src |-> rx, dst |-> {file}],
    [src |-> e2, dst |-> {rx}],       [src |-> c1, dst |-> {c2}],
    [src |-> c1, dst |-> {c2, file}], [src |-> e1, dst |-> {e1}],
    [src |-> rx, dst |-> {rx, e2}],   [src |-> c1, dst |-> {e1}] }
MCTables ==
  {t \in {{r, q} : r, q \in MCRoutes} : NoShadow(t)}

MCSymmetry == Permutations(Addr) \cup Permutations(Id)
====
