---- MODULE MCPollables ----
(* Two resolvers, the watches of one connection, a timeout of Avahi, and Ctrl-C. *)
EXTENDS Pollables, TLC

CONSTANTS r1, r2, t1, t2, w1, w2, u1, sig
MCRes == {r1, r2}
MCTimerOf == [r \in MCRes |-> IF r = r1 THEN t1 ELSE t2]
MCTimers == {t1, t2, u1}
MCTimeouts == {u1}
MCWatches == {w1, w2}
MCObj == MCRes \cup MCTimers \cup MCWatches \cup {sig}
Swap == [o \in MCRes \cup {t1, t2} |->
           CASE o = r1 -> r2 [] o = r2 -> r1 [] o = t1 -> t2 [] o = t2 -> t1]
Symmetry == {Swap @@ p : p \in Permutations(MCWatches)} \cup Permutations(MCWatches)
====
