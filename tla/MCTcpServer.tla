---- MODULE MCTcpServer ----
(* Two connections in all, with and without Zeroconf. *)
EXTENDS TcpServer, TLC

CONSTANTS s1, s2, server
MCStream == {s1, s2}
MCObj == {s1, s2, server}
MCSymmetry == Permutations(MCStream)
====
