------------------------------ MODULE Splitter ------------------------------
(***************************************************************************)
(* What every protocol recognizer in src/src/filters promises of the byte  *)
(* stream written to it, whatever its state machine and its buffers do:    *)
(* bytes leave in the order they came, none is lost, doubled or invented,  *)
(* and what goes to the "next" chain is a packet with a correct checksum.  *)
(*                                                                         *)
(* Bytes that entered are in one of three places: already passed on (out), *)
(* kept as the beginning of a packet (pend), or not looked at yet (todo).  *)
(***************************************************************************)
EXTENDS Integers, Sequences

CONSTANTS
  Byte,       \* the values of a byte
  Good        \* packets with a correct checksum

VARIABLES
  fed,        \* every byte written to the filter so far
  out,        \* every byte passed on, to next or to rest, in that order
  packets,    \* the packets passed to next, in that order
  pend,       \* the beginning of a packet, kept by the filter
  todo        \* bytes the filter has not consumed

svars == <<fed, out, packets, pend, todo>>

Bytes == Seq(Byte)
First(s, n) == SubSeq(s, 1, n)
Rest(s, n) == SubSeq(s, n + 1, Len(s))

SInit == fed = <<>> /\ out = <<>> /\ packets = <<>> /\ pend = <<>> /\ todo = <<>>

\* A buffer is written to the filter.
SFeed ==
  /\ todo = <<>>
  /\ todo' \in Bytes
  /\ fed' = fed \o todo'
  /\ UNCHANGED <<out, packets, pend>>

\* n bytes that start no packet go to rest, the m bytes after them are kept.
SAdvance(n, m) ==
  /\ n = 0 \/ pend = <<>>
  /\ out' = out \o First(todo, n)
  /\ pend' = pend \o First(Rest(todo, n), m)
  /\ todo' = Rest(Rest(todo, n), m)
  /\ UNCHANGED <<fed, packets>>

\* m more bytes complete a good packet, which goes to next.
SDeliver(m) ==
  LET p == pend \o First(todo, m) IN
  /\ p \in Good
  /\ packets' = Append(packets, p)
  /\ out' = out \o p
  /\ pend' = <<>>
  /\ todo' = Rest(todo, m)
  /\ UNCHANGED fed

\* m more bytes complete a bad packet: d of its bytes go to rest, the others
\* are looked at again, before whatever follows them.
SReject(m, d) ==
  LET p == pend \o First(todo, m) IN
  /\ d <= Len(p)
  /\ out' = out \o First(p, d)
  /\ pend' = <<>>
  /\ todo' = Rest(p, d) \o Rest(todo, m)
  /\ UNCHANGED <<fed, packets>>

SNext ==
  \/ SFeed
  \/ \E n \in 0..Len(todo) : \E m \in 0..(Len(todo) - n) : SAdvance(n, m)
  \/ \E m \in 0..Len(todo) : SDeliver(m)
  \/ \E m \in 0..Len(todo) : \E d \in 1..(Len(pend) + m) : SReject(m, d)

SSpec == SInit /\ [][SNext]_svars

STypeOK ==
  /\ fed \in Bytes /\ out \in Bytes /\ pend \in Bytes /\ todo \in Bytes
  /\ packets \in Seq(Bytes)

\* The stream is split, never changed: passed-on bytes, kept bytes and bytes
\* still to be looked at are, in this order, exactly the bytes written.
Lossless == out \o (pend \o todo) = fed

\* Only packets with a correct checksum reach the next chain.
OnlyGood == \A i \in 1..Len(packets) : packets[i] \in Good
=============================================================================
