------------------------------- MODULE Influx -------------------------------
(***************************************************************************)
(* The stream of metrics (src/src/impl/influx.h): lines are packed, and a  *)
(* pack that exceeds its size is written to an endpoint, a file or a       *)
(* destination of the router.  A size is counted in metrics and line feeds.*)
(***************************************************************************)
EXTENDS Naturals, Sequences

CONSTANTS
  PackSize,               \* _pack_size
  QueueMax, QueueShrink,  \* _queue_max_size, _queue_shrink_size
  MaxStalls               \* bound: how often the sink stops taking data

ASSUME InfluxAssumption ==
  PackSize \in Nat /\ QueueMax \in Nat /\ QueueShrink \in 0..QueueMax /\ MaxStalls \in Nat

VARIABLES
  sink,      \* "none", a "file", a "udp" client, or an "other": the streams of the TCP
             \* endpoints, the UART, a destination of the router; none of these calls back
  room,      \* what the sink takes: "all", "part", "none"; or "error": it refuses writes
  blocked,   \* the sink is not writeable; a "udp" one calls back with its next EPOLLOUT
  pack,      \* _pack: metrics, which map the names of their fields to values, line feeds
  queue,     \* _queue: how many strings, all empty
  written,   \* what the sink took
  spoilt,    \* a metric found the pack full, or a sink took a part of a pack
  stalls

sinkVars == <<sink, room, blocked, pack, queue, written, spoilt>>
influxVars == <<sinkVars, stalls>>

InfluxInit ==
  /\ sink = "none" /\ room = "none" /\ blocked = TRUE /\ pack = <<>> /\ queue = 0
  /\ written = <<>> /\ spoilt = FALSE /\ stalls = 0

InfluxStream == [room |-> room, blocked |-> blocked, pack |-> pack, queue |-> queue,
                 written |-> written, spoilt |-> spoilt]
Becomes(k) ==
  /\ room' = k.room /\ blocked' = k.blocked /\ pack' = k.pack /\ queue' = k.queue
  /\ written' = k.written /\ spoilt' = k.spoilt

PackLen(k) == Len(k.pack)
Full(k) == PackLen(k) > PackSize

\* A line feed, which has no fields.
LF == <<>>
IsFeed(x) == DOMAIN x = {}

\* What a sink takes that does not take all.
Taken(p) == IF p = <<>> THEN <<>> ELSE <<Head(p)>>

\* Mutant of WritePack: what the write returns is not looked at.
MutWritePack(k) ==
  CASE k.room = "all" -> [k EXCEPT !.pack = <<>>, !.written = @ \o k.pack]
    [] k.room = "part" -> [k EXCEPT !.pack = <<>>, !.written = @ \o Taken(k.pack),
                                    !.room = "none", !.blocked = TRUE, !.spoilt = TRUE]
    [] k.room \in {"none", "error"} -> [k EXCEPT !.pack = <<>>, !.blocked = TRUE]

\* _out->write of the pack, which is emptied when it was taken as a whole.
WritePack(k) ==
  CASE k.room = "all" -> [k EXCEPT !.pack = <<>>, !.written = @ \o k.pack]
    [] k.room = "part" -> [k EXCEPT !.written = @ \o Taken(k.pack), !.room = "none",
                                    !.blocked = TRUE, !.spoilt = TRUE]
    [] k.room \in {"none", "error"} -> [k EXCEPT !.blocked = TRUE]

\* The text of a metric: none without fields.
Text(metric) == IF DOMAIN metric = {} THEN <<>> ELSE <<metric>>
Line(metric) == Text(metric) \o <<LF>>

\* send: while the pack is full the metric goes to it all the same, without a line feed,
\* and an empty string to the queue.
Send(k, metric) ==
  LET next == [k EXCEPT !.pack = @ \o Line(metric)] IN
  IF Full(k) THEN [k EXCEPT !.pack = @ \o Text(metric), !.spoilt = TRUE,
                            !.queue = (IF @ > QueueMax THEN QueueShrink ELSE @) + 1]
  ELSE IF Full(next) THEN WritePack(next) ELSE next

\* flush: a sink that takes the pack as a whole takes the packs that are then made of the
\* queue, too, which are line feeds only.
Flush(k) ==
  LET w == WritePack(k) IN
  IF PackLen(k) = 0 THEN k
  ELSE IF PackLen(w) = 0
    THEN [w EXCEPT !.queue = 0, !.written = @ \o [i \in 1..k.queue |-> LF]]
    ELSE w

-----------------------------------------------------------------------------
\* init, of set_output.  A UDP client that has just been made has no socket yet.
SetOutput(s) ==
  /\ sink = "none" /\ sink' = s
  /\ \/ s = "udp" /\ UNCHANGED <<room, blocked>>
     \/ s \in {"file", "other"} /\ room' = "all" /\ blocked' = FALSE
     \/ s = "other" /\ room' = "none" /\ blocked' = FALSE
  /\ UNCHANGED <<pack, queue, written, spoilt, stalls>>

\* A datagram is taken as a whole, or refused; a stream takes a part, too; a file takes all.
SinkStalls ==
  /\ room = "all" /\ stalls < MaxStalls /\ stalls' = stalls + 1
  /\ \/ sink = "udp" /\ room' \in {"none", "error"}
     \/ sink = "other" /\ room' \in {"part", "none", "error"}
  /\ UNCHANGED <<sink, blocked, pack, queue, written, spoilt>>

\* Mutant of SinkWriteable: only the next metric writes.
MutSinkWriteable ==
  /\ sink # "none" /\ room # "all"
  /\ Becomes([InfluxStream EXCEPT !.room = "all", !.blocked = FALSE]) /\ UNCHANGED <<sink, stalls>>

\* The sink takes data again, or is asked to and refuses: a UDP client's EPOLLOUT calls flush
\* if it was not writeable (after a refusal only another event of the socket brings one).
\* Nobody calls flush for a sink of the others.
SinkWriteable ==
  /\ sink # "none" /\ room # "all"
  /\ \E r \in {"all", "error"} :
       LET k == [InfluxStream EXCEPT !.room = r, !.blocked = FALSE] IN
         Becomes(IF sink = "udp" /\ blocked THEN Flush(k) ELSE k)
  /\ UNCHANGED <<sink, stalls>>
=============================================================================
