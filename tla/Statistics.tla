----------------------------- MODULE Statistics -----------------------------
(***************************************************************************)
(* The statistics (src/src/impl/stat.h, src/src/impl/statobj.h): objects   *)
(* that count, here a filter's counters and a collection of events, are    *)
(* registered for periodic reports, and report to the stream of metrics.   *)
(***************************************************************************)
EXTENDS MavlinkFilter, Influx, FiniteSets

CONSTANTS
  EventsMax,     \* StatEvents::max_events
  MaxEvents,     \* bound: events added
  MaxShots       \* bound: how often the timer expires

ASSUME StatisticsAssumption ==
  EventsMax \in Nat \ {0} /\ MaxEvents \in Nat /\ MaxShots \in Nat

VARIABLES
  stats,    \* _stats of the period: "counters" and "events", by weak pointers
  alive,    \* the objects that exist
  timer,    \* "off", "on"
  shot, shots,   \* the timer has expired; how often
  events, added,   \* _events: the numbers of those not reported, oldest first; _counter
  failed    \* arm_periodic failed, which nobody looks at

periodVars == <<stats, alive, timer, shot, shots, events, added, failed>>
statVars == <<filterVars, influxVars, periodVars>>

Stats == {"counters", "events"}
StatInit ==
  /\ FilterInit /\ InfluxInit
  /\ stats = <<>> /\ alive = Stats /\ timer = "off" /\ shot = FALSE /\ shots = 0
  /\ events = <<>> /\ added = 0 /\ failed = FALSE

Registered == {stats[i] : i \in DOMAIN stats}

\* register_report: PeriodicStatCall::add, which starts the timer unless it runs.
Register(s) ==
  /\ s \in alive \ Registered /\ stats' = <<s>> \o stats
  /\ \/ timer' = "on" /\ UNCHANGED failed
     \/ timer = "off" /\ ~failed /\ failed' = TRUE /\ UNCHANGED timer
  /\ UNCHANGED <<alive, shot, shots, events, added, filterVars, influxVars>>

Destroy(s) ==
  /\ s \in alive /\ alive' = alive \ {s}
  /\ UNCHANGED <<stats, timer, shot, shots, events, added, failed, filterVars, influxVars>>

\* StatEvents::add.
AddEvent ==
  /\ "events" \in alive /\ added < MaxEvents /\ added' = added + 1
  /\ LET e == Append(events, added') IN events' = IF Len(e) > EventsMax THEN Tail(e) ELSE e
  /\ UNCHANGED <<stats, alive, timer, shot, shots, failed, filterVars, influxVars>>

Expires ==
  /\ timer = "on" /\ ~shot /\ shot' = TRUE /\ shots < MaxShots /\ shots' = shots + 1
  /\ UNCHANGED <<stats, alive, timer, events, added, failed, filterVars, influxVars>>

\* StatCounters::report: one metric with the counters that changed, maybe none.
News == {c \in Counters : values[c].new}
ReportCounters(k) == Send(k, [c \in News |-> values[c].n])
Reported(v) == [c \in Counters |-> [v[c] EXCEPT !.new = FALSE]]

\* StatEvents::report: a metric for each event, the oldest first.
ReportEvents(k) ==
  LET Sent[i \in 0..Len(events)] ==
        IF i = 0 THEN k ELSE Send(Sent[i - 1], [event |-> events[i]])
  IN Sent[Len(events)]

\* The loop over the objects of the list: those that are gone leave it, the others report.
Visit(l, s) ==
  IF s \notin alive THEN l
  ELSE [list |-> Append(l.list, s),
        stream |-> IF s = "counters" THEN ReportCounters(l.stream) ELSE ReportEvents(l.stream)]
Report ==
  LET Done[i \in 0..Len(stats)] ==
        IF i = 0 THEN [list |-> <<>>, stream |-> InfluxStream]
                 ELSE Visit(Done[i - 1], stats[i])
  IN Done[Len(stats)]

\* The timer's callback: without a stream nothing is done; an empty list stops the timer.
Shoot ==
  /\ shot /\ shot' = FALSE
  /\ IF sink = "none" THEN UNCHANGED <<stats, timer, events, values, sinkVars>>
     ELSE /\ stats' = Report.list /\ timer' = IF stats' = <<>> THEN "off" ELSE timer
          /\ Becomes(Report.stream) /\ UNCHANGED sink
          /\ values' = IF "counters" \in Registered \cap alive THEN Reported(values) ELSE values
          /\ events' = IF "events" \in Registered \cap alive THEN <<>> ELSE events
  /\ UNCHANGED <<stalls, shots, alive, added, failed, cfg, recent, packets>>

Filters ==
  \/ "counters" \in alive /\ \E s \in Sys, m \in Msg : FilterWrite(s, m)
  \/ \E m \in Msg : Silence(m)

StatNext ==
  \/ \E s \in Stats : Register(s) \/ Destroy(s)
  \/ AddEvent \/ Expires \/ Shoot
  \/ Filters /\ UNCHANGED <<influxVars, periodVars>>
  \/ /\ (\E s \in {"file", "udp", "other"} : SetOutput(s)) \/ SinkStalls
        \/ SinkWriteable
     /\ UNCHANGED <<filterVars, periodVars>>

StatSpec == StatInit /\ [][StatNext]_statVars

-----------------------------------------------------------------------------
(* Properties. *)

\* What has reached the sink or will, in its order; a metric is read from a line of its own.
Out == written \o pack
OnALine(i) == (i > 1 => IsFeed(Out[i - 1])) /\ i < Len(Out) /\ IsFeed(Out[i + 1])
Having(c) == {i \in DOMAIN Out : c \in DOMAIN Out[i]}
Last(c) == CHOOSE i \in Having(c) : \A j \in Having(c) : j <= i

\* Until a metric finds the pack full, or a part of a pack is taken, the last metric with a
\* counter is on a line of its own and says its value, unless the counter has changed since,
\* or its object is gone with what it had not reported.  From then on it is not: send leaves
\* out the line feeds of a full pack (influx.h:32), and metrics are glued to one another.
LastMetricIsTrue ==
  ~spoilt =>
    \A c \in Counters :
      values[c].n > 0 /\ ~values[c].new =>
        Having(c) # {} /\ OnALine(Last(c)) /\ Out[Last(c)][c] = values[c].n

\* No wakeup is lost: an object that lives and is registered has a timer that runs, unless
\* arming it failed; and a full pack is never left with a UDP client that takes data and has
\* no callback due.  (After a refusal, room "error", the callback may never come, and for the
\* streams of the TCP endpoints, the UART and the router's destinations nobody calls flush at
\* all: then the pack stays full.)
KeepsReporting ==
  /\ alive \cap Registered # {} => timer = "on" \/ failed
  /\ sink = "udp" /\ Full(InfluxStream) => blocked /\ room \in {"none", "error"}
=============================================================================
