--------------------------- MODULE MavlinkFilter ---------------------------
(***************************************************************************)
(* The Mavlink v1 packet filter (Mavlink_v1_filter of                      *)
(* src/src/filters/mavlink1.h) and the counters every filter has           *)
(* (src/src/filters/filterbase.h, StatCounters of                          *)
(* src/src/impl/statobj.h).  A configuration lists message ids, and system *)
(* ids for one of the three kinds of match, under "allow" and under "deny".*)
(***************************************************************************)
EXTENDS Naturals

CONSTANTS
  Msg, Sys,      \* message ids; what is matched of the sender, by the kind configured last
  Slow,          \* the messages with a frequency limit
  Configs,       \* bound: the configurations looked at
  MaxPackets     \* bound: packets

Chapter == [msg : SUBSET Msg, sys : SUBSET Sys]
ASSUME MavlinkFilterAssumption ==
  Slow \subseteq Msg /\ Configs \subseteq [allow : Chapter, deny : Chapter] /\ MaxPackets \in Nat

VARIABLES
  cfg,        \* the configuration: of "allow" and "deny", the lists of messages and systems
  recent,     \* messages sent within their silence_period
  values,     \* StatCounters::values: of a counter its sum and whether it is to be reported
  packets

filterVars == <<cfg, recent, values, packets>>

Counters == {"next", "rest", "sysfilter", "msgfilter", "freqfilter"}

FilterInit ==
  /\ cfg \in Configs /\ recent = {}
  /\ values = [c \in Counters |-> [n |-> 0, new |-> FALSE]] /\ packets = 0

-----------------------------------------------------------------------------
Start == [sys |-> {}, msg |-> {}, allow_sys |-> FALSE, allow_msg |-> FALSE]

\* Mutant of Setup: a list of systems is added to the one of before.
MutSetup(f, allow, ch) ==
  LET m == IF ch.msg = {} THEN f ELSE [f EXCEPT !.allow_sys = allow, !.msg = ch.msg] IN
  IF ch.sys = {} THEN m ELSE [m EXCEPT !.sys = @ \cup ch.sys]

\* setup_filter for "allow", then for "deny": a list that is given replaces the one of
\* before, and either of them sets allow_sys, which msg_filter mistakes for allow_msg.
Setup(f, allow, ch) ==
  LET m == IF ch.msg = {} THEN f ELSE [f EXCEPT !.allow_sys = allow, !.msg = ch.msg] IN
  IF ch.sys = {} THEN m ELSE [m EXCEPT !.allow_sys = allow, !.sys = ch.sys]

Configured == Setup(Setup(Start, TRUE, cfg.allow), FALSE, cfg.deny)

\* passed: the counter of the filter that rejects, or "next".  What is found among the
\* messages is compared with the end of the systems, which it never equals, so every
\* message counts as found and none as allowed.
Passed(s, m) ==
  LET f == Configured IN
  IF f.sys # {} /\ f.allow_sys # (s \in f.sys) THEN "sysfilter"
  ELSE IF f.msg # {} /\ f.allow_msg # TRUE THEN "msgfilter"
  ELSE IF m \in Slow \cap recent THEN "freqfilter"
  ELSE "next"

\* StatCounters::add, by one.
Count(v, C) ==
  [c \in Counters |-> IF c \in C THEN [n |-> v[c].n + 1, new |-> TRUE] ELSE v[c]]

\* write: to the next element, or to the rest.
FilterWrite(s, m) ==
  LET verdict == Passed(s, m) IN
  /\ packets < MaxPackets /\ packets' = packets + 1
  /\ values' = Count(values, IF verdict = "next" THEN {"next"} ELSE {verdict, "rest"})
  /\ recent' = IF verdict = "next" THEN recent \cup ({m} \cap Slow) ELSE recent
  /\ UNCHANGED cfg

\* The silence after a message is over.
Silence(m) == m \in recent /\ recent' = recent \ {m} /\ UNCHANGED <<cfg, values, packets>>

-----------------------------------------------------------------------------
(* Properties. *)

\* What a configuration says: a packet passes if it is on every list of "allow" and on
\* none of "deny".
Says(s, m) ==
  /\ cfg.allow.sys # {} => s \in cfg.allow.sys
  /\ cfg.allow.msg # {} => m \in cfg.allow.msg
  /\ s \notin cfg.deny.sys /\ m \notin cfg.deny.msg

\* The lists of the configuration do what they say.  The exceptions: a list of messages,
\* which rejects everything; and systems under both, of which "deny" replaces "allow".
DoesWhatItSays ==
  \A s \in Sys, m \in Msg :
    cfg.allow.sys = {} \/ cfg.deny.sys = {} =>
      /\ Passed(s, m) = "next" => Says(s, m)
      /\ Says(s, m) /\ cfg.allow.msg \cup cfg.deny.msg = {} =>
           Passed(s, m) \in {"next", "freqfilter"}
=============================================================================
