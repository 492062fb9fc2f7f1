---- MODULE MCStatistics ----
EXTENDS Statistics

CONSTANTS m1, m2, s1, s2

\* Configurations: systems allowed, systems denied, and messages of both kinds.
Ch(m, s) == [msg |-> m, sys |-> s]
MCConfigs ==
  {[allow |-> Ch({}, {s1}), deny |-> Ch({}, {})], [allow |-> Ch({}, {}), deny |-> Ch({}, {s2})],
   [allow |-> Ch({m2}, {s1}), deny |-> Ch({m1}, {})]}
====
