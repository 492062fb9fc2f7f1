SPECIFICATION StatSpec
CONSTANTS
  m1 = m1
  m2 = m2
  s1 = s1
  s2 = s2
  Msg = {m1, m2}
  Sys = {s1, s2}
  Slow = {m2}
  Configs <- MCConfigs
  MaxPackets = 2
  PackSize = 1
  QueueMax = 1
  QueueShrink = 1
  MaxStalls = 1
  EventsMax = 1
  MaxEvents = 1
  MaxShots = 3
INVARIANTS DoesWhatItSays LastMetricIsTrue KeepsReporting
CHECK_DEADLOCK FALSE
