SPECIFICATION ProcessSpec
CONSTANTS
  Conns = {c1, c2, c3}
  Refreshes = {f1}
  Polls = {p1, p2}
  DegradedAfter = 1
  DownThreshold = 3
  MaxAwait = 1
  Null = Null
INVARIANTS
  TypeOK NeverOverCounts
PROPERTIES
  ShutdownEnds EventsAlternate AlertIsDue AlertsFollow
\* the process ends
CHECK_DEADLOCK FALSE
