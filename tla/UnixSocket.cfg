\* Three daemons, each started up to three times.
SPECIFICATION Spec
CONSTANTS
  Daemons = {d1, d2, d3}
  NoDaemon = NoDaemon
  MaxStarts = 3
INVARIANTS LiveIsReachable StoppedLeavesNothing
CHECK_DEADLOCK FALSE
