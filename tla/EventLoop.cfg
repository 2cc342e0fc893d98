SPECIFICATION FairSpec
CONSTANTS
  Modulus = 4
  Delays = {0, 1}
  MaxSleep = 2
  Fds = {4, 5}
  MaxTimers = 2
  MaxWatches = 3
  MaxOps = 2
PROPERTIES NeverOnceOver NeverEarly OwnEvents EveryTimerRuns
