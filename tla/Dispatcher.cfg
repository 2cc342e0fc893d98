SPECIFICATION FairSpec
CONSTANTS
  h1 = h1
  QueueLimit = 2
  ExpiryPerPriority = 2
  SeenTtl = 4
  Jitter = 1
  BusyRetry = 1
  BusyJitter = 1
  BusyMax = 2
  DownRecheck = 1
  DutyRecheck = 3
  TxRetry = 1
  Hashes = {h1}
  Traffic <- SizedTraffic
  Budgets = {2}
  Window = 3
  MaxSends = 3
INVARIANTS ExactlyOnce WithinBudget
PROPERTIES UrgencyKept StaleOnlyBehindBackoff ImplementsTxQueue EveryPacketAnswered
