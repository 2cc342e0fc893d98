SPECIFICATION FairSpec
CONSTANTS
  c1 = c1
  Contacts = {c1}
  Messages <- WithTooLong
  Unsealable <- TooLong
  MaxAttempts = 4
  RetryDelay <- ShortDelays
  AdvanceDelay = 1
  PendingLimit = 2
  Hashes <- OwnHashes
  AckHash <- OwnHash
  MaxOps = 1
  MaxOthers = 1
  MaxSends = 5
INVARIANTS Driven ConfirmedWasSent
PROPERTIES SpacedApart GivesUpAfterFlood EverySendEnds
