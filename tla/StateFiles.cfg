SPECIFICATION FairSpec
CONSTANTS
  m1 = m1
  m2 = m2
  Messages = {m1, m2}
  Order <- AllStores
  Missing = Missing
  Corrupt = Corrupt
  InboxLimit = 1
  DeliveredLimit = 1
  Breakable = {"contacts"}
  MaxVersion = 2
  MaxFaults = 2
  MaxKeys = 3
INVARIANTS AckedSurvives SavedIsNotLost OneIdentity
PROPERTIES EmptyIsLastResort RetriedUntilWritten
