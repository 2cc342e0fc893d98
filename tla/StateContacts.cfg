SPECIFICATION Spec
CONSTANTS
  m1 = m1
  m2 = m2
  Messages = {m1}
  Order <- AllStores
  DeliveredLimit = 1
  Missing = Missing
  Corrupt = Corrupt
  InboxLimit = 1
  Breakable = {}
  MaxVersion = 2
  MaxFaults = 0
  MaxKeys = 1
INVARIANTS
  ContactsSurvive
