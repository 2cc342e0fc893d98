\* Two clients of the companion server.
SPECIFICATION FairSpec
CONSTANTS
  Clients = {1, 2}
  Scenarios <- AllScenarios
  MaxFrame = 4
  MaxOutbound = 6
  Room = 3
  InboxLimit = 2
  MaxContacts = 2
  MaxChannels = 2
INVARIANTS OwnWholeFrames PushedAfterStart WaitingIsAnnounced AnsweredOnceInOrder
PROPERTIES OutputArrives
CHECK_DEADLOCK FALSE
