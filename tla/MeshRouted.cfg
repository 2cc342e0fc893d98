SPECIFICATION Spec
CONSTANTS
  a = a
  b = b
  r = r
  s = s
  Nodes <- MCNodes
  Id <- MCId
  Links <- MCLinks
  Repeats <- MCNodes
  MaxHops = 4
  MaxAttempts = 2
  MaxContacts = 1
  Reading <- MCReading
  Workloads <- RoutedWork
CHECK_DEADLOCK FALSE
PROPERTIES
  RoutedIsForwarded
