SPECIFICATION FairSpec
CONSTANTS
  Client = {c1}
  NoClient = NoClient
  Location = {l1}
  NoLoc = NoLoc
  Milestones = {}
  MaxCalls = 1
  MaxEvents = 0
PROPERTIES ShutdownEnds
CHECK_DEADLOCK FALSE
