SPECIFICATION FairSpec
CONSTANTS
  ReqId = {r1}
  Location = {l1}
  NoLoc = NoLoc
  NoReq = NoReq
  MaxFaults = 3
  Stages = {"ServerCreated", "ServerRunning"}
PROPERTIES ImplementsLedger GivenUpIsDeleted ServerReadyMovesOn DisconnectingEnds
