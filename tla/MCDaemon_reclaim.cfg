SPECIFICATION FairSpec
CONSTANTS
  ReqId = {r1}
  Location = {l1}
  NoLoc = NoLoc
  NoReq = NoReq
  MaxFaults = 1
  Stages = {}
PROPERTY OldSessionsReclaimed
