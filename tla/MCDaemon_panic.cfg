SPECIFICATION Spec
CONSTANTS
  ReqId = {r1}
  Location = {l1}
  NoLoc = NoLoc
  NoReq = NoReq
  MaxFaults = 0
  Stages = {}
INVARIANT DisconnectingExpected
