SPECIFICATION Spec
CONSTANTS
  ReqId = {r1, r2}
  Location = {l1}
  NoLoc = NoLoc
  NoReq = NoReq
  MaxFaults = 1
  Stages = {}
SYMMETRY MCSymmetry
INVARIANTS TypeOK EndsOnlyGivenUp SessionUuidKnown NoOrphan FinalStatusIsLast StatusHasSession DisconnectTakesTunnelDown OneSession
