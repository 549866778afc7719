SPECIFICATION Spec
CONSTANTS
  ReqId = {r1, r2}
  NoReq = NoReq
  Stages = {}
  Kinds = {"end"}
  MaxFaults = 1
SYMMETRY MCSymmetry
INVARIANTS EndsNotInUse TunnelAsShown
CHECK_DEADLOCK FALSE
