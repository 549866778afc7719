SPECIFICATION FairSpec
CONSTANTS
  ReqId = {r1}
  NoReq = NoReq
  Stages = {"ServerRunning"}
  Kinds = {"request", "end", "turnOn", "server", "revoke", "activity", "restart"}
  MaxFaults = 2
INVARIANTS TypeOK SessionTracked EndsNotInUse TunnelAsShown
PROPERTIES MarkedIsReclaimed ReadyIsConnected
CHECK_DEADLOCK FALSE
