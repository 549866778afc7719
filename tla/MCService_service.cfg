SPECIFICATION SFairSpec
CONSTANTS
  Client = {a, u}
  Cli = {a}
  UiCmd = {u}
  UiCalls = {"Disconnect"}
  Fwd = {}
  NoClient = NoClient
  Location = {l1}
  NoLoc = NoLoc
  Milestones = {"Connecting"}
  MaxCalls = 1
  MaxEvents = 1
  MaxControls = 2
INVARIANTS STypeOK CliWaitsForSession RunningMeansNotStopping StoppedMeansEnded DeviceStopsLast
PROPERTIES CallsAnswered CliFreedByShutdown StopEnds
CHECK_DEADLOCK FALSE
