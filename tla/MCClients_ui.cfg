SPECIFICATION CFairSpec
CONSTANTS
  Client = {u, f1, f2}
  Cli = {}
  UiCmd = {u}
  UiCalls = {"Connect", "Disconnect", "GetVpnStatus", "SignIn", "SignOut", "IsAuthenticated", "GetLocations", "Ask"}
  Fwd = {f1, f2}
  NoClient = NoClient
  Location = {l1}
  NoLoc = NoLoc
  Milestones = {"Connected"}
  MaxCalls = 3
  MaxEvents = 1
INVARIANTS StreamCurrent AppShowsStatus
PROPERTIES EventsShown
CHECK_DEADLOCK FALSE
