------------------------------- MODULE Clients -------------------------------
(***************************************************************************)
(* The clients of the controller: the CLI (modvpn-cli), a process for each *)
(* command, and the desktop UI (modvpn-ui/src-tauri), whose commands and   *)
(* event forwarder share the state of the application under one lock.      *)
(* Every command of the UI and every run of its forwarder makes its own    *)
(* connection, so each is a client.                                        *)
(***************************************************************************)
EXTENDS Controller

CONSTANTS Cli,       \* processes of the CLI
          UiCmd,     \* commands of the UI that can be under way at once
          UiCalls,   \* the calls the UI is made to do
          Fwd        \* runs of the event forwarder

ASSUME ClientsAssumption ==
  /\ Client = Cli \cup UiCmd \cup Fwd
  /\ Cli \cap UiCmd = {} /\ Cli \cap Fwd = {} /\ UiCmd \cap Fwd = {}
  /\ UiCalls \subseteq Command \ {"WatchEvents"}

VARIABLES
  pc,        \* per process of the CLI, where it is
  fwd,       \* per run of the forwarder, its phase
  handler,   \* UiState.event_fwd_handler: the current run, or NoClient
  app,       \* UiState.vpn_status
  setBy,     \* history: the client whose event or answer set app
  locs       \* UiState.locations is not empty

cliVars == <<pc>>
uiVars == <<fwd, handler, app, setBy, locs>>
cvars == <<vars, cliVars, uiVars>>

CInit ==
  /\ Init
  /\ pc = [c \in Cli |-> "start"]
  /\ fwd = [f \in Fwd |-> "new"] /\ handler = NoClient
  /\ app = None /\ setBy = NoClient /\ locs = FALSE

-----------------------------------------------------------------------------
\* The CLI

CliAt(c, from, to) == pc[c] = from /\ pc' = [pc EXCEPT ![c] = to]

\* An error ends the process.
AfterAnswer(c, next) ==
  IF call[c].ans = Plain("Error") THEN "done" ELSE next

CliCall(c, from, to, cmd) ==
  CliAt(c, from, to) /\ MakeCall(c, cmd, NoLoc) /\ UNCHANGED calls

\* Commands that make one call and show its answer.
CliSignIn(c) == CliCall(c, "start", "other", "SignIn")
CliSignOut(c) == CliCall(c, "start", "other", "SignOut")
CliStatus(c) == CliCall(c, "start", "other", "GetVpnStatus")
CliDisconnect(c) == CliCall(c, "start", "other", "Disconnect")
CliLocations(c) == CliCall(c, "start", "other", "GetLocations")
CliAnswered(c) == CliAt(c, "other", "done") /\ TakeAnswer(c)

\* The connect command lists the locations to choose from ...
CliList(c) == CliCall(c, "start", "list", "GetLocations")
CliListed(c) == CliAt(c, "list", AfterAnswer(c, "choose")) /\ TakeAnswer(c)

\* ... and subscribes to the events before it connects.
CliWatch(c) == CliCall(c, "choose", "watch", "WatchEvents")

CliWatching(c) ==
  CliAt(c, "watch", AfterAnswer(c, "watching")) /\ TakeAnswer(c)

CliConnect(c, l) ==
  CliAt(c, "watching", "connect") /\ MakeCall(c, "Connect", l)
    /\ UNCHANGED calls

\* The answer is shown and, whatever it says, the events are awaited.
CliConnecting(c) ==
  CliAt(c, "connect", AfterAnswer(c, "loop")) /\ TakeAnswer(c)

\* Connected, Disconnected and a notification end the loop.
CliEvent(c) ==
  /\ ReadEvent(c)
  /\ LET e == Head(stream[c].q)
     IN CliAt(c, "loop", CASE e = Note -> "ack"
                           [] e.st \in {"Connected", "Disconnected"} -> "done"
                           [] OTHER -> "loop")

CliStreamEnded(c) == CliAt(c, "loop", "done") /\ EndOfStream(c)

CliAck(c) == CliCall(c, "ack", "acking", "Ask")

CliAcked(c) == CliAt(c, "acking", "done") /\ TakeAnswer(c)

\* A call the server no longer accepts ends the process.
CliRefused(c) ==
  /\ \E from \in {"start", "choose", "watching", "ack"} : CliAt(c, from, "done")
  /\ grpc # "open"
  /\ UNCHANGED vars

\* The process ends, finished or interrupted.
CliExit(c) == HangUp({c}) /\ pc' = [pc EXCEPT ![c] = "done"]

CliLoop(c) == CliEvent(c) \/ CliStreamEnded(c)

CliStep(c) ==
  /\ \/ CliSignIn(c) \/ CliSignOut(c) \/ CliStatus(c) \/ CliDisconnect(c)
     \/ CliLocations(c) \/ CliAnswered(c) \/ CliList(c) \/ CliListed(c)
     \/ CliWatch(c) \/ CliWatching(c) \/ \E l \in Location : CliConnect(c, l)
     \/ CliConnecting(c) \/ CliLoop(c) \/ CliAck(c) \/ CliAcked(c)
     \/ CliRefused(c) \/ CliExit(c)
  /\ UNCHANGED uiVars

-----------------------------------------------------------------------------
\* The UI's state

\* locations holds the lock over its call.
LockHeld == \E u \in UiCmd : call[u].cmd = "GetLocations"

\* update_app_state, for what came on behalf of client c.  (The menu of the
\* tray is then made from app, under the lock, by a task of its own.)
UpdateAppState(c, s) ==
  /\ ~LockHeld
  /\ app' = s /\ setBy' = c
  /\ UNCHANGED locs

\* A forwarder is started unless there is one ...
StartEventForwarder ==
  /\ ~LockHeld
  /\ IF handler # NoClient THEN UNCHANGED <<fwd, handler>>
     ELSE \E f \in Fwd : /\ fwd[f] = "new"
                         /\ fwd' = [fwd EXCEPT ![f] = "on"]
                         /\ handler' = f
  /\ UNCHANGED <<app, setBy, locs>>

\* ... and stopped by dropping its handler; its loop is aborted later.
StopEventForwarder ==
  /\ ~LockHeld
  /\ handler' = NoClient
  /\ fwd' = IF handler = NoClient THEN fwd ELSE [fwd EXCEPT ![handler] = "stopping"]
  /\ UNCHANGED <<app, setBy, locs>>

-----------------------------------------------------------------------------
\* The UI's commands

\* Locations are asked for once, and under the lock.
UiCommand(u, cmd, l) ==
  /\ cmd = "GetLocations" => ~LockHeld /\ ~locs
  /\ MakeCall(u, cmd, l) /\ Counted
  /\ UNCHANGED <<pc, uiVars>>

\* What a command does with its answer a; the list of locations may be empty.
UiEffect(u, cmd, a) ==
  LET ok == a # Plain("Error")
  IN \/ /\ (cmd = "SignIn" /\ ok) \/ (cmd = "IsAuthenticated" /\ a = Plain("Ok"))
        /\ StartEventForwarder
     \/ /\ (cmd = "SignOut" /\ ok) \/ (cmd = "IsAuthenticated" /\ a = Plain("No"))
        /\ StopEventForwarder
     \/ /\ cmd = "GetVpnStatus" /\ ok
        /\ UpdateAppState(u, a) /\ UNCHANGED <<fwd, handler>>
     \/ /\ cmd = "GetLocations" /\ ok
        /\ locs' \in BOOLEAN /\ UNCHANGED <<fwd, handler, app, setBy>>
     \/ ~ok /\ UNCHANGED uiVars
     \/ cmd \in {"Connect", "Disconnect", "Ask"} /\ UNCHANGED uiVars

UiAnswer(u) ==
  /\ TakeAnswer(u)
  /\ UiEffect(u, call[u].cmd, call[u].ans)
  /\ UNCHANGED pc

\* Quit, or anything else that ends the UI's process.
UiExit == HangUp(UiCmd \cup Fwd) /\ UNCHANGED <<pc, uiVars>>

-----------------------------------------------------------------------------
\* The event forwarder

FwdRuns(f) == fwd[f] \in {"on", "stopping"} /\ UNCHANGED pc

\* The loop subscribes again whenever its stream has ended or could not be
\* opened.
FwdSubscribe(f) ==
  FwdRuns(f) /\ MakeCall(f, "WatchEvents", NoLoc)
    /\ UNCHANGED <<calls, uiVars>>

FwdSubscribed(f) == FwdRuns(f) /\ TakeAnswer(f) /\ UNCHANGED uiVars

\* A notification goes to the window only.
FwdEvent(f) ==
  /\ FwdRuns(f) /\ ReadEvent(f)
  /\ IF Head(stream[f].q) = Note THEN UNCHANGED <<app, setBy, locs>>
     ELSE UpdateAppState(f, Head(stream[f].q))
  /\ UNCHANGED <<fwd, handler>>

FwdStreamEnded(f) == FwdRuns(f) /\ EndOfStream(f) /\ UNCHANGED uiVars

\* The abort of a loop whose handler was dropped.
FwdAborted(f) ==
  /\ fwd[f] = "stopping" /\ fwd' = [fwd EXCEPT ![f] = "off"]
  /\ HangUp({f})
  /\ UNCHANGED <<pc, handler, app, setBy, locs>>

FwdStep(f) ==
  \/ FwdSubscribe(f) \/ FwdSubscribed(f) \/ FwdEvent(f)
  \/ FwdStreamEnded(f) \/ FwdAborted(f)

UiStep ==
  \/ \E u \in UiCmd :
       \/ \E cmd \in UiCalls, l \in Location \cup {NoLoc} :
            (cmd = "Connect") = (l # NoLoc) /\ UiCommand(u, cmd, l)
       \/ UiAnswer(u)
  \/ \E f \in Fwd : FwdStep(f)
  \/ UiExit

-----------------------------------------------------------------------------
CNext ==
  \/ (DaemonNext \/ Signal) /\ UNCHANGED <<pc, uiVars>>
  \/ \E c \in Cli : CliStep(c)
  \/ UiStep

CSpec == CInit /\ [][CNext]_cvars

\* Besides the daemon's tasks, the loops of the CLI and the forwarder take
\* what comes, and the UI's tasks what they wait for.
CFairSpec ==
  /\ CSpec
  /\ WF_cvars(DaemonStep /\ UNCHANGED <<pc, uiVars>>)
  /\ \A c \in Client : WF_cvars(CallStep(c) /\ UNCHANGED <<pc, uiVars>>)
  /\ WF_cvars(QueueShutdown /\ UNCHANGED <<pc, uiVars>>)
  /\ \A c \in Cli : WF_cvars(CliLoop(c) /\ UNCHANGED uiVars)
  /\ \A f \in Fwd : WF_cvars(FwdEvent(f))
  /\ \A u \in UiCmd : WF_cvars(UiAnswer(u))

-----------------------------------------------------------------------------
\* Types of the state of the clients; part of STypeOK.
CTypeOK ==
  /\ TypeOK
  /\ pc \in [Cli -> {"start", "other", "list", "choose", "watch", "watching",
                    "connect", "loop", "ack", "acking", "done"}]
  /\ fwd \in [Fwd -> {"new", "on", "stopping", "off"}]
  /\ handler \in Fwd \cup {NoClient}
  /\ app \in VpnStatus \cup {None}
  /\ setBy \in Client \cup {NoClient}
  /\ locs \in BOOLEAN

\* The connect command never waits for nothing: in its loop, with nothing
\* to read on a stream that is served, a session is in progress, whose end
\* or success will be sent to it.
CliWaitsForSession ==
  \A c \in Cli :
    pc[c] = "loop" /\ c \in subs /\ stream[c].q = <<>> => VpnSessionInProgress(status)

\* What the application shows, if an event set it last and the forwarder
\* that got it is served and has read everything, is the daemon's status
\* (but for Accepted, which is not sent).
AppShowsStatus ==
  setBy \in Fwd /\ setBy \in subs /\ stream[setBy].open /\ stream[setBy].q = <<>> =>
    app = status \/ status.st = "Accepted"

\* A shutdown of the daemon frees the connect command from its loop.
CliFreedByShutdown ==
  \A c \in Cli : pc[c] = "loop" /\ sd # "none" ~> pc[c] # "loop"

\* Events that reach the UI are taken, although locations holds the lock
\* over its call to the daemon; unless the daemon is told to stop, which may
\* leave that call without an answer.
EventsShown ==
  \A f \in Fwd : stream[f].q # <<>> ~> stream[f].q = <<>> \/ sd # "none"
=============================================================================
