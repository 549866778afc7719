---------------------------- MODULE SystemService ----------------------------
(***************************************************************************)
(* The daemon as a Windows service (system_service.rs): the thread of      *)
(* handle_service_main, which creates and runs the daemon and reports the  *)
(* state of the service, the handler of service controls, and the monitor  *)
(* thread, which turns Stop and Preshutdown into the shutdown signal.      *)
(* Other controls have no effect.                                          *)
(***************************************************************************)
EXTENDS Clients

CONSTANT MaxControls      \* bound on Stop and Preshutdown controls

ASSUME ServiceControlAssumption == MaxControls \in Nat

VARIABLES
  main,       \* the thread of handle_service_main
  reported,   \* the state last reported to the service control manager
  controls,   \* event_rx: controls the monitor has not taken
  monitor,    \* the monitor thread, between its report and its signal
  asked       \* a message has been sent on sc_shutdown

serviceVars == <<main, reported, controls, monitor, asked>>
svars == <<cvars, serviceVars>>

SInit ==
  /\ CInit
  /\ main = "start" /\ reported = "none" /\ controls = 0
  /\ monitor = "idle" /\ asked = FALSE

-----------------------------------------------------------------------------
\* handle_service_main

ServiceStarts ==
  /\ main = "start" /\ main' = "creating"
  /\ reported' = "StartPending"
  /\ UNCHANGED <<cvars, controls, monitor, asked>>

\* The handler of controls cannot be registered; nothing is reported.
RegistrationFails ==
  /\ main = "start" /\ main' = "returned"
  /\ grpc' = "closed"
  /\ UNCHANGED <<dm, status, queue, call, stream, subs, sd, devUp, calls, evs, pc, uiVars>>
  /\ UNCHANGED <<reported, controls, monitor, asked>>

\* No runtime, or no daemon.  A daemon may fail to be created when the gRPC
\* server is up, which is left running; the receiver of the commands is
\* dropped, and with it what is queued.
CreationFails ==
  /\ main = "creating" /\ main' = "failed"
  /\ queue' = <<>>
  /\ call' = [c \in Client |->
       IF call[c].ph = "sent"
         THEN [call[c] EXCEPT !.ph = "answered", !.ans = Plain("Error")]
         ELSE call[c]]
  /\ UNCHANGED <<dm, status, stream, subs, grpc, sd, devUp, calls, evs, pc, uiVars>>
  /\ UNCHANGED <<reported, controls, monitor, asked>>

\* The server cannot send a command that nobody receives.
CommandNotSent(c) ==
  /\ main \in {"failed", "leaving"}
  /\ queue # <<>> /\ Head(queue).c = c /\ queue' = Tail(queue)
  /\ call' = Answered(c, Plain("Error"))
  /\ UNCHANGED <<dm, status, stream, subs, grpc, sd, devUp, calls, evs, pc, uiVars>>
  /\ UNCHANGED serviceVars

\* The monitor and the signal handler are started before Running is
\* reported, and the daemon run after.
SetRunning ==
  /\ main = "creating" /\ main' = "running"
  /\ reported' = "Running"
  /\ UNCHANGED <<cvars, controls, monitor, asked>>

\* Mutant: Stopped is reported when the daemon has left its loop.
SetStoppedEarly ==
  /\ \/ main = "running" /\ dm \in {"server", "device", "ended"}
     \/ main = "failed"
  /\ main' = "leaving"
  /\ reported' = "Stopped"
  /\ UNCHANGED <<cvars, controls, monitor, asked>>

SetStopped ==
  /\ (main = "running" /\ dm = "ended") \/ main = "failed"
  /\ main' = "leaving"
  /\ reported' = "Stopped"
  /\ UNCHANGED <<cvars, controls, monitor, asked>>

\* handle_service_main returns, and the runtime goes with what runs on it.
RuntimeDropped ==
  /\ main = "leaving" /\ main' = "returned"
  /\ grpc' = "closed" /\ subs' = {}
  /\ call' = [c \in Client |->
       IF call[c].ph \in {"auth", "sent", "task"}
         THEN [call[c] EXCEPT !.ph = "answered", !.ans = Plain("Error")]
         ELSE call[c]]
  /\ UNCHANGED <<dm, status, queue, stream, sd, devUp, calls, evs, pc, uiVars>>
  /\ UNCHANGED <<reported, controls, monitor, asked>>

-----------------------------------------------------------------------------
\* Controls

AcceptsStop == reported = "Running"

\* The service control manager sends only what the state accepts.
StopControl ==
  /\ AcceptsStop /\ controls < MaxControls
  /\ controls' = controls + 1
  /\ UNCHANGED <<cvars, main, reported, monitor, asked>>

\* Mutants: the signal is sent first, and the state reported then; the
\* monitor polls and takes what is not there; the report is all.
MonitorSignals ==
  /\ controls > 0 /\ monitor = "idle"
  /\ controls' = controls - 1
  /\ asked' = TRUE /\ monitor' = "send"
  /\ UNCHANGED <<cvars, main, reported>>
MonitorPolls ==
  /\ monitor = "idle"
  /\ controls' = controls - 1
  /\ reported' = "StopPending" /\ monitor' = "send"
  /\ UNCHANGED <<cvars, main, asked>>
MonitorSignalsNot ==
  /\ monitor = "send" /\ monitor' = "idle"
  /\ UNCHANGED <<cvars, main, reported, controls, asked>>

\* ServiceShutdownHandle::shutdown reports StopPending ...
MonitorReports ==
  /\ controls > 0 /\ monitor = "idle"
  /\ controls' = controls - 1
  /\ reported' = "StopPending" /\ monitor' = "send"
  /\ UNCHANGED <<cvars, main, asked>>

\* ... and sends the message, the first of which is the signal.
MonitorSends ==
  /\ monitor = "send" /\ monitor' = "idle"
  /\ asked' = TRUE
  /\ UNCHANGED <<cvars, main, reported, controls>>

ServiceSignal ==
  /\ asked /\ main # "returned" /\ Signal
  /\ UNCHANGED <<pc, uiVars, serviceVars>>

-----------------------------------------------------------------------------
\* The gRPC server runs from within create_daemon on, the daemon's task
\* when Running has been reported; neither outlives the runtime.
ProcessStep(A) ==
  /\ A /\ main \notin {"start", "returned"}
  /\ dm = "new" /\ dm' # "new" => main = "running"
  /\ UNCHANGED <<pc, uiVars, serviceVars>>

ClientsStep ==
  /\ main # "start" /\ (UiStep \/ \E c \in Cli : CliStep(c))
  /\ UNCHANGED serviceVars

Monitor == MonitorReports \/ MonitorSends

SNext ==
  \/ ServiceStarts \/ RegistrationFails \/ CreationFails \/ SetRunning \/ SetStopped
  \/ RuntimeDropped \/ \E c \in Client : CommandNotSent(c)
  \/ StopControl \/ Monitor \/ ServiceSignal
  \/ ProcessStep(DaemonNext) \/ ClientsStep

SSpec == SInit /\ [][SNext]_svars

\* Besides the tasks of the daemon and the loop of the CLI, the threads of
\* the service run; nothing is assumed of the service control manager.
SFairSpec ==
  /\ SSpec
  /\ WF_svars(CreationFails \/ SetRunning) /\ WF_svars(SetStopped)
  /\ WF_svars(RuntimeDropped)
  /\ WF_svars(Monitor) /\ WF_svars(ServiceSignal)
  /\ WF_svars(ProcessStep(DaemonStep))
  /\ \A c \in Client : WF_svars(ProcessStep(CallStep(c)))
  /\ WF_svars(ProcessStep(QueueShutdown)) /\ WF_svars(ProcessStep(ServerDrains))
  /\ WF_svars(ProcessStep(ServerCloses))
  /\ \A c \in Cli : WF_svars(CliLoop(c) /\ UNCHANGED <<uiVars, serviceVars>>)

-----------------------------------------------------------------------------
STypeOK ==
  /\ CTypeOK
  /\ main \in {"start", "creating", "failed", "running", "leaving", "returned"}
  /\ reported \in {"none", "StartPending", "Running", "StopPending", "Stopped"}
  /\ controls \in 0..MaxControls
  /\ monitor \in {"idle", "send"} /\ asked \in BOOLEAN

\* While the service control manager reads Running, and may send another
\* Stop, the daemon has not been told to stop.
RunningMeansNotStopping == reported = "Running" => sd = "none"

\* Stopped is reported of a daemon that has ended, and then its gRPC server
\* is closed, so another instance can take the socket; or of one that could
\* not be created, and then the server may be up until the main thread has
\* returned.
StoppedMeansEnded ==
  reported = "Stopped" =>
    /\ dm \in {"new", "ended"}
    /\ dm = "ended" \/ main = "returned" => grpc = "closed"

\* A Stop ends the service when the clients have left.
StopEnds ==
  (controls > 0 /\ \A c \in Client : call[c].ph = "gone") ~> main = "returned"
=============================================================================
