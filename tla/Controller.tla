------------------------------ MODULE Controller ------------------------------
(***************************************************************************)
(* The local gRPC server between the daemon and its clients (controller.rs,*)
(* modvpn-controller), the queue of the daemon seen from its clients, the  *)
(* broadcast of events, and the shutdown of it all (daemon.rs, shutdown.rs)*)
(*                                                                         *)
(* A call goes through the authentication layer, which asks the device     *)
(* service, into the daemon's queue and waits for its answer; watch_events *)
(* opens a stream and goes into the list of subscribers instead.  Of the   *)
(* daemon only what clients see is kept, its status: an event of a watcher *)
(* or of the tunnel may lead to any status that module Daemon derives from *)
(* one.  Notifications are events without content.                         *)
(***************************************************************************)
EXTENDS Naturals, Sequences

CONSTANTS Client,      \* client processes, each with one call at a time
          NoClient,    \* the client of an item no client has queued
          Location, NoLoc,
          Milestones,  \* statuses, besides Disconnected, that events lead to
          MaxCalls,    \* bound on the calls made by clients without a program
          MaxEvents    \* bound on the events of watchers and the tunnel

INSTANCE DaemonState WITH ReqId <- {}

ASSUME ControllerAssumption ==
  /\ NoClient \notin Client /\ NoLoc \notin Location
  /\ MaxCalls \in Nat /\ MaxEvents \in Nat
  /\ Milestones \subseteq {"ServerCreated", "ServerRunning", "ServerReady",
                          "Connecting", "Connected", "Disconnecting"}

VARIABLES
  dm,        \* what the daemon task is doing
  status,    \* state.vpn_status
  queue,     \* daemon_receiver
  call,      \* per client, its call
  stream,    \* per client, its event stream
  subs,      \* events_subscribers
  grpc,      \* the gRPC server
  sd,        \* the shutdown signal, and DaemonEvent::Shutdown
  devUp,     \* the device service is running
  calls,     \* calls counted so far
  evs        \* events queued so far

vars == <<dm, status, queue, call, stream, subs, grpc, sd, devUp, calls, evs>>

Command == {"WatchEvents", "Connect", "Disconnect", "GetVpnStatus", "SignIn",
            "SignOut", "IsAuthenticated", "GetLocations", "Ask"}
\* Ask: the other calls that change nothing kept here (recent locations,
\* notifications and their acknowledgement, versions).
AllowedUnauthorized == {"SignIn", "IsAuthenticated"}

Plain(a) == [st |-> a, loc |-> NoLoc]
None == Plain("None")
Answer == VpnStatus \cup {Plain(a) : a \in {"None", "Ok", "No", "Error"}}
Note == Plain("Notification")

\* A call is in the authentication layer, sent to the daemon, or answered by
\* a task the daemon spawned; gone: the client has hung up.
CallPhase == {"idle", "auth", "sent", "task", "answered", "gone"}
NoCall == [ph |-> "idle", cmd |-> "Ask", loc |-> NoLoc, ans |-> None]

\* A stream is open while the client holds its end; q is what it has not
\* read.
NoStream == [open |-> FALSE, q |-> <<>>]

Item(k, c) == [k |-> k, c |-> c]

Init ==
  /\ dm = "new" /\ status = Disconnected /\ queue = <<>>
  /\ call = [c \in Client |-> NoCall]
  /\ stream = [c \in Client |-> NoStream]
  /\ subs = {} /\ grpc = "open" /\ sd = "none" /\ devUp = TRUE
  /\ calls = 0 /\ evs = 0

-----------------------------------------------------------------------------
\* Calls

\* Only while the server accepts requests.  An allowed path goes straight to
\* the daemon's queue.
MakeCall(c, cmd, l) ==
  /\ grpc = "open" /\ call[c].ph = "idle"
  /\ cmd = "WatchEvents" => ~stream[c].open
  /\ LET unauthorized == cmd \in AllowedUnauthorized
     IN /\ call' = [call EXCEPT ![c] =
             [ph |-> IF unauthorized THEN "sent" ELSE "auth",
              cmd |-> cmd, loc |-> l, ans |-> None]]
        /\ queue' = IF unauthorized THEN Append(queue, Item(cmd, c)) ELSE queue
  /\ UNCHANGED <<dm, status, stream, subs, grpc, sd, devUp, evs>>

\* The calls of programs that may call for ever are bounded.
Counted == calls < MaxCalls /\ calls' = calls + 1

\* watch_events pushes a sender; any other method sends a command.
Authorized(c) ==
  /\ call[c].ph = "auth" /\ devUp
  /\ IF call[c].cmd = "WatchEvents"
       THEN /\ call' = [call EXCEPT ![c].ph = "answered", ![c].ans = Plain("Ok")]
            /\ stream' = [stream EXCEPT ![c] = [open |-> TRUE, q |-> <<>>]]
            /\ subs' = subs \cup {c}
            /\ UNCHANGED queue
       ELSE /\ call' = [call EXCEPT ![c].ph = "sent"]
            /\ queue' = Append(queue, Item(call[c].cmd, c))
            /\ UNCHANGED <<stream, subs>>
  /\ UNCHANGED <<dm, status, grpc, sd, devUp, calls, evs>>

\* Not signed in, or no answer of the device service.
Unauthenticated(c) ==
  /\ call[c].ph = "auth"
  /\ call' = [call EXCEPT ![c].ph = "answered", ![c].ans = Plain("Error")]
  /\ UNCHANGED <<dm, status, queue, stream, subs, grpc, sd, devUp, calls, evs>>

\* oneshot_send: an answer to a client that is gone is dropped.
Answered(c, a) ==
  IF call[c].ph = "gone" THEN call
  ELSE [call EXCEPT ![c].ph = "answered", ![c].ans = a]

\* The client takes its answer.
TakeAnswer(c) ==
  /\ call[c].ph = "answered"
  /\ call' = [call EXCEPT ![c] = NoCall]
  /\ UNCHANGED <<dm, status, queue, stream, subs, grpc, sd, devUp, calls, evs>>

ReadEvent(c) ==
  /\ stream[c].open /\ stream[c].q # <<>>
  /\ stream' = [stream EXCEPT ![c].q = Tail(@)]
  /\ UNCHANGED <<dm, status, queue, call, subs, grpc, sd, devUp, calls, evs>>

\* The stream ends when its sender is dropped and everything has been read;
\* a client may also drop it.
StreamEnds(c) ==
  /\ stream[c].open
  /\ stream' = [stream EXCEPT ![c] = NoStream]
  /\ UNCHANGED <<dm, status, queue, call, subs, grpc, sd, devUp, calls, evs>>

EndOfStream(c) ==
  c \notin subs /\ stream[c].q = <<>> /\ StreamEnds(c)

\* The clients in cs end, by themselves or with their process, and so do
\* their connections.  A command that is queued stays in the queue.
HangUp(cs) ==
  /\ \E c \in cs : call[c].ph # "gone"
  /\ call' = [c \in Client |->
       IF c \in cs THEN [NoCall EXCEPT !.ph = "gone", !.loc = call[c].loc]
                   ELSE call[c]]
  /\ stream' = [c \in Client |-> IF c \in cs THEN NoStream ELSE stream[c]]
  /\ UNCHANGED <<dm, status, queue, subs, grpc, sd, devUp, calls, evs>>

-----------------------------------------------------------------------------
\* The broadcaster

\* Mutant: those an event was sent to are dropped, not the closed ones.
NotifyDropsReached(es) ==
  /\ stream' = [c \in Client |->
       IF c \in subs /\ stream[c].open
         THEN [stream[c] EXCEPT !.q = @ \o es] ELSE stream[c]]
  /\ subs' = {c \in subs : ~stream[c].open}

\* notify, for each of es in turn: closed senders are dropped from the list.
Notify(es) ==
  /\ stream' = [c \in Client |->
       IF c \in subs /\ stream[c].open
         THEN [stream[c] EXCEPT !.q = @ \o es] ELSE stream[c]]
  /\ subs' = {c \in subs : stream[c].open}

-----------------------------------------------------------------------------
\* The daemon task: one item of the queue at a time

\* The gRPC server is up and the queue is filled before the task runs.
Run ==
  /\ dm = "new" /\ dm' = "run"
  /\ UNCHANGED <<status, queue, call, stream, subs, grpc, sd, devUp, calls, evs>>

Takes(k, c) ==
  /\ dm = "run" /\ queue # <<>> /\ Head(queue) = Item(k, c)
  /\ queue' = Tail(queue)

\* Mutant: the refusal is logged and the client not told.
OnConnectRefusedSilently(c) ==
  /\ Takes("Connect", c)
  /\ VpnSessionInProgress(status)
  /\ UNCHANGED <<dm, status, call, stream, subs, grpc, sd, devUp, calls, evs>>

OnConnectRefused(c) ==
  /\ Takes("Connect", c)
  /\ VpnSessionInProgress(status)
  /\ call' = Answered(c, Plain("Error"))
  /\ UNCHANGED <<dm, status, stream, subs, grpc, sd, devUp, calls, evs>>

\* The daemon awaits NewSession; the command stays at the head meanwhile.
OnConnect(c) ==
  /\ dm = "run" /\ queue # <<>> /\ Head(queue) = Item("Connect", c)
  /\ ~VpnSessionInProgress(status)
  /\ dm' = "connect"
  /\ UNCHANGED <<status, queue, call, stream, subs, grpc, sd, devUp, calls, evs>>

\* The answer says Accepted; no event does.
ConnectAccepted(c) ==
  /\ dm = "connect" /\ dm' = "run" /\ Head(queue).c = c /\ queue' = Tail(queue)
  /\ status' = [st |-> "Accepted", loc |-> call[c].loc]
  /\ call' = Answered(c, status')
  /\ UNCHANGED <<stream, subs, grpc, sd, devUp, calls, evs>>

\* Mutant: the answer alone tells of the failure.
ConnectFailedSilently(c) ==
  /\ dm = "connect" /\ dm' = "run" /\ Head(queue).c = c /\ queue' = Tail(queue)
  /\ call' = Answered(c, Disconnected)
  /\ UNCHANGED <<status, stream, subs, grpc, sd, devUp, calls, evs>>

\* The answer says Disconnected, and a notification is sent before it.
ConnectFailed(c) ==
  /\ dm = "connect" /\ dm' = "run" /\ Head(queue).c = c /\ queue' = Tail(queue)
  /\ Notify(<<Note>>)
  /\ call' = Answered(c, Disconnected)
  /\ UNCHANGED <<status, grpc, sd, devUp, calls, evs>>

\* Mutant: the new status is left to the answer.
DisconnectUnannounced ==
  /\ status' = UpdateStateOnDisconnect(status)
  /\ UNCHANGED <<stream, subs>>

\* on_disconnect_inner, as clients see it.
OnDisconnectInner ==
  /\ status' = UpdateStateOnDisconnect(status)
  /\ Notify(<<status'>>)

OnDisconnect(c) ==
  /\ Takes("Disconnect", c)
  /\ OnDisconnectInner
  /\ call' = Answered(c, status')
  /\ UNCHANGED <<dm, grpc, sd, devUp, calls, evs>>

\* Left to a task, as all that follow; the status is read here.
OnGetVpnStatus(c) ==
  /\ Takes("GetVpnStatus", c)
  /\ call' = IF call[c].ph = "gone" THEN call
              ELSE [call EXCEPT ![c].ph = "task", ![c].ans = status]
  /\ UNCHANGED <<dm, status, stream, subs, grpc, sd, devUp, calls, evs>>

\* Sign in and sign out are refused while a session is in progress.
OnOther(c) ==
  /\ \E cmd \in {"SignIn", "SignOut", "IsAuthenticated", "GetLocations", "Ask"} :
       /\ Takes(cmd, c)
       /\ call' = IF cmd \in {"SignIn", "SignOut"} /\ VpnSessionInProgress(status)
                    THEN Answered(c, Plain("Error"))
                  ELSE IF call[c].ph = "gone" THEN call
                  ELSE [call EXCEPT ![c].ph = "task"]
  /\ UNCHANGED <<dm, status, stream, subs, grpc, sd, devUp, calls, evs>>

\* What a task may answer: the status read before, or what the device
\* service, the session service or the database said.
TaskAnswer(c) ==
  CASE call[c].cmd = "GetVpnStatus" -> {call[c].ans}
    [] call[c].cmd = "IsAuthenticated" -> {Plain("Ok"), Plain("No")}
    [] OTHER -> {Plain("Ok"), Plain("Error")}

\* Mutant: without a timeout, the call to the server may hang while the
\* tunnel's routes are in place.
TaskHangs(c) ==
  /\ call[c].ph = "task" /\ ~VpnSessionInProgress(status)
  /\ \E a \in TaskAnswer(c) : call' = Answered(c, a)
  /\ UNCHANGED <<dm, status, queue, stream, subs, grpc, sd, devUp, calls, evs>>

TaskAnswers(c) ==
  /\ call[c].ph = "task"
  /\ \E a \in TaskAnswer(c) : call' = Answered(c, a)
  /\ UNCHANGED <<dm, status, queue, stream, subs, grpc, sd, devUp, calls, evs>>

\* A watcher or the tunnel queues an event ...
QueueEvent ==
  /\ dm \in {"run", "connect"} /\ evs < MaxEvents
  /\ evs' = evs + 1
  /\ queue' = Append(queue, Item("Event", NoClient))
  /\ UNCHANGED <<dm, status, call, stream, subs, grpc, sd, devUp, calls>>

\* Those of StatusFromServer and StatusFromTunnel.
EventStatus == {Disconnected} \cup [st : Milestones, loc : Location]

\* ... which is dropped, or sets the status and is broadcast, a failure of
\* the server or the tunnel after a notification.  (That the handler may
\* panic is in module Daemon.)
HandleEvent ==
  /\ Takes("Event", NoClient)
  /\ \/ UNCHANGED <<status, stream, subs>>
     \/ \E s \in EventStatus : status' = s /\ Notify(<<s>>)
     \/ status' = Disconnected /\ Notify(<<Note, Disconnected>>)
  /\ UNCHANGED <<dm, call, grpc, sd, devUp, calls, evs>>

-----------------------------------------------------------------------------
\* Shutdown

\* A signal of the operating system is broadcast to the actors.
Signal ==
  /\ sd = "none" /\ sd' = "signalled"
  /\ UNCHANGED <<dm, status, queue, call, stream, subs, grpc, devUp, calls, evs>>

\* The task of register_shutdown, which the daemon task starts.
QueueShutdown ==
  /\ sd = "signalled" /\ dm # "new" /\ sd' = "queued"
  /\ queue' = Append(queue, Item("Shutdown", NoClient))
  /\ UNCHANGED <<dm, status, call, stream, subs, grpc, devUp, calls, evs>>

\* The gRPC server accepts nothing more and finishes what it has.
ServerDrains ==
  /\ sd # "none" /\ grpc = "open" /\ grpc' = "draining"
  /\ UNCHANGED <<dm, status, queue, call, stream, subs, sd, devUp, calls, evs>>

\* A response not finished: a call unanswered, or a stream whose sender is
\* in the list.
InFlight(c) ==
  \/ call[c].ph \in {"auth", "sent", "task"}
  \/ stream[c].open /\ c \in subs

ServerCloses ==
  /\ grpc = "draining" /\ \A c \in Client : ~InFlight(c)
  /\ grpc' = "closed"
  /\ UNCHANGED <<dm, status, queue, call, stream, subs, sd, devUp, calls, evs>>

\* The daemon leaves its loop, and what is queued behind Shutdown; then
\* handle_shutdown: a disconnect ...
HandleShutdown ==
  /\ Takes("Shutdown", NoClient)
  /\ OnDisconnectInner
  /\ dm' = "tunnel"
  /\ UNCHANGED <<call, grpc, sd, devUp, calls, evs>>

\* ... the end of the tunnel ...
TunnelJoined ==
  /\ dm = "tunnel" /\ dm' = "service"
  /\ UNCHANGED <<status, queue, call, stream, subs, grpc, sd, devUp, calls, evs>>

\* Mutant: the subscribers stay.
SubscribersKept ==
  /\ dm = "service" /\ dm' = "server"
  /\ UNCHANGED <<status, queue, call, stream, subs, grpc, sd, devUp, calls, evs>>

\* ... the end of the session service, and no more subscribers ...
SubscribersCleared ==
  /\ dm = "service" /\ dm' = "server"
  /\ subs' = {}
  /\ UNCHANGED <<status, queue, call, stream, grpc, sd, devUp, calls, evs>>

\* Mutant: the server is told and not waited for.
ServerNotJoined ==
  /\ dm = "server" /\ grpc # "open" /\ dm' = "device"
  /\ UNCHANGED <<status, queue, call, stream, subs, grpc, sd, devUp, calls, evs>>

\* ... the end of the gRPC server ...
ServerJoined ==
  /\ dm = "server" /\ grpc = "closed" /\ dm' = "device"
  /\ UNCHANGED <<status, queue, call, stream, subs, grpc, sd, devUp, calls, evs>>

\* ... and the end of the device service.
DeviceStopped ==
  /\ dm = "device" /\ dm' = "ended"
  /\ devUp' = FALSE
  /\ UNCHANGED <<status, queue, call, stream, subs, grpc, sd, calls, evs>>

-----------------------------------------------------------------------------
OnCommand(c) ==
  \/ OnConnectRefused(c) \/ OnConnect(c) \/ ConnectAccepted(c) \/ ConnectFailed(c)
  \/ OnDisconnect(c) \/ OnGetVpnStatus(c) \/ OnOther(c)

DaemonStep ==
  \/ Run \/ HandleEvent \/ \E c \in Client : OnCommand(c)
  \/ HandleShutdown \/ TunnelJoined \/ SubscribersCleared
  \/ ServerJoined \/ DeviceStopped

\* Of the call of client c, while it is not in the daemon's queue.
CallStep(c) == Authorized(c) \/ Unauthenticated(c) \/ TaskAnswers(c)

DaemonNext ==
  \/ DaemonStep \/ QueueEvent
  \/ \E c \in Client : CallStep(c)
  \/ QueueShutdown \/ ServerDrains \/ ServerCloses

\* A client that may do anything clients can.
ClientStep(c) ==
  \/ \E cmd \in Command, l \in Location \cup {NoLoc} :
       (cmd = "Connect") = (l # NoLoc) /\ MakeCall(c, cmd, l) /\ Counted
  \/ TakeAnswer(c) \/ ReadEvent(c) \/ StreamEnds(c) \/ HangUp({c})

Next == DaemonNext \/ Signal \/ \E c \in Client : ClientStep(c)

Spec == Init /\ [][Next]_vars

\* The tasks of the process run when they can; calls of the daemon return
\* or time out.  Nothing is assumed of clients, signals and events.
FairSpec ==
  /\ Spec
  /\ WF_vars(DaemonStep)
  /\ \A c \in Client : WF_vars(CallStep(c))
  /\ WF_vars(QueueShutdown) /\ WF_vars(ServerDrains) /\ WF_vars(ServerCloses)

-----------------------------------------------------------------------------
CallState == [ph : CallPhase, cmd : Command, loc : Location \cup {NoLoc}, ans : Answer]
Stream == [open : BOOLEAN, q : Seq(VpnStatus \cup {Note})]
QueueItem == [k : Command \ {"WatchEvents"}, c : Client]
               \cup {Item("Event", NoClient), Item("Shutdown", NoClient)}

TypeOK ==
  /\ dm \in {"new", "run", "connect", "tunnel", "service", "server", "device", "ended"}
  /\ status \in VpnStatus
  /\ queue \in Seq(QueueItem)
  /\ call \in [Client -> CallState]
  /\ stream \in [Client -> Stream]
  /\ subs \subseteq Client
  /\ grpc \in {"open", "draining", "closed"}
  /\ sd \in {"none", "signalled", "queued"}
  /\ devUp \in BOOLEAN
  /\ calls \in 0..MaxCalls /\ evs \in 0..MaxEvents

\* s is the last status of q, notifications aside, if there is one.
LastIs(q, s) ==
  \A i \in DOMAIN q :
    q[i] # Note /\ (\A j \in DOMAIN q : j > i => q[j] = Note) => q[i] = s

Stopping == dm \in {"server", "device", "ended"}

\* A stream that is open is served until the daemon stops, and the last
\* status on it is the daemon's current one, but for Accepted, which Connect
\* answers and does not send.
StreamCurrent ==
  \A c \in Client :
    stream[c].open /\ ~Stopping =>
      c \in subs /\ (LastIs(stream[c].q, status) \/ status.st = "Accepted")

\* The comment in handle_shutdown: the device service ends last, as the
\* controller depends on it; no call is left that needs it.
DeviceStopsLast ==
  ~devUp => \A c \in Client : call[c].ph \notin {"auth", "task"}

\* A call gets its answer, unless its client leaves or the daemon is told to
\* stop, whatever else is in the queue.
CallsAnswered ==
  \A c \in Client :
    call[c].ph \in {"auth", "sent", "task"} ~>
      call[c].ph \in {"answered", "idle", "gone"} \/ sd # "none"

\* The message of register_signal_handler: a signal starts a graceful
\* shutdown, which ends.
ShutdownEnds == sd # "none" ~> dm = "ended"
=============================================================================
