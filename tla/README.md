# A TLA+ model of MoDVPN

MoDVPN is a VPN client.  A privileged daemon (`modvpn-daemon`) keeps VPN
sessions on a server, drives a tunnel (`talpid-core`, from Mullvad) and serves
a CLI and a desktop UI over local gRPC; an Android app does the same job in one
process.  This directory models what decides whether a user's session is set
up, shown, ended and cleaned up correctly: the daemon actor, the VPN session
service, the watchers, the reclaimer, the table they share, and the tunnel and
the server as far as the daemon can observe them; who is signed in: the device
service with its tables and the checks in front of it; what the clients get to
see of it: the controller with its calls, event streams and shutdown, the CLI,
the desktop UI, the Windows service around the daemon; the list of recent
locations; and the Android app's own orchestrator.

Paths below are relative to the repository; `daemon/` stands for
`modvpn-daemon/src/`, `android/` for
`modvpn-android/app/src/main/kotlin/app/upvpn/upvpn/`.

## 1. Inventory

### The components, their state and operations

| Component | State | Operations | Interacts with |
|---|---|---|---|
| Daemon actor, `daemon/daemon.rs`, `daemon/state.rs` | `vpn_status`, `notifications`, subscribers | Connect, Disconnect, AckNotification, queries, sign in/out; server statuses; tunnel transitions; shutdown | awaits the session service on Connect; sends tunnel commands; spawns tasks that end a session, that tell the server `ClientConnected`, that sign in or out |
| VPN session storage, `daemon/vpn_session/storage.rs` | table `vpn_session` (SQLite) | `new_session`, `update_on_accepted`, `updated_server_status`, `tunnel_state_transition`, `end_session`, `delete`, `reclaim`, `to_reclaim` | called by the daemon, its spawned tasks, the reclaimer and the parameter generator |
| VPN session service, `daemon/vpn_session/handler.rs` | the watchers' shutdown channels | NewSession, EndSession, ClientConnected, ListLocations | calls the server; starts and stops watchers |
| Watcher, `daemon/vpn_session/watcher.rs` | last status seen | poll every second, deliver changes, stop at a final status | sends events to the daemon |
| Reclaimer, `daemon/vpn_session/reclaimer.rs` | the list of its round | every 60 s: end every session that is marked and has a uuid | session service, storage |
| Parameter generator, `daemon/tunnel.rs` | none | read the server's address and key for each attempt to connect | called by the tunnel |
| Start-up and process, `daemon/lib.rs`, `daemon/main.rs` | none | mark all left-over rows, start the actors, exit when the daemon task ends | service manager |
| Device service, `daemon/device/*`, `daemon/token_storage.rs` | device, token, addresses | sign in, sign out, re-initialise | daemon, parameter generator |
| Recent locations, `daemon/location_storage.rs` | table `location` | add (three statements), list | tasks spawned by Connect |
| Controller and broadcaster, `daemon/controller.rs`, `modvpn-controller` | subscribers, open calls and streams | one command per RPC, event streams, draining at shutdown | CLI, UI; the daemon's queue; the device service (authentication layer) |
| Shutdown, `daemon/shutdown.rs`, `handle_shutdown` | the signal | disconnect, then tunnel, session service, subscribers, gRPC server, device service, in this order | all actors |
| Server client, `modvpn-server` | channel | calls with a 60 s timeout, connects with 9 s of backoff | VPN server |
| CLI, `modvpn-cli` | where the command is | one call, or for connect: list, subscribe, connect, loop over events | controller |
| Desktop UI, `modvpn-ui/src-tauri` | `UiState`: status, locations, forwarder handle, under one lock | a command per button, the event forwarder | controller |
| Windows service, `daemon/system_service.rs` | reported state, monitor thread | start, Stop and Preshutdown, report states | service control manager; the shutdown signal |
| Android app, `android/` | `VPNOrchestratorState`, tunnel handle, coroutines, its own table | connect, disconnect, answers and statuses, revocation, watcher, end calls, reclaimer | VPN server; two processes share the table |

### What is hard

* **One queue, many writers.**  The daemon handles commands, server statuses
  and tunnel transitions in one FIFO.  A transition queued before a Disconnect
  is handled after it, when its session is gone.
* **Transitions carry no session.**  `tunnel_state_transition` looks up *an*
  unmarked row; an old tunnel's transition can meet a new session.
* **Await inside a handler.**  Connect awaits the server while its row is in
  the table without the server's id (uuid), and the reclaimer, the watchers
  and the end tasks go on.
* **Two parties end the same session**: the task `end_session` spawns (which
  first sleeps 100 ms) and the reclaimer, from a list taken earlier.
* **Calls fail on either side of their effect**: NewSession may be accepted and
  its answer lost; EndSession may time out before or after the server acted.
* **The process may end anywhere.**  Only the table survives; the next start
  marks every row it finds.
* **Liveness by chain**: ServerReady is announced once and is the only trigger
  of the tunnel; Disconnecting is left only by a transition of the tunnel.
* **Sign out is checked in one place and done in another.**  The daemon looks at
  its status and leaves the work to a spawned task and the device service, which
  gives up the token, deletes the device, makes another and removes the token
  in separate steps, while the daemon goes on handling commands.
* **Shutdown waits in a ring.**  The daemon leaves its loop, then waits for the
  gRPC server, which waits for calls that wait for the daemon.
* **Answers travel beside events.**  Connect answers Accepted and sends no
  event; a failed one sends a notification and answers; the CLI and the UI get
  both in any order.
* **A lock over a call**: the UI asks for locations with its state locked, and
  every event needs that lock.
* **Two threads report one state**: the Windows service's main and monitor.
* **Statements without a transaction**: each Connect adds its recent location
  with a delete, an insert and a prune, and tasks interleave.
* **Cancellation is cooperative** (Android): a coroutine that is cancelled after
  its last suspension still sends its answer and launches its watcher, in a
  scope the cancellation has already passed.
* **Messages carry no request** (Android): an answer or status is applied to
  whatever session the orchestrator is in.  **Marks know no session**: a failed
  end call and the start of either process mark every row.

Properties of each component: the storage never unmarks or revives a row;
end calls concern only sessions that were given up; a status shown belongs to a
session that is there; a session that lives on the server is not forgotten
unless the code knowingly gives up on it; a watcher is silent after a final
status; given-up rows disappear; Disconnecting and ServerReady are left; memory,
tables and server agree on the token in use and the device it stands for; a
stream that is open carries the current status last; calls are answered; the
connect command never waits for nothing; the service reports what is true; the
device service ends last; the list of recent locations is bounded and holds the
newest; the Android tunnel is the one shown.

## 2. The modules

| Module | Models |
|---|---|
| `VpnSessionStorage` | `vpn_session` rows and each query of `storage.rs` as an operator on the table |
| `DaemonState` | `VpnStatus` and the decisions taken on it (`state.rs`, parts of `daemon.rs` and `storage.rs`) |
| `VpnSessionService` | service actor, watchers, end calls, reclaimer; the VPN server (external) |
| `Tunnel` | the tunnel state machine (external) and `generate_parameter` |
| `Daemon` | the daemon's handlers, process life cycle, the composed specification, the properties |
| `SessionLedger` | abstract: what the table promises about sessions on the server |
| `Account` | device service, device and token tables, authentication layer, the daemon's guards on sign in, sign out and connect |
| `Controller` | calls, authentication layer, the daemon's queue as clients see it, broadcast of events, shutdown |
| `Clients` | CLI commands; the UI's state, commands and event forwarder |
| `SystemService` | the daemon as a Windows service |
| `RecentLocations` | the tasks of `add_recent`, statement by statement |
| `Android` | orchestrator, coroutines, watcher, end calls, reclaimer and table of the Android app |
| `MCDaemon`, `MCAccount`, `MCController`, `MCClients`, `MCService`, `MCRecentLocations`, `MCAndroid` | the instances TLC checks |
| `DaemonProofs` | proof of type correctness |
| `DaemonSafetyProofs` | the invariant of the bookkeeping and the safety theorems that rest on it |
| `DaemonStatusProofs` | what is heard of sessions, one session at a time, the tunnel goes down |
| `LedgerProofs` | proof that `Daemon` implements `SessionLedger` |
| `AccountProofs` | the inductive invariant of `Account` and its theorems |
| `ServiceProofs` | the invariants of `Controller`, `Clients` and `SystemService` and their theorems |
| `RecentProofs` | the table of recent locations |
| `AndroidProofs` | the inductive invariant of `Android` and its theorems |

Each module extends the one above it in the list up to `Daemon`, because they
share the table and the event queue.  `Account` stands beside them: it shares
with the daemon only whether a session is being set up or in progress, and it
keeps that much of it.  `Clients` extends `Controller` and `SystemService`
extends `Clients`.  `Controller` instantiates `DaemonState`, so a status means
the same in both, and keeps of the rest of the daemon only that an event may
lead to any status `Daemon` derives from one: the composition of every detail
would be out of TLC's reach, and what clients see depends on the order of
commands, events, answers and streams alone.  `RecentLocations` and `Android`
share no state with the others.

### State and actions against the code

* `table` is the SQLite table: a function from the request ids that have a row
  to `[loc, mark, uuid, ready, srv]`.  `mark` is `mark_for_deletion`; `uuid`
  and `ready` say whether the server's id and the server's address and key are
  stored.  The code uses no transactions.  Each statement is atomic, and a
  query that reads a row and then writes it is one step in the model: only the
  daemon's handlers do that, one at a time and on unmarked rows, and what the
  other tasks delete meanwhile is marked (`EndsOnlyGivenUp`).  Queries that take
  "one" row without an order (`tunnel_state_transition`, `end_session`,
  `generate_parameter`) choose any row that matches.
* `events` is the daemon's queue of statuses and transitions.  Commands of
  clients are not queued: a command carries no state, so handling one between
  two events equals its having been queued there.  Every order of commands and
  events is reached, and clients are never assumed to act.
* `newCall` is the NewSession call the daemon and the service actor both wait
  in; `Ready` (no such call) guards every other handler of the daemon, and
  `ServiceFree` every other command of the service.
* `watcher[r]` has a phase (`idle`, `polled` between the server's answer and
  its delivery, `gone`), the stop signal, and the last status; `select!` may
  take a due tick although the stop signal is ready, and a poll under way is
  not cancelled.
* `endCall[caller][r]` is `queued` in the daemon's sleeping task or in the
  reclaimer's list, `applied` when the server has ended the session and the
  answer is due.  The service takes the command and the call of its task is
  made in one step: between them nothing but this task depends on it.
* `server[r]` is the session as the server has it (external): accepted,
  provisioned through `Stages`, ready, connected, over.
* `lost` is a history variable: requests whose answer was lost or which the
  reclaimer gave up on.  No action reads it.
* `tun`, `tcmd` are the tunnel's state and its command queue.  The peer is the
  row the parameters were read from.
* `mode` is the life of the process: a panic of the daemon task makes `main`
  return (`Exit`); `Crash` is anything that ends the process; `Restart` is
  `create_daemon`, with `reclaim` before any actor runs.

Of `Account`:

* `device` is the row of the device table, `tokens` the token table in the order
  of its primary key, `mem` the token the device service keeps.  `get_token`
  takes one row without an order; SQLite scans a table by its integer primary
  key, so it is the oldest.
* A call is in `auth` while the authentication layer waits for the device
  service, in `command` on its way to the daemon, in `task` in the task the
  daemon spawned, in `service` from then until the answer.  `IsAuthenticated`,
  sign in and sign out queue at the device service (`queue`), which handles one
  at a time (`work`), with a step for every call of the server and every
  statement of the database.
* `owner` and `honoured` are the server's: to which device a token was issued,
  and whether it is accepted.
* `failed` holds the steps of sign in and sign out whose statement has failed
  (`StorageFails`), until a later step makes good what was left: the command ends
  with the error, and what earlier statements wrote stays.  Two errors are not
  answered: an `init` that fails in `reinitialize`, after which sign out goes on
  without a device, and a token that cannot be read, for which sign out calls the
  server with none (`token`).  The properties name the steps they except.
* `session` is `calling` while the daemon awaits NewSession, `granted` when the
  server has accepted the token, `session` while the status shows a session;
  `dev` is the device id it was requested for.
* A panic of the daemon leaves the other tasks running until `main` returns.  A
  shutdown ends the process between two commands of the device service, and is
  one of the ends `ProcessEnds` has.

Of `Controller`:

* `dm` is what the daemon task is doing: `new` before it runs, `run`, `connect`
  while it awaits NewSession, then the stages of `handle_shutdown`.  `queue` is
  `daemon_receiver`, commands and events in one order.
* `call[c]` is in `auth` in the authentication layer, `sent` in the queue or in
  the handler, `task` in a task the daemon spawned, then `answered`.
  `watch_events` is answered by opening `stream[c]` and adding `c` to `subs`.
* `grpc` is `open`, `draining` after the signal, `closed` when no call is
  unanswered and no stream has a sender (`InFlight`).
* `sd` is the signal and whether Shutdown is queued; `devUp` the device service.

Of `Clients`: `pc[c]` is where a CLI process is; `fwd[f]` a run of the event
forwarder (`stopping`: its handler is dropped and its loop not yet aborted) and
`handler` the current one; `app` is the status the UI shows, `setBy` (history)
who set it; `locs` whether locations are known.  The lock is held exactly while
a `locations` command is under way (`LockHeld`).

Of `SystemService`: `main` is `handle_service_main`: `creating` in `create_daemon`,
in which the gRPC server is started before the last things that can fail; `failed`
when one of these did, with the server up and the daemon's queue dropped
(`CommandNotSent`); `running`; `leaving` from the report of Stopped to the return,
which drops the runtime and all that runs on it (`RuntimeDropped`).  `reported` is the
state last given to the service control manager, `controls` the monitor's channel,
`monitor` the gap between its report and its message, `asked` that message.

Of `RecentLocations`: `code` the location of every id ever inserted, `rows` the
ids in the table, `task` the next statement of each task; `skipped`, `lost` and
`doubled` are history and say which exceptions the properties need.

Of `Android`:

* `st` is `vpnOrchestratorState` with the request it stands for; `msgs` the main
  looper's messages from coroutines.  Requests of the user are not queued, as in
  `Daemon`.
* `turn` is the handler the main thread is in, how far it is and what it has in
  hand.  `onConnect`, `onConnectResponse` and `onVpnSessionUpdate` with `turnOnVPN`
  take no lock, and `onRevoke` may be called on another thread: each of their
  accesses to the state is a step, and `onRevoke` runs between any two of them.
  `revoke` is how far that thread is and `plan` what it has read that it has to do;
  its read and its write of the state are two steps as well.  The lock orders it
  with `onDisconnect` and with the callbacks that send messages.
* `co[r]` is the coroutine of `newVpnSession`, `watch[r]` the watcher.
  `insert`, `call`, `update`, `delete` are suspensions, at which a cancelled
  coroutine ends (its statement executed or not); `respond`, `launch`, `fail`,
  and `polled` of a watcher, are stretches that run to the next suspension.
* `end[c][r]` is an end call, `row` whether it found the row.  A caller has at
  most one call for a request at a time: a round of the reclaimer that finds the
  call of the round before still under way does not add another.
* `marked` is the text `'true'` that `markAllForDeletion` writes; the update of a
  row writes back the value it was made with, and so unmarks it.
* `old` holds the requests of orchestrators that were destroyed; what their
  coroutines send is not heard.  `flying` are requests on their way, which the
  server may get after the client has given up.
* `odd` is history: `mixed`, `raced`, `swept` (see below).  No action reads it.

An action stands for a whole handler, with the queries, tunnel commands and
spawned tasks it leads to.  In `Daemon` answers to clients, event broadcasts and
logs are functions of the new state and are left out; `Controller` has them.

## 3. The runs

| Run | Instance | Shows |
|---|---|---|
| `safety` | 2 requests, 1 fault, symmetry | `TypeOK`; `EndsOnlyGivenUp`, `SessionUuidKnown`, `NoOrphan`, `FinalStatusIsLast`; `StatusHasSession`: the status shown is that of an unmarked row, with its location, and ServerReady only with the peer stored; `DisconnectTakesTunnelDown`: with one session and no fault, no session and nothing to handle means the tunnel is down or closing; `OneSession`: up to the second request, no two sessions at once |
| `cleanup` | 1 request, 3 faults, both stages, fair | `Daemon` implements `SessionLedger`: rows are marked once, never unmarked, never return, and are deleted silently only when their session is over or in `lost`; given-up rows with a uuid disappear; ServerReady is acted upon; Disconnecting is left |
| `account` | 4 calls, 3 devices, 3 tokens, 2 ends of the process, symmetry | `TypeOK` of `Account`; `MemIsStored`: who is authenticated is decided by the token that calls use; `TokenOfDevice`: a stored token the server honours stands for the device in the table; `SignedInHasAddress`: up to the first end of the process, signed in means an address for the tunnel; `DeviceInitialized`: the device row is missing only while sign out replaces it; all of them with any statement of sign in and sign out failing |
| `ui` | 1 command at a time, 2 runs of the forwarder, 3 calls, 1 event, fair | `StreamCurrent`: an open stream is served and carries the current status last; `AppShowsStatus`: so does what the UI shows from it; `EventsShown`: events are taken although locations holds the lock over its call |
| `service` | a CLI process, a UI command, 1 call, 1 event, 2 controls, fair | `STypeOK`; `CallsAnswered`; `CliWaitsForSession` and `CliFreedByShutdown`: the connect command waits only for a session in progress, and not for ever when the daemon stops; `RunningMeansNotStopping`, `StoppedMeansEnded`: reports are true, Stopped of a daemon that ended with its gRPC server closed, or was never run; `DeviceStopsLast`; `StopEnds`: a Stop ends the service once the clients have left |
| `locations` | 3 codes, 3 tasks, limit 2, 5 rows, 1 fault, symmetry | `TypeOK`; `BoundedRows`; `NewestListed`; `LatestListed`: without faults and without two inserts of one location at once, the table is the reference list |
| `android` | 2 requests, 1 failed end call, symmetry | `EndsNotInUse`: no end call is about the session in use; `TunnelAsShown`: the tunnel is up for the session shown as Connected, and only then; both with late messages, cancelled coroutines and end calls of the other request |
| `androidlive` | 1 request, 2 faults of any kind, stage ServerRunning, fair | `TypeOK`; `SessionTracked`: what lives on the server has a row, whatever was cancelled when; `EndsNotInUse` and `TunnelAsShown` through revocations between any two steps of a handler, lost answers, failures to turn on the tunnel, restarts and starts of the activity; `MarkedIsReclaimed`; `ReadyIsConnected` |

Four runs show where the code does not do what its own comment, message or
assertion says; each is a finding in `PROJECT.json`, with the line quoted:

| Run | What TLC finds |
|---|---|
| `panic` | Disconnect handled while a Connecting transition is queued: that transition resets the status, and the Disconnecting transition after it hits `panic!` in `tunnel_state_transition` |
| `reclaim` | the process ends after the server accepted and before the uuid is stored: the row is marked, but `to_reclaim` never lists it |
| `signout` | sign out passes its guard, a Connect is handled before the spawned task is served, and the device of the accepted session is replaced |
| `shutdown` | a command queued behind Shutdown is never answered or dropped, or a stream is opened after the subscribers were cleared: the gRPC server waits for it, and `handle_shutdown` for the server |

Where a property has an exception, the exception is needed; TLC finds it at once
when the exception is taken out:

* `OneSession` stops at the second request: a late transition of the first
  session's tunnel resets the status of the second, and a third is let in.
* `DisconnectTakesTunnelDown` stops at a fault or a second session: Disconnect
  while the tunnel reconnects by itself sends no command and the tunnel stays up.
* `StatusHasSession` does not say that the session of a Connecting or Connected
  status is ready: an old tunnel's transition may be applied to a new session the
  server has only accepted.
* `DeviceInitialized` leaves out sign out's re-initialisation, in which a Connect
  that passed the authentication layer unwraps a device that is not there, and what
  follows an `init` that failed in it, until a sign in or a start makes the row.
* `MemIsStored` leaves out what follows a sign in that failed when its token was in
  the table already (`device/handler.rs`, lines 172-183), `TokenOfDevice` a sign out
  that could not read its token, `SignedInHasAddress` one that could not remove it.
* `StoppedMeansEnded` lets the gRPC server be up when Stopped is reported of a daemon
  that could not be created: the server is started at `lib.rs`, line 89, and the
  failures at lines 103 and 165 leave it to the runtime, which goes when
  `handle_service_main` returns, after the report.
* `AppShowsStatus` is about events: a `get_vpn_status` answer read before an
  event and delivered after it overwrites the newer status until the next event.
* `StopEnds` needs the clients to leave (`shutdown`).
* In `Android`, `mixed`: an answer of a request given up is applied to the next
  one, for instance when its coroutine was past its last suspension at the
  disconnect; then the state is that of a session being ended, or a Failed of the
  old session shows Disconnected with the new tunnel up.  `raced`: `onRevoke`
  gives up a session in the middle of a handler of the main thread, which then
  writes its state over Disconnected: Accepted, or any later state up to Connected,
  may be shown of a session that is being ended, without a watcher; or the coroutine
  of a request is launched after the call that ends it.
  `swept`: a failed end call, or the start of the activity's process, marks the
  row of the session in use, and a running reclaimer ends it.

### Bounds and why they are enough

Request ids are fresh UUIDs and every one is used at most once, so `ReqId`
bounds how many sessions a behaviour has.  Two are needed, and enough, for
every interaction between an old session and a new one but the exception of
`OneSession`.  `MaxFaults` bounds failures together: lost answers, failed end calls,
sessions failing on the server, tunnel failures, crashes and shutdowns.  A
NewSession the server never saw costs nothing.  One fault with two sessions
covers each kind at every point; three with one session cover combinations (a
crash after a failed end after a failed tunnel).  `Stages` adds the optional
provisioning statuses; the order and number of statuses matter for the
single-session runs only.  Queues are not bounded: their length
follows from the bounds above.  Symmetry is used only in runs of invariants, over
requests.

In `Account` a call is made once, so `Call` bounds the commands of a behaviour:
three make the races of sign in, sign out and connect, four repeat one of them.
`MaxEnds` bounds ends of the process, `Device` and `Token` the ids generated.
Failures of statements need no bound, as a call meets few.
The calls are finite in number and nothing has to follow them, so deadlock is
not checked in the runs of `Account`.  In those of `Daemon` it is.

In `Controller` and its extensions `MaxCalls` bounds the calls of clients that
may call for ever (a CLI process makes few by itself), `MaxEvents` the events of
watchers and tunnel, `Milestones` the statuses those lead to besides
Disconnected: one that is not final (Connecting) makes the CLI's loop depend on
what follows, one that is final for it (Connected) is enough for the UI.
`UiCalls` says which commands the UI gives: all in `ui`, Disconnect in `service`,
where the UI stands for another client that ends the CLI's session.  Two runs of
the forwarder make the overlap of an old and a new one.  `MaxControls` of two is
a Stop while another is handled.  Calls and clients end, so deadlock is not
checked.

In `RecentLocations` three tasks and a limit of two let prunes meet rows of two
other tasks; two is also `RECENT_LIMIT` in the code.  `MaxRows` bounds inserts.

In `Android` two requests are needed for `mixed`, with one failed end call, the
fault that concerns both (`Kinds` says which faults happen); every other fault
concerns one session and is in `androidlive`, two of any kinds in any order: a
revocation in the middle of a handler and the end call it leads to failing, or a
restart or a start of the activity between them, is what could keep a session from
being connected or reclaimed.

### Fairness

`HandlersFairSpec` assumes: handlers run when they can (tokio tasks); a
NewSession call returns or fails (the channel has a 60 s timeout and 9 s of
connect backoff); the tunnel handles its commands and finishes closing; a
process that ended is started again (`Restart=always` in the systemd unit
`modvpn-packages/linux/unit-scripts/modvpn-daemon.service`).  `FairSpec` adds:
the reclaimer's timer ticks, and every end call returns or fails.  Nothing is
assumed of clients, of watchers, of the server's provisioning or of the tunnel
getting connected.  Weak fairness suffices: each of these steps stays enabled
until it or an alternative is taken, except while a call is in progress, which
is itself fair to end.

`FairSpec` of `Controller`, `CFairSpec` and `SFairSpec` assume that the tasks of
the daemon run, that a call in the authentication layer or in a spawned task
returns or times out, that the task of `register_shutdown` and the gRPC server
act on the signal; that the CLI's loop takes what comes; that the forwarder and
the UI's commands get the lock when it is free (tokio's mutex is fair); and that
the two threads of the Windows service run, so that `handle_service_main` returns after
its report.  Nothing is assumed of users,
signals, the service control manager or events.

`FairSpec` of `Android`: the main thread, the thread of `onRevoke`, coroutines
and the reclaimer run, and calls of the server return or fail.  Nothing is
assumed of the user, the permission or the server's provisioning; that status
polls succeed in the end is.

## 4. What is proved

Every invariant that a run checks is also a theorem, for every value of the
constants that satisfies the assumptions below: any sets of requests, locations,
clients, tasks, calls, devices and tokens, and any bounds on calls, events, faults
and ends of the process.  So is the refinement.

| Theorem | States | of |
|---|---|---|
| `TypeCorrect` | `Spec => []TypeOK` | `Daemon` |
| `NeverEndsInUse` | `Spec => []EndsOnlyGivenUp` | |
| `UuidUnwrapSafe` | `Spec => []SessionUuidKnown` | |
| `StatusBacked` | `Spec => []StatusHasSession` | |
| `NothingForgotten` | `Spec => []NoOrphan` | |
| `NothingAfterFinal` | `Spec => []FinalStatusIsLast` | |
| `OneSessionAtATime` | `Spec => []OneSession` | |
| `GivingUpDisconnects` | `Spec => []DisconnectTakesTunnelDown` | |
| `DaemonImplementsLedger` | `Spec => ImplementsLedger` | |
| `AccountTypeCorrect` | `Spec => []TypeOK` | `Account` |
| `AuthenticatedByStoredToken` | `Spec => []MemIsStored` | |
| `TokenStandsForDevice` | `Spec => []TokenOfDevice` | |
| `DeviceIsThere` | `Spec => []DeviceInitialized` | |
| `DeviceHasAddress` | `Spec => []SignedInHasAddress` | |
| `StreamsAreCurrent` | `CSpec => []StreamCurrent` | `Clients` |
| `ApplicationIsCurrent` | `CSpec => []AppShowsStatus` | |
| `ServiceTypeCorrect` | `SSpec => []STypeOK` | `SystemService` |
| `RunningIsTrue` | `SSpec => []RunningMeansNotStopping` | |
| `StoppedIsTrue` | `SSpec => []StoppedMeansEnded` | |
| `CliDoesNotHang` | `SSpec => []CliWaitsForSession` | |
| `DeviceEndsLast` | `SSpec => []DeviceStopsLast` | |
| `RecentTypeCorrect` | `Spec => []TypeOK` | `RecentLocations` |
| `RecentBounded` | `Spec => []BoundedRows` | |
| `RecentNewest` | `Spec => []NewestListed` | |
| `RecentIsReference` | `Spec => []LatestListed` | |
| `AndroidTypeCorrect` | `Spec => []TypeOK` | `Android` |
| `AndroidTracksSessions` | `Spec => []SessionTracked` | |
| `AndroidSparesSessionInUse` | `Spec => []EndsNotInUse` | |
| `AndroidTunnelIsShown` | `Spec => []TunnelAsShown` | |

### The arguments

Almost none of these invariants is inductive alone; each proof module states the
invariant that is, and proves it one action at a time.

**The bookkeeping.**  `Bookkeeping` (`DaemonSafetyProofs`, theorem
`BookkeepingHolds`) conjoins the four safety invariants of the table with what they
need:

* `UsedFirst`: rows, sessions and end calls exist only for requests already
  used, so a new row meets no old end call;
* `CallHasRow`: while NewSession is awaited its row is there unmarked, with the
  location asked for, nothing is shown, and the server has not heard of it
  before the call reaches it;
* `OnlyAwaitedLacksUuid`: in a running process the only unmarked row without
  uuid is the awaited one.  A process that dies leaves such a row; the next
  start marks it before any handler runs;
* `EndedOnServer`: an end call about to return has ended its session;
* `EventsTrue`, `WatchersTrue`: a Failed or Ended on its way to the daemon is
  true of the server, so deleting the row on it forgets nothing live;
* `DownShowsNothing`: the status of a process that is not running is
  Disconnected.

The argument: end calls and the reclaimer's list are made of marked rows only
(`EndSessionRows`, the definition of `ToReclaim`), nothing unmarks a row, and a
request is used once; hence what the end tasks delete is never the row of the
status shown or of the awaited call.  `LedgerProofs` uses the same invariant to
show that each step is a ledger step or a stutter: Connect opens, the server
accepts or closes, `end_session` and the start give up, deletions forget a
session that is over or abandon one in `lost`.

**Statuses and the tunnel of the daemon** (`DaemonStatusProofs`).  `Heard` says that
a final status in the queue is the last of its session and its watcher gone
(`LastHeard`), that of a row that is ready nothing is left to hear (`ReadyHeard`), and
that nothing is heard of a request before its answer Accepted or while the process is
down (`Fresh`).  With only one request made (`Single`), `FirstSession` says that while
its session is in use nothing that would reset the status is on its way: no Disconnect
to the tunnel, no Disconnected from it, and a tunnel that is closing will not stay
closed.  Hence Connect is refused beside it, and `OneSession` follows for the second
request; for the third `FirstSession` is false, and so is the property.
`FirstTunnel` follows the tunnel of the first session without faults (untouched until
ServerReady, which comes once by `Heard`; then told to connect, once), and `GoingDown`
is what holds after the session was given up: a Disconnect is the last command, or the
tunnel is down, closing, or in Error with the transition queued whose handler will
send one.  `Untouched` covers the time before the first request and between processes.

**The account.**  In `AccountProofs` not even the type invariant is inductive alone: storing the
address keeps the device's type only if sign in works on a device that is there
(`SignInHasDevice`), and the tasks send commands the service knows only because
no other call gets a task (`TaskOps`).  `AccountInv` adds: the token being saved
belongs to the device (`NewTokenOwned`); the tokens in the table were issued, so
none is issued again (`StoredOwned`); past its call, sign out holds a token the
server no longer honours (`GivenUpFirst`), so the device may be replaced;
memory follows the table except between the statements that save a token, and after
one of these failed (`MemFollows`); a process that is down does no work (`DownIdle`).
What a failed statement leaves behind is in `failed` until a step makes it good.
`Addressed` adds, for the device and its address, that the address is kept until sign
out deletes the device (`KeepsAddress`), also by a sign out that fails before, and that
before the first start nothing is stored (`NothingStored`).

**Clients** (`ServiceProofs`).  `ControllerInv` holds of the daemon as its clients see
it, whatever they do (`ClientMove`): a command in the queue is that of a call waiting
for it, and the one being handled is at its head (`QueueInv`); a closed server has no
call under way (`ClosedIsIdle`) and is closed before the device service ends
(`EndsInOrder`); the streams (`StreamsKept`, `Served`).  `ClientsInv` adds the clients:
where a CLI process is says what its call does (`CliPhases`); from the answer to
Connect on, before the CLI has read it, an empty stream means a session in progress
(`CliHears`); the UI shows the current status whenever the forwarder's stream holds
notifications only (`FwdHeard`).  `ServiceInv` adds the order of the two threads
(`ServiceOrder`).  A service whose daemon could not be created keeps `ControllerInv`
with the daemon `new` while it is `failed` and `leaving`: a command refused and a
queue dropped are answers.  Once the runtime is gone calls are cut off wherever they
are (`Abandoned`), and what is needed then is proved apart.

**Recent locations** (`RecentProofs`).  A prune keeps the `RecentLimit` newest rows:
that these are at most so many, and all of the rest have that many above them, is
proved from the theorems on finite sets (`TopAtMost`, with least elements by
well-foundedness).  `MissingExplained` is the heart of `LatestListed`: a last row that
is not in the table is about to be inserted again, or enough locations are newer, and
stay so because a row inserted again is newer still.

**Android** (`AndroidProofs`).  `AndroidInv`: how far the coroutine of a request is
says what the server has seen of it (`Requests`), watchers and end calls act on what is
true of the server (`Watches`, `Applied`), so `SessionTracked` is kept by every
deletion, wherever `onRevoke` meets a handler; requests are used once (`UsedInv`), and a
request without coroutine is the one in `onConnect`'s hand (`News`).  Handlers and
`onRevoke` overlap only where `raced` says so, and else each finds the state as it left
it (`Locks`, `Finds`): a revocation in the middle of a handler is not `raced` only if
it found Disconnected and did nothing, and one that began between two handlers keeps
the main thread from starting another, as it has removed the messages, none can be
sent before it ends, and `onConnect` wants Disconnected.  So what `onRevoke` has read is
still true when it writes (`plan` in `Locks`).  Sessions in use are neither marked nor
being ended, and a handler is to write no other (`Spared`); after ServerReady no message
of the session comes, neither in the queue nor in a handler's hand (`ReadyLast`,
`Quiet`), so nothing but the user or a revocation moves the state away from the tunnel
that is up (`Tunnel`).

### Assumptions

Named in the modules that declare the constants, and evaluated by TLC in the runs:
`ServiceAssumption`, `NoLocAssumption`, `AccountAssumption`, `ControllerAssumption`,
`AndroidAssumption`, `ServiceControlAssumption` (absent values are not requests,
locations, calls, devices, tokens or clients; bounds are natural numbers; `Stages`,
`Kinds` and `Milestones` are statuses and faults that exist); `ClientsAssumption`
(the clients are CLI processes, commands of the UI and forwarders, and nothing is two
of these); `RecentAssumption` (the limit is positive, the set of tasks finite: each
Connect spawns one).

### Only model-checked

The liveness properties, because liveness under fairness is out of the prover's reach:
`GivenUpIsDeleted`, `ServerReadyMovesOn`, `DisconnectingEnds`, `EventsShown`,
`CallsAnswered`, `CliFreedByShutdown`, `StopEnds`, `MarkedIsReclaimed` and
`ReadyIsConnected`.

## 5. Not modelled

* Storage errors of the daemon and of the reclaimer; those of sign in and sign out are
  in `Account`.  The code has three ways with them: `expect` makes them fatal where a
  status or a transition is handled (`daemon/daemon.rs`, lines 311 and 352); Connect and
  Disconnect return them to the client wherever they are, for instance after the server
  has accepted and before the row has its uuid (lines 446-479 and 524); the spawned
  tasks and the reclaimer log them or pass over them.  Errors at the start keep the
  process from coming up.
* Of the UI: windows, the tray's menu (made from the state), `get_account_info`
  (`todo!()` in the daemon).  Of the CLI: prompts and printing.
* Of the start-up: the check for a second instance (`daemon/lib.rs`, line 59) and
  the socket file; between the check and the removal of the file another instance
  may start, which needs two processes and their file system.
* Of the Windows service: checkpoints and wait hints.  The monitor may report
  StopPending after the main thread has reported Stopped; the code orders them by
  nothing, and no property is stated.  The comment on Preshutdown says traffic
  stays blocked; the code does the same as for Stop.
* The choice of one of two rows with the same code in `recent` (GROUP BY) when
  two tasks of one location have both inserted: `LatestListed` stops there.
* A connect command of the CLI ends at the first Disconnected it reads, which may
  belong to an earlier session; it then says less than it could, and the session
  goes on.
* Of the Android app: sign in and out (`VPNRepository`, on the activity's side),
  recent locations, listeners and the activity's view of the state, which are
  functions of the events sent; that the device row is there is assumed, as `init`
  makes it in each process.  What a stop of the service by itself leads to is
  `ServiceRecreated`.
* After the first end of the process a device may be signed in without an
  address (the process ended between storing the token and storing the
  address); the code promises nothing there, and `SignedInHasAddress` stops.
* `get_device_unique_id` is called in two spawned tasks too (ending a session,
  ClientConnected); a panic there ends that task alone and is not modelled.
* The call `modvpn _entity::...` in `token_storage.rs` (lines 34-37) is split by
  blanks; it is read as `modvpn_entity::...`.
* Names such as `modvpn _config` are read without the blank, too.
* Conversions between protobuf and Rust types: one to one.
* Configuration, logging, packaging, macOS helpers: no state of their own.

## 6. Plan

1. Action properties of the daemon as theorems: what one handler may never do to the
   sessions of other requests.
2. A statement of `OneSession` for any number of requests, with the late transitions
   that break it named as exceptions, as in `Android`.
