------------------------------- MODULE Daemon -------------------------------
(***************************************************************************)
(* The daemon actor of daemon.rs composed with the VPN session service and *)
(* the tunnel.  The daemon takes one event at a time from an unbounded     *)
(* FIFO queue and runs its handler to the end; the only handler that waits *)
(* for another actor is Connect, which awaits the NewSession call.  Events *)
(* from watchers and the tunnel are queued in events.  A client's command  *)
(* carries no state of its own, so it is not queued: handling one between  *)
(* two events is the same as its having been queued between them.          *)
(*                                                                         *)
(* Outputs (answers to clients, the broadcast that follows each change of  *)
(* status, logging) are functions of the state and are left out.           *)
(***************************************************************************)
EXTENDS Tunnel

VARIABLES
  mode,       \* the daemon task and its process
  status,     \* state.vpn_status
  notes,      \* ids of state.notifications
  used        \* request ids generated so far

daemonVars == <<mode, status, notes, used>>
svc == <<server, svcUp, newCall, watcher, endCall, connTask, lost>>
tunnel == <<tun, tcmd>>
vars == <<mode, status, notes, used, table, events, server, svcUp, newCall,
          watcher, endCall, connTask, lost, tun, tcmd, faults>>

Mode == {"Running", "Panicked", "JoinTunnel", "Stopped", "Down"}

\* Keys of the notification map: "new" is the bare request id of a failed
\* NewSession, "ce" a client error, and there is one key "unknown".
Note == {"new", "failed", "ce"} \X ReqId
Unknown == <<"unknown", NoReq>>

Event == [req : ReqId, st : VpnSessionStatus]
           \cup [req : {NoReq}, st : Transition]

Init ==
  /\ mode = "Running" /\ status = Disconnected /\ notes = {} /\ used = {}
  /\ table = EmptyTable /\ events = <<>>
  /\ server = [r \in ReqId |-> "None"]
  /\ svcUp = TRUE /\ newCall = Idle
  /\ watcher = [r \in ReqId |-> NoWatcher]
  /\ endCall = [c \in Caller |-> [r \in ReqId |-> "none"]]
  /\ connTask = {} /\ lost = {}
  /\ tun = TunnelDown /\ tcmd = <<>> /\ faults = 0

\* The actor is alive and not waiting for NewSession.
Ready == mode = "Running" /\ newCall.ph = "idle"

-----------------------------------------------------------------------------
\* Connect

\* on_connect_inner up to its await; a client is refused (no change of
\* state) while a session is in progress.
OnConnect(r, l) ==
  /\ Ready
  /\ ~VpnSessionInProgress(status)
  /\ r \notin used
  /\ used' = used \cup {r}
  /\ table' = NewSession(table, r, l)
  /\ CallNewSession(r, l)
  /\ UNCHANGED <<mode, status, notes, events, server, svcUp, watcher,
                 endCall, connTask, lost, faults, tunnel>>

\* The answer Accepted: the service has started a watcher, the daemon
\* updates the row and its status.
OnConnectAccepted ==
  /\ mode = "Running" /\ newCall.ph = "applied"
  /\ newCall' = Idle
  /\ StartWatcher(newCall.req)
  /\ table' = UpdateOnAccepted(table, newCall.req)
  /\ status' = [st |-> "Accepted", loc |-> newCall.loc]
  /\ UNCHANGED <<mode, notes, used, events, server, svcUp, endCall,
                 connTask, lost, faults, tunnel>>

\* An error instead, whether or not the server has accepted the session.
OnConnectFailed ==
  /\ mode = "Running"
  /\ \/ newCall.ph = "calling" /\ UNCHANGED <<faults, lost>>
     \/ /\ newCall.ph = "applied"
        /\ Fault
        /\ lost' = lost \cup {newCall.req}
  /\ newCall' = Idle
  /\ table' = Delete(table, newCall.req)
  /\ notes' = notes \cup {<<"new", newCall.req>>}
  /\ UNCHANGED <<mode, status, used, events, server, svcUp, watcher, endCall,
                 connTask, tunnel>>

-----------------------------------------------------------------------------
\* Disconnect

\* end_session of row r: the row is marked and, if the server's id of the
\* session is known, a task is left to end it on the server.
EndRow(r) ==
  /\ table' = EndSession(table, r)
  /\ endCall' = IF table[r].uuid
                  THEN [endCall EXCEPT !["daemon"][r] = "queued"]
                  ELSE endCall

EndSomeRow ==
  IF Unmarked(table) = {} THEN UNCHANGED <<table, endCall>>
  ELSE \E r \in Unmarked(table) : EndRow(r)

OnDisconnectInner ==
  /\ tcmd' = tcmd \o TunnelCommandOnDisconnect(status)
  /\ EndSomeRow
  /\ status' = UpdateStateOnDisconnect(status)

OnDisconnect ==
  /\ Ready
  /\ OnDisconnectInner
  /\ UNCHANGED <<mode, notes, used, events, server, svcUp, newCall,
                 watcher, connTask, lost, tun, faults>>

-----------------------------------------------------------------------------
\* A status from a watcher

\* handle_vpn_session_status: dropped unless its own row is there unmarked.
HandleVpnSessionStatus ==
  /\ Ready /\ events # <<>> /\ Head(events).req # NoReq
  /\ events' = Tail(events)
  /\ LET r == Head(events).req
         s == Head(events).st
         found == r \in Unmarked(table)
     IN /\ table' = UpdatedServerStatus(table, r, s)
        /\ status' = IF found THEN StatusFromServer(status, s, table[r].loc)
                              ELSE status
        /\ notes' = IF found /\ s = "Failed"
                      THEN notes \cup {<<"failed", r>>} ELSE notes
        /\ tcmd' = IF found THEN tcmd \o TunnelCommandOnStatus(s) ELSE tcmd
  /\ UNCHANGED <<mode, used, svc, tun, faults>>

-----------------------------------------------------------------------------
\* A transition of the tunnel

IsTransition ==
  Ready /\ events # <<>> /\ Head(events).req = NoReq

\* An unmarked row r is found, whichever session the transition is of.
TransitionWithSession(r) ==
  LET tr == Head(events).st
  IN /\ IsTransition
     /\ r \in Unmarked(table)
     /\ events' = Tail(events)
     /\ status' = StatusFromTunnel(tr, table[r].loc)
     /\ IF tr = "Error"
          THEN /\ EndRow(r)
               /\ tcmd' = Append(tcmd, "Disconnect")
               /\ notes' = notes \cup {<<"ce", r>>}
          ELSE /\ table' = IF tr = "Connected"
                             THEN StoreServerStatus(table, r, "ClientConnected")
                             ELSE table
               /\ UNCHANGED <<endCall, tcmd, notes>>
     /\ connTask' = IF tr = "Connected" THEN connTask \cup {r} ELSE connTask
     /\ UNCHANGED <<mode, used, server, svcUp, newCall, watcher,
                    lost, tun, faults>>

\* No unmarked row.  In Disconnecting that is expected only of a daemon
\* that is disconnecting; otherwise the handler panics.
TransitionWithoutSession ==
  LET tr == Head(events).st
      panics == tr = "Disconnecting" /\ status.st # "Disconnecting"
  IN /\ IsTransition
     /\ Unmarked(table) = {}
     /\ events' = Tail(events)
     /\ mode' = IF panics THEN "Panicked" ELSE mode
     /\ status' = IF tr = "Disconnecting" THEN status ELSE Disconnected
     /\ tcmd' = IF tr = "Error" THEN Append(tcmd, "Disconnect") ELSE tcmd
     /\ notes' = IF tr = "Error" THEN notes \cup {Unknown} ELSE notes
     /\ UNCHANGED <<used, table, svc, tun, faults>>

HandleTunnelStateTransition ==
  TransitionWithoutSession \/ \E r \in ReqId : TransitionWithSession(r)

-----------------------------------------------------------------------------
\* The remaining commands that change state, shutdown, crash and restart

OnAckNotification(n) ==
  /\ Ready /\ n \in notes
  /\ notes' = notes \ {n}
  /\ UNCHANGED <<mode, status, used, table, events, svc, faults, tunnel>>

\* handle_shutdown: disconnect, wait for the tunnel, stop the service.
OnShutdown ==
  /\ Ready /\ Fault
  /\ mode' = "JoinTunnel"
  /\ OnDisconnectInner
  /\ UNCHANGED <<notes, used, events, server, svcUp, newCall, watcher,
                 connTask, lost, tun>>

TunnelJoined ==
  /\ mode = "JoinTunnel"
  /\ mode' = "Stopped"
  /\ tun' = TunnelDown /\ tcmd' = <<>> /\ events' = <<>>
  /\ StopService
  /\ UNCHANGED <<status, notes, used, table, server, newCall, endCall,
                 connTask, lost, faults>>

\* The process ends, and with it every task and everything in memory.
Die ==
  /\ mode' = "Down"
  /\ status' = Disconnected /\ notes' = {} /\ events' = <<>>
  /\ svcUp' = FALSE /\ newCall' = Idle /\ connTask' = {}
  /\ watcher' = [r \in ReqId |-> NoWatcher]
  /\ endCall' = [c \in Caller |-> [r \in ReqId |-> "none"]]
  /\ tun' = TunnelDown /\ tcmd' = <<>>
  /\ UNCHANGED <<used, table, server, lost>>

\* main returns: after a shutdown, or because the daemon task panicked.
Exit == mode \in {"Stopped", "Panicked"} /\ Die /\ UNCHANGED faults

Crash ==
  /\ mode \in {"Running", "JoinTunnel"} /\ Fault
  /\ Die

\* create_daemon: every row left over is marked before anything else runs.
Restart ==
  /\ mode = "Down"
  /\ mode' = "Running"
  /\ svcUp' = TRUE
  /\ table' = Reclaim(table)
  /\ UNCHANGED <<status, notes, used, events, server, newCall, watcher,
                 endCall, connTask, lost, faults, tunnel>>

-----------------------------------------------------------------------------
\* Steps of the other actors

\* The reclaimer stops taking new rounds with the shutdown signal.
ReclaimRound == mode = "Running" /\ ReclaimTick

ServiceStep(r) ==
  \/ WatchPoll(r) \/ WatchDeliver(r) \/ WatchStopped(r)
  \/ ClientConnected(r) \/ ClientConnectedServiceDown(r)
  \/ ServerProgress(r) \/ ServerFailure(r)

EndStep(c, r) ==
  \/ EndApplied(c, r) \/ EndReturned(c, r)
  \/ EndServiceDown(c, r)
  \/ EndConnectionError(c, r) \/ EndServerError(c, r)

ServiceNext ==
  /\ \/ NewSessionApplied \/ ReclaimRound
     \/ \E r \in ReqId : ServiceStep(r) \/ \E c \in Caller : EndStep(c, r)
  /\ UNCHANGED <<daemonVars, tunnel>>

\* A tunnel being joined is taken down by TunnelJoined.
TunnelFrame ==
  mode \in {"Running", "Panicked"} /\ UNCHANGED <<daemonVars, svc>>

TunnelSteps == TunnelNext /\ TunnelFrame

DaemonNext ==
  \/ \E r \in ReqId, l \in Location : OnConnect(r, l)
  \/ OnConnectAccepted \/ OnConnectFailed \/ OnDisconnect
  \/ HandleVpnSessionStatus \/ HandleTunnelStateTransition
  \/ \E n \in notes : OnAckNotification(n)
  \/ OnShutdown \/ TunnelJoined \/ Exit \/ Crash \/ Restart

Next == DaemonNext \/ ServiceNext \/ TunnelSteps

Spec == Init /\ [][Next]_vars

-----------------------------------------------------------------------------
TypeOK ==
  /\ mode \in Mode
  /\ status \in VpnStatus
  /\ notes \subseteq Note \cup {Unknown}
  /\ used \subseteq ReqId
  /\ table \in Table
  /\ events \in Seq(Event)
  /\ server \in [ReqId -> VpnSessionStatus \cup {"None"}]
  /\ svcUp \in BOOLEAN
  /\ newCall \in NewCall
  /\ watcher \in [ReqId -> Watcher]
  /\ endCall \in [Caller -> [ReqId -> EndPhase]]
  /\ connTask \subseteq ReqId
  /\ lost \subseteq ReqId
  /\ tun \in TunnelState
  /\ tcmd \in Seq({"Connect", "Disconnect"})
  /\ faults \in 0..MaxFaults

-----------------------------------------------------------------------------
\* Safety

\* Neither the task end_session spawns nor the reclaimer ever holds a call
\* to end a session that is still in use: a request with such a call has
\* been marked for deletion or has no row any more.
EndsOnlyGivenUp ==
  \A c \in Caller, r \in ReqId :
    endCall[c][r] # "none" => r \notin Unmarked(table)

\* A status that says a session is being set up or used is the status of a
\* row that is there and not marked, with that row's location; ServerReady
\* means that the row also has the server's address and key, which
\* generate_parameter needs.
StatusHasSession ==
  status.st \in ServerSide \cup TunnelSide =>
    \E r \in Unmarked(table) :
      /\ table[r].loc = status.loc
      /\ status.st = "ServerReady" => table[r].ready

\* When the daemon handles an event, every unmarked row has its session
\* uuid, which tunnel_state_transition unwraps on Connected.
SessionUuidKnown ==
  Ready => \A r \in Unmarked(table) : table[r].uuid

\* A live session that the client has no row for is one whose answer was
\* lost or that the reclaimer gave up on after a server error.
NoOrphan ==
  \A r \in ReqId :
    server[r] \in Live /\ r \notin DOMAIN table => r \in lost

\* After a final status of a session nothing more is heard of it: it is the
\* last one queued and the watcher is gone; and a row that is ready has no
\* status outstanding.  So ServerReady makes the tunnel connect only once.
FinalStatusIsLast ==
  \A r \in ReqId :
    LET queued == {i \in DOMAIN events : events[i].req = r}
        quiet == watcher[r].ph \in {"none", "gone"}
    IN /\ \A i \in queued : events[i].st \in FinalWatch =>
             quiet /\ \A j \in queued : j <= i
       /\ r \in DOMAIN table /\ table[r].ready => quiet /\ queued = {}

\* The comment on end_session: in both of its cases the tunnel disconnects.
\* With no session and nothing left to handle the tunnel is down, or going
\* down, as long as it has not reconnected by itself (a fault) and has been
\* that of one session only.
DisconnectTakesTunnelDown ==
  (faults = 0 /\ \A r1, r2 \in used : r1 = r2) =>
    (Ready /\ events = <<>> /\ tcmd = <<>> /\ Unmarked(table) = {} =>
       tun.st \in {"Disconnected", "Disconnecting"})

\* The refusal of Connect: no new session when another is in progress.  Up
\* to the second request of the process it is so, whatever is late or lost.
\* (With the third it is not: the tunnel of the first may reset the status
\* of the second, and the third is let in beside it.)
OneSession ==
  (\A r1, r2, r3 \in used : r1 = r2 \/ r2 = r3 \/ r1 = r3) =>
    \A r1, r2 \in Unmarked(table) : r1 = r2

-----------------------------------------------------------------------------
\* The promise of the session bookkeeping (SessionLedger), implemented.

Phase(r) ==
  IF r \notin used THEN "free"
  ELSE IF r \notin DOMAIN table THEN "gone"
  ELSE IF table[r].mark THEN "ending" ELSE "active"

OnServer(r) ==
  IF server[r] = "None" THEN "none"
  ELSE IF server[r] \in Live THEN "live" ELSE "over"

Ledger == INSTANCE SessionLedger
            WITH phase <- [r \in ReqId |-> Phase(r)],
                 srv <- [r \in ReqId |-> OnServer(r)],
                 missed <- lost

\* Every step of the daemon, the service and the reclaimer is a step of the
\* ledger or none: rows are marked once, never unmarked, never come back.
ImplementsLedger == Ledger!Spec

-----------------------------------------------------------------------------
\* Liveness

\* Handlers run when their event is at the head of the queue; calls return
\* or time out; the reclaimer has a timer; the tunnel works off its commands;
\* a process that ended is started again by its service manager.  Nothing is
\* assumed of clients, watchers, the server's progress or faults.
HandlerFairness ==
  /\ WF_vars(OnConnectAccepted \/ OnConnectFailed)
  /\ WF_vars(HandleVpnSessionStatus \/ HandleTunnelStateTransition)
  /\ WF_vars(TunnelJoined \/ Exit \/ Restart)
  /\ WF_vars((TunnelCommand \/ TunnelClosed) /\ TunnelFrame)

CleanupFairness ==
  /\ WF_vars(ReclaimRound /\ UNCHANGED <<daemonVars, tunnel>>)
  /\ \A r \in ReqId, c \in Caller :
       WF_vars(EndStep(c, r) /\ UNCHANGED <<daemonVars, tunnel>>)

HandlersFairSpec == Spec /\ HandlerFairness

FairSpec == HandlersFairSpec /\ CleanupFairness

\* A row that was given up and whose session uuid is known is deleted in the
\* end, by the task of end_session or by the reclaimer, across calls that
\* fail, shutdowns, panics and crashes.
GivenUpIsDeleted ==
  \A r \in ReqId :
    r \in DOMAIN table \ Unmarked(table) /\ table[r].uuid ~>
      r \notin DOMAIN table

\* Disconnecting is left in the end, so that a client can connect again.
DisconnectingEnds ==
  status.st = "Disconnecting" ~> status.st # "Disconnecting"

\* Once ServerReady is shown, the tunnel comes to act on it.
ServerReadyMovesOn == status.st = "ServerReady" ~> status.st # "ServerReady"

-----------------------------------------------------------------------------
\* What the code's comments, messages and assertions say, and is not so.

\* The panic of tunnel_state_transition: a Disconnecting transition without
\* a session is only ever seen in status Disconnecting.
DisconnectingExpected == mode # "Panicked"

\* The comment on reclaim: sessions not gracefully ended are reclaimed, save
\* those the reclaimer says it did its best for.
OldSessionsReclaimed ==
  \A r \in ReqId :
    server[r] \in Live /\ r \in DOMAIN table \ Unmarked(table) ~>
      server[r] \notin Live \/ r \in lost
=============================================================================
