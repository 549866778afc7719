---------------------------- MODULE DaemonProofs ----------------------------
(***************************************************************************)
(* Proofs about Daemon, for every set of requests and locations and every  *)
(* bound on faults: type correctness, and the safety of the bookkeeping.   *)
(***************************************************************************)
EXTENDS Daemon, TLAPS

-----------------------------------------------------------------------------
(* The table *)

\* A table is a function from some request ids to rows.
LEMMA TableIntro ==
  ASSUME NEW ids \in SUBSET ReqId, NEW t \in [ids -> Row]
  PROVE  t \in Table
BY DEF Table

\* Conversely, a table gives a row for each of its ids.
LEMMA TableElim ==
  ASSUME NEW t \in Table
  PROVE  DOMAIN t \in SUBSET ReqId /\ t \in [DOMAIN t -> Row]
BY DEF Table

\* Writing columns of a row leaves a row.
LEMMA RowMarked ==
  ASSUME NEW w \in Row
  PROVE  [w EXCEPT !.mark = TRUE] \in Row
BY DEF Row

\* The answer Accepted leaves a row.
LEMMA RowAccepted ==
  ASSUME NEW w \in Row
  PROVE  [w EXCEPT !.srv = "Accepted", !.uuid = TRUE] \in Row
BY DEF Row, StorageServerStatus

\* A status stored leaves a row.
LEMMA RowStored ==
  ASSUME NEW w \in Row, NEW s \in StorageServerStatus
  PROVE  [w EXCEPT !.srv = s, !.ready = (s = "ServerReady") \/ w.ready] \in Row
BY DEF Row

\* Every query of storage.rs leaves a table.
LEMMA EmptyTableType == EmptyTable \in Table
<1>1. EmptyTable \in [{} -> Row]
  BY DEF EmptyTable
<1> QED BY <1>1, TableIntro

\* new_session adds a row.
LEMMA NewSessionType ==
  ASSUME NEW t \in Table, NEW r \in ReqId, NEW l \in Location
  PROVE  NewSession(t, r, l) \in Table
<1>1. NewSession(t, r, l) \in [DOMAIN t \cup {r} -> Row]
  BY TableElim DEF NewSession, Row, StorageServerStatus
<1> QED BY <1>1, TableElim, TableIntro

\* delete leaves a table.
LEMMA DeleteType ==
  ASSUME NEW t \in Table, NEW r
  PROVE  Delete(t, r) \in Table
<1>1. Delete(t, r) \in [DOMAIN t \ {r} -> Row]
  BY TableElim DEF Delete
<1> QED BY <1>1, TableElim, TableIntro

\* end_session leaves a table.
LEMMA EndSessionType ==
  ASSUME NEW t \in Table, NEW r
  PROVE  EndSession(t, r) \in Table
<1>1. EndSession(t, r) \in [DOMAIN t -> Row]
  BY TableElim, RowMarked DEF EndSession
<1> QED BY <1>1, TableElim, TableIntro

\* reclaim leaves a table.
LEMMA ReclaimType ==
  ASSUME NEW t \in Table
  PROVE  Reclaim(t) \in Table
<1>1. Reclaim(t) \in [DOMAIN t -> Row]
  BY TableElim, RowMarked DEF Reclaim
<1> QED BY <1>1, TableElim, TableIntro

\* update_on_accepted leaves a table.
LEMMA UpdateOnAcceptedType ==
  ASSUME NEW t \in Table, NEW r
  PROVE  UpdateOnAccepted(t, r) \in Table
<1>1. UpdateOnAccepted(t, r) \in [DOMAIN t -> Row]
  BY TableElim, RowAccepted DEF UpdateOnAccepted
<1> QED BY <1>1, TableElim, TableIntro

\* Storing a status leaves a table.
LEMMA StoreServerStatusType ==
  ASSUME NEW t \in Table, NEW r, NEW s \in StorageServerStatus
  PROVE  StoreServerStatus(t, r, s) \in Table
<1>1. StoreServerStatus(t, r, s) \in [DOMAIN t -> Row]
  BY TableElim, RowStored DEF StoreServerStatus
<1> QED BY <1>1, TableElim, TableIntro

\* updated_server_status leaves a table.
LEMMA UpdatedServerStatusType ==
  ASSUME NEW t \in Table, NEW r, NEW s \in VpnSessionStatus
  PROVE  UpdatedServerStatus(t, r, s) \in Table
<1>1. s \notin {"Failed", "Ended"} => s \in StorageServerStatus
  BY DEF VpnSessionStatus, StorageServerStatus
<1> QED BY <1>1, DeleteType, StoreServerStatusType DEF UpdatedServerStatus
-----------------------------------------------------------------------------
(* Type correctness *)

\* The initial state has the right types.
LEMMA TypeInit == Init => TypeOK
<1> SUFFICES ASSUME Init PROVE TypeOK
  OBVIOUS
<1>1. status \in VpnStatus
  BY DEF Init, VpnStatus
<1>2. table \in Table
  BY EmptyTableType DEF Init
<1>3. watcher \in [ReqId -> Watcher]
  BY DEF Init, Watcher, NoWatcher, VpnSessionStatus
<1>4. newCall \in NewCall
  BY DEF Init, NewCall, Idle
<1>5. tun \in TunnelState
  BY DEF Init, TunnelState, TunnelDown, Transition
<1> QED
  BY <1>1, <1>2, <1>3, <1>4, <1>5, ServiceAssumption
  DEF Init, TypeOK, Mode, EndPhase

\* The steps of the daemon.
LEMMA TypeOnConnect ==
  ASSUME TypeOK, NEW r \in ReqId, NEW l \in Location, OnConnect(r, l)
  PROVE  TypeOK'
<1>1. table' \in Table
  BY NewSessionType DEF TypeOK, OnConnect
<1>2. newCall' \in NewCall
  BY DEF OnConnect, CallNewSession, NewCall
<1> QED BY <1>1, <1>2 DEF TypeOK, OnConnect, tunnel

\* The answer Accepted.
LEMMA TypeOnConnectAccepted ==
  ASSUME TypeOK, OnConnectAccepted
  PROVE  TypeOK'
<1> newCall.req \in ReqId /\ newCall.loc \in Location
  BY DEF TypeOK, OnConnectAccepted, NewCall, Idle
<1>1. table' \in Table
  BY UpdateOnAcceptedType DEF TypeOK, OnConnectAccepted
<1>2. newCall' \in NewCall
  BY DEF OnConnectAccepted, NewCall, Idle
<1>3. status' \in VpnStatus
  BY DEF OnConnectAccepted, VpnStatus, ServerSide
<1>4. watcher' \in [ReqId -> Watcher]
  BY DEF TypeOK, OnConnectAccepted, StartWatcher, NoWatcher, Watcher,
         VpnSessionStatus
<1> QED BY <1>1, <1>2, <1>3, <1>4 DEF TypeOK, OnConnectAccepted, tunnel

\* The error instead.
LEMMA TypeOnConnectFailed ==
  ASSUME TypeOK, OnConnectFailed
  PROVE  TypeOK'
<1> newCall.req \in ReqId
  BY DEF TypeOK, OnConnectFailed, NewCall, Idle
<1>1. table' \in Table
  BY DeleteType DEF TypeOK, OnConnectFailed
<1>2. newCall' \in NewCall
  BY DEF OnConnectFailed, NewCall
<1>3. notes' \subseteq Note \cup {Unknown}
  BY DEF TypeOK, OnConnectFailed, Note
<1>4. faults' \in 0..MaxFaults /\ lost' \subseteq ReqId
  BY ServiceAssumption DEF TypeOK, OnConnectFailed, Fault
<1> QED BY <1>1, <1>2, <1>3, <1>4 DEF TypeOK, OnConnectFailed, tunnel

\* The commands sent to the tunnel.
LEMMA CommandTypes ==
  ASSUME NEW s
  PROVE  /\ TunnelCommandOnDisconnect(s) \in Seq({"Connect", "Disconnect"})
         /\ TunnelCommandOnStatus(s) \in Seq({"Connect", "Disconnect"})
<1> DEFINE C == {"Connect", "Disconnect"}
<1>1. <<"Connect">> \in Seq(C)
  OBVIOUS
<1>2. <<"Disconnect">> \in Seq(C)
  OBVIOUS
<1>3. <<>> \in Seq(C)
  OBVIOUS
<1>4. TunnelCommandOnDisconnect(s) \in {<<>>, <<"Disconnect">>}
  BY DEF TunnelCommandOnDisconnect
<1>5. TunnelCommandOnStatus(s) \in {<<>>, <<"Connect">>}
  BY DEF TunnelCommandOnStatus
<1> HIDE DEF C
<1>6. TunnelCommandOnDisconnect(s) \in Seq(C) /\ TunnelCommandOnStatus(s) \in Seq(C)
  BY <1>1, <1>2, <1>3, <1>4, <1>5
<1> QED BY <1>6 DEF C

\* A change of one end call.
LEMMA EndCallType ==
  ASSUME NEW f \in [Caller -> [ReqId -> EndPhase]], NEW c \in Caller,
         NEW r \in ReqId, NEW ph \in EndPhase
  PROVE  [f EXCEPT ![c][r] = ph] \in [Caller -> [ReqId -> EndPhase]]
OBVIOUS

\* end_session, whichever handler calls it.
LEMMA TypeEndRow ==
  ASSUME TypeOK, NEW r \in Unmarked(table), EndRow(r)
  PROVE  /\ table' \in Table
         /\ endCall' \in [Caller -> [ReqId -> EndPhase]]
<1> r \in ReqId
  BY TableElim DEF TypeOK, Unmarked
<1>1. table' \in Table
  BY EndSessionType DEF TypeOK, EndRow
<1>2. endCall' \in [Caller -> [ReqId -> EndPhase]]
  <2>1. "daemon" \in Caller /\ "queued" \in EndPhase
    BY DEF Caller, EndPhase
  <2> QED BY <2>1, EndCallType DEF TypeOK, EndRow
<1> QED BY <1>1, <1>2

\* on_disconnect_inner, for Disconnect and for the shutdown.
LEMMA TypeOnDisconnectInner ==
  ASSUME TypeOK, OnDisconnectInner
  PROVE  /\ table' \in Table
         /\ endCall' \in [Caller -> [ReqId -> EndPhase]]
         /\ tcmd' \in Seq({"Connect", "Disconnect"})
         /\ status' \in VpnStatus
<1>1. /\ table' \in Table
      /\ endCall' \in [Caller -> [ReqId -> EndPhase]]
  BY TypeEndRow DEF TypeOK, OnDisconnectInner, EndSomeRow
<1>2. tcmd' \in Seq({"Connect", "Disconnect"})
  BY CommandTypes DEF TypeOK, OnDisconnectInner
<1>3. status' \in VpnStatus
  BY DEF TypeOK, OnDisconnectInner, UpdateStateOnDisconnect, VpnStatus,
         Disconnected, TunnelSide, ServerSide
<1> QED BY <1>1, <1>2, <1>3

\* Disconnect.
LEMMA TypeOnDisconnect ==
  ASSUME TypeOK, OnDisconnect
  PROVE  TypeOK'
BY TypeOnDisconnectInner DEF TypeOK, OnDisconnect

\* What is at the head of the queue.
LEMMA HeadEvent ==
  ASSUME TypeOK, events # <<>>
  PROVE  /\ Head(events) \in Event
         /\ Tail(events) \in Seq(Event)
         /\ Head(events).req # NoReq =>
              /\ Head(events).req \in ReqId
              /\ Head(events).st \in VpnSessionStatus
         /\ Head(events).req = NoReq => Head(events).st \in Transition
<1>1. Head(events) \in Event /\ Tail(events) \in Seq(Event)
  BY DEF TypeOK
<1> QED BY <1>1, ServiceAssumption DEF Event

\* The status a server status leads to.
LEMMA StatusFromServerType ==
  ASSUME NEW cur \in VpnStatus, NEW s \in VpnSessionStatus, NEW l \in Location
  PROVE  StatusFromServer(cur, s, l) \in VpnStatus
<1>1. CASE s \in {"Failed", "Ended"}
  BY <1>1 DEF StatusFromServer, VpnStatus
<1>2. CASE s \in {"ServerCreated", "ServerRunning", "ServerReady"}
  <2>1. StatusFromServer(cur, s, l) = [st |-> s, loc |-> l]
    BY <1>2 DEF StatusFromServer
  <2> QED BY <1>2, <2>1 DEF VpnStatus, ServerSide, TunnelSide
<1>3. CASE s \in {"Accepted", "ClientConnected"}
  BY <1>3 DEF StatusFromServer
<1> QED BY <1>1, <1>2, <1>3 DEF VpnSessionStatus

\* A status from a watcher.
LEMMA TypeHandleVpnSessionStatus ==
  ASSUME TypeOK, HandleVpnSessionStatus
  PROVE  TypeOK'
<1> DEFINE r == Head(events).req
           s == Head(events).st
<1>1. r \in ReqId /\ s \in VpnSessionStatus /\ Tail(events) \in Seq(Event)
  BY HeadEvent DEF HandleVpnSessionStatus
<1>2. table' \in Table
  BY <1>1, UpdatedServerStatusType DEF TypeOK, HandleVpnSessionStatus
<1>3. status' \in VpnStatus
  <2>1. r \in Unmarked(table) => table[r].loc \in Location
    BY TableElim DEF TypeOK, Unmarked, Row
  <2> QED BY <1>1, <2>1, StatusFromServerType DEF TypeOK, HandleVpnSessionStatus
<1>4. notes' \subseteq Note \cup {Unknown}
  BY <1>1 DEF TypeOK, HandleVpnSessionStatus, Note
<1>5. tcmd' \in Seq({"Connect", "Disconnect"})
  BY CommandTypes DEF TypeOK, HandleVpnSessionStatus
<1> QED BY <1>1, <1>2, <1>3, <1>4, <1>5
        DEF TypeOK, HandleVpnSessionStatus, svc

\* A tunnel transition, with a session in the table.
LEMMA TypeTransitionWithSession ==
  ASSUME TypeOK, NEW r \in ReqId, TransitionWithSession(r)
  PROVE  TypeOK'
<1> DEFINE tr == Head(events).st
<1>1. tr \in Transition /\ events' \in Seq(Event)
  BY HeadEvent DEF TransitionWithSession, IsTransition
<1>2. r \in Unmarked(table) /\ table[r].loc \in Location
  BY TableElim DEF TypeOK, TransitionWithSession, Unmarked, Row
<1>3. status' \in VpnStatus
  BY <1>1, <1>2 DEF TransitionWithSession, StatusFromTunnel, VpnStatus,
                    Transition, ServerSide, TunnelSide
<1>4. table' \in Table /\ endCall' \in [Caller -> [ReqId -> EndPhase]]
  <2>1. "ClientConnected" \in StorageServerStatus
    BY DEF StorageServerStatus
  <2>2. CASE tr = "Error"
    BY <1>2, <2>2, TypeEndRow DEF TransitionWithSession
  <2>3. CASE tr # "Error"
    BY <2>1, <2>3, StoreServerStatusType DEF TypeOK, TransitionWithSession
  <2> QED BY <2>2, <2>3
<1>5. tcmd' \in Seq({"Connect", "Disconnect"})
  BY DEF TypeOK, TransitionWithSession
<1>6. notes' \subseteq Note \cup {Unknown}
  BY DEF TypeOK, TransitionWithSession, Note
<1>7. connTask' \subseteq ReqId
  BY DEF TypeOK, TransitionWithSession
<1> QED BY <1>1, <1>3, <1>4, <1>5, <1>6, <1>7
        DEF TypeOK, TransitionWithSession

\* A tunnel transition without one.
LEMMA TypeTransitionWithoutSession ==
  ASSUME TypeOK, TransitionWithoutSession
  PROVE  TypeOK'
<1>1. events' \in Seq(Event)
  BY HeadEvent DEF TransitionWithoutSession, IsTransition
<1>2. status' \in VpnStatus /\ mode' \in Mode
  BY DEF TypeOK, TransitionWithoutSession, VpnStatus, Mode
<1>3. tcmd' \in Seq({"Connect", "Disconnect"})
  BY DEF TypeOK, TransitionWithoutSession
<1>4. notes' \subseteq Note \cup {Unknown}
  BY DEF TypeOK, TransitionWithoutSession
<1> QED BY <1>1, <1>2, <1>3, <1>4 DEF TypeOK, TransitionWithoutSession, svc

\* A notification is acknowledged.
LEMMA TypeOnAckNotification ==
  ASSUME TypeOK, NEW n \in notes, OnAckNotification(n)
  PROVE  TypeOK'
BY DEF TypeOK, OnAckNotification, svc, tunnel

\* Faults stay within their budget.
LEMMA FaultType ==
  ASSUME TypeOK, Fault
  PROVE  faults' \in 0..MaxFaults
BY ServiceAssumption DEF TypeOK, Fault

\* The shutdown up to the wait for the tunnel.
LEMMA TypeOnShutdown ==
  ASSUME TypeOK, OnShutdown
  PROVE  TypeOK'
BY FaultType, TypeOnDisconnectInner DEF TypeOK, OnShutdown, Mode

\* Watchers: stopping one, several or none.
LEMMA StopWatcherType ==
  ASSUME NEW w \in [ReqId -> Watcher], NEW r \in ReqId
  PROVE  StopWatcher(w, r) \in [ReqId -> Watcher]
<1>1. ASSUME NEW b \in BOOLEAN
      PROVE  [w[r] EXCEPT !.stop = b] \in Watcher
  BY DEF Watcher
<1> DEFINE b == w[r].ph \in {"idle", "polled"}
<1>2. [w[r] EXCEPT !.stop = b] \in Watcher
  <2>1. b \in BOOLEAN
    OBVIOUS
  <2> HIDE DEF b
  <2> QED BY <1>1, <2>1
<1>3. StopWatcher(w, r) = [w EXCEPT ![r] = [w[r] EXCEPT !.stop = b]]
  BY DEF StopWatcher
<1> HIDE DEF b
<1> QED BY <1>2, <1>3

\* The rest of the shutdown.
LEMMA TypeTunnelJoined ==
  ASSUME TypeOK, TunnelJoined
  PROVE  TypeOK'
<1>1. watcher' \in [ReqId -> Watcher]
  BY StopWatcherType DEF TypeOK, TunnelJoined, StopService
<1>2. tun' \in TunnelState
  BY DEF TunnelJoined, TunnelDown, TunnelState, Transition
<1>3. events' \in Seq(Event) /\ tcmd' \in Seq({"Connect", "Disconnect"})
  BY DEF TunnelJoined
<1> QED BY <1>1, <1>2, <1>3 DEF TypeOK, TunnelJoined, StopService, Mode

\* The end of the process.
LEMMA TypeDie ==
  ASSUME TypeOK, Die, faults' \in 0..MaxFaults
  PROVE  TypeOK'
<1>1. status' \in VpnStatus
  BY DEF Die, VpnStatus
<1>2. watcher' \in [ReqId -> Watcher]
  BY DEF Die, Watcher, NoWatcher
<1>3. newCall' \in NewCall
  BY DEF Die, NewCall
<1>4. tun' \in TunnelState
  BY DEF Die, TunnelDown, TunnelState, Transition
<1>5. endCall' \in [Caller -> [ReqId -> EndPhase]]
  BY DEF Die, EndPhase
<1>6. events' \in Seq(Event) /\ tcmd' \in Seq({"Connect", "Disconnect"})
  BY DEF Die
<1> QED BY <1>1, <1>2, <1>3, <1>4, <1>5, <1>6 DEF TypeOK, Die, Mode

\* The start of the process.
LEMMA TypeRestart ==
  ASSUME TypeOK, Restart
  PROVE  TypeOK'
BY ReclaimType DEF TypeOK, Restart, Mode, tunnel

\* Every step of the daemon.
LEMMA TypeDaemonNext ==
  ASSUME TypeOK, DaemonNext
  PROVE  TypeOK'
<1>1. CASE Exit
  BY <1>1, TypeDie DEF TypeOK, Exit
<1>2. CASE Crash
  BY <1>2, TypeDie, FaultType DEF Crash
<1> QED
  BY <1>1, <1>2, TypeOnConnect, TypeOnConnectAccepted, TypeOnConnectFailed,
     TypeOnDisconnect, TypeHandleVpnSessionStatus, TypeTransitionWithSession,
     TypeTransitionWithoutSession, TypeOnAckNotification, TypeOnShutdown,
     TypeTunnelJoined, TypeRestart
  DEF DaemonNext, HandleTunnelStateTransition

\* The steps of the service, the watchers and the server.
LEMMA TypeNewSessionApplied ==
  ASSUME TypeOK, NewSessionApplied, UNCHANGED <<daemonVars, tunnel>>
  PROVE  TypeOK'
<1>1. newCall' \in NewCall
  BY DEF TypeOK, NewSessionApplied, NewCall, Idle
<1>2. server' \in [ReqId -> VpnSessionStatus \cup {"None"}]
  BY DEF TypeOK, NewSessionApplied, VpnSessionStatus
<1> QED BY <1>1, <1>2 DEF TypeOK, NewSessionApplied, daemonVars, tunnel

\* A watcher polls.
LEMMA TypeWatchPoll ==
  ASSUME TypeOK, NEW r \in ReqId, WatchPoll(r),
         UNCHANGED <<daemonVars, tunnel>>
  PROVE  TypeOK'
<1>1. server[r] \in VpnSessionStatus
  BY DEF TypeOK, WatchPoll
<1>2. [watcher[r] EXCEPT !.ph = "polled", !.got = server[r]] \in Watcher
  BY <1>1 DEF TypeOK, Watcher
<1>3. watcher' \in [ReqId -> Watcher]
  BY <1>2 DEF TypeOK, WatchPoll
<1> QED BY <1>3 DEF TypeOK, WatchPoll, daemonVars, tunnel

\* A watcher delivers a status.
LEMMA TypeWatchDeliver ==
  ASSUME TypeOK, NEW r \in ReqId, WatchDeliver(r),
         UNCHANGED <<daemonVars, tunnel>>
  PROVE  TypeOK'
<1>1. watcher[r].got \in VpnSessionStatus
  BY DEF TypeOK, WatchDeliver, Watcher
<1>2. [watcher[r] EXCEPT !.ph = "idle", !.last = watcher[r].got,
                         !.got = "null"] \in Watcher
  BY <1>1 DEF TypeOK, Watcher
<1>3. GoneWatcher \in Watcher
  BY DEF GoneWatcher, NoWatcher, Watcher
<1>4. watcher' \in [ReqId -> Watcher]
  BY <1>2, <1>3 DEF TypeOK, WatchDeliver
<1>5. StatusEvent(r, watcher[r].got) \in Event
  BY <1>1 DEF StatusEvent, Event
<1>6. events' \in Seq(Event)
  BY <1>5 DEF TypeOK, WatchDeliver
<1> QED BY <1>4, <1>6 DEF TypeOK, WatchDeliver, daemonVars, tunnel

\* A watcher stops.
LEMMA TypeWatchStopped ==
  ASSUME TypeOK, NEW r \in ReqId, WatchStopped(r),
         UNCHANGED <<daemonVars, tunnel>>
  PROVE  TypeOK'
<1>1. GoneWatcher \in Watcher
  BY DEF GoneWatcher, NoWatcher, Watcher
<1>2. watcher' \in [ReqId -> Watcher]
  BY <1>1 DEF TypeOK, WatchStopped
<1> QED BY <1>2 DEF TypeOK, WatchStopped, daemonVars, tunnel

\* A ClientConnected command.
LEMMA TypeClientConnected ==
  ASSUME TypeOK, NEW r \in ReqId,
         ClientConnected(r) \/ ClientConnectedServiceDown(r),
         UNCHANGED <<daemonVars, tunnel>>
  PROVE  TypeOK'
<1>1. CASE ClientConnected(r)
  <2>1. watcher' \in [ReqId -> Watcher]
    BY <1>1, StopWatcherType DEF TypeOK, ClientConnected
  <2>2. server' \in [ReqId -> VpnSessionStatus \cup {"None"}]
    BY <1>1 DEF TypeOK, ClientConnected, VpnSessionStatus
  <2> QED BY <1>1, <2>1, <2>2 DEF TypeOK, ClientConnected, daemonVars, tunnel
<1>2. CASE ClientConnectedServiceDown(r)
  BY <1>2 DEF TypeOK, ClientConnectedServiceDown, daemonVars, tunnel
<1> QED BY <1>1, <1>2

\* The server moves a session on, or ends it.
LEMMA TypeServer ==
  ASSUME TypeOK, NEW r \in ReqId, ServerProgress(r) \/ ServerFailure(r),
         UNCHANGED <<daemonVars, tunnel>>
  PROVE  TypeOK'
<1>1. CASE ServerProgress(r)
  <2>1. server' \in [ReqId -> VpnSessionStatus \cup {"None"}]
    BY <1>1, ServiceAssumption DEF TypeOK, ServerProgress, VpnSessionStatus
  <2> QED BY <1>1, <2>1 DEF TypeOK, ServerProgress, daemonVars, tunnel
<1>2. CASE ServerFailure(r)
  <2>1. server' \in [ReqId -> VpnSessionStatus \cup {"None"}]
    BY <1>2 DEF TypeOK, ServerFailure, VpnSessionStatus
  <2> QED BY <1>2, <2>1, FaultType DEF TypeOK, ServerFailure, daemonVars, tunnel
<1> QED BY <1>1, <1>2

\* The steps that end a session, for either caller.
LEMMA SetEndType ==
  ASSUME TypeOK, NEW c \in Caller, NEW r \in ReqId, NEW ph \in EndPhase,
         SetEnd(c, r, ph)
  PROVE  endCall' \in [Caller -> [ReqId -> EndPhase]]
BY EndCallType DEF TypeOK, SetEnd

\* Taking an end call stops a watcher.
LEMMA TakeEndType ==
  ASSUME TypeOK, NEW c \in Caller, NEW r \in ReqId, TakeEnd(c, r)
  PROVE  watcher' \in [ReqId -> Watcher]
BY StopWatcherType DEF TypeOK, TakeEnd

\* Every step of an end call.
LEMMA TypeEndStep ==
  ASSUME TypeOK, NEW c \in Caller, NEW r \in ReqId, EndStep(c, r),
         UNCHANGED <<daemonVars, tunnel>>
  PROVE  TypeOK'
<1>1. "none" \in EndPhase /\ "applied" \in EndPhase
  BY DEF EndPhase
<1>2. CASE EndApplied(c, r)
  <2>1. server' \in [ReqId -> VpnSessionStatus \cup {"None"}]
    BY <1>2 DEF TypeOK, EndApplied, VpnSessionStatus
  <2> QED BY <1>1, <1>2, <2>1, SetEndType, TakeEndType
          DEF TypeOK, EndApplied, daemonVars, tunnel
<1>3. CASE EndReturned(c, r)
  BY <1>1, <1>3, SetEndType, DeleteType
  DEF TypeOK, EndReturned, daemonVars, tunnel
<1>4. CASE EndServiceDown(c, r)
  BY <1>1, <1>4, SetEndType DEF TypeOK, EndServiceDown, daemonVars, tunnel
<1>5. CASE EndConnectionError(c, r)
  BY <1>1, <1>5, SetEndType, TakeEndType, FaultType
  DEF TypeOK, EndConnectionError, daemonVars, tunnel
<1>6. CASE EndServerError(c, r)
  <2>1. watcher' \in [ReqId -> Watcher]
    BY <1>6, TakeEndType DEF TypeOK, EndServerError
  <2>2. table' \in Table /\ lost' \subseteq ReqId
    BY <1>6, DeleteType DEF TypeOK, EndServerError, ServerErrorHandled
  <2>3. endCall' \in [Caller -> [ReqId -> EndPhase]]
    BY <1>1, <1>6, SetEndType DEF EndServerError, ServerErrorHandled
  <2> QED BY <1>6, <2>1, <2>2, <2>3, FaultType
          DEF TypeOK, EndServerError, daemonVars, tunnel
<1> QED BY <1>2, <1>3, <1>4, <1>5, <1>6 DEF EndStep

\* A round of the reclaimer.
LEMMA TypeReclaimTick ==
  ASSUME TypeOK, ReclaimTick, UNCHANGED <<daemonVars, tunnel>>
  PROVE  TypeOK'
<1>1. endCall' \in [Caller -> [ReqId -> EndPhase]]
  BY DEF TypeOK, ReclaimTick, EndPhase
<1> QED BY <1>1 DEF TypeOK, ReclaimTick, daemonVars, tunnel

\* Every step of the service, the reclaimer and the server.
LEMMA TypeServiceNext ==
  ASSUME TypeOK, ServiceNext
  PROVE  TypeOK'
BY TypeNewSessionApplied, TypeReclaimTick, TypeWatchPoll, TypeWatchDeliver,
   TypeWatchStopped, TypeClientConnected, TypeServer, TypeEndStep
DEF ServiceNext, ServiceStep, ReclaimRound

\* The steps of the tunnel.
LEMMA EnterType ==
  ASSUME TypeOK, NEW s \in TunnelState, Enter(s)
  PROVE  tun' \in TunnelState /\ events' \in Seq(Event)
<1>1. TunnelEvent(s.st) \in Event
  BY DEF TunnelEvent, Event, TunnelState
<1> QED BY <1>1 DEF TypeOK, Enter

\* An attempt to connect.
LEMMA TryConnectType ==
  ASSUME TypeOK, TryConnect
  PROVE  tun' \in TunnelState /\ events' \in Seq(Event)
<1> PICK r \in GenerateParameter(table) :
      Enter(IF r = NoReq THEN [TunnelDown EXCEPT !.st = "Error"]
            ELSE [st |-> "Connecting", after |-> "nothing", peer |-> r])
  BY DEF TryConnect
<1>1. r \in ReqId \cup {NoReq}
  BY TableElim DEF TypeOK, GenerateParameter
<1>2. [TunnelDown EXCEPT !.st = "Error"] \in TunnelState
  BY DEF TunnelDown, TunnelState, Transition
<1>3. [st |-> "Connecting", after |-> "nothing", peer |-> r] \in TunnelState
  BY <1>1 DEF TunnelState, Transition
<1> QED BY <1>2, <1>3, EnterType

\* The tunnel starts to close.
LEMMA LeaveType ==
  ASSUME TypeOK, NEW a \in {"nothing", "reconnect", "block"}, Leave(a)
  PROVE  tun' \in TunnelState /\ events' \in Seq(Event)
<1>1. [tun EXCEPT !.st = "Disconnecting", !.after = a] \in TunnelState
  BY DEF TypeOK, TunnelState, Transition
<1> QED BY <1>1, EnterType DEF Leave

\* Every step of the tunnel.
LEMMA TypeTunnelSteps ==
  ASSUME TypeOK, TunnelSteps
  PROVE  TypeOK'
<1>0. TunnelDown \in TunnelState /\ [TunnelDown EXCEPT !.st = "Error"] \in TunnelState
  BY DEF TunnelDown, TunnelState, Transition
<1>1. CASE TunnelConnect
  <2>1. tun' \in TunnelState /\ events' \in Seq(Event)
    <3>1. [tun EXCEPT !.after = "reconnect"] \in TunnelState
      BY DEF TypeOK, TunnelState
    <3> QED BY <1>1, <3>1, TryConnectType, LeaveType DEF TypeOK, TunnelConnect
  <2>2. tcmd' \in Seq({"Connect", "Disconnect"})
    BY <1>1 DEF TypeOK, TunnelConnect
  <2> QED BY <1>1, <2>1, <2>2
          DEF TypeOK, TunnelConnect, TunnelSteps, TunnelFrame, daemonVars, svc
<1>2. CASE TunnelDisconnect
  <2>1. tun' \in TunnelState /\ events' \in Seq(Event)
    <3>1. [tun EXCEPT !.after = "nothing"] \in TunnelState
      BY DEF TypeOK, TunnelState
    <3> QED BY <1>0, <1>2, <3>1, EnterType, LeaveType DEF TypeOK, TunnelDisconnect
  <2>2. tcmd' \in Seq({"Connect", "Disconnect"})
    BY <1>2 DEF TypeOK, TunnelDisconnect
  <2> QED BY <1>2, <2>1, <2>2
          DEF TypeOK, TunnelDisconnect, TunnelSteps, TunnelFrame, daemonVars, svc
<1>3. CASE TunnelConnected
  <2>1. [tun EXCEPT !.st = "Connected"] \in TunnelState
    BY DEF TypeOK, TunnelState, Transition
  <2> QED BY <1>3, <2>1, EnterType
          DEF TypeOK, TunnelConnected, TunnelSteps, TunnelFrame, daemonVars, svc
<1>4. CASE TunnelClosed
  BY <1>0, <1>4, EnterType, TryConnectType
  DEF TypeOK, TunnelClosed, TunnelSteps, TunnelFrame, daemonVars, svc
<1>5. CASE TunnelFault
  <2>1. faults' \in 0..MaxFaults
    BY <1>5, ServiceAssumption DEF TypeOK, TunnelFault
  <2> QED BY <1>5, <2>1, LeaveType
          DEF TypeOK, TunnelFault, TunnelSteps, TunnelFrame, daemonVars, svc
<1> QED BY <1>1, <1>2, <1>3, <1>4, <1>5
        DEF TunnelSteps, TunnelNext, TunnelCommand

\* Every step of the system, and a stuttering step, keeps the types.
LEMMA TypeNext ==
  ASSUME TypeOK, [Next]_vars
  PROVE  TypeOK'
<1>1. CASE UNCHANGED vars
  BY <1>1 DEF TypeOK, vars
<1> QED BY <1>1, TypeDaemonNext, TypeServiceNext, TypeTunnelSteps DEF Next

\* Every variable of the composed daemon, service and tunnel keeps its type:
\* the statuses of state.rs, the rows of the vpn_session table, the events
\* and commands queued, the calls in progress.
THEOREM TypeCorrect == Spec => []TypeOK
<1>1. Init => TypeOK
  BY TypeInit
<1>2. TypeOK /\ [Next]_vars => TypeOK'
  BY TypeNext
<1> QED BY <1>1, <1>2, PTL DEF Spec
=============================================================================
