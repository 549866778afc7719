------------------------- MODULE DaemonStatusProofs -------------------------
(***************************************************************************)
(* What the daemon hears of sessions and does to the tunnel, proved for    *)
(* every set of requests and locations and every bound on faults: that     *)
(* nothing follows a final status (FinalStatusIsLast), that a second       *)
(* session is not opened beside the first (OneSession), and that giving up *)
(* a session takes its tunnel down (DisconnectTakesTunnelDown).            *)
(***************************************************************************)
EXTENDS DaemonSafetyProofs

-----------------------------------------------------------------------------
(* What a step does to the queue of events, the watchers and the rows *)

\* The queue is as before but for d events taken from its front.
Shifted(d) ==
  \A i \in DOMAIN events' : i + d \in DOMAIN events /\ events'[i] = events[i + d]

\* Event e comes last.
Added(e) ==
  \A i \in DOMAIN events' :
    \/ i \in DOMAIN events /\ events'[i] = events[i]
    \/ i = Len(events) + 1 /\ events'[i] = e

\* A queue that is kept, emptied, taken from or added to.
LEMMA QueueParts ==
  ASSUME TypeOK
  PROVE  /\ events' \in {events, <<>>} => Shifted(0)
         /\ events # <<>> /\ events' = Tail(events) => Shifted(1)
         /\ \A e : events' = Append(events, e) => Added(e)
         /\ DOMAIN events = 1..Len(events) /\ Len(events) \in Nat
         /\ events # <<>> => 1 \in DOMAIN events /\ events[1] = Head(events)
<1>0. events \in Seq(Event)
  BY DEF TypeOK
<1>1. /\ DOMAIN events = 1..Len(events) /\ Len(events) \in Nat /\ DOMAIN <<>> = {}
      /\ events # <<>> => 1 \in DOMAIN events /\ events[1] = Head(events)
  BY <1>0
<1>2. events' \in {events, <<>>} => Shifted(0)
  <2>1. \A i \in DOMAIN events : i + 0 = i
    BY <1>1
  <2> QED BY <1>1, <2>1 DEF Shifted
<1>3. events # <<>> /\ events' = Tail(events) => Shifted(1)
  <2>1. events # <<>> =>
          /\ Len(events) # 0 /\ DOMAIN Tail(events) = 1..(Len(events) - 1)
          /\ \A i \in 1..(Len(events) - 1) : Tail(events)[i] = events[i + 1]
    BY <1>0
  <2> QED BY <1>1, <2>1 DEF Shifted
<1>4. \A e : events' = Append(events, e) => Added(e)
  <2>1. \A e : /\ DOMAIN Append(events, e) = 1..(Len(events) + 1)
               /\ \A i \in 1..(Len(events) + 1) :
                    Append(events, e)[i] = IF i = Len(events) + 1 THEN e ELSE events[i]
    BY <1>0
  <2> QED BY <1>1, <2>1 DEF Added
<1> QED BY <1>1, <1>2, <1>3, <1>4

\* The handlers take from the queue; a watcher and the tunnel add to it.
LEMMA EventsStep ==
  ASSUME TypeOK, [Next]_vars
  PROVE  \/ events' = events \/ events' = <<>>
         \/ /\ events # <<>> /\ events' = Tail(events)
            /\ HandleVpnSessionStatus \/ HandleTunnelStateTransition
         \/ \E r \in ReqId : /\ WatchDeliver(r) /\ mode' = mode
                             /\ events' = Append(events, StatusEvent(r, watcher[r].got))
         \/ \E s \in Transition : TunnelSteps /\ events' = Append(events, TunnelEvent(s))
<1>1. CASE HandleVpnSessionStatus
  BY <1>1 DEF HandleVpnSessionStatus
<1>2. CASE HandleTunnelStateTransition
  BY <1>2 DEF HandleTunnelStateTransition, TransitionWithSession, TransitionWithoutSession,
              IsTransition
<1>3. CASE OnConnectAccepted \/ OnConnectFailed \/ OnDisconnect \/ OnShutdown \/ TunnelJoined
           \/ Exit \/ Crash \/ Restart
  BY <1>3 DEF OnConnectAccepted, OnConnectFailed, OnDisconnect, OnShutdown, TunnelJoined,
              Exit, Crash, Die, Restart
<1>4. ASSUME NEW r \in ReqId, NEW l \in Location, OnConnect(r, l) PROVE events' = events
  BY <1>4 DEF OnConnect
<1>5. ASSUME NEW n \in notes, OnAckNotification(n) PROVE events' = events
  BY <1>5 DEF OnAckNotification
<1>6. CASE NewSessionApplied \/ ReclaimRound
  BY <1>6 DEF NewSessionApplied, ReclaimRound, ReclaimTick
<1>7. ASSUME NEW r \in ReqId, ServiceStep(r)
      PROVE  events' = events \/ WatchDeliver(r)
  BY <1>7 DEF ServiceStep, WatchPoll, WatchStopped, ClientConnected,
              ClientConnectedServiceDown, ServerProgress, ServerFailure
<1>8. ASSUME NEW r \in ReqId, NEW c \in Caller, EndStep(c, r) PROVE events' = events
  BY <1>8 DEF EndStep, EndApplied, EndReturned, EndServiceDown, EndConnectionError,
              EndServerError
<1>9. CASE ServiceNext
  <2>1. mode' = mode
    BY <1>9 DEF ServiceNext, daemonVars
  <2>2. \A r \in ReqId : WatchDeliver(r) =>
          events' = Append(events, StatusEvent(r, watcher[r].got))
    BY DEF WatchDeliver
  <2> QED BY <1>6, <1>7, <1>8, <1>9, <2>1, <2>2 DEF ServiceNext
<1>10. CASE TunnelSteps
  BY <1>10, TunnelEvents
<1>11. CASE UNCHANGED vars
  BY <1>11 DEF vars
<1> QED BY <1>1, <1>2, <1>3, <1>4, <1>5, <1>9, <1>10, <1>11 DEF Next, DaemonNext

\* The watcher of r is not there, or gone.
Quiet(r) == watcher[r].ph \in {"none", "gone"}

\* It stays so; only the answer Accepted starts one.
LEMMA QuietStep ==
  ASSUME TypeOK, [Next]_vars, NEW r \in ReqId, Quiet(r),
         ~(OnConnectAccepted /\ newCall.req = r)
  PROVE  watcher'[r].ph \in {"none", "gone"}
<1>0. watcher \in [ReqId -> Watcher]
  BY DEF TypeOK
<1>1. ASSUME NEW q, watcher' = StopWatcher(watcher, q)
      PROVE  watcher'[r].ph \in {"none", "gone"}
  BY <1>0, <1>1 DEF StopWatcher, Quiet, Watcher
<1>2. CASE watcher' = watcher
  BY <1>2 DEF Quiet
<1>3. CASE OnConnectAccepted
  <2>1. newCall.req # r
    BY <1>3
  <2> QED BY <1>0, <1>3, <2>1 DEF OnConnectAccepted, StartWatcher, Quiet
<1>4. CASE OnConnectFailed \/ OnDisconnect \/ OnShutdown \/ Restart \/ HandleVpnSessionStatus
           \/ HandleTunnelStateTransition
  BY <1>2, <1>4 DEF OnConnectFailed, OnDisconnect, OnShutdown, Restart,
       HandleVpnSessionStatus, HandleTunnelStateTransition, TransitionWithSession,
       TransitionWithoutSession, svc
<1>5. CASE Exit \/ Crash
  BY <1>5 DEF Exit, Crash, Die, NoWatcher
<1>6. CASE TunnelJoined
  <2>1. watcher'[r] = StopWatcher(watcher, r)[r]
    BY <1>6 DEF TunnelJoined, StopService
  <2>2. StopWatcher(watcher, r)[r].ph = watcher[r].ph
    BY <1>0 DEF StopWatcher, Watcher
  <2> QED BY <2>1, <2>2 DEF Quiet
<1>7. ASSUME NEW q \in ReqId, NEW l \in Location, OnConnect(q, l) PROVE watcher' = watcher
  BY <1>7 DEF OnConnect
<1>8. ASSUME NEW n \in notes, OnAckNotification(n) PROVE watcher' = watcher
  BY <1>8 DEF OnAckNotification, svc
<1>9. CASE NewSessionApplied \/ ReclaimRound
  BY <1>2, <1>9 DEF NewSessionApplied, ReclaimRound, ReclaimTick
<1>10. ASSUME NEW q \in ReqId, ServiceStep(q) PROVE watcher'[r].ph \in {"none", "gone"}
  <2>1. CASE WatchPoll(q) \/ WatchDeliver(q) \/ WatchStopped(q)
    <3>1. q # r /\ \A x \in ReqId \ {q} : watcher'[x] = watcher[x]
      BY <1>0, <2>1 DEF WatchPoll, WatchDeliver, WatchStopped, Quiet
    <3> QED BY <3>1 DEF Quiet
  <2>2. CASE ClientConnected(q)
    BY <1>1, <2>2 DEF ClientConnected
  <2>3. CASE ClientConnectedServiceDown(q) \/ ServerProgress(q) \/ ServerFailure(q)
    BY <1>2, <2>3 DEF ClientConnectedServiceDown, ServerProgress, ServerFailure
  <2> QED BY <1>10, <2>1, <2>2, <2>3 DEF ServiceStep
<1>11. ASSUME NEW q \in ReqId, NEW c \in Caller, EndStep(c, q)
       PROVE  watcher'[r].ph \in {"none", "gone"}
  <2>1. watcher' = watcher \/ watcher' = StopWatcher(watcher, q)
    BY <1>11 DEF EndStep, EndApplied, EndReturned, EndServiceDown, EndConnectionError,
                 EndServerError, TakeEnd
  <2> QED BY <1>1, <1>2, <2>1
<1>12. CASE ServiceNext
  BY <1>9, <1>10, <1>11, <1>12 DEF ServiceNext
<1>13. CASE TunnelSteps \/ UNCHANGED vars
  BY <1>2, <1>13 DEF TunnelSteps, TunnelFrame, svc, vars
<1> QED BY <1>2, <1>3, <1>4, <1>5, <1>6, <1>7, <1>8, <1>12, <1>13 DEF Next, DaemonNext

\* A row is made ready by ServerReady alone.
LEMMA ReadyRows ==
  ASSUME TypeOK, [Next]_vars, NEW r \in DOMAIN table', table'[r].ready
  PROVE  \/ r \in DOMAIN table /\ table[r].ready
         \/ /\ HandleVpnSessionStatus /\ r = Head(events).req
            /\ Head(events).st = "ServerReady"
<1>0. table \in Table /\ table \in [DOMAIN table -> Row] /\ DOMAIN table \subseteq ReqId
  BY TableElim DEF TypeOK
<1>1. CASE table' = table
  BY <1>1
<1>2. ASSUME NEW q, table' = Delete(table, q) PROVE r \in DOMAIN table /\ table[r].ready
  BY <1>0, <1>2, DeleteRows
<1>3. ASSUME NEW q, table' = EndSession(table, q) PROVE r \in DOMAIN table /\ table[r].ready
  BY <1>0, <1>3 DEF EndSession, Row
<1>4. ASSUME NEW q, NEW s, table' = StoreServerStatus(table, q, s), ~(r = q /\ s = "ServerReady")
      PROVE  r \in DOMAIN table /\ table[r].ready
  BY <1>0, <1>4 DEF StoreServerStatus, Row
<1>5. ASSUME NEW q, EndRow(q) PROVE r \in DOMAIN table /\ table[r].ready
  BY <1>3, <1>5 DEF EndRow
<1>6. CASE OnDisconnectInner
  BY <1>1, <1>5, <1>6 DEF OnDisconnectInner, EndSomeRow
<1>7. CASE OnDisconnect \/ OnShutdown
  BY <1>6, <1>7 DEF OnDisconnect, OnShutdown
<1>8. CASE OnConnectAccepted
  <2>1. /\ table' = UpdateOnAccepted(table, newCall.req)
    BY <1>8 DEF OnConnectAccepted
  <2> QED BY <1>0, <2>1, UpdateOnAcceptedRows
<1>9. CASE OnConnectFailed
  BY <1>2, <1>9 DEF OnConnectFailed
<1>10. ASSUME NEW q \in ReqId, NEW l \in Location, OnConnect(q, l)
       PROVE  r \in DOMAIN table /\ table[r].ready
  BY <1>0, <1>10 DEF OnConnect, NewSession
<1>11. CASE HandleVpnSessionStatus
  <2> DEFINE q == Head(events).req
             s == Head(events).st
  <2>1. \/ table' = table \/ table' = Delete(table, q)
        \/ table' = StoreServerStatus(table, q, s)
    BY <1>11 DEF HandleVpnSessionStatus, UpdatedServerStatus
  <2> QED BY <1>1, <1>2, <1>4, <1>11, <2>1
<1>12. CASE HandleTunnelStateTransition
  <2>1. CASE TransitionWithoutSession
    BY <1>1, <2>1 DEF TransitionWithoutSession
  <2>2. ASSUME NEW q \in ReqId, TransitionWithSession(q)
        PROVE  r \in DOMAIN table /\ table[r].ready
    <3>1. \/ EndRow(q) \/ table' = table
          \/ table' = StoreServerStatus(table, q, "ClientConnected")
      BY <2>2 DEF TransitionWithSession
    <3> QED BY <1>1, <1>4, <1>5, <3>1
  <2> QED BY <1>12, <2>1, <2>2 DEF HandleTunnelStateTransition
<1>13. CASE TunnelJoined \/ Exit \/ Crash
  BY <1>1, <1>13 DEF TunnelJoined, Exit, Crash, Die
<1>14. CASE Restart
  BY <1>0, <1>14 DEF Restart, Reclaim, Row
<1>15. ASSUME NEW n \in notes, OnAckNotification(n) PROVE table' = table
  BY <1>15 DEF OnAckNotification
<1>16. CASE ServiceNext
  <2>1. CASE NewSessionApplied \/ ReclaimRound
    BY <1>1, <2>1 DEF NewSessionApplied, ReclaimRound, ReclaimTick
  <2>2. ASSUME NEW q \in ReqId, ServiceStep(q) PROVE table' = table
    BY <2>2 DEF ServiceStep, WatchPoll, WatchDeliver, WatchStopped, ClientConnected,
                ClientConnectedServiceDown, ServerProgress, ServerFailure
  <2>3. ASSUME NEW q \in ReqId, NEW c \in Caller, EndStep(c, q)
        PROVE  table' = table \/ table' = Delete(table, q)
    BY <2>3 DEF EndStep, EndApplied, EndReturned, EndServiceDown, EndConnectionError,
                EndServerError, ServerErrorHandled
  <2> QED BY <1>1, <1>2, <1>16, <2>1, <2>2, <2>3 DEF ServiceNext
<1>17. CASE TunnelSteps \/ UNCHANGED vars
  BY <1>1, <1>17 DEF TunnelSteps, TunnelNext, TunnelCommand, TunnelConnect,
       TunnelDisconnect, TunnelConnected, TunnelClosed, TunnelFault, vars
<1> QED BY <1>1, <1>7, <1>8, <1>9, <1>10, <1>11, <1>12, <1>13, <1>14, <1>15, <1>16, <1>17
        DEF Next, DaemonNext
-----------------------------------------------------------------------------
(* Nothing follows a final status *)

\* Nothing is heard of r, and nothing will be.
Settled(r) == Quiet(r) /\ \A i \in DOMAIN events : events[i].req # r

\* The two parts of FinalStatusIsLast.
LastHeard ==
  \A i \in DOMAIN events :
    events[i].req \in ReqId /\ events[i].st \in FinalWatch =>
      /\ Quiet(events[i].req)
      /\ \A j \in DOMAIN events : events[j].req = events[i].req => j <= i

ReadyHeard == \A r \in DOMAIN table : table[r].ready => Settled(r)

\* Nothing is heard of a request before the answer Accepted, and nothing at all
\* when the process is down.
Fresh ==
  /\ \A r \in ReqId \ used : Settled(r)
  /\ newCall.ph # "idle" => Settled(newCall.req) /\ ~table[newCall.req].ready
  /\ mode = "Down" => events = <<>> /\ \A r \in ReqId : Quiet(r)

Heard == LastHeard /\ ReadyHeard /\ Fresh

\* What is settled stays so.
LEMMA SettledStep ==
  ASSUME TypeOK, [Next]_vars, NEW r \in ReqId, Settled(r),
         ~(OnConnectAccepted /\ newCall.req = r)
  PROVE  Settled(r)'
<1>1. Quiet(r)'
  BY QuietStep DEF Quiet, Settled
<1>2. CASE Shifted(0) \/ Shifted(1)
  BY <1>1, <1>2 DEF Shifted, Settled
<1>3. ASSUME NEW q \in ReqId, WatchDeliver(q),
             events' = Append(events, StatusEvent(q, watcher[q].got))
      PROVE  Settled(r)'
  <2>1. q # r
    BY <1>3 DEF WatchDeliver, Settled, Quiet
  <2>2. Added(StatusEvent(q, watcher[q].got)) /\ StatusEvent(q, watcher[q].got).req = q
    BY <1>3, QueueParts DEF StatusEvent
  <2> QED BY <1>1, <2>1, <2>2 DEF Added, Settled
<1>4. ASSUME NEW s \in Transition, events' = Append(events, TunnelEvent(s))
      PROVE  Settled(r)'
  <2>1. Added(TunnelEvent(s)) /\ TunnelEvent(s).req # r
    BY <1>4, QueueParts, ServiceAssumption DEF TunnelEvent
  <2> QED BY <1>1, <2>1 DEF Added, Settled
<1> QED BY <1>2, <1>3, <1>4, EventsStep, QueueParts

\* Down is entered by the end of the process.
LEMMA ModeStep ==
  ASSUME [Next]_vars, mode' = "Down"
  PROVE  mode = "Down" \/ Die
<1>1. CASE ServiceNext \/ TunnelSteps \/ UNCHANGED vars
  BY <1>1 DEF ServiceNext, TunnelSteps, TunnelFrame, daemonVars, vars
<1>2. CASE DaemonNext
  BY <1>2 DEF DaemonNext, OnConnect, OnConnectAccepted, OnConnectFailed, OnDisconnect,
       HandleVpnSessionStatus, HandleTunnelStateTransition, TransitionWithSession,
       TransitionWithoutSession, OnAckNotification, OnShutdown, TunnelJoined, Exit, Crash,
       Restart
<1> QED BY <1>1, <1>2 DEF Next

\* The calls of NewSession: a new one is of a request that was not used.
LEMMA CallStep ==
  ASSUME TypeOK, [Next]_vars, newCall'.ph # "idle"
  PROVE  \/ /\ newCall.ph # "idle" /\ newCall'.req = newCall.req /\ ~OnConnectAccepted
            /\ ~HandleVpnSessionStatus
         \/ \E r \in ReqId, l \in Location : OnConnect(r, l) /\ newCall'.req = r
<1>0. Idle.ph = "idle"
  BY DEF Idle
<1>1. CASE OnConnectAccepted \/ OnConnectFailed
  BY <1>0, <1>1 DEF OnConnectAccepted, OnConnectFailed
<1>2. CASE Exit \/ Crash
  BY <1>0, <1>2 DEF Exit, Crash, Die
<1>3. CASE newCall' = newCall
  BY <1>0, <1>3 DEF OnConnectAccepted, HandleVpnSessionStatus, Ready
<1>4. ASSUME NEW r \in ReqId, NEW l \in Location, OnConnect(r, l) PROVE newCall'.req = r
  BY <1>4 DEF OnConnect, CallNewSession
<1>5. CASE OnDisconnect \/ HandleVpnSessionStatus \/ OnShutdown \/ TunnelJoined \/ Restart
           \/ HandleTunnelStateTransition
  BY <1>3, <1>5 DEF OnDisconnect, HandleVpnSessionStatus, OnShutdown, TunnelJoined, Restart,
       HandleTunnelStateTransition, TransitionWithSession, TransitionWithoutSession, svc
<1>6. ASSUME NEW n \in notes, OnAckNotification(n) PROVE newCall' = newCall
  BY <1>6 DEF OnAckNotification, svc
<1>7. CASE NewSessionApplied
  BY <1>7 DEF NewSessionApplied, TypeOK, NewCall, Idle, OnConnectAccepted,
              HandleVpnSessionStatus, Ready
<1>8. CASE ServiceNext /\ ~NewSessionApplied
  <2>1. ASSUME NEW q \in ReqId, ServiceStep(q) PROVE newCall' = newCall
    BY <2>1 DEF ServiceStep, WatchPoll, WatchDeliver, WatchStopped, ClientConnected,
                ClientConnectedServiceDown, ServerProgress, ServerFailure
  <2>2. ASSUME NEW q \in ReqId, NEW c \in Caller, EndStep(c, q) PROVE newCall' = newCall
    BY <2>2 DEF EndStep, EndApplied, EndReturned, EndServiceDown, EndConnectionError,
                EndServerError
  <2>3. CASE ReclaimRound
    BY <1>3, <2>3 DEF ReclaimRound, ReclaimTick
  <2> QED BY <1>3, <1>8, <2>1, <2>2, <2>3 DEF ServiceNext
<1>9. CASE TunnelSteps \/ UNCHANGED vars
  BY <1>3, <1>9 DEF TunnelSteps, TunnelFrame, svc, vars
<1> QED BY <1>1, <1>2, <1>3, <1>4, <1>5, <1>6, <1>7, <1>8, <1>9 DEF Next, DaemonNext

\* A final status stays the last of its session.
LEMMA LastHeardStep ==
  ASSUME TypeOK, TypeOK', Bookkeeping, Heard, [Next]_vars
  PROVE  LastHeard'
<1>0. /\ DOMAIN events = 1..Len(events) /\ Len(events) \in Nat
      /\ DOMAIN events' \subseteq Nat
  BY QueueParts DEF TypeOK
<1> DEFINE Goal(i) == /\ watcher'[events'[i].req].ph \in {"none", "gone"}
                      /\ \A j \in DOMAIN events' : events'[j].req = events'[i].req => j <= i
<1> SUFFICES ASSUME NEW i \in DOMAIN events',
                    events'[i].req \in ReqId, events'[i].st \in FinalWatch
             PROVE  Goal(i)
  BY DEF LastHeard, Quiet
<1>1. ASSUME NEW k \in DOMAIN events, events'[i] = events[k]
      PROVE  watcher'[events'[i].req].ph \in {"none", "gone"}
  <2> DEFINE r == events[k].req
  <2>1. r \in ReqId /\ Quiet(r)
    BY <1>1 DEF Heard, LastHeard
  <2>2. ~(OnConnectAccepted /\ newCall.req = r)
    <3>1. newCall.ph # "idle" => newCall.req # r
      BY <1>1 DEF Heard, Fresh, Settled
    <3> QED BY <3>1 DEF OnConnectAccepted
  <2>3. \A q \in ReqId : Quiet(q) /\ ~(OnConnectAccepted /\ newCall.req = q) =>
          watcher'[q].ph \in {"none", "gone"}
    BY QuietStep
  <2> QED BY <1>1, <2>1, <2>2, <2>3
<1>2. ASSUME NEW d \in {0, 1}, Shifted(d) PROVE Goal(i)
  <2>1. i + d \in DOMAIN events /\ events'[i] = events[i + d]
    BY <1>2 DEF Shifted
  <2>2. \A j \in DOMAIN events : events[j].req = events[i + d].req => j <= i + d
    BY <2>1 DEF Heard, LastHeard
  <2>3. ASSUME NEW j \in DOMAIN events', events'[j].req = events'[i].req PROVE j <= i
    <3>1. j + d \in DOMAIN events /\ events'[j] = events[j + d]
      BY <1>2 DEF Shifted
    <3>2. j + d <= i + d
      BY <2>1, <2>2, <2>3, <3>1
    <3> QED BY <1>0, <3>2
  <2> QED BY <1>1, <2>1, <2>3
<1>3. ASSUME NEW r \in ReqId, WatchDeliver(r),
             events' = Append(events, StatusEvent(r, watcher[r].got))
      PROVE  Goal(i)
  <2> DEFINE e == StatusEvent(r, watcher[r].got)
  <2>1. Added(e) /\ e.req = r /\ e.st = watcher[r].got /\ watcher[r].ph = "polled"
    BY <1>3, QueueParts DEF StatusEvent, WatchDeliver
  <2> HIDE DEF e
  <2>2. CASE i \in DOMAIN events /\ events'[i] = events[i]
    <3>1. /\ Quiet(events[i].req) /\ events[i].req # r
          /\ \A j \in DOMAIN events : events[j].req = events[i].req => j <= i
      BY <2>1, <2>2 DEF Heard, LastHeard, Quiet
    <3>2. \A j \in DOMAIN events' : events'[j].req = events'[i].req => j <= i
      BY <2>1, <2>2, <3>1 DEF Added
    <3> QED BY <1>1, <2>2, <3>2
  <2>3. CASE i = Len(events) + 1 /\ events'[i] = e
    <3>1. \A j \in DOMAIN events' : j <= i
      BY <1>0, <2>1, <2>3 DEF Added
    <3>2. watcher[r].got \in FinalWatch /\ GoneWatcher.ph = "gone"
      BY <2>1, <2>3 DEF GoneWatcher, NoWatcher
    <3>3. watcher' = [watcher EXCEPT ![r] = GoneWatcher]
      BY <1>3, <3>2 DEF WatchDeliver
    <3>4. watcher'[r].ph = "gone"
      BY <3>2, <3>3 DEF TypeOK
    <3> QED BY <2>1, <2>3, <3>1, <3>4
  <2> QED BY <2>1, <2>2, <2>3 DEF Added
<1>4. ASSUME NEW s \in Transition, events' = Append(events, TunnelEvent(s)) PROVE Goal(i)
  <2> DEFINE e == TunnelEvent(s)
  <2>1. Added(e) /\ e.req = NoReq
    BY <1>4, QueueParts DEF TunnelEvent
  <2> HIDE DEF e
  <2>2. i \in DOMAIN events /\ events'[i] = events[i]
    BY <2>1, ServiceAssumption DEF Added
  <2>3. \A j \in DOMAIN events : events[j].req = events[i].req => j <= i
    BY <2>2 DEF Heard, LastHeard
  <2>4. \A j \in DOMAIN events' : events'[j].req = events'[i].req => j <= i
    BY <2>1, <2>2, <2>3, ServiceAssumption DEF Added
  <2> QED BY <1>1, <2>2, <2>4
<1> HIDE DEF Goal
<1> QED BY <1>2, <1>3, <1>4, EventsStep, QueueParts

\* A row becomes ready with the last status of its session.
LEMMA ReadyHeardStep ==
  ASSUME TypeOK, TypeOK', Bookkeeping, Heard, [Next]_vars
  PROVE  ReadyHeard'
<1> SUFFICES ASSUME NEW r \in DOMAIN table', table'[r].ready
             PROVE  Settled(r)'
  BY DEF ReadyHeard
<1>0. r \in ReqId
  BY TableElim DEF TypeOK
<1>1. CASE r \in DOMAIN table /\ table[r].ready
  <2>1. Settled(r)
    BY <1>1 DEF Heard, ReadyHeard
  <2>2. ~(OnConnectAccepted /\ newCall.req = r)
    BY <1>1 DEF Heard, Fresh, OnConnectAccepted
  <2> QED BY <1>0, <2>1, <2>2, SettledStep
<1>2. CASE HandleVpnSessionStatus /\ r = Head(events).req /\ Head(events).st = "ServerReady"
  <2>1. events # <<>> /\ events' = Tail(events) /\ watcher' = watcher
    BY <1>2 DEF HandleVpnSessionStatus, svc
  <2>2. 1 \in DOMAIN events /\ events[1] = Head(events) /\ Shifted(1)
        /\ DOMAIN events = 1..Len(events) /\ DOMAIN events' \subseteq Nat \ {0}
    BY <2>1, QueueParts DEF TypeOK
  <2>3. Quiet(r) /\ \A j \in DOMAIN events : events[j].req = r => j <= 1
    BY <1>0, <1>2, <2>2 DEF Heard, LastHeard, FinalWatch
  <2>4. ASSUME NEW i \in DOMAIN events' PROVE events'[i].req # r
    <3>1. i + 1 \in DOMAIN events /\ events'[i] = events[i + 1] /\ ~(i + 1 <= 1)
      BY <2>2 DEF Shifted
    <3> QED BY <2>3, <3>1
  <2> QED BY <2>1, <2>3, <2>4 DEF Settled, Quiet
<1> QED BY <1>1, <1>2, ReadyRows

\* Requests stay used.
LEMMA UsedStep ==
  ASSUME TypeOK, [Next]_vars
  PROVE  used \subseteq used'
<1>1. CASE ServiceNext \/ TunnelSteps \/ UNCHANGED vars
  BY <1>1 DEF ServiceNext, TunnelSteps, TunnelFrame, daemonVars, vars
<1>2. CASE DaemonNext
  BY <1>2 DEF DaemonNext, OnConnect, OnConnectAccepted, OnConnectFailed, OnDisconnect,
       HandleVpnSessionStatus, HandleTunnelStateTransition, TransitionWithSession,
       TransitionWithoutSession, OnAckNotification, OnShutdown, TunnelJoined, Exit, Crash,
       Die, Restart
<1> QED BY <1>1, <1>2 DEF Next

\* Nothing is heard too early.
LEMMA FreshStep ==
  ASSUME TypeOK, TypeOK', Bookkeeping, Bookkeeping', Heard, [Next]_vars
  PROVE  Fresh'
<1>0. /\ DOMAIN table \subseteq used /\ Unmarked(table) \subseteq DOMAIN table
      /\ newCall.ph # "idle" => newCall.req \in used /\ newCall.req \in DOMAIN table
      /\ newCall'.ph # "idle" => newCall'.req \in DOMAIN table'
      /\ newCall.ph # "idle" => newCall.req \in ReqId
  BY TableElim DEF TypeOK, Bookkeeping, UsedFirst, CallHasRow, Unmarked
<1>1. used \subseteq used'
  BY UsedStep
<1>2. ASSUME NEW r \in ReqId \ used' PROVE Settled(r)'
  <2>1. r \in ReqId \ used /\ Settled(r)
    BY <1>1 DEF Heard, Fresh
  <2>2. ~(OnConnectAccepted /\ newCall.req = r)
    BY <1>0, <2>1 DEF OnConnectAccepted
  <2> QED BY <2>1, <2>2, SettledStep
<1>3. ASSUME newCall'.ph # "idle"
      PROVE  Settled(newCall.req)' /\ ~table'[newCall'.req].ready
  <2>1. CASE newCall.ph # "idle" /\ newCall'.req = newCall.req /\ ~OnConnectAccepted
             /\ ~HandleVpnSessionStatus
    <3> DEFINE r == newCall.req
    <3>1. r \in ReqId /\ Settled(r) /\ ~table[r].ready
      BY <1>0, <2>1 DEF Heard, Fresh
    <3>2. \A q \in ReqId : Settled(q) => /\ watcher'[q].ph \in {"none", "gone"}
                                         /\ \A i \in DOMAIN events' : events'[i].req # q
      BY <2>1, SettledStep DEF Settled, Quiet
    <3>3. r \in DOMAIN table' /\ ~table'[r].ready
      BY <1>0, <1>3, <2>1, <3>1, ReadyRows
    <3> QED BY <2>1, <3>1, <3>2, <3>3 DEF Settled, Quiet
  <2>2. ASSUME NEW r \in ReqId, NEW l \in Location, OnConnect(r, l), newCall'.req = r
        PROVE  Settled(newCall.req)' /\ ~table'[newCall'.req].ready
    <3>1. r \notin used /\ UNCHANGED <<watcher, events>> /\ table' = NewSession(table, r, l)
      BY <2>2 DEF OnConnect
    <3>2. Settled(r) /\ table'[r].ready = FALSE
      BY <3>1 DEF Heard, Fresh, NewSession
    <3> QED BY <2>2, <3>1, <3>2 DEF Settled, Quiet
  <2> QED BY <1>3, <2>1, <2>2, CallStep
<1>4. ASSUME mode' = "Down" PROVE events' = <<>> /\ \A r \in ReqId : Quiet(r)'
  <2>1. CASE Die
    BY <2>1 DEF Die, Quiet, NoWatcher
  <2>2. CASE mode = "Down"
    <3>1. events = <<>> /\ \A r \in ReqId : Quiet(r)
      BY <2>2 DEF Heard, Fresh
    <3>2. \A r \in ReqId : ~WatchDeliver(r)
      BY <3>1 DEF WatchDeliver, Quiet
    <3>3. ~TunnelSteps /\ ~OnConnectAccepted
      BY <2>2 DEF TunnelSteps, TunnelFrame, OnConnectAccepted
    <3>4. events' = <<>>
      BY <3>1, <3>2, <3>3, EventsStep
    <3>5. \A r \in ReqId : Quiet(r)'
      BY <3>1, <3>3, QuietStep DEF Quiet
    <3> QED BY <3>4, <3>5
  <2> QED BY <1>4, <2>1, <2>2, ModeStep
<1> QED BY <1>2, <1>3, <1>4 DEF Fresh

\* Nothing has been heard at the start.
LEMMA HeardInit ==
  ASSUME Init
  PROVE  Heard
<1>1. events = <<>> /\ (\A r \in ReqId : Quiet(r)) /\ newCall.ph = "idle" /\ DOMAIN table = {}
  BY DEF Init, Quiet, NoWatcher, Idle, EmptyTable
<1> QED BY <1>1 DEF Init, Heard, LastHeard, ReadyHeard, Fresh, Settled

\* What is heard of sessions, and when.
THEOREM HeardHolds == Spec => []Heard
<1>1. TypeOK /\ TypeOK' /\ Bookkeeping /\ Bookkeeping' /\ Heard /\ [Next]_vars => Heard'
  BY LastHeardStep, ReadyHeardStep, FreshStep DEF Heard
<1> QED BY <1>1, HeardInit, TypeCorrect, BookkeepingHolds, PTL DEF Spec

\* A watcher sends nothing after Failed, ServerReady, ClientConnected or Ended, so
\* that the daemon tells the tunnel to connect once per session, for any number of
\* sessions, faults and restarts.
THEOREM NothingAfterFinal == Spec => []FinalStatusIsLast
<1>1. TypeOK /\ Heard => FinalStatusIsLast
  <2> SUFFICES ASSUME TypeOK, Heard, NEW r \in ReqId
               PROVE  LET queued == {i \in DOMAIN events : events[i].req = r}
                          quiet == watcher[r].ph \in {"none", "gone"}
                      IN /\ \A i \in queued : events[i].st \in FinalWatch =>
                               quiet /\ \A j \in queued : j <= i
                         /\ r \in DOMAIN table /\ table[r].ready => quiet /\ queued = {}
    BY DEF FinalStatusIsLast
  <2> QED BY DEF Heard, LastHeard, ReadyHeard, Settled, Quiet
<1> QED BY <1>1, HeardHolds, TypeCorrect, PTL
-----------------------------------------------------------------------------
(* One session at a time, up to the second request *)

\* A transition to s is among the events of q.
Queued(q, s) == \E i \in DOMAIN q : q[i] = TunnelEvent(s)

\* Command c is among those of q; the last of q takes the tunnel down.
Told(q, c) == \E i \in DOMAIN q : q[i] = c
DownLast(q) == q # <<>> /\ q[Len(q)] = "Disconnect"

\* The tunnel has not been told anything, nor has it said anything.
Pristine ==
  /\ tcmd = <<>> /\ tun = TunnelDown
  /\ \A s \in Transition : ~Queued(events, s)

\* At most one request has been made.
Single == \A r1, r2 \in used : r1 = r2

Untouched ==
  used = {} \/ mode = "Down" => Pristine /\ status = Disconnected

\* While the first session is in use, nothing that would reset the status is on
\* its way: no Disconnect to the tunnel, no Disconnected from it.
FirstSession ==
  Single /\ mode = "Running" /\ Unmarked(table) # {} =>
    /\ newCall.ph = "idle" => status.st # "Disconnected"
    /\ ~Told(tcmd, "Disconnect")
    /\ ~Queued(events, "Disconnected")
    /\ tun.st = "Disconnecting" => tun.after # "nothing"

\* What the steps of the service, the watchers, the reclaimer, and the
\* acknowledgement of a notification leave as it is.
Aside ==
  /\ UNCHANGED <<mode, status, used, tun, tcmd>>
  /\ Unmarked(table') = Unmarked(table)
  /\ \A r \in Unmarked(table) : table'[r] = table[r]
  /\ newCall'.ph = "idle" <=> newCall.ph = "idle"
  /\ faults' = 0 => faults = 0
  /\ \A s \in Transition : Queued(events', s) <=> Queued(events, s)

\* The transitions among the events when one is taken from the front.
LEMMA QueuedTail ==
  ASSUME NEW q \in Seq(Event), q # <<>>
  PROVE  /\ \A s \in Transition : Queued(Tail(q), s) => Queued(q, s)
         /\ \A s \in Transition :
              Queued(q, s) /\ Head(q) # TunnelEvent(s) => Queued(Tail(q), s)
         /\ Head(q).req = NoReq =>
              /\ Head(q).st \in Transition /\ Head(q) = TunnelEvent(Head(q).st)
              /\ Queued(q, Head(q).st)
<1>1. /\ Head(q) = q[1] /\ 1 \in DOMAIN q /\ Head(q) \in Event
      /\ DOMAIN q = 1..Len(q) /\ Len(q) \in Nat
      /\ DOMAIN Tail(q) = 1..(Len(q) - 1)
      /\ \A i \in 1..(Len(q) - 1) : Tail(q)[i] = q[i + 1]
  OBVIOUS
<1>2. \A s \in Transition : Queued(Tail(q), s) => Queued(q, s)
  BY <1>1 DEF Queued
<1>3. ASSUME NEW s \in Transition, Queued(q, s), Head(q) # TunnelEvent(s)
      PROVE  Queued(Tail(q), s)
  <2>1. PICK i \in DOMAIN q : q[i] = TunnelEvent(s)
    BY <1>3 DEF Queued
  <2>2. i # 1 /\ i - 1 \in DOMAIN Tail(q) /\ Tail(q)[i - 1] = q[i]
    BY <1>1, <1>3, <2>1
  <2> QED BY <2>1, <2>2 DEF Queued
<1>4. ASSUME Head(q).req = NoReq
      PROVE  Head(q).st \in Transition /\ Head(q) = TunnelEvent(Head(q).st)
  BY <1>1, <1>4, ServiceAssumption DEF Event, TunnelEvent
<1> QED BY <1>1, <1>2, <1>3, <1>4 DEF Queued

\* The transitions among the events when one is added.
LEMMA QueuedAppend ==
  ASSUME NEW q \in Seq(Event), NEW e \in Event, NEW s \in Transition
  PROVE  Queued(Append(q, e), s) <=> Queued(q, s) \/ e = TunnelEvent(s)
<1>1. /\ DOMAIN q = 1..Len(q) /\ Len(q) \in Nat
      /\ DOMAIN Append(q, e) = 1..(Len(q) + 1)
      /\ \A i \in 1..Len(q) : Append(q, e)[i] = q[i]
      /\ Append(q, e)[Len(q) + 1] = e
  OBVIOUS
<1>2. Queued(q, s) \/ e = TunnelEvent(s) => Queued(Append(q, e), s)
  BY <1>1 DEF Queued
<1>3. ASSUME Queued(Append(q, e), s) PROVE Queued(q, s) \/ e = TunnelEvent(s)
  <2>1. PICK i \in 1..(Len(q) + 1) : Append(q, e)[i] = TunnelEvent(s)
    BY <1>1, <1>3 DEF Queued
  <2>2. i \in 1..Len(q) \/ i = Len(q) + 1
    BY <1>1
  <2> QED BY <1>1, <2>1, <2>2 DEF Queued
<1> QED BY <1>2, <1>3

\* The steps aside from the sessions and the tunnel.
LEMMA AsideSteps ==
  ASSUME TypeOK, TypeOK', Bookkeeping,
         ServiceNext \/ (\E n \in notes : OnAckNotification(n)) \/ UNCHANGED vars
  PROVE  Aside
<1>0. table \in Table /\ Idle.ph = "idle" /\ faults \in Nat
  BY DEF TypeOK, Idle
<1>1. CASE UNCHANGED vars \/ \E n \in notes : OnAckNotification(n)
  <2>1. UNCHANGED <<mode, status, used, tun, tcmd, table, newCall, faults, events>>
    BY <1>1 DEF vars, OnAckNotification, svc, tunnel
  <2> QED BY <2>1 DEF Aside
<1>2. CASE ServiceNext
  <2>0. UNCHANGED <<mode, status, used, tun, tcmd>>
    BY <1>2 DEF ServiceNext, daemonVars, tunnel
  <2>1. CASE NewSessionApplied
    <3>1. UNCHANGED <<table, events, faults>> /\ newCall.ph # "idle" /\ newCall'.ph # "idle"
      BY <2>1 DEF NewSessionApplied, TypeOK, NewCall, Idle
    <3> QED BY <2>0, <3>1 DEF Aside
  <2>2. CASE ReclaimRound
    <3>1. UNCHANGED <<table, events, faults, newCall>>
      BY <2>2 DEF ReclaimRound, ReclaimTick
    <3> QED BY <2>0, <3>1 DEF Aside
  <2>3. ASSUME NEW r \in ReqId, ServiceStep(r) PROVE Aside
    <3>1. UNCHANGED <<table, newCall>> /\ (faults' = 0 => faults = 0)
      BY <1>0, <2>3 DEF ServiceStep, WatchPoll, WatchDeliver, WatchStopped, ClientConnected,
               ClientConnectedServiceDown, ServerProgress, ServerFailure, Fault
    <3>2. \A s \in Transition : Queued(events', s) <=> Queued(events, s)
      <4>1. events' = events \/ events' = Append(events, StatusEvent(r, watcher[r].got))
        BY <2>3 DEF ServiceStep, WatchPoll, WatchDeliver, WatchStopped, ClientConnected,
               ClientConnectedServiceDown, ServerProgress, ServerFailure
      <4>2. ASSUME events' = Append(events, StatusEvent(r, watcher[r].got)), events' # events
            PROVE  StatusEvent(r, watcher[r].got) \in Event
        <5>1. WatchDeliver(r)
          BY <2>3, <4>2 DEF ServiceStep, WatchPoll, WatchStopped, ClientConnected,
               ClientConnectedServiceDown, ServerProgress, ServerFailure
        <5>2. watcher[r].got \in VpnSessionStatus
          BY <5>1 DEF TypeOK, WatchDeliver, Watcher
        <5> QED BY <5>2 DEF StatusEvent, Event
      <4>3. \A s \in Transition : StatusEvent(r, watcher[r].got) # TunnelEvent(s)
        BY ServiceAssumption DEF StatusEvent, TunnelEvent
      <4>4. events \in Seq(Event)
        BY DEF TypeOK
      <4>5. CASE events' = events
        BY <4>5
      <4>6. CASE events' # events
        <5> DEFINE e == StatusEvent(r, watcher[r].got)
        <5>1. e \in Event /\ events' = Append(events, e) /\ \A s \in Transition : e # TunnelEvent(s)
          BY <4>1, <4>2, <4>3, <4>6
        <5> HIDE DEF e
        <5> QED BY <5>1, <4>4, QueuedAppend
      <4> QED BY <4>5, <4>6
    <3> QED BY <2>0, <3>1, <3>2 DEF Aside
  <2>4. ASSUME NEW r \in ReqId, NEW c \in Caller, EndStep(c, r) PROVE Aside
    <3>1. UNCHANGED <<events, newCall>> /\ (faults' = 0 => faults = 0)
          /\ (table' = table \/ (table' = Delete(table, r) /\ endCall[c][r] # "none"))
      BY <1>0, <2>4 DEF EndStep, EndApplied, EndReturned, EndServiceDown,
               EndConnectionError, EndServerError, ServerErrorHandled, TakeEnd, Fault
    <3>2. table' = Delete(table, r) => /\ Unmarked(table') = Unmarked(table) \ {r}
                                       /\ \A x \in Unmarked(table) \ {r} : table'[x] = table[x]
      <4>1. Unmarked(Delete(table, r)) = Unmarked(table) \ {r}
        BY <1>0, DeleteRows
      <4>2. \A x \in Unmarked(table) \ {r} : Delete(table, r)[x] = table[x]
        BY <1>0 DEF Delete, Unmarked
      <4> QED BY <4>1, <4>2
    <3>3. endCall[c][r] # "none" => r \notin Unmarked(table)
      BY DEF Bookkeeping, EndsOnlyGivenUp
    <3> QED BY <2>0, <3>1, <3>2, <3>3 DEF Aside
  <2> QED BY <1>2, <2>1, <2>2, <2>3, <2>4 DEF ServiceNext
<1> QED BY <1>1, <1>2

\* The transitions among the events when the tunnel announces its state.
LEMMA QueuedTransition ==
  ASSUME TypeOK, TypeOK',
         events' = events \/ events' = Append(events, TunnelEvent(tun'.st))
  PROVE  \A s \in Transition : /\ Queued(events, s) => Queued(events', s)
                               /\ Queued(events', s) => Queued(events, s) \/ tun'.st = s
<1>1. events \in Seq(Event) /\ tun'.st \in Transition
  BY DEF TypeOK, TunnelState
<1>2. TunnelEvent(tun'.st) \in Event /\ \A s : TunnelEvent(tun'.st) = TunnelEvent(s) => tun'.st = s
  BY <1>1 DEF TunnelEvent, Event
<1> DEFINE e == TunnelEvent(tun'.st)
<1>3. e \in Event /\ \A s : e = TunnelEvent(s) => tun'.st = s
  BY <1>2
<1>4. events' = events \/ events' = Append(events, e)
  OBVIOUS
<1> HIDE DEF e
<1>5. \A s \in Transition : Queued(Append(events, e), s) <=> Queued(events, s) \/ e = TunnelEvent(s)
  BY <1>1, <1>3, QueuedAppend
<1> QED BY <1>3, <1>4, <1>5

\* What a step of the tunnel does, by what it is told and the state it is in.
LEMMA TunnelMoves ==
  ASSUME TypeOK, TypeOK', TunnelSteps
  PROVE  /\ UNCHANGED <<mode, status, used, table, newCall>>
         /\ faults' = 0 => faults = 0
         /\ \A s \in Transition :
              /\ Queued(events, s) => Queued(events', s)
              /\ Queued(events', s) => Queued(events, s) \/ tun'.st = s
         /\ \/ /\ tcmd # <<>> /\ Head(tcmd) = "Connect" /\ tcmd' = Tail(tcmd)
               /\ \/ tun.st \in {"Disconnected", "Error"} /\ tun'.st \in {"Error", "Connecting"}
                  \/ /\ tun.st \in {"Connecting", "Connected", "Disconnecting"}
                     /\ tun'.st = "Disconnecting" /\ tun'.after = "reconnect"
            \/ /\ tcmd # <<>> /\ Head(tcmd) = "Disconnect" /\ tcmd' = Tail(tcmd)
               /\ \/ tun'.st = "Disconnected"
                  \/ tun'.st = "Disconnecting" /\ tun'.after = "nothing"
            \/ tcmd' = tcmd /\ tun.st = "Connecting" /\ tun'.st = "Connected"
            \/ /\ tcmd' = tcmd /\ tun.st = "Disconnecting"
               /\ \/ tun.after = "nothing" /\ tun'.st = "Disconnected"
                  \/ tun.after # "nothing" /\ tun'.st \in {"Error", "Connecting"}
            \/ /\ tcmd' = tcmd /\ tun.st \in {"Connecting", "Connected"} /\ faults' # 0
               /\ tun'.st = "Disconnecting" /\ tun'.after # "nothing"
<1>0. /\ tun \in TunnelState /\ tun' \in TunnelState /\ faults \in Nat
      /\ TunnelDown.st = "Disconnected"
      /\ [TunnelDown EXCEPT !.st = "Error"].st = "Error"
  BY DEF TypeOK, TunnelDown
<1>1. TryConnect => /\ tun'.st \in {"Error", "Connecting"}
                    /\ events' = Append(events, TunnelEvent(tun'.st))
  BY <1>0 DEF TryConnect, Enter
<1>2. \A a : Leave(a) => /\ tun'.st = "Disconnecting" /\ tun'.after = a
                         /\ events' = Append(events, TunnelEvent(tun'.st))
  BY <1>0 DEF Leave, Enter, TunnelState
<1>3. Enter(TunnelDown) => /\ tun'.st = "Disconnected"
                           /\ events' = Append(events, TunnelEvent(tun'.st))
  BY <1>0 DEF Enter
<1>4. Enter([TunnelDown EXCEPT !.st = "Error"]) =>
        tun'.st = "Error" /\ events' = Append(events, TunnelEvent(tun'.st))
  BY <1>0 DEF Enter
<1>5. Enter([tun EXCEPT !.st = "Connected"]) =>
        tun'.st = "Connected" /\ events' = Append(events, TunnelEvent(tun'.st))
  BY <1>0 DEF Enter, TunnelState
<1>6. \A a : tun' = [tun EXCEPT !.after = a] => tun'.st = tun.st /\ tun'.after = a
  BY <1>0 DEF TunnelState
<1>7. UNCHANGED <<mode, status, used, table, newCall>>
  BY DEF TunnelSteps, TunnelFrame, TunnelNext, TunnelCommand, TunnelConnect, TunnelDisconnect,
         TunnelConnected, TunnelClosed, TunnelFault, daemonVars, svc
<1>8. faults' = 0 => faults = 0
  BY <1>0 DEF TunnelSteps, TunnelNext, TunnelCommand, TunnelConnect, TunnelDisconnect,
         TunnelConnected, TunnelClosed, TunnelFault
<1>9. CASE TunnelConnect
  <2>1. events' = events \/ events' = Append(events, TunnelEvent(tun'.st))
    BY <1>1, <1>2, <1>9 DEF TunnelConnect
  <2>2. /\ tcmd # <<>> /\ Head(tcmd) = "Connect" /\ tcmd' = Tail(tcmd)
        /\ \/ tun.st \in {"Disconnected", "Error"} /\ tun'.st \in {"Error", "Connecting"}
           \/ /\ tun.st \in {"Connecting", "Connected", "Disconnecting"}
              /\ tun'.st = "Disconnecting" /\ tun'.after = "reconnect"
    BY <1>1, <1>2, <1>6, <1>9 DEF TunnelConnect
  <2> QED BY <1>7, <1>8, <2>1, <2>2, QueuedTransition
<1>10. CASE TunnelDisconnect
  <2>1. events' = events \/ events' = Append(events, TunnelEvent(tun'.st))
    BY <1>2, <1>3, <1>10 DEF TunnelDisconnect
  <2>2. /\ tcmd # <<>> /\ Head(tcmd) = "Disconnect" /\ tcmd' = Tail(tcmd)
        /\ tun'.st = "Disconnected" \/ (tun'.st = "Disconnecting" /\ tun'.after = "nothing")
    BY <1>2, <1>3, <1>6, <1>10 DEF TunnelDisconnect
  <2> QED BY <1>7, <1>8, <2>1, <2>2, QueuedTransition
<1>11. CASE TunnelConnected
  <2>1. events' = Append(events, TunnelEvent(tun'.st)) /\ tcmd' = tcmd
        /\ tun.st = "Connecting" /\ tun'.st = "Connected"
    BY <1>5, <1>11 DEF TunnelConnected
  <2> QED BY <1>7, <1>8, <2>1, QueuedTransition
<1>12. CASE TunnelClosed
  <2>1. events' = Append(events, TunnelEvent(tun'.st))
    BY <1>1, <1>3, <1>4, <1>12 DEF TunnelClosed
  <2>2. /\ tcmd' = tcmd /\ tun.st = "Disconnecting"
        /\ \/ tun.after = "nothing" /\ tun'.st = "Disconnected"
           \/ tun.after # "nothing" /\ tun'.st \in {"Error", "Connecting"}
    BY <1>1, <1>3, <1>4, <1>12 DEF TunnelClosed
  <2> QED BY <1>7, <1>8, <2>1, <2>2, QueuedTransition
<1>13. CASE TunnelFault
  <2>1. events' = Append(events, TunnelEvent(tun'.st)) /\ tun'.st = "Disconnecting"
        /\ tun'.after # "nothing"
    BY <1>2, <1>13 DEF TunnelFault
  <2>2. tcmd' = tcmd /\ tun.st \in {"Connecting", "Connected"} /\ faults' # 0
    BY <1>0, <1>13 DEF TunnelFault
  <2> QED BY <1>7, <1>8, <2>1, <2>2, QueuedTransition
<1> QED BY <1>9, <1>10, <1>11, <1>12, <1>13 DEF TunnelSteps, TunnelNext, TunnelCommand

\* The queue of commands when one is added or taken.
LEMMA CommandQueue ==
  ASSUME NEW q \in Seq({"Connect", "Disconnect"})
  PROVE  /\ q \o <<>> = q
         /\ \A c \in {"Connect", "Disconnect"} : q \o <<c>> = Append(q, c)
         /\ \A c, d \in {"Connect", "Disconnect"} :
              Told(Append(q, c), d) => Told(q, d) \/ c = d
         /\ \A c \in {"Connect", "Disconnect"} :
              q # <<>> => /\ Told(Tail(q), c) => Told(q, c)
                          /\ Head(q) = c => Told(q, c)
         /\ DownLast(Append(q, "Disconnect"))
         /\ DownLast(q) => DownLast(Tail(q)) \/ (Tail(q) = <<>> /\ Head(q) = "Disconnect")
         /\ q = <<>> => Append(q, "Connect") = <<"Connect">>
         /\ q = <<"Connect">> => Tail(q) = <<>> /\ Head(q) = "Connect"
<1>0. DOMAIN q = 1..Len(q) /\ Len(q) \in Nat
  OBVIOUS
<1>1. /\ q \o <<>> = q
      /\ \A c \in {"Connect", "Disconnect"} : q \o <<c>> = Append(q, c)
  OBVIOUS
<1>2. ASSUME NEW c \in {"Connect", "Disconnect"}
      PROVE  /\ DOMAIN Append(q, c) = 1..(Len(q) + 1) /\ Len(Append(q, c)) = Len(q) + 1
             /\ \A i \in 1..Len(q) : Append(q, c)[i] = q[i]
             /\ Append(q, c)[Len(q) + 1] = c /\ Append(q, c) # <<>>
  OBVIOUS
<1>3. ASSUME NEW c \in {"Connect", "Disconnect"}, NEW d \in {"Connect", "Disconnect"},
             Told(Append(q, c), d), c # d
      PROVE  Told(q, d)
  <2>1. PICK i \in 1..(Len(q) + 1) : Append(q, c)[i] = d
    BY <1>2, <1>3 DEF Told
  <2>2. i \in 1..Len(q)
    BY <1>0, <1>2, <1>3, <2>1
  <2> QED BY <1>0, <1>2, <2>1, <2>2 DEF Told
<1>4. q # <<>> => /\ Head(q) = q[1] /\ 1 \in DOMAIN q /\ DOMAIN Tail(q) = 1..(Len(q) - 1)
                  /\ Len(Tail(q)) = Len(q) - 1
                  /\ \A i \in 1..(Len(q) - 1) : Tail(q)[i] = q[i + 1]
  OBVIOUS
<1>5. \A c : q # <<>> => /\ Told(Tail(q), c) => Told(q, c)
                         /\ Head(q) = c => Told(q, c)
  BY <1>0, <1>4 DEF Told
<1>6. DownLast(Append(q, "Disconnect"))
  BY <1>2 DEF DownLast
<1>7. ASSUME DownLast(q)
      PROVE  DownLast(Tail(q)) \/ (Tail(q) = <<>> /\ Head(q) = "Disconnect")
  <2>1. q # <<>> /\ q[Len(q)] = "Disconnect" /\ Len(q) >= 1
    BY <1>0, <1>4, <1>7 DEF DownLast
  <2>2. CASE Len(q) = 1
    BY <1>4, <2>1, <2>2
  <2>3. CASE Len(q) > 1
    <3>1. Tail(q)[Len(q) - 1] = q[Len(q)] /\ Tail(q) # <<>>
      BY <1>0, <1>4, <2>1, <2>3
    <3> QED BY <1>4, <2>1, <3>1 DEF DownLast
  <2> QED BY <1>0, <2>1, <2>2, <2>3
<1>8. q = <<>> => Append(q, "Connect") = <<"Connect">>
  OBVIOUS
<1>9. q = <<"Connect">> => Tail(q) = <<>> /\ Head(q) = "Connect"
  BY <1>4
<1> QED BY <1>1, <1>3, <1>5, <1>6, <1>7, <1>8, <1>9

\* The rows when one of several things is stored for r.
LEMMA StoreReady ==
  ASSUME NEW t \in Table, NEW r \in ReqId, NEW s
  PROVE  \A x \in DOMAIN t :
           StoreServerStatus(t, r, s)[x].ready = (t[x].ready \/ (x = r /\ s = "ServerReady"))
BY TableElim DEF StoreServerStatus, Row

\* What the handler of a status does, by the row it finds and the status.
LEMMA StatusMoves ==
  ASSUME TypeOK, HandleVpnSessionStatus
  PROVE  LET r == Head(events).req
             s == Head(events).st
         IN /\ UNCHANGED <<mode, used, newCall, tun, faults>>
            /\ mode = "Running" /\ newCall.ph = "idle" /\ r \in ReqId
            /\ events # <<>> /\ 1 \in DOMAIN events /\ events[1].req = r
            /\ \A t \in Transition : Queued(events', t) <=> Queued(events, t)
            /\ \/ r \notin Unmarked(table) /\ UNCHANGED <<table, status, tcmd>>
               \/ /\ r \in Unmarked(table) /\ s \in {"Failed", "Ended"}
                  /\ Unmarked(table') = Unmarked(table) \ {r} /\ tcmd' = tcmd
               \/ /\ r \in Unmarked(table) /\ s = "ServerReady"
                  /\ Unmarked(table') = Unmarked(table) /\ table'[r].ready
                  /\ tcmd' = Append(tcmd, "Connect") /\ status'.st = "ServerReady"
               \/ /\ r \in Unmarked(table) /\ Unmarked(table') = Unmarked(table)
                  /\ table'[r].ready = table[r].ready /\ tcmd' = tcmd
                  /\ status' = status \/ status'.st \in {"ServerCreated", "ServerRunning"}
<1> DEFINE r == Head(events).req
           s == Head(events).st
<1>0. /\ events # <<>> /\ r \in ReqId /\ s \in VpnSessionStatus /\ table \in Table
      /\ r # NoReq /\ events \in Seq(Event) /\ tcmd \in Seq({"Connect", "Disconnect"})
      /\ events' = Tail(events) /\ table' = UpdatedServerStatus(table, r, s)
      /\ mode = "Running" /\ newCall.ph = "idle"
      /\ UNCHANGED <<mode, used, newCall, tun, faults>>
  BY HeadEvent DEF TypeOK, HandleVpnSessionStatus, Ready, svc
<1>1. 1 \in DOMAIN events /\ events[1].req = r
  BY <1>0, QueueParts
<1>2. \A t \in Transition : Queued(events', t) <=> Queued(events, t)
  <2>1. \A t \in Transition : Head(events) # TunnelEvent(t)
    BY <1>0 DEF TunnelEvent
  <2> QED BY <1>0, <2>1, QueuedTail
<1>3. CASE r \notin Unmarked(table)
  <2>1. UNCHANGED <<table, status, tcmd>>
    BY <1>3 DEF HandleVpnSessionStatus, UpdatedServerStatus
  <2> QED BY <1>0, <1>1, <1>2, <1>3, <2>1
<1>4. CASE r \in Unmarked(table) /\ s \in {"Failed", "Ended"}
  <2>1. Unmarked(table') = Unmarked(table) \ {r}
    BY <1>0, <1>4, DeleteRows DEF UpdatedServerStatus
  <2>2. tcmd' = tcmd \o <<>>
    BY <1>4 DEF HandleVpnSessionStatus, TunnelCommandOnStatus
  <2> QED BY <1>0, <1>1, <1>2, <1>4, <2>1, <2>2, CommandQueue
<1>5. CASE r \in Unmarked(table) /\ s \notin {"Failed", "Ended"}
  <2>1. table' = StoreServerStatus(table, r, s)
    BY <1>0, <1>5 DEF UpdatedServerStatus
  <2>2. Unmarked(table') = Unmarked(table) /\ r \in DOMAIN table
    BY <1>0, <1>5, <2>1, StoreServerStatusRows DEF Unmarked
  <2>3. table'[r].ready = (table[r].ready \/ s = "ServerReady")
    BY <1>0, <2>1, <2>2, StoreReady
  <2>4. /\ status' = StatusFromServer(status, s, table[r].loc)
        /\ tcmd' = tcmd \o TunnelCommandOnStatus(s)
    BY <1>5 DEF HandleVpnSessionStatus
  <2>5. CASE s = "ServerReady"
    <3>1. tcmd' = Append(tcmd, "Connect")
      BY <1>0, <2>4, <2>5, CommandQueue DEF TunnelCommandOnStatus
    <3>2. status'.st = "ServerReady"
      BY <2>4, <2>5 DEF StatusFromServer
    <3> QED BY <1>0, <1>1, <1>2, <1>5, <2>2, <2>3, <2>5, <3>1, <3>2
  <2>6. CASE s # "ServerReady"
    <3>1. tcmd' = tcmd
      BY <1>0, <2>4, <2>6, CommandQueue DEF TunnelCommandOnStatus
    <3>2. status' = status \/ status'.st \in {"ServerCreated", "ServerRunning"}
      <4>1. CASE s \in {"ServerCreated", "ServerRunning"}
        BY <2>4, <4>1 DEF StatusFromServer
      <4>2. CASE s \in {"Accepted", "ClientConnected"}
        BY <2>4, <4>2 DEF StatusFromServer
      <4> QED BY <1>0, <1>5, <2>6, <4>1, <4>2 DEF VpnSessionStatus
    <3>3. table'[r].ready = table[r].ready
      BY <1>0, <1>5, <2>2, <2>3, <2>6, TableElim DEF Row
    <3> QED BY <1>0, <1>1, <1>2, <1>5, <2>2, <3>1, <3>2, <3>3
  <2> QED BY <2>5, <2>6
<1> QED BY <1>3, <1>4, <1>5

\* What Connect does up to its await.
LEMMA ConnectMoves ==
  ASSUME TypeOK, Bookkeeping, NEW r \in ReqId, NEW l \in Location, OnConnect(r, l)
  PROVE  /\ UNCHANGED <<mode, status, events, tun, tcmd, faults>>
         /\ mode = "Running" /\ newCall.ph = "idle" /\ newCall'.ph # "idle"
         /\ status.st = "Disconnected"
         /\ r \notin used /\ used' = used \cup {r}
         /\ Unmarked(table') = Unmarked(table) \cup {r}
         /\ table'[r].ready = FALSE
<1>1. r \notin DOMAIN table /\ table \in Table /\ table' = NewSession(table, r, l)
  BY DEF OnConnect, Bookkeeping, UsedFirst, TypeOK
<1>2. Unmarked(table') = Unmarked(table) \cup {r}
  BY <1>1, NewSessionRows
<1>3. table'[r].ready = FALSE
  BY <1>1 DEF NewSession
<1> QED BY <1>2, <1>3 DEF OnConnect, Ready, CallNewSession, VpnSessionInProgress, tunnel

\* What the answer to NewSession does.
LEMMA AnswerMoves ==
  ASSUME TypeOK, Bookkeeping, OnConnectAccepted \/ OnConnectFailed
  PROVE  /\ UNCHANGED <<mode, used, events, tun, tcmd>> /\ mode = "Running"
         /\ faults' = 0 => faults = 0
         /\ newCall.ph # "idle" /\ newCall'.ph = "idle" /\ newCall.req \in Unmarked(table)
         /\ status = Disconnected
         /\ \/ /\ Unmarked(table') = Unmarked(table) /\ status'.st = "Accepted"
               /\ \A x \in Unmarked(table) : table'[x].ready = table[x].ready
            \/ status' = status /\ Unmarked(table') = Unmarked(table) \ {newCall.req}
<1>0. table \in Table /\ faults \in Nat /\ Idle.ph = "idle" /\ newCall.ph # "idle"
  BY DEF TypeOK, Idle, OnConnectAccepted, OnConnectFailed
<1>1. newCall.req \in Unmarked(table) /\ status = Disconnected
  BY <1>0 DEF Bookkeeping, CallHasRow
<1>2. CASE OnConnectAccepted
  <2>1. /\ Unmarked(table') = Unmarked(table)
        /\ \A x \in DOMAIN table : table'[x].ready = table[x].ready
    BY <1>0, <1>2, UpdateOnAcceptedRows DEF OnConnectAccepted
  <2>2. Unmarked(table) \subseteq DOMAIN table
    BY DEF Unmarked
  <2>3. status'.st = "Accepted"
    BY <1>2 DEF OnConnectAccepted
  <2>4. /\ UNCHANGED <<mode, used, events, tun, tcmd, faults>> /\ mode = "Running"
        /\ newCall' = Idle
    BY <1>2 DEF OnConnectAccepted, tunnel
  <2> QED BY <1>0, <1>1, <2>1, <2>2, <2>3, <2>4
<1>3. CASE OnConnectFailed
  <2>1. Unmarked(table') = Unmarked(table) \ {newCall.req}
    BY <1>0, <1>3, DeleteRows DEF OnConnectFailed
  <2>2. /\ UNCHANGED <<mode, status, used, events, tun, tcmd>> /\ mode = "Running"
        /\ newCall' = Idle /\ (faults' = 0 => faults = 0)
    BY <1>0, <1>3 DEF OnConnectFailed, tunnel, Fault
  <2> QED BY <1>0, <1>1, <2>1, <2>2
<1> QED BY <1>2, <1>3

\* What on_disconnect_inner does.
LEMMA DisconnectMoves ==
  ASSUME TypeOK, OnDisconnectInner
  PROVE  /\ \/ Unmarked(table) = {} /\ Unmarked(table') = {}
            \/ \E r \in Unmarked(table) : Unmarked(table') = Unmarked(table) \ {r}
         /\ status = Disconnected => status' = Disconnected
         /\ IF status.st \in TunnelSide THEN tcmd' = Append(tcmd, "Disconnect")
            ELSE tcmd' = tcmd
<1>0. table \in Table /\ tcmd \in Seq({"Connect", "Disconnect"})
  BY DEF TypeOK
<1>1. \/ Unmarked(table) = {} /\ Unmarked(table') = {}
      \/ \E r \in Unmarked(table) : Unmarked(table') = Unmarked(table) \ {r}
  <2>1. ASSUME NEW r, EndRow(r) PROVE Unmarked(table') = Unmarked(table) \ {r}
    BY <1>0, <2>1, EndSessionRows DEF EndRow
  <2> QED BY <2>1 DEF OnDisconnectInner, EndSomeRow
<1>2. status = Disconnected => status' = Disconnected
  BY DEF OnDisconnectInner, UpdateStateOnDisconnect, Disconnected, TunnelSide
<1>3. tcmd' = tcmd \o TunnelCommandOnDisconnect(status)
  BY DEF OnDisconnectInner
<1>4. CASE status.st \in TunnelSide
  BY <1>0, <1>1, <1>2, <1>3, <1>4, CommandQueue DEF TunnelCommandOnDisconnect
<1>5. CASE status.st \notin TunnelSide
  BY <1>0, <1>1, <1>2, <1>3, <1>5, CommandQueue DEF TunnelCommandOnDisconnect
<1> QED BY <1>4, <1>5

\* What the handler of a transition does when an unmarked row is found.
LEMMA SessionMoves ==
  ASSUME TypeOK, NEW r \in ReqId, TransitionWithSession(r)
  PROVE  LET tr == Head(events).st
         IN /\ UNCHANGED <<mode, used, newCall, tun, faults>>
            /\ mode = "Running" /\ newCall.ph = "idle" /\ r \in Unmarked(table)
            /\ tr \in Transition /\ Queued(events, tr)
            /\ \A s \in Transition : Queued(events', s) => Queued(events, s)
            /\ \/ /\ tr = "Error" /\ Unmarked(table') = Unmarked(table) \ {r}
                  /\ tcmd' = Append(tcmd, "Disconnect")
               \/ /\ tr # "Error" /\ Unmarked(table') = Unmarked(table) /\ tcmd' = tcmd
                  /\ \A x \in Unmarked(table) : table'[x].ready = table[x].ready
                  /\ tr # "Disconnected" => status'.st = tr
<1> DEFINE tr == Head(events).st
<1>0. /\ UNCHANGED <<mode, used, newCall, tun, faults>> /\ table \in Table
      /\ mode = "Running" /\ newCall.ph = "idle" /\ r \in Unmarked(table)
      /\ events # <<>> /\ Head(events).req = NoReq /\ events' = Tail(events)
      /\ events \in Seq(Event) /\ Unmarked(table) \subseteq DOMAIN table
  BY DEF TransitionWithSession, IsTransition, Ready, TypeOK, Unmarked
<1>1. /\ tr \in Transition /\ Queued(events, tr)
      /\ \A s \in Transition : Queued(events', s) => Queued(events, s)
  BY <1>0, QueuedTail
<1>2. CASE tr = "Error"
  <2>1. Unmarked(table') = Unmarked(table) \ {r}
    BY <1>0, <1>2, EndSessionRows DEF TransitionWithSession, EndRow
  <2>2. tcmd' = Append(tcmd, "Disconnect")
    BY <1>2 DEF TransitionWithSession
  <2> QED BY <1>0, <1>1, <1>2, <2>1, <2>2
<1>3. CASE tr # "Error"
  <2>1. table' = table \/ table' = StoreServerStatus(table, r, "ClientConnected")
    BY <1>3 DEF TransitionWithSession
  <2>2. /\ Unmarked(StoreServerStatus(table, r, "ClientConnected")) = Unmarked(table)
        /\ \A x \in DOMAIN table :
             StoreServerStatus(table, r, "ClientConnected")[x].ready = table[x].ready
    <3>1. Unmarked(StoreServerStatus(table, r, "ClientConnected")) = Unmarked(table)
      BY <1>0, StoreServerStatusRows
    <3>2. \A x \in DOMAIN table : table[x].ready \in BOOLEAN
      BY <1>0, TableElim DEF Row
    <3> QED BY <1>0, <3>1, <3>2, StoreReady
  <2>3. tcmd' = tcmd /\ status' = StatusFromTunnel(tr, table[r].loc)
    BY <1>3 DEF TransitionWithSession
  <2>4. tr # "Disconnected" => status'.st = tr
    BY <1>3, <2>3 DEF StatusFromTunnel
  <2> QED BY <1>0, <1>1, <1>3, <2>1, <2>2, <2>3, <2>4
<1> QED BY <1>2, <1>3

\* And when there is none.
LEMMA NoSessionMoves ==
  ASSUME TypeOK, TransitionWithoutSession
  PROVE  LET tr == Head(events).st
         IN /\ UNCHANGED <<used, newCall, table, tun, faults>>
            /\ mode = "Running" /\ mode' # "Down" /\ Unmarked(table) = {}
            /\ tr \in Transition /\ Queued(events, tr)
            /\ \A s \in Transition : /\ Queued(events', s) => Queued(events, s)
                                     /\ Queued(events, s) /\ s # tr => Queued(events', s)
            /\ tcmd' = IF tr = "Error" THEN Append(tcmd, "Disconnect") ELSE tcmd
<1>0. /\ UNCHANGED <<used, newCall, table, tun, faults>>
      /\ mode = "Running" /\ mode' # "Down" /\ Unmarked(table) = {}
      /\ events # <<>> /\ Head(events).req = NoReq /\ events' = Tail(events)
      /\ events \in Seq(Event)
      /\ tcmd' = IF Head(events).st = "Error" THEN Append(tcmd, "Disconnect") ELSE tcmd
  BY DEF TransitionWithoutSession, IsTransition, Ready, TypeOK, svc
<1>1. /\ Head(events).st \in Transition /\ Queued(events, Head(events).st)
      /\ \A s \in Transition : Queued(events', s) => Queued(events, s)
      /\ \A s \in Transition :
           Queued(events, s) /\ Head(events) # TunnelEvent(s) => Queued(events', s)
  BY <1>0, QueuedTail
<1>2. \A s \in Transition : s # Head(events).st => Head(events) # TunnelEvent(s)
  BY DEF TunnelEvent
<1> QED BY <1>0, <1>1, <1>2

\* The kinds of steps told apart below.
LEMMA StepKinds ==
  ASSUME TypeOK, TypeOK', Bookkeeping, [Next]_vars
  PROVE  \/ \E r \in ReqId, l \in Location : OnConnect(r, l)
         \/ OnConnectAccepted \/ OnConnectFailed \/ OnDisconnect \/ OnShutdown
         \/ HandleVpnSessionStatus \/ TransitionWithoutSession
         \/ \E r \in ReqId : TransitionWithSession(r)
         \/ TunnelSteps \/ TunnelJoined \/ Die \/ Restart \/ Aside
BY AsideSteps DEF Next, DaemonNext, HandleTunnelStateTransition, Exit, Crash

\* While only one request has been made, an unmarked row is the only one.
LEMMA SoleRow ==
  ASSUME Bookkeeping, Single, NEW r \in Unmarked(table)
  PROVE  Unmarked(table) = {r}
BY DEF Bookkeeping, UsedFirst, Single, Unmarked

\* A tunnel that is down and has nothing to do stays so without a request.
LEMMA UntouchedStep ==
  ASSUME TypeOK, TypeOK', Bookkeeping, Untouched, [Next]_vars
  PROVE  Untouched'
<1>0. \A s \in Transition : ~Queued(<<>>, s)
  BY DEF Queued
<1>1. CASE Die
  BY <1>0, <1>1 DEF Die, Untouched, Pristine
<1> SUFFICES ASSUME ~Die, used' = {} \/ mode' = "Down"
             PROVE  Pristine' /\ status' = Disconnected
  BY <1>1 DEF Untouched
<1>2. used = {} \/ mode = "Down"
  BY UsedStep, ModeStep
<1>3. /\ tcmd = <<>> /\ tun = TunnelDown /\ status = Disconnected
      /\ \A s \in Transition : ~Queued(events, s)
  BY <1>2 DEF Untouched, Pristine
<1>4. used = {} => Unmarked(table) = {}
  BY DEF Bookkeeping, UsedFirst, Unmarked
<1>5. CASE UNCHANGED <<tcmd, tun, status>> /\
           \A s \in Transition : Queued(events', s) => Queued(events, s)
  BY <1>3, <1>5 DEF Pristine
<1>6. ASSUME NEW r \in ReqId, NEW l \in Location, OnConnect(r, l) PROVE FALSE
  BY <1>2, <1>6, ConnectMoves
<1>7. CASE OnConnectAccepted \/ OnConnectFailed
  BY <1>2, <1>4, <1>7, AnswerMoves
<1>8. CASE OnDisconnect \/ OnShutdown
  <2>1. OnDisconnectInner /\ UNCHANGED <<tun, events>>
    BY <1>8 DEF OnDisconnect, OnShutdown
  <2>2. status.st \notin TunnelSide
    BY <1>3 DEF Disconnected, TunnelSide
  <2> QED BY <1>3, <2>1, <2>2, DisconnectMoves DEF Pristine
<1>9. CASE HandleVpnSessionStatus
  <2>1. used = {} /\ UNCHANGED <<table, status, tcmd, tun>>
    BY <1>2, <1>4, <1>9, StatusMoves
  <2> QED BY <1>5, <1>9, <2>1, StatusMoves
<1>10. CASE TransitionWithoutSession
  BY <1>3, <1>10, NoSessionMoves
<1>11. ASSUME NEW r \in ReqId, TransitionWithSession(r) PROVE FALSE
  BY <1>3, <1>11, SessionMoves
<1>12. CASE TunnelSteps
  BY <1>3, <1>12, TunnelMoves DEF TunnelDown
<1>13. CASE TunnelJoined
  BY <1>0, <1>3, <1>13 DEF TunnelJoined, Pristine
<1>14. CASE Restart
  BY <1>5, <1>14 DEF Restart, tunnel
<1>15. CASE Aside
  BY <1>5, <1>15 DEF Aside
<1> QED BY <1>6, <1>7, <1>8, <1>9, <1>10, <1>11, <1>12, <1>13, <1>14, <1>15, StepKinds

\* The first session is undisturbed.
LEMMA FirstSessionStep ==
  ASSUME TypeOK, TypeOK', Bookkeeping, Untouched, FirstSession, [Next]_vars
  PROVE  FirstSession'
<1> DEFINE Goal == /\ newCall'.ph = "idle" => status'.st # "Disconnected"
                   /\ ~Told(tcmd', "Disconnect")
                   /\ ~Queued(events', "Disconnected")
                   /\ tun'.st = "Disconnecting" => tun'.after # "nothing"
<1> SUFFICES ASSUME Single', mode' = "Running", Unmarked(table') # {} PROVE Goal
  BY DEF FirstSession
<1>0. /\ tcmd \in Seq({"Connect", "Disconnect"}) /\ Single
      /\ "Disconnected" \in Transition
  BY UsedStep DEF TypeOK, Single, Transition
<1>1. ASSUME mode = "Running", Unmarked(table) # {}
      PROVE  /\ newCall.ph = "idle" => status.st # "Disconnected"
             /\ ~Told(tcmd, "Disconnect")
             /\ ~Queued(events, "Disconnected")
             /\ tun.st = "Disconnecting" => tun.after # "nothing"
  BY <1>0, <1>1 DEF FirstSession
<1>2. ASSUME NEW r \in ReqId, NEW l \in Location, OnConnect(r, l) PROVE Goal
  <2>0. /\ newCall'.ph # "idle" /\ UNCHANGED <<tcmd, tun, events>>
        /\ r \notin used /\ used' = used \cup {r}
    BY <1>2, ConnectMoves
  <2>1. used = {} /\ newCall'.ph # "idle" /\ UNCHANGED <<tcmd, tun, events>>
    BY <2>0 DEF Single
  <2>2. Pristine
    BY <2>1 DEF Untouched
  <2>3. ~Told(<<>>, "Disconnect")
    BY DEF Told
  <2> QED BY <1>0, <2>1, <2>2, <2>3 DEF Pristine, TunnelDown
<1>3. ASSUME NEW r \in Unmarked(table), Unmarked(table') = Unmarked(table) \ {r} PROVE FALSE
  BY <1>0, <1>3, SoleRow
<1>4. CASE OnConnectAccepted \/ OnConnectFailed
  BY <1>1, <1>3, <1>4, AnswerMoves
<1>5. CASE OnDisconnect
  <2>1. OnDisconnectInner
    BY <1>5 DEF OnDisconnect
  <2> QED BY <1>3, <2>1, DisconnectMoves
<1>6. CASE HandleVpnSessionStatus
  <2> DEFINE r == Head(events).req
             s == Head(events).st
  <2>1. /\ Unmarked(table) # {} /\ mode = "Running"
        /\ newCall.ph = "idle" /\ UNCHANGED <<tun, newCall>>
        /\ Queued(events', "Disconnected") => Queued(events, "Disconnected")
    BY <1>0, <1>6, StatusMoves
  <2>2. UNCHANGED status \/ status'.st \in {"ServerReady", "ServerCreated", "ServerRunning"}
    BY <1>3, <1>6, StatusMoves
  <2>3. tcmd' = tcmd \/ tcmd' = Append(tcmd, "Connect")
    BY <1>6, StatusMoves
  <2>4. Told(tcmd', "Disconnect") => Told(tcmd, "Disconnect")
    BY <1>0, <2>3, CommandQueue
  <2> QED BY <1>1, <2>1, <2>2, <2>4
<1>7. CASE TransitionWithoutSession
  BY <1>7, NoSessionMoves
<1>8. ASSUME NEW r \in ReqId, TransitionWithSession(r) PROVE Goal
  <2>1. /\ Unmarked(table) # {} /\ mode = "Running" /\ newCall.ph = "idle"
        /\ Queued(events, Head(events).st) /\ UNCHANGED <<newCall, tun>>
        /\ Queued(events', "Disconnected") => Queued(events, "Disconnected")
    BY <1>0, <1>8, SessionMoves
  <2>2. Head(events).st # "Disconnected"
    BY <1>1, <2>1
  <2>3. tcmd' = tcmd /\ status'.st = Head(events).st
    BY <1>3, <1>8, <2>2, SessionMoves
  <2> QED BY <1>1, <2>1, <2>2, <2>3
<1>9. CASE TunnelSteps
  <2>1. /\ UNCHANGED <<mode, status, table, newCall>>
        /\ Queued(events', "Disconnected") =>
             Queued(events, "Disconnected") \/ tun'.st = "Disconnected"
    BY <1>0, <1>9, TunnelMoves
  <2>2. /\ newCall.ph = "idle" => status.st # "Disconnected"
        /\ ~Told(tcmd, "Disconnect") /\ ~Queued(events, "Disconnected")
        /\ tun.st = "Disconnecting" => tun.after # "nothing"
    BY <1>1, <2>1
  <2>3. tcmd # <<>> => Head(tcmd) # "Disconnect" /\ ~Told(Tail(tcmd), "Disconnect")
    BY <1>0, <2>2, CommandQueue
  <2>4. /\ tcmd' = tcmd \/ (tcmd # <<>> /\ tcmd' = Tail(tcmd))
        /\ tun'.st # "Disconnected"
        /\ tun'.st = "Disconnecting" => tun'.after # "nothing"
    BY <1>9, <2>2, <2>3, TunnelMoves
  <2> QED BY <2>1, <2>2, <2>3, <2>4
<1>10. CASE OnShutdown \/ TunnelJoined \/ Die
  BY <1>10 DEF OnShutdown, TunnelJoined, Die
<1>11. CASE Restart
  <2>1. Unmarked(table') = {}
    BY <1>11, ReclaimRows DEF Restart, TypeOK
  <2> QED BY <2>1
<1>12. CASE Aside
  BY <1>0, <1>1, <1>12 DEF Aside
<1> HIDE DEF Goal
<1> QED BY <1>2, <1>4, <1>5, <1>6, <1>7, <1>8, <1>9, <1>10, <1>11, <1>12, StepKinds

\* Rows are made by Connect alone, which is refused beside a first session.
LEMMA OneSessionStep ==
  ASSUME TypeOK, TypeOK', Bookkeeping, FirstSession, OneSession, [Next]_vars
  PROVE  OneSession'
<1>1. ASSUME Unmarked(table') \subseteq Unmarked(table) PROVE OneSession'
  BY <1>1, UsedStep DEF OneSession
<1>2. ASSUME NEW r \in ReqId, NEW l \in Location, OnConnect(r, l) PROVE OneSession'
  <2>1. /\ mode = "Running" /\ newCall.ph = "idle" /\ status.st = "Disconnected"
        /\ r \notin used /\ used' = used \cup {r} /\ Unmarked(table') = Unmarked(table) \cup {r}
    BY <1>2, ConnectMoves
  <2>2. (\A r1, r2, r3 \in used' : r1 = r2 \/ r2 = r3 \/ r1 = r3) => Single
    BY <2>1 DEF Single
  <2>3. Single => Unmarked(table) = {}
    BY <2>1 DEF FirstSession
  <2> QED BY <2>1, <2>2, <2>3 DEF OneSession
<1>3. CASE OnConnectAccepted \/ OnConnectFailed
  BY <1>1, <1>3, AnswerMoves
<1>4. CASE OnDisconnect \/ OnShutdown
  <2>1. OnDisconnectInner
    BY <1>4 DEF OnDisconnect, OnShutdown
  <2> QED BY <1>1, <2>1, DisconnectMoves
<1>5. CASE HandleVpnSessionStatus
  BY <1>1, <1>5, StatusMoves
<1>6. CASE TransitionWithoutSession \/ TunnelSteps \/ TunnelJoined \/ Die
  <2>1. table' = table
    BY <1>6, NoSessionMoves, TunnelMoves DEF TunnelJoined, Die
  <2> QED BY <1>1, <2>1
<1>7. ASSUME NEW r \in ReqId, TransitionWithSession(r) PROVE OneSession'
  BY <1>1, <1>7, SessionMoves
<1>8. CASE Restart
  <2>1. Unmarked(table') = {}
    BY <1>8, ReclaimRows DEF Restart, TypeOK
  <2> QED BY <1>1, <2>1
<1>9. CASE Aside
  BY <1>1, <1>9 DEF Aside
<1> QED BY <1>2, <1>3, <1>4, <1>5, <1>6, <1>7, <1>8, <1>9, StepKinds

\* No second session is opened beside the first one, whatever is late, lost or
\* crashes on the way.
THEOREM OneSessionAtATime == Spec => []OneSession
<1> DEFINE First == Untouched /\ FirstSession /\ OneSession
<1>1. Init => First
  <2>1. ASSUME Init PROVE used = {} /\ Pristine /\ status = Disconnected /\ Unmarked(table) = {}
    BY <2>1 DEF Init, Pristine, Queued, Unmarked, EmptyTable
  <2> QED BY <2>1 DEF Untouched, FirstSession, OneSession
<1>2. TypeOK /\ TypeOK' /\ Bookkeeping /\ First /\ [Next]_vars => First'
  BY UntouchedStep, FirstSessionStep, OneSessionStep
<1> QED BY <1>1, <1>2, TypeCorrect, BookkeepingHolds, PTL DEF Spec
-----------------------------------------------------------------------------
(* Giving up the first session takes its tunnel down *)

\* The tunnel of the first session, without a fault: untouched before ServerReady,
\* then told to connect once; it does not disconnect by itself.
FirstTunnel ==
  Single /\ mode = "Running" /\ faults = 0 =>
    \A r \in Unmarked(table) :
      IF table[r].ready
      THEN /\ status.st \in TunnelSide /\ tun.st # "Disconnecting"
           /\ ~Queued(events, "Disconnecting") /\ ~Queued(events, "Disconnected")
           /\ tcmd # <<>> => tcmd = <<"Connect">> /\ tun.st = "Disconnected"
      ELSE Pristine /\ status.st \in ServerSide \cup {"Disconnected"}

\* Once it is given up, the tunnel is down, on its way there, or will be told: by a
\* Disconnect that is sent, or by the handler of an Error that is queued.
GoingDown ==
  Single /\ mode = "Running" /\ faults = 0 /\ Unmarked(table) = {} =>
    \/ DownLast(tcmd)
    \/ /\ tcmd = <<>>
       /\ \/ tun.st = "Disconnected"
          \/ tun.st = "Disconnecting" /\ tun.after = "nothing"
          \/ tun.st = "Error" /\ Queued(events, "Error")

\* The tunnel of the first session is as its row says.
LEMMA FirstTunnelStep ==
  ASSUME TypeOK, TypeOK', Bookkeeping, Heard, Untouched, FirstTunnel, [Next]_vars
  PROVE  FirstTunnel'
<1> DEFINE Up == /\ status'.st \in TunnelSide /\ tun'.st # "Disconnecting"
                 /\ ~Queued(events', "Disconnecting") /\ ~Queued(events', "Disconnected")
                 /\ tcmd' # <<>> => tcmd' = <<"Connect">> /\ tun'.st = "Disconnected"
           Clean == /\ tcmd' = <<>> /\ tun' = TunnelDown
                    /\ \A s \in Transition : ~Queued(events', s)
                    /\ status'.st \in ServerSide \cup {"Disconnected"}
           Goal(r) == IF table'[r].ready THEN Up ELSE Clean
<1> SUFFICES ASSUME Single', mode' = "Running", faults' = 0, NEW r \in Unmarked(table')
             PROVE  Goal(r)
  BY DEF FirstTunnel, Pristine
<1>0. /\ tcmd \in Seq({"Connect", "Disconnect"}) /\ Single
      /\ {"Disconnected", "Disconnecting", "Error"} \subseteq Transition
  BY UsedStep DEF TypeOK, Single, Transition
<1>1. ASSUME mode = "Running", faults = 0, r \in Unmarked(table), table[r].ready
      PROVE  /\ status.st \in TunnelSide /\ tun.st # "Disconnecting"
             /\ ~Queued(events, "Disconnecting") /\ ~Queued(events, "Disconnected")
             /\ tcmd # <<>> => tcmd = <<"Connect">> /\ tun.st = "Disconnected"
  BY <1>0, <1>1 DEF FirstTunnel
<1>2. ASSUME mode = "Running", faults = 0, r \in Unmarked(table), ~table[r].ready
      PROVE  /\ tcmd = <<>> /\ tun = TunnelDown /\ \A s \in Transition : ~Queued(events, s)
             /\ status.st \in ServerSide \cup {"Disconnected"}
  BY <1>0, <1>2 DEF FirstTunnel, Pristine
<1>3. ASSUME NEW q \in Unmarked(table), Unmarked(table') = Unmarked(table) \ {q} PROVE FALSE
  BY <1>0, <1>3, SoleRow
<1>4. ASSUME NEW q \in ReqId, NEW l \in Location, OnConnect(q, l) PROVE Goal(r)
  <2>1. /\ UNCHANGED <<tcmd, tun, events, status>> /\ q \notin used /\ used' = used \cup {q}
        /\ status.st = "Disconnected" /\ table'[q].ready = FALSE
        /\ Unmarked(table') = Unmarked(table) \cup {q}
    BY <1>4, ConnectMoves
  <2>2. used = {} /\ Unmarked(table) = {}
    BY <2>1 DEF Single, Bookkeeping, UsedFirst, Unmarked
  <2>3. Pristine /\ r = q
    BY <2>1, <2>2 DEF Untouched
  <2> QED BY <2>1, <2>3 DEF Pristine
<1>5. CASE OnConnectAccepted \/ OnConnectFailed
  <2>1. /\ UNCHANGED <<mode, tcmd, tun, events>> /\ faults = 0 /\ mode = "Running"
        /\ newCall.ph # "idle" /\ newCall.req \in Unmarked(table)
        /\ Unmarked(table') = Unmarked(table) /\ status'.st = "Accepted"
        /\ \A x \in Unmarked(table) : table'[x].ready = table[x].ready
    BY <1>3, <1>5, AnswerMoves
  <2>2. r = newCall.req
    BY <1>0, <2>1, SoleRow
  <2>3. ~table[r].ready
    BY <2>1, <2>2 DEF Heard, Fresh
  <2> QED BY <1>2, <2>1, <2>2, <2>3 DEF ServerSide
<1>6. CASE OnDisconnect
  <2>1. OnDisconnectInner
    BY <1>6 DEF OnDisconnect
  <2> QED BY <1>3, <2>1, DisconnectMoves
<1>7. CASE HandleVpnSessionStatus
  <2> DEFINE h == Head(events).req
             s == Head(events).st
  <2>1. /\ UNCHANGED <<mode, used, newCall, tun, faults>> /\ mode = "Running" /\ h \in ReqId
        /\ 1 \in DOMAIN events /\ events[1].req = h
        /\ \A t \in Transition : Queued(events', t) <=> Queued(events, t)
    BY <1>7, StatusMoves
  <2>2. \/ UNCHANGED <<table, status, tcmd>>
        \/ /\ h \in Unmarked(table) /\ Unmarked(table') = Unmarked(table) /\ table'[h].ready
           /\ tcmd' = Append(tcmd, "Connect") /\ status'.st = "ServerReady"
        \/ /\ h \in Unmarked(table) /\ Unmarked(table') = Unmarked(table)
           /\ table'[h].ready = table[h].ready /\ tcmd' = tcmd
           /\ status' = status \/ status'.st \in {"ServerCreated", "ServerRunning"}
    BY <1>3, <1>7, StatusMoves
  <2>3. h \in Unmarked(table) => ~table[h].ready /\ Unmarked(table) = {h}
    BY <1>0, <2>1, SoleRow DEF Heard, ReadyHeard, Settled, Unmarked
  <2>4. CASE UNCHANGED <<table, status, tcmd>>
    BY <1>0, <1>1, <1>2, <2>1, <2>4
  <2>5. CASE /\ h \in Unmarked(table) /\ Unmarked(table') = Unmarked(table) /\ table'[h].ready
             /\ tcmd' = Append(tcmd, "Connect") /\ status'.st = "ServerReady"
    <3>1. r = h /\ ~table[r].ready /\ r \in Unmarked(table)
      BY <2>3, <2>5
    <3>2. tcmd = <<>> /\ tun.st = "Disconnected" /\ \A t \in Transition : ~Queued(events, t)
      BY <1>2, <2>1, <3>1 DEF TunnelDown
    <3>3. tcmd' = <<"Connect">>
      BY <1>0, <2>5, <3>2, CommandQueue
    <3> QED BY <1>0, <2>1, <2>5, <3>1, <3>2, <3>3 DEF TunnelSide
  <2>6. CASE /\ h \in Unmarked(table) /\ Unmarked(table') = Unmarked(table)
             /\ table'[h].ready = table[h].ready /\ tcmd' = tcmd
             /\ status' = status \/ status'.st \in {"ServerCreated", "ServerRunning"}
    <3>1. r = h /\ ~table[r].ready /\ ~table'[r].ready /\ r \in Unmarked(table)
      BY <2>3, <2>6
    <3> QED BY <1>2, <2>1, <2>6, <3>1 DEF ServerSide
  <2> HIDE DEF Goal
  <2> QED BY <2>2, <2>4, <2>5, <2>6
<1>8. CASE TransitionWithoutSession
  BY <1>8, NoSessionMoves
<1>9. ASSUME NEW q \in ReqId, TransitionWithSession(q) PROVE Goal(r)
  <2> DEFINE tr == Head(events).st
  <2>1. /\ UNCHANGED <<mode, tun, faults>> /\ mode = "Running" /\ tr \in Transition
        /\ Queued(events, tr) /\ \A s \in Transition : Queued(events', s) => Queued(events, s)
        /\ Unmarked(table') = Unmarked(table) /\ tcmd' = tcmd /\ tr # "Error"
        /\ \A x \in Unmarked(table) : table'[x].ready = table[x].ready
        /\ tr # "Disconnected" => status'.st = tr
    BY <1>3, <1>9, SessionMoves
  <2>2. table[r].ready
    BY <1>2, <2>1
  <2>3. tr \in {"Connecting", "Connected"}
    BY <1>1, <2>1, <2>2 DEF Transition
  <2> QED BY <1>0, <1>1, <2>1, <2>2, <2>3 DEF TunnelSide
<1>10. CASE TunnelSteps
  <2>1. /\ UNCHANGED <<mode, status, table, newCall>> /\ faults = 0
        /\ \A s \in Transition : Queued(events', s) => Queued(events, s) \/ tun'.st = s
    BY <1>10, TunnelMoves
  <2>2. table[r].ready
    <3>1. ~(tcmd = <<>> /\ tun.st = "Disconnected")
      BY <1>10, TunnelMoves
    <3> QED BY <1>2, <2>1, <3>1 DEF TunnelDown
  <2>3. /\ status.st \in TunnelSide /\ tun.st # "Disconnecting"
        /\ ~Queued(events, "Disconnecting") /\ ~Queued(events, "Disconnected")
        /\ tcmd # <<>> => /\ tcmd = <<"Connect">> /\ tun.st = "Disconnected"
                          /\ Head(tcmd) = "Connect" /\ Tail(tcmd) = <<>>
    BY <1>0, <1>1, <2>1, <2>2, CommandQueue
  <2>4. tun'.st \in {"Error", "Connecting", "Connected"} /\ tcmd' = <<>>
    BY <1>10, <2>3, TunnelMoves
  <2> QED BY <1>0, <2>1, <2>2, <2>3, <2>4
<1>11. CASE OnShutdown \/ TunnelJoined \/ Die
  BY <1>11 DEF OnShutdown, TunnelJoined, Die
<1>12. CASE Restart
  <2>1. Unmarked(table') = {}
    BY <1>12, ReclaimRows DEF Restart, TypeOK
  <2> QED BY <2>1
<1>13. CASE Aside
  BY <1>0, <1>1, <1>2, <1>13 DEF Aside
<1> HIDE DEF Goal
<1> QED BY <1>4, <1>5, <1>6, <1>7, <1>8, <1>9, <1>10, <1>11, <1>12, <1>13, StepKinds

\* A tunnel that is going down goes on.
LEMMA GoingDownStep ==
  ASSUME TypeOK, TypeOK', Bookkeeping, Heard, Untouched, FirstTunnel, GoingDown, [Next]_vars
  PROVE  GoingDown'
<1> DEFINE Goal == \/ DownLast(tcmd')
                   \/ /\ tcmd' = <<>>
                      /\ \/ tun'.st = "Disconnected"
                         \/ tun'.st = "Disconnecting" /\ tun'.after = "nothing"
                         \/ tun'.st = "Error" /\ Queued(events', "Error")
<1> SUFFICES ASSUME Single', mode' = "Running", faults' = 0, Unmarked(table') = {} PROVE Goal
  BY DEF GoingDown
<1>0. /\ tcmd \in Seq({"Connect", "Disconnect"}) /\ Single /\ "Error" \in Transition
      /\ TunnelDown.st = "Disconnected"
  BY UsedStep DEF TypeOK, Single, Transition, TunnelDown
<1>1. ASSUME mode = "Running", faults = 0, Unmarked(table) = {}
      PROVE  \/ DownLast(tcmd)
             \/ /\ tcmd = <<>>
                /\ \/ tun.st = "Disconnected"
                   \/ tun.st = "Disconnecting" /\ tun.after = "nothing"
                   \/ tun.st = "Error" /\ Queued(events, "Error")
  BY <1>0, <1>1 DEF GoingDown
<1>2. ASSUME mode = "Running", faults = 0, NEW r \in Unmarked(table)
      PROVE  /\ table[r].ready => status.st \in TunnelSide
             /\ ~table[r].ready => tcmd = <<>> /\ tun = TunnelDown
                                   /\ status.st \in ServerSide \cup {"Disconnected"}
  BY <1>0, <1>2 DEF FirstTunnel, Pristine
<1>3. CASE /\ mode = "Running" /\ faults = 0 /\ Unmarked(table) = {} /\ UNCHANGED <<tcmd, tun>>
           /\ Queued(events, "Error") => Queued(events', "Error")
  BY <1>1, <1>3
<1>4. ASSUME NEW r \in ReqId, NEW l \in Location, OnConnect(r, l) PROVE FALSE
  BY <1>4, ConnectMoves
<1>5. CASE OnConnectAccepted \/ OnConnectFailed
  <2>1. /\ UNCHANGED <<tcmd, tun>> /\ faults = 0 /\ mode = "Running"
        /\ newCall.ph # "idle" /\ newCall.req \in Unmarked(table)
    BY <1>5, AnswerMoves
  <2>2. ~table[newCall.req].ready
    BY <2>1 DEF Heard, Fresh
  <2> QED BY <1>0, <1>2, <2>1, <2>2
<1>6. CASE OnDisconnect
  <2>1. OnDisconnectInner /\ mode = "Running" /\ faults = 0 /\ UNCHANGED <<tun, events>>
    BY <1>6 DEF OnDisconnect, Ready
  <2>2. CASE status.st \in TunnelSide
    BY <1>0, <2>1, <2>2, DisconnectMoves, CommandQueue
  <2>3. CASE status.st \notin TunnelSide
    <3>1. tcmd' = tcmd
      BY <2>1, <2>3, DisconnectMoves
    <3>2. CASE Unmarked(table) = {}
      BY <1>3, <2>1, <3>1, <3>2
    <3>3. CASE Unmarked(table) # {}
      BY <1>0, <1>2, <2>1, <2>3, <3>1, <3>3
    <3> QED BY <3>2, <3>3
  <2> QED BY <2>2, <2>3
<1>7. CASE HandleVpnSessionStatus
  <2> DEFINE h == Head(events).req
  <2>1. /\ UNCHANGED <<tun, faults>> /\ mode = "Running" /\ h \in ReqId
        /\ 1 \in DOMAIN events /\ events[1].req = h
        /\ \A t \in Transition : Queued(events', t) <=> Queued(events, t)
    BY <1>7, StatusMoves
  <2>2. \/ Unmarked(table) = {} /\ tcmd' = tcmd
        \/ h \in Unmarked(table) /\ tcmd' = tcmd
    BY <1>7, StatusMoves
  <2>3. h \in Unmarked(table) => ~table[h].ready
    BY <2>1 DEF Heard, ReadyHeard, Settled, Unmarked
  <2>4. CASE Unmarked(table) = {} /\ tcmd' = tcmd
    BY <1>0, <1>3, <2>1, <2>4
  <2>5. CASE h \in Unmarked(table) /\ tcmd' = tcmd
    BY <1>0, <1>2, <2>1, <2>3, <2>5
  <2> QED BY <2>2, <2>4, <2>5
<1>8. CASE TransitionWithoutSession
  <2> DEFINE tr == Head(events).st
  <2>1. /\ UNCHANGED <<table, tun, faults>> /\ mode = "Running" /\ Unmarked(table) = {}
        /\ Queued(events, "Error") /\ "Error" # tr => Queued(events', "Error")
        /\ tcmd' = IF tr = "Error" THEN Append(tcmd, "Disconnect") ELSE tcmd
    BY <1>0, <1>8, NoSessionMoves
  <2>2. CASE tr = "Error"
    BY <1>0, <2>1, <2>2, CommandQueue
  <2>3. CASE tr # "Error"
    BY <1>3, <2>1, <2>3
  <2> QED BY <2>2, <2>3
<1>9. ASSUME NEW r \in ReqId, TransitionWithSession(r) PROVE Goal
  <2>1. tcmd' = Append(tcmd, "Disconnect")
    BY <1>9, SessionMoves
  <2> QED BY <1>0, <2>1, CommandQueue
<1>10. CASE TunnelSteps
  <2>1. UNCHANGED <<mode, table>> /\ faults = 0
    BY <1>10, TunnelMoves
  <2>2. CASE DownLast(tcmd)
    <3>1. \/ DownLast(Tail(tcmd)) \/ (Tail(tcmd) = <<>> /\ Head(tcmd) = "Disconnect")
      BY <1>0, <2>2, CommandQueue
    <3>2. \/ tcmd' = tcmd
          \/ tcmd' = Tail(tcmd) /\ Head(tcmd) = "Connect"
          \/ /\ tcmd' = Tail(tcmd)
             /\ \/ tun'.st = "Disconnected"
                \/ tun'.st = "Disconnecting" /\ tun'.after = "nothing"
      BY <1>10, TunnelMoves
    <3> QED BY <2>2, <3>1, <3>2
  <2>3. CASE tcmd = <<>>
    <3>1. /\ \/ tun.st = "Disconnected"
             \/ tun.st = "Disconnecting" /\ tun.after = "nothing"
             \/ tun.st = "Error"
      BY <1>1, <2>1, <2>3 DEF DownLast
    <3>2. tcmd' = <<>> /\ tun'.st = "Disconnected"
      BY <1>10, <2>3, <3>1, TunnelMoves
    <3> QED BY <3>2
  <2> QED BY <1>1, <2>1, <2>2, <2>3
<1>11. CASE OnShutdown \/ TunnelJoined \/ Die
  BY <1>11 DEF OnShutdown, TunnelJoined, Die
<1>12. CASE Restart
  <2>1. mode = "Down" /\ UNCHANGED <<tcmd, tun>>
    BY <1>12 DEF Restart, tunnel
  <2> QED BY <1>0, <2>1 DEF Untouched, Pristine
<1>13. CASE Aside
  BY <1>0, <1>3, <1>13 DEF Aside
<1> HIDE DEF Goal
<1> QED BY <1>4, <1>5, <1>6, <1>7, <1>8, <1>9, <1>10, <1>11, <1>12, <1>13, StepKinds

\* The comment on end_session: the tunnel disconnects, whether or not the session
\* had come as far as the tunnel.
THEOREM GivingUpDisconnects == Spec => []DisconnectTakesTunnelDown
<1> DEFINE First == Untouched /\ FirstTunnel /\ GoingDown
<1>1. Init => First
  <2>1. ASSUME Init PROVE Pristine /\ status = Disconnected /\ Unmarked(table) = {}
    BY <2>1 DEF Init, Pristine, Queued, Unmarked, EmptyTable
  <2> QED BY <2>1 DEF Untouched, FirstTunnel, GoingDown, Pristine, TunnelDown
<1>2. TypeOK /\ TypeOK' /\ Bookkeeping /\ Heard /\ First /\ [Next]_vars => First'
  BY UntouchedStep, FirstTunnelStep, GoingDownStep
<1>3. First => DisconnectTakesTunnelDown
  BY DEF GoingDown, DisconnectTakesTunnelDown, Ready, Single, DownLast, Queued
<1> QED BY <1>1, <1>2, <1>3, TypeCorrect, BookkeepingHolds, HeardHolds, PTL DEF Spec
=============================================================================
