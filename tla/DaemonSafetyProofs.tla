------------------------ MODULE DaemonSafetyProofs ------------------------
(***************************************************************************)
(* The safety of the session bookkeeping, proved for every set of requests *)
(* and locations and every bound on faults.  The four invariants           *)
(* EndsOnlyGivenUp, SessionUuidKnown, StatusHasSession and NoOrphan are    *)
(* not inductive one by one; Bookkeeping conjoins what they need of each   *)
(* other and of the calls and events on their way.                         *)
(***************************************************************************)
EXTENDS DaemonProofs

Over == {"Failed", "Ended"}

\* Requests are used before anything is known of them.
UsedFirst ==
  /\ DOMAIN table \subseteq used
  /\ \A r \in ReqId \ used :
       /\ server[r] = "None"
       /\ \A c \in Caller : endCall[c][r] = "none"

\* While NewSession is awaited its row is there, untouched, nothing is shown
\* for it, and the server has not heard of it before.
CallHasRow ==
  newCall.ph # "idle" =>
    /\ mode = "Running"
    /\ status = Disconnected
    /\ newCall.req \in Unmarked(table)
    /\ table[newCall.req].loc = newCall.loc
    /\ newCall.ph = "calling" => server[newCall.req] = "None"

\* The one unmarked row that may be without uuid is the awaited one.
OnlyAwaitedLacksUuid ==
  mode # "Down" =>
    \A r \in Unmarked(table) :
      table[r].uuid \/ (newCall.ph # "idle" /\ newCall.req = r)

\* An end call is answered only after the server has ended the session.
EndedOnServer ==
  \A c \in Caller, r \in ReqId :
    endCall[c][r] = "applied" => server[r] \notin Live

\* A status that makes the daemon delete the row is true of the server.
EventsTrue(q, srv) ==
  \A i \in 1..Len(q) :
    q[i].req # NoReq /\ q[i].st \in Over => srv[q[i].req] \in Over
WatchersTrue ==
  \A r \in ReqId : watcher[r].got \in Over => server[r] \in Over

\* Nothing is shown by a daemon that is not running.
DownShowsNothing == mode = "Down" => status = Disconnected

Bookkeeping ==
  /\ UsedFirst
  /\ CallHasRow
  /\ OnlyAwaitedLacksUuid
  /\ EndsOnlyGivenUp
  /\ EndedOnServer
  /\ EventsTrue(events, server)
  /\ WatchersTrue
  /\ DownShowsNothing
  /\ StatusHasSession
  /\ NoOrphan
-----------------------------------------------------------------------------
(* What the queries do to the rows *)

\* A new row is unmarked, without uuid, and the others stay as they are.
LEMMA NewSessionRows ==
  ASSUME NEW t \in Table, NEW r \in ReqId, NEW l \in Location,
         r \notin DOMAIN t
  PROVE  LET n == NewSession(t, r, l)
         IN /\ DOMAIN n = DOMAIN t \cup {r}
            /\ Unmarked(n) = Unmarked(t) \cup {r}
            /\ n[r].loc = l
            /\ \A x \in DOMAIN t : n[x] = t[x]
BY DEF NewSession, Unmarked

\* Deleting a row removes it and leaves the others.
LEMMA DeleteRows ==
  ASSUME NEW t \in Table, NEW r
  PROVE  LET n == Delete(t, r)
         IN /\ DOMAIN n = DOMAIN t \ {r}
            /\ Unmarked(n) = Unmarked(t) \ {r}
            /\ \A x \in DOMAIN n : n[x] = t[x]
BY DEF Delete, Unmarked

\* Ending a session takes it from the unmarked rows and leaves the others.
LEMMA EndSessionRows ==
  ASSUME NEW t \in Table, NEW r
  PROVE  LET n == EndSession(t, r)
         IN /\ DOMAIN n = DOMAIN t
            /\ Unmarked(n) = Unmarked(t) \ {r}
            /\ \A x \in DOMAIN n \ {r} : n[x] = t[x]
<1> DEFINE n == EndSession(t, r)
<1>1. DOMAIN n = DOMAIN t
  BY DEF EndSession
<1>2. \A x \in DOMAIN n \ {r} : n[x] = t[x]
  BY DEF EndSession
<1>3. r \in DOMAIN t => n[r].mark = TRUE
  BY TableElim DEF EndSession, Row
<1> QED BY <1>1, <1>2, <1>3 DEF Unmarked

\* After reclaim every row is marked.
LEMMA ReclaimRows ==
  ASSUME NEW t \in Table
  PROVE  DOMAIN Reclaim(t) = DOMAIN t /\ Unmarked(Reclaim(t)) = {}
<1>1. DOMAIN Reclaim(t) = DOMAIN t
  BY DEF Reclaim
<1>2. \A x \in DOMAIN t : Reclaim(t)[x].mark = TRUE
  BY TableElim DEF Reclaim, Row
<1> QED BY <1>1, <1>2 DEF Unmarked

\* The answer Accepted adds the uuid to one row.
LEMMA UpdateOnAcceptedRows ==
  ASSUME NEW t \in Table, NEW r
  PROVE  LET n == UpdateOnAccepted(t, r)
         IN /\ DOMAIN n = DOMAIN t
            /\ Unmarked(n) = Unmarked(t)
            /\ \A x \in DOMAIN t : n[x].loc = t[x].loc /\ n[x].ready = t[x].ready
            /\ \A x \in DOMAIN t : n[x].uuid = (t[x].uuid \/ x = r)
<1> DEFINE n == UpdateOnAccepted(t, r)
<1>1. DOMAIN n = DOMAIN t
  BY DEF UpdateOnAccepted
<1>2. ASSUME NEW x \in DOMAIN t
      PROVE  /\ n[x].loc = t[x].loc /\ n[x].ready = t[x].ready
             /\ n[x].mark = t[x].mark
             /\ n[x].uuid = (t[x].uuid \/ x = r)
  BY TableElim DEF UpdateOnAccepted, Row
<1> QED BY <1>1, <1>2 DEF Unmarked

\* Storing a status changes neither mark, location nor uuid of a row, and
\* never makes a ready row unready.
LEMMA StoreServerStatusRows ==
  ASSUME NEW t \in Table, NEW r, NEW s
  PROVE  LET n == StoreServerStatus(t, r, s)
         IN /\ DOMAIN n = DOMAIN t
            /\ Unmarked(n) = Unmarked(t)
            /\ \A x \in DOMAIN t : n[x].loc = t[x].loc /\ n[x].uuid = t[x].uuid
            /\ \A x \in DOMAIN t : t[x].ready => n[x].ready
            /\ r \in DOMAIN t /\ s = "ServerReady" => n[r].ready
<1> DEFINE n == StoreServerStatus(t, r, s)
<1>1. DOMAIN n = DOMAIN t
  BY DEF StoreServerStatus
<1>2. ASSUME NEW x \in DOMAIN t
      PROVE  /\ n[x].loc = t[x].loc /\ n[x].uuid = t[x].uuid
             /\ n[x].mark = t[x].mark
             /\ t[x].ready => n[x].ready
             /\ x = r /\ s = "ServerReady" => n[x].ready
  BY TableElim DEF StoreServerStatus, Row
<1> QED BY <1>1, <1>2 DEF Unmarked
-----------------------------------------------------------------------------
(* Bookkeeping is inductive *)

\* It holds initially.
LEMMA SafeInit == Init => Bookkeeping
<1> SUFFICES ASSUME Init PROVE Bookkeeping
  OBVIOUS
<1>1. DOMAIN table = {} /\ Unmarked(table) = {}
  BY DEF Init, EmptyTable, Unmarked
<1>2. newCall.ph = "idle"
  BY DEF Init, Idle
<1>3. status.st \notin ServerSide \cup TunnelSide
  BY DEF Init, Disconnected, ServerSide, TunnelSide
<1>4. WatchersTrue
  BY DEF Init, WatchersTrue, NoWatcher, Over
<1>5. EventsTrue(events, server)
  BY DEF Init, EventsTrue
<1>6. NoOrphan
  BY DEF Init, NoOrphan, Live
<1>7. UsedFirst /\ EndsOnlyGivenUp /\ EndedOnServer
  BY <1>1 DEF Init, UsedFirst, EndsOnlyGivenUp, EndedOnServer
<1> QED BY <1>1, <1>2, <1>3, <1>4, <1>5, <1>6, <1>7
        DEF Init, Bookkeeping, CallHasRow, OnlyAwaitedLacksUuid,
            DownShowsNothing, StatusHasSession

\* Steps that only add true events, or none, keep it.
LEMMA SafeFrame ==
  ASSUME Bookkeeping, EventsTrue(events, server)',
         UNCHANGED <<mode, status, used, table, server, newCall, watcher,
                     endCall, lost>>
  PROVE  Bookkeeping'
BY DEF Bookkeeping, UsedFirst, CallHasRow, OnlyAwaitedLacksUuid,
       EndsOnlyGivenUp, EndedOnServer, WatchersTrue, DownShowsNothing,
       StatusHasSession, NoOrphan

\* Connect: the new row is that of the awaited call.
LEMMA SafeOnConnect ==
  ASSUME TypeOK, Bookkeeping, NEW r \in ReqId, NEW l \in Location,
         OnConnect(r, l)
  PROVE  Bookkeeping'
<1>0. /\ table \in Table /\ r \notin used /\ r \notin DOMAIN table
      /\ table' = NewSession(table, r, l)
      /\ newCall' = [req |-> r, loc |-> l, ph |-> "calling"]
      /\ used' = used \cup {r}
      /\ mode = "Running" /\ status = Disconnected
      /\ UNCHANGED <<mode, status, events, server, watcher, endCall, lost>>
  BY DEF TypeOK, Bookkeeping, UsedFirst, OnConnect, CallNewSession, Ready,
         VpnSessionInProgress, VpnStatus, ServerSide, TunnelSide
<1>1. /\ DOMAIN table' = DOMAIN table \cup {r}
      /\ Unmarked(table') = Unmarked(table) \cup {r}
      /\ table'[r].loc = l
      /\ \A x \in DOMAIN table : table'[x] = table[x]
  BY <1>0, NewSessionRows
<1>2. Unmarked(table) \subseteq DOMAIN table
  BY DEF Unmarked
<1>3. newCall.ph = "idle" /\ newCall'.ph = "calling" /\ newCall'.req = r
      /\ newCall'.loc = l
  BY <1>0 DEF OnConnect, Ready
<1>4. server[r] = "None" /\ \A c \in Caller : endCall[c][r] = "none"
  BY <1>0 DEF Bookkeeping, UsedFirst
<1>a. UsedFirst'
  BY <1>0, <1>1 DEF Bookkeeping, UsedFirst
<1>b. CallHasRow'
  BY <1>0, <1>1, <1>3, <1>4 DEF CallHasRow
<1>c. OnlyAwaitedLacksUuid'
  BY <1>0, <1>1, <1>2, <1>3 DEF Bookkeeping, OnlyAwaitedLacksUuid
<1>d. EndsOnlyGivenUp'
  BY <1>0, <1>1, <1>4 DEF Bookkeeping, EndsOnlyGivenUp
<1>e. StatusHasSession'
  BY <1>0 DEF StatusHasSession, Disconnected, ServerSide, TunnelSide
<1>f. NoOrphan'
  BY <1>0, <1>1 DEF Bookkeeping, NoOrphan
<1> QED BY <1>0, <1>a, <1>b, <1>c, <1>d, <1>e, <1>f
        DEF Bookkeeping, EndedOnServer, WatchersTrue, DownShowsNothing

\* The answer Accepted: the awaited row gets its uuid and is shown.
LEMMA SafeOnConnectAccepted ==
  ASSUME TypeOK, Bookkeeping, OnConnectAccepted
  PROVE  Bookkeeping'
<1> DEFINE r == newCall.req
<1>0. /\ table \in Table /\ table' = UpdateOnAccepted(table, r)
      /\ r \in ReqId /\ r \in Unmarked(table) /\ table[r].loc = newCall.loc
      /\ status' = [st |-> "Accepted", loc |-> newCall.loc]
      /\ mode = "Running"
      /\ newCall' = Idle
      /\ UNCHANGED <<mode, used, events, server, endCall, lost>>
  BY TableElim DEF TypeOK, Bookkeeping, CallHasRow, OnConnectAccepted, Unmarked
<1>1. /\ DOMAIN table' = DOMAIN table
      /\ Unmarked(table') = Unmarked(table)
      /\ \A x \in DOMAIN table : table'[x].loc = table[x].loc
      /\ \A x \in DOMAIN table : table'[x].uuid = (table[x].uuid \/ x = r)
  BY <1>0, UpdateOnAcceptedRows
<1>2. Unmarked(table) \subseteq DOMAIN table
  BY DEF Unmarked
<1>3. newCall'.ph = "idle"
  BY <1>0 DEF Idle
<1>c. OnlyAwaitedLacksUuid'
  BY <1>0, <1>1, <1>2 DEF Bookkeeping, OnlyAwaitedLacksUuid
<1>e. StatusHasSession'
  <2>1. r \in Unmarked(table') /\ table'[r].loc = status'.loc
        /\ status'.st = "Accepted"
    BY <1>0, <1>1, <1>2
  <2> QED BY <2>1 DEF StatusHasSession
<1>g. WatchersTrue'
  <2>1. watcher' = [watcher EXCEPT ![r] = [NoWatcher EXCEPT !.ph = "idle"]]
    BY DEF OnConnectAccepted, StartWatcher
  <2>2. watcher'[r].got = "null" /\ \A x \in ReqId \ {r} : watcher'[x] = watcher[x]
    BY <1>0, <2>1 DEF TypeOK, NoWatcher
  <2> QED BY <1>0, <2>2 DEF Bookkeeping, WatchersTrue, Over
<1>h. UsedFirst' /\ EndsOnlyGivenUp' /\ NoOrphan'
  BY <1>0, <1>1 DEF Bookkeeping, UsedFirst, EndsOnlyGivenUp, NoOrphan
<1> QED BY <1>0, <1>3, <1>c, <1>e, <1>g, <1>h
        DEF Bookkeeping, CallHasRow, EndedOnServer, DownShowsNothing

\* An error instead: the row goes, and a session the server has accepted
\* nevertheless is counted as lost.
LEMMA SafeOnConnectFailed ==
  ASSUME TypeOK, Bookkeeping, OnConnectFailed
  PROVE  Bookkeeping'
<1> DEFINE r == newCall.req
<1>0. /\ table \in Table /\ table' = Delete(table, r)
      /\ newCall.ph # "idle" /\ newCall' = Idle
      /\ mode = "Running" /\ status = Disconnected
      /\ server[r] = "None" \/ r \in lost'
      /\ lost \subseteq lost'
      /\ UNCHANGED <<mode, status, used, events, server, watcher, endCall>>
  BY DEF TypeOK, Bookkeeping, CallHasRow, OnConnectFailed
<1>1. /\ DOMAIN table' = DOMAIN table \ {r}
      /\ Unmarked(table') = Unmarked(table) \ {r}
      /\ \A x \in DOMAIN table' : table'[x] = table[x]
  BY <1>0, DeleteRows
<1>2. Unmarked(table') \subseteq DOMAIN table'
  BY DEF Unmarked
<1>3. newCall'.ph = "idle"
  BY <1>0 DEF Idle
<1>c. OnlyAwaitedLacksUuid'
  BY <1>0, <1>1, <1>2 DEF Bookkeeping, OnlyAwaitedLacksUuid
<1>e. StatusHasSession'
  BY <1>0 DEF StatusHasSession, Disconnected, ServerSide, TunnelSide
<1>f. NoOrphan'
  BY <1>0, <1>1 DEF Bookkeeping, NoOrphan, Live
<1>h. UsedFirst' /\ EndsOnlyGivenUp'
  BY <1>0, <1>1 DEF Bookkeeping, UsedFirst, EndsOnlyGivenUp
<1> QED BY <1>0, <1>3, <1>c, <1>e, <1>f, <1>h
        DEF Bookkeeping, CallHasRow, EndedOnServer, WatchersTrue, DownShowsNothing
\* end_session of an unmarked row whose uuid is known or not: an end call is
\* left only for a row that is marked in the same step.
LEMMA SafeEndRow ==
  ASSUME TypeOK, Bookkeeping, newCall.ph = "idle",
         NEW r \in Unmarked(table), EndRow(r),
         status'.st \notin ServerSide \cup TunnelSide, mode' # "Down",
         mode # "Down", EventsTrue(events', server),
         UNCHANGED <<used, server, newCall, watcher, lost>>
  PROVE  Bookkeeping'
<1>0. r \in ReqId /\ r \in DOMAIN table /\ table \in Table
      /\ table' = EndSession(table, r)
  BY TableElim DEF TypeOK, Unmarked, EndRow
<1>1. /\ DOMAIN table' = DOMAIN table
      /\ Unmarked(table') = Unmarked(table) \ {r}
      /\ \A x \in DOMAIN table' \ {r} : table'[x] = table[x]
  BY <1>0, EndSessionRows
<1>2. Unmarked(table') \subseteq DOMAIN table'
  BY DEF Unmarked
<1>3. \A c \in Caller, x \in ReqId :
        endCall'[c][x] = endCall[c][x] \/ (x = r /\ endCall'[c][x] = "queued")
  BY <1>0 DEF TypeOK, EndRow
<1>4. r \in used
  BY <1>0 DEF Bookkeeping, UsedFirst
<1>a. UsedFirst'
  BY <1>1, <1>3, <1>4 DEF Bookkeeping, UsedFirst
<1>c. OnlyAwaitedLacksUuid'
  BY <1>1, <1>2 DEF Bookkeeping, OnlyAwaitedLacksUuid
<1>d. EndsOnlyGivenUp'
  BY <1>1, <1>3 DEF Bookkeeping, EndsOnlyGivenUp
<1>e. EndedOnServer'
  BY <1>3 DEF Bookkeeping, EndedOnServer
<1>f. NoOrphan'
  BY <1>1 DEF Bookkeeping, NoOrphan
<1> QED BY <1>a, <1>c, <1>d, <1>e, <1>f
        DEF Bookkeeping, CallHasRow, WatchersTrue, DownShowsNothing,
            StatusHasSession

\* A disconnect, of a client or for the shutdown.
LEMMA SafeOnDisconnectInner ==
  ASSUME TypeOK, Bookkeeping, OnDisconnectInner, Ready,
         mode' # "Down",
         UNCHANGED <<used, events, server, newCall, watcher, lost>>
  PROVE  Bookkeeping'
<1>1. status'.st \notin ServerSide \cup TunnelSide
  BY DEF OnDisconnectInner, UpdateStateOnDisconnect, Disconnected, ServerSide,
         TunnelSide
<1>2. newCall.ph = "idle" /\ mode # "Down" /\ EventsTrue(events', server)
  BY DEF Ready, Bookkeeping
<1>3. CASE Unmarked(table) # {}
  BY <1>1, <1>2, <1>3, SafeEndRow DEF OnDisconnectInner, EndSomeRow
<1>4. CASE Unmarked(table) = {}
  <2>1. UNCHANGED <<table, endCall>>
    BY <1>4 DEF OnDisconnectInner, EndSomeRow
  <2> QED BY <1>1, <1>2, <1>4, <2>1
          DEF Bookkeeping, UsedFirst, CallHasRow, OnlyAwaitedLacksUuid,
              EndsOnlyGivenUp, EndedOnServer, WatchersTrue, DownShowsNothing,
              StatusHasSession, NoOrphan
<1> QED BY <1>3, <1>4

\* Disconnect.
LEMMA SafeOnDisconnect ==
  ASSUME TypeOK, Bookkeeping, OnDisconnect
  PROVE  Bookkeeping'
BY SafeOnDisconnectInner DEF OnDisconnect, Ready

\* Shutdown up to the wait for the tunnel.
LEMMA SafeOnShutdown ==
  ASSUME TypeOK, Bookkeeping, OnShutdown
  PROVE  Bookkeeping'
BY SafeOnDisconnectInner DEF OnShutdown

\* The queue without its head is as true as before.
LEMMA EventsTrueTail ==
  ASSUME NEW q \in Seq(Event), q # <<>>, NEW srv, EventsTrue(q, srv)
  PROVE  /\ EventsTrue(Tail(q), srv)
         /\ Head(q).req # NoReq /\ Head(q).st \in Over =>
              srv[Head(q).req] \in Over
<1>1. Head(q) = q[1] /\ 1 \in 1..Len(q)
  OBVIOUS
<1>2. \A i \in 1..Len(Tail(q)) : Tail(q)[i] = q[i+1] /\ i+1 \in 1..Len(q)
  OBVIOUS
<1> QED BY <1>1, <1>2 DEF EventsTrue

\* A status from a watcher: a row is deleted only when its session is over.
LEMMA SafeHandleVpnSessionStatus ==
  ASSUME TypeOK, Bookkeeping, HandleVpnSessionStatus
  PROVE  Bookkeeping'
<1> DEFINE r == Head(events).req
           s == Head(events).st
<1>0. /\ r \in ReqId /\ s \in VpnSessionStatus /\ table \in Table
      /\ mode = "Running" /\ newCall.ph = "idle"
      /\ table' = UpdatedServerStatus(table, r, s)
      /\ UNCHANGED <<mode, used, server, newCall, watcher, endCall, lost>>
  BY HeadEvent DEF TypeOK, HandleVpnSessionStatus, Ready, svc
<1>1. EventsTrue(events', server) /\ (s \in Over => server[r] \in Over)
  BY <1>0, EventsTrueTail DEF TypeOK, Bookkeeping, HandleVpnSessionStatus
<1>2. CASE r \notin Unmarked(table)
  <2>1. UNCHANGED <<status, table>>
    BY <1>0, <1>2 DEF HandleVpnSessionStatus, UpdatedServerStatus
  <2> QED BY <1>0, <1>1, <2>1, SafeFrame
<1>3. CASE r \in Unmarked(table) /\ s \in Over
  <2>1. /\ DOMAIN table' = DOMAIN table \ {r}
        /\ Unmarked(table') = Unmarked(table) \ {r}
        /\ \A x \in DOMAIN table' : table'[x] = table[x]
    BY <1>0, <1>3, DeleteRows DEF UpdatedServerStatus, Over
  <2>2. Unmarked(table') \subseteq DOMAIN table'
    BY DEF Unmarked
  <2>3. status' = Disconnected
    BY <1>3 DEF HandleVpnSessionStatus, StatusFromServer, Over
  <2>a. UsedFirst' /\ EndsOnlyGivenUp' /\ OnlyAwaitedLacksUuid'
    BY <1>0, <2>1, <2>2
    DEF Bookkeeping, UsedFirst, EndsOnlyGivenUp, OnlyAwaitedLacksUuid
  <2>b. NoOrphan'
    <3>1. server[r] \notin Live
      BY <1>1, <1>3 DEF Over, Live
    <3> QED BY <1>0, <2>1, <3>1 DEF Bookkeeping, NoOrphan
  <2>c. StatusHasSession'
    BY <2>3 DEF StatusHasSession, Disconnected, ServerSide, TunnelSide
  <2> QED BY <1>0, <1>1, <2>3, <2>a, <2>b, <2>c
          DEF Bookkeeping, CallHasRow, EndedOnServer, WatchersTrue,
              DownShowsNothing
<1>4. CASE r \in Unmarked(table) /\ s \notin Over
  <2>0. table' = StoreServerStatus(table, r, s)
    BY <1>0, <1>4 DEF UpdatedServerStatus, Over
  <2>1. /\ DOMAIN table' = DOMAIN table
        /\ Unmarked(table') = Unmarked(table)
        /\ \A x \in DOMAIN table :
             /\ table'[x].loc = table[x].loc /\ table'[x].uuid = table[x].uuid
             /\ table[x].ready => table'[x].ready
        /\ r \in DOMAIN table /\ s = "ServerReady" => table'[r].ready
    BY <1>0, <2>0, StoreServerStatusRows
  <2>2. Unmarked(table) \subseteq DOMAIN table
    BY DEF Unmarked
  <2>3. \/ status' = status
        \/ status' = [st |-> s, loc |-> table[r].loc]
    <3>1. status' = StatusFromServer(status, s, table[r].loc)
      BY <1>4 DEF HandleVpnSessionStatus
    <3>2. CASE s \in {"ServerCreated", "ServerRunning", "ServerReady"}
      BY <3>1, <3>2 DEF StatusFromServer
    <3>3. CASE s \in {"Accepted", "ClientConnected"}
      BY <3>1, <3>3 DEF StatusFromServer
    <3> QED BY <1>0, <1>4, <3>2, <3>3 DEF VpnSessionStatus, Over
  <2>a. UsedFirst' /\ EndsOnlyGivenUp' /\ NoOrphan'
    BY <1>0, <2>1 DEF Bookkeeping, UsedFirst, EndsOnlyGivenUp, NoOrphan
  <2>b. OnlyAwaitedLacksUuid'
    BY <1>0, <2>1, <2>2 DEF Bookkeeping, OnlyAwaitedLacksUuid
  <2>c. StatusHasSession'
    BY <1>4, <2>1, <2>2, <2>3 DEF Bookkeeping, StatusHasSession
  <2> QED BY <1>0, <1>1, <2>a, <2>b, <2>c
          DEF Bookkeeping, CallHasRow, EndedOnServer, WatchersTrue,
              DownShowsNothing
<1> QED BY <1>2, <1>3, <1>4
\* A tunnel transition with a session in the table.
LEMMA SafeTransitionWithSession ==
  ASSUME TypeOK, Bookkeeping, NEW r \in ReqId, TransitionWithSession(r)
  PROVE  Bookkeeping'
<1> DEFINE tr == Head(events).st
<1>0. /\ r \in Unmarked(table) /\ tr \in Transition /\ table \in Table
      /\ mode = "Running" /\ newCall.ph = "idle"
      /\ UNCHANGED <<mode, used, server, newCall, watcher, lost>>
  BY HeadEvent DEF TypeOK, TransitionWithSession, IsTransition, Ready
<1>1. EventsTrue(events', server)
  BY EventsTrueTail
  DEF TypeOK, Bookkeeping, TransitionWithSession, IsTransition
<1>2. CASE tr = "Error"
  <2>1. EndRow(r) /\ status' = Disconnected
    BY <1>2 DEF TransitionWithSession, StatusFromTunnel
  <2>2. status'.st \notin ServerSide \cup TunnelSide
    BY <2>1 DEF Disconnected, ServerSide, TunnelSide
  <2> QED BY <1>0, <1>1, <2>1, <2>2, SafeEndRow
<1>3. CASE tr # "Error"
  <2>0. /\ table' = table \/ table' = StoreServerStatus(table, r, "ClientConnected")
        /\ endCall' = endCall
    BY <1>3 DEF TransitionWithSession
  <2>1. /\ DOMAIN table' = DOMAIN table
        /\ Unmarked(table') = Unmarked(table)
        /\ \A x \in DOMAIN table :
             /\ table'[x].loc = table[x].loc /\ table'[x].uuid = table[x].uuid
    BY <1>0, <2>0, StoreServerStatusRows
  <2>2. Unmarked(table) \subseteq DOMAIN table
    BY DEF Unmarked
  <2>3. status' = Disconnected \/ status' = [st |-> tr, loc |-> table[r].loc]
    BY DEF TransitionWithSession, StatusFromTunnel
  <2>4. tr # "ServerReady"
    BY <1>0 DEF Transition
  <2>a. UsedFirst' /\ EndsOnlyGivenUp' /\ NoOrphan'
    BY <1>0, <2>0, <2>1 DEF Bookkeeping, UsedFirst, EndsOnlyGivenUp, NoOrphan
  <2>b. OnlyAwaitedLacksUuid'
    BY <1>0, <2>1, <2>2 DEF Bookkeeping, OnlyAwaitedLacksUuid
  <2>c. StatusHasSession'
    <3>1. CASE status' = Disconnected
      BY <3>1 DEF StatusHasSession, Disconnected, ServerSide, TunnelSide
    <3>2. CASE status' = [st |-> tr, loc |-> table[r].loc]
      BY <1>0, <2>1, <2>2, <2>4, <3>2 DEF StatusHasSession
    <3> QED BY <2>3, <3>1, <3>2
  <2> QED BY <1>0, <1>1, <2>0, <2>a, <2>b, <2>c
          DEF Bookkeeping, CallHasRow, EndedOnServer, WatchersTrue,
              DownShowsNothing
<1> QED BY <1>2, <1>3

\* A tunnel transition without a session: nothing is shown that a session
\* would have to be there for.
LEMMA SafeTransitionWithoutSession ==
  ASSUME TypeOK, Bookkeeping, TransitionWithoutSession
  PROVE  Bookkeeping'
<1>0. /\ mode' \in {"Running", "Panicked"} /\ mode = "Running"
      /\ newCall.ph = "idle" /\ Unmarked(table) = {}
      /\ status' = status \/ status' = Disconnected
      /\ UNCHANGED <<used, table, server, newCall, watcher, endCall, lost>>
  BY DEF TransitionWithoutSession, IsTransition, Ready, svc
<1>1. EventsTrue(events', server)
  BY EventsTrueTail
  DEF TypeOK, Bookkeeping, TransitionWithoutSession, IsTransition
<1>2. StatusHasSession'
  BY <1>0 DEF Bookkeeping, StatusHasSession, Disconnected, ServerSide, TunnelSide
<1> QED BY <1>0, <1>1, <1>2
        DEF Bookkeeping, UsedFirst, CallHasRow, OnlyAwaitedLacksUuid,
            EndsOnlyGivenUp, EndedOnServer, WatchersTrue, DownShowsNothing,
            NoOrphan

\* The rest of the shutdown.
LEMMA SafeTunnelJoined ==
  ASSUME TypeOK, Bookkeeping, TunnelJoined
  PROVE  Bookkeeping'
<1>0. /\ mode = "JoinTunnel" /\ mode' = "Stopped" /\ events' = <<>>
      /\ watcher' = [r \in ReqId |-> StopWatcher(watcher, r)[r]]
      /\ UNCHANGED <<status, used, table, server, newCall, endCall, lost>>
  BY DEF TunnelJoined, StopService
<1>1. WatchersTrue'
  <2>1. ASSUME NEW r \in ReqId PROVE watcher'[r].got = watcher[r].got
    BY <1>0 DEF TypeOK, StopWatcher, Watcher
  <2> QED BY <1>0, <2>1 DEF Bookkeeping, WatchersTrue
<1>2. EventsTrue(events', server)
  BY <1>0 DEF EventsTrue
<1> QED BY <1>0, <1>1, <1>2
        DEF Bookkeeping, UsedFirst, CallHasRow, OnlyAwaitedLacksUuid,
            EndsOnlyGivenUp, EndedOnServer, DownShowsNothing,
            StatusHasSession, NoOrphan

\* The end of the process: the calls are gone, the table stays.
LEMMA SafeDie ==
  ASSUME TypeOK, Bookkeeping, Die
  PROVE  Bookkeeping'
<1>0. /\ mode' = "Down" /\ status' = Disconnected /\ events' = <<>>
      /\ newCall'.ph = "idle"
      /\ \A r \in ReqId : watcher'[r].got = "null"
      /\ \A c \in Caller, r \in ReqId : endCall'[c][r] = "none"
      /\ UNCHANGED <<used, table, server, lost>>
  BY DEF Die, Idle, NoWatcher
<1>1. EventsTrue(events', server) /\ WatchersTrue'
  BY <1>0 DEF EventsTrue, WatchersTrue, Over
<1>2. StatusHasSession'
  BY <1>0 DEF StatusHasSession, Disconnected, ServerSide, TunnelSide
<1> QED BY <1>0, <1>1, <1>2
        DEF Bookkeeping, UsedFirst, CallHasRow, OnlyAwaitedLacksUuid,
            EndsOnlyGivenUp, EndedOnServer, DownShowsNothing, NoOrphan

\* The start: every row left over is marked.
LEMMA SafeRestart ==
  ASSUME TypeOK, Bookkeeping, Restart
  PROVE  Bookkeeping'
<1>0. /\ mode = "Down" /\ mode' = "Running" /\ status = Disconnected
      /\ newCall.ph = "idle"
      /\ UNCHANGED <<status, used, events, server, newCall, watcher, endCall,
                     lost>>
  BY DEF Restart, Bookkeeping, CallHasRow, DownShowsNothing
<1>1. DOMAIN table' = DOMAIN table /\ Unmarked(table') = {}
  BY ReclaimRows DEF TypeOK, Restart
<1>2. StatusHasSession'
  BY <1>0 DEF StatusHasSession, Disconnected, ServerSide, TunnelSide
<1> QED BY <1>0, <1>1, <1>2
        DEF Bookkeeping, UsedFirst, CallHasRow, OnlyAwaitedLacksUuid,
            EndsOnlyGivenUp, EndedOnServer, WatchersTrue, DownShowsNothing,
            NoOrphan

\* Every step of the daemon.
LEMMA SafeDaemonNext ==
  ASSUME TypeOK, Bookkeeping, DaemonNext
  PROVE  Bookkeeping'
<1>1. CASE \E n \in notes : OnAckNotification(n)
  BY <1>1, SafeFrame DEF OnAckNotification, svc, Bookkeeping
<1> QED
  BY <1>1, SafeOnConnect, SafeOnConnectAccepted, SafeOnConnectFailed,
     SafeOnDisconnect, SafeHandleVpnSessionStatus, SafeTransitionWithSession,
     SafeTransitionWithoutSession, SafeOnShutdown, SafeTunnelJoined, SafeDie,
     SafeRestart
  DEF DaemonNext, HandleTunnelStateTransition, Exit, Crash
\* Watchers and calls that leave got, the table and the server alone.
LEMMA StopWatcherGot ==
  ASSUME TypeOK, NEW r \in ReqId, watcher' = StopWatcher(watcher, r)
  PROVE  \A x \in ReqId : watcher'[x].got = watcher[x].got
BY DEF TypeOK, StopWatcher, Watcher

\* The server accepts the awaited session, which no end call is about.
LEMMA SafeNewSessionApplied ==
  ASSUME TypeOK, Bookkeeping, NewSessionApplied,
         UNCHANGED <<daemonVars, tunnel>>
  PROVE  Bookkeeping'
<1> DEFINE r == newCall.req
<1>0. /\ r \in ReqId /\ r \in Unmarked(table) /\ r \in DOMAIN table
      /\ server[r] = "None" /\ newCall.ph = "calling"
      /\ server' = [server EXCEPT ![r] = "Accepted"]
      /\ newCall'.req = r /\ newCall'.ph = "applied"
      /\ newCall'.loc = newCall.loc
      /\ UNCHANGED <<mode, status, used, table, events, watcher, endCall, lost>>
  BY TableElim
  DEF TypeOK, Bookkeeping, CallHasRow, NewSessionApplied, Unmarked, daemonVars,
      NewCall, Idle
<1>1. server'[r] = "Accepted" /\ \A x \in ReqId \ {r} : server'[x] = server[x]
  BY <1>0 DEF TypeOK
<1>2. r \in used /\ \A c \in Caller : endCall[c][r] = "none"
  BY <1>0 DEF Bookkeeping, UsedFirst, EndsOnlyGivenUp
<1>a. UsedFirst'
  BY <1>0, <1>1, <1>2 DEF Bookkeeping, UsedFirst
<1>b. CallHasRow' /\ OnlyAwaitedLacksUuid'
  BY <1>0 DEF Bookkeeping, CallHasRow, OnlyAwaitedLacksUuid
<1>c. EndedOnServer'
  BY <1>0, <1>1, <1>2 DEF Bookkeeping, EndedOnServer
<1>d. EventsTrue(events', server')
  <2>1. ASSUME NEW i \in 1..Len(events), events[i].req # NoReq,
               events[i].st \in Over
        PROVE  server'[events[i].req] \in Over
    <3>1. events[i] \in Event
      BY DEF TypeOK
    <3>2. events[i].req \in ReqId
      BY <2>1, <3>1 DEF Event
    <3>3. server[events[i].req] \in Over
      BY <2>1 DEF Bookkeeping, EventsTrue
    <3> QED BY <1>0, <1>1, <3>2, <3>3 DEF Over
  <2> QED BY <1>0, <2>1 DEF EventsTrue
<1>e. WatchersTrue'
  BY <1>0, <1>1 DEF Bookkeeping, WatchersTrue, Over
<1>f. NoOrphan'
  BY <1>0, <1>1 DEF Bookkeeping, NoOrphan
<1> QED BY <1>0, <1>a, <1>b, <1>c, <1>d, <1>e, <1>f
        DEF Bookkeeping, EndsOnlyGivenUp, DownShowsNothing, StatusHasSession

\* A change of one session on the server that revives none keeps it, with
\* the watchers' answers as they were.
LEMMA SafeServerChange ==
  ASSUME TypeOK, Bookkeeping, NEW r \in ReqId, server[r] \in Live,
         server'[r] # "None",
         \A x \in ReqId \ {r} : server'[x] = server[x],
         \A x \in ReqId : watcher'[x].got = watcher[x].got,
         \A c \in Caller, x \in ReqId :
           \/ endCall'[c][x] = endCall[c][x]
           \/ /\ x = r /\ endCall'[c][x] = "applied" /\ endCall[c][x] # "none"
              /\ server'[x] \notin Live,
         UNCHANGED <<mode, status, used, table, events, newCall, lost>>
  PROVE  Bookkeeping'
<1>0. server[r] \notin Over /\ server[r] # "None" /\ r \in used
  BY DEF Bookkeeping, UsedFirst, Live, Over
<1>1. UsedFirst'
  BY <1>0 DEF Bookkeeping, UsedFirst
<1>2. CallHasRow'
  <2>1. newCall.ph # "idle" => newCall.req \in ReqId
    BY DEF TypeOK, NewCall, Idle
  <2> QED BY <1>0, <2>1 DEF Bookkeeping, CallHasRow
<1>3. EndsOnlyGivenUp'
  BY DEF Bookkeeping, EndsOnlyGivenUp
<1>4. EndedOnServer'
  BY DEF Bookkeeping, EndedOnServer
<1>5. EventsTrue(events', server')
  <2>1. ASSUME NEW i \in 1..Len(events), events[i].req # NoReq,
               events[i].st \in Over
        PROVE  server'[events[i].req] \in Over
    <3>1. events[i] \in Event
      BY DEF TypeOK
    <3>2. events[i].req \in ReqId
      BY <2>1, <3>1 DEF Event
    <3>3. server[events[i].req] \in Over
      BY <2>1 DEF Bookkeeping, EventsTrue
    <3> QED BY <1>0, <3>2, <3>3
  <2> QED BY <2>1 DEF EventsTrue
<1>6. WatchersTrue'
  BY <1>0 DEF Bookkeeping, WatchersTrue
<1>7. NoOrphan'
  BY DEF Bookkeeping, NoOrphan
<1> QED BY <1>1, <1>2, <1>3, <1>4, <1>5, <1>6, <1>7
        DEF Bookkeeping, OnlyAwaitedLacksUuid, DownShowsNothing, StatusHasSession

\* Steps of watchers, end calls and client-connected tasks that change
\* neither table nor server nor what is true of them.
LEMMA SafeCalls ==
  ASSUME TypeOK, Bookkeeping, EventsTrue(events', server),
         \A x \in ReqId : watcher'[x].got \in Over => server[x] \in Over,
         \A c \in Caller, x \in ReqId :
           \/ endCall'[c][x] \in {"none", endCall[c][x]}
           \/ /\ x \in DOMAIN table \ Unmarked(table)
              /\ endCall'[c][x] = "queued"
           \/ /\ endCall[c][x] # "none" /\ server[x] \notin Live,
         UNCHANGED <<mode, status, used, table, server, newCall>>,
         lost \subseteq lost'
  PROVE  Bookkeeping'
<1>1. UsedFirst'
  BY DEF Bookkeeping, UsedFirst
<1>2. EndsOnlyGivenUp'
  BY DEF Bookkeeping, EndsOnlyGivenUp
<1>3. EndedOnServer'
  BY DEF Bookkeeping, EndedOnServer
<1> QED BY <1>1, <1>2, <1>3
        DEF Bookkeeping, CallHasRow, OnlyAwaitedLacksUuid, WatchersTrue,
            DownShowsNothing, StatusHasSession, NoOrphan
\* Adding an event to the queue.
LEMMA EventsTrueAppend ==
  ASSUME NEW q \in Seq(Event), NEW e \in Event, NEW srv, EventsTrue(q, srv),
         e.req # NoReq /\ e.st \in Over => srv[e.req] \in Over
  PROVE  EventsTrue(Append(q, e), srv)
<1>1. \A i \in 1..Len(Append(q, e)) :
        Append(q, e)[i] = e \/ (i \in 1..Len(q) /\ Append(q, e)[i] = q[i])
  OBVIOUS
<1> QED BY <1>1 DEF EventsTrue

\* The steps of a watcher: what it has from the server stays true.
LEMMA SafeWatcher ==
  ASSUME TypeOK, Bookkeeping, NEW r \in ReqId,
         WatchPoll(r) \/ WatchDeliver(r) \/ WatchStopped(r),
         UNCHANGED <<daemonVars, tunnel>>
  PROVE  Bookkeeping'
<1>0. UNCHANGED <<mode, status, used, table, server, newCall, endCall, lost>>
  BY DEF WatchPoll, WatchDeliver, WatchStopped, daemonVars
<1>1. \A x \in ReqId \ {r} : watcher'[x] = watcher[x]
  BY DEF TypeOK, WatchPoll, WatchDeliver, WatchStopped
<1>2. watcher'[r].got \in {"null", server[r]}
  <2>1. CASE WatchPoll(r)
    <3>1. watcher'[r] = [watcher[r] EXCEPT !.ph = "polled", !.got = server[r]]
      BY <2>1 DEF TypeOK, WatchPoll
    <3> QED BY <3>1 DEF TypeOK, Watcher
  <2>2. CASE WatchDeliver(r)
    <3>1. \/ watcher'[r] = GoneWatcher
          \/ watcher'[r] = [watcher[r] EXCEPT !.ph = "idle",
                              !.last = watcher[r].got, !.got = "null"]
      BY <2>2 DEF TypeOK, WatchDeliver
    <3> QED BY <3>1 DEF TypeOK, Watcher, GoneWatcher, NoWatcher
  <2>3. CASE WatchStopped(r)
    BY <2>3 DEF TypeOK, WatchStopped, GoneWatcher, NoWatcher
  <2> QED BY <2>1, <2>2, <2>3
<1>3. \A x \in ReqId : watcher'[x].got \in Over => server[x] \in Over
  BY <1>1, <1>2 DEF Bookkeeping, WatchersTrue, Over
<1>4. EventsTrue(events', server)
  <2>1. CASE UNCHANGED events
    BY <2>1 DEF Bookkeeping
  <2>2. CASE WatchDeliver(r)
    <3>1. StatusEvent(r, watcher[r].got) \in Event
      BY <2>2 DEF TypeOK, WatchDeliver, Watcher, StatusEvent, Event
    <3>2. watcher[r].got \in Over => server[r] \in Over
      BY DEF Bookkeeping, WatchersTrue
    <3> QED BY <2>2, <3>1, <3>2, EventsTrueAppend
            DEF TypeOK, Bookkeeping, WatchDeliver, StatusEvent
  <2> QED BY <2>1, <2>2 DEF WatchPoll, WatchStopped
<1> QED BY <1>0, <1>3, <1>4, SafeCalls

\* The steps of the server and of a ClientConnected command.
LEMMA SafeServer ==
  ASSUME TypeOK, Bookkeeping, NEW r \in ReqId,
         \/ ClientConnected(r) \/ ClientConnectedServiceDown(r)
         \/ ServerProgress(r) \/ ServerFailure(r),
         UNCHANGED <<daemonVars, tunnel>>
  PROVE  Bookkeeping'
<1>0. UNCHANGED <<mode, status, used, table, events, newCall, endCall, lost>>
  BY DEF ClientConnected, ClientConnectedServiceDown, ServerProgress,
         ServerFailure, daemonVars
<1>1. \A x \in ReqId : watcher'[x].got = watcher[x].got
  BY StopWatcherGot DEF ClientConnected, ClientConnectedServiceDown,
                        ServerProgress, ServerFailure
<1>2. CASE UNCHANGED server
  <2>1. \A x \in ReqId : watcher'[x].got \in Over => server[x] \in Over
    BY <1>1 DEF Bookkeeping, WatchersTrue
  <2> QED BY <1>0, <1>2, <2>1, SafeCalls DEF Bookkeeping
<1>3. CASE server' # server
  <2>1. /\ server[r] \in Live /\ server'[r] # "None"
        /\ \A x \in ReqId \ {r} : server'[x] = server[x]
    <3>1. CASE ClientConnected(r)
      <4>1. server' = [server EXCEPT ![r] =
                         IF @ = "ServerReady" THEN "ClientConnected" ELSE @]
        BY <1>3, <3>1 DEF ClientConnected
      <4>2. server[r] = "ServerReady"
        BY <1>3, <4>1 DEF TypeOK
      <4> QED BY <4>1, <4>2 DEF TypeOK, Live
    <3>2. CASE ServerProgress(r)
      <4>1. PICK s \in Stages \cup {"ServerReady"} :
              server[r] \in Before(s) /\ server' = [server EXCEPT ![r] = s]
        BY <3>2 DEF ServerProgress
      <4>2. server[r] \in Live
        BY <4>1, ServiceAssumption DEF Before, Live
      <4>3. s # "None"
        BY ServiceAssumption
      <4> QED BY <4>1, <4>2, <4>3 DEF TypeOK
    <3>3. CASE ServerFailure(r)
      BY <3>3 DEF TypeOK, ServerFailure
    <3> QED BY <1>3, <3>1, <3>2, <3>3 DEF ClientConnectedServiceDown
  <2> QED BY <1>0, <1>1, <2>1, SafeServerChange
<1> QED BY <1>2, <1>3

\* One end call changes.
LEMMA SetEndOnly ==
  ASSUME TypeOK, NEW c \in Caller, NEW r \in ReqId, NEW ph, SetEnd(c, r, ph)
  PROVE  /\ endCall'[c][r] = ph
         /\ \A d \in Caller, x \in ReqId :
              endCall'[d][x] = endCall[d][x] \/ (d = c /\ x = r)
BY DEF TypeOK, SetEnd

\* Deleting a row that was given up, with its session over or written off.
LEMMA SafeDeleteGivenUp ==
  ASSUME TypeOK, Bookkeeping, NEW c \in Caller, NEW r \in ReqId,
         endCall[c][r] # "none", SetEnd(c, r, "none"),
         table' = Delete(table, r), server[r] \notin Live \/ r \in lost',
         lost \subseteq lost',
         \A x \in ReqId : watcher'[x].got = watcher[x].got,
         UNCHANGED <<mode, status, used, events, server, newCall>>
  PROVE  Bookkeeping'
<1>0. r \notin Unmarked(table) /\ table \in Table
  BY DEF TypeOK, Bookkeeping, EndsOnlyGivenUp
<1>1. /\ DOMAIN table' = DOMAIN table \ {r}
      /\ Unmarked(table') = Unmarked(table)
      /\ \A x \in DOMAIN table' : table'[x] = table[x]
  <2>1. /\ DOMAIN table' = DOMAIN table \ {r}
        /\ Unmarked(table') = Unmarked(table) \ {r}
        /\ \A x \in DOMAIN table' : table'[x] = table[x]
    BY <1>0, DeleteRows
  <2> QED BY <1>0, <2>1
<1>2. Unmarked(table') \subseteq DOMAIN table'
  BY DEF Unmarked
<1>3. \A d \in Caller, x \in ReqId : endCall'[d][x] \in {"none", endCall[d][x]}
  BY SetEndOnly
<1>a. UsedFirst'
  BY <1>1, <1>3 DEF Bookkeeping, UsedFirst
<1>b. CallHasRow' /\ OnlyAwaitedLacksUuid' /\ StatusHasSession'
  BY <1>1, <1>2
  DEF Bookkeeping, CallHasRow, OnlyAwaitedLacksUuid, StatusHasSession
<1>c. EndsOnlyGivenUp' /\ EndedOnServer'
  BY <1>1, <1>3 DEF Bookkeeping, EndsOnlyGivenUp, EndedOnServer
<1>d. NoOrphan'
  BY <1>1 DEF Bookkeeping, NoOrphan
<1> QED BY <1>a, <1>b, <1>c, <1>d
        DEF Bookkeeping, WatchersTrue, DownShowsNothing

\* The steps that end a session.
LEMMA SafeEndStep ==
  ASSUME TypeOK, Bookkeeping, NEW c \in Caller, NEW r \in ReqId,
         EndStep(c, r), UNCHANGED <<daemonVars, tunnel>>
  PROVE  Bookkeeping'
<1>0. TakeEnd(c, r) => /\ \A x \in ReqId : watcher'[x].got = watcher[x].got
                       /\ endCall[c][r] = "queued"
  BY StopWatcherGot DEF TakeEnd
<1>1. CASE EndApplied(c, r)
  <2>0. /\ UNCHANGED <<mode, status, used, table, events, newCall, lost>>
        /\ TakeEnd(c, r) /\ SetEnd(c, r, "applied")
        /\ server' = [server EXCEPT ![r] = IF @ \in Live THEN "Ended" ELSE @]
    BY <1>1 DEF EndApplied, daemonVars
  <2>1. /\ endCall'[c][r] = "applied"
        /\ \A d \in Caller, x \in ReqId :
             endCall'[d][x] = endCall[d][x] \/ (d = c /\ x = r)
    BY <2>0, SetEndOnly
  <2>2. CASE server[r] \in Live
    <3>1. server'[r] = "Ended" /\ \A x \in ReqId \ {r} : server'[x] = server[x]
      BY <2>0, <2>2 DEF TypeOK
    <3>2. "Ended" \notin Live
      BY DEF Live
    <3>3. \A d \in Caller, x \in ReqId :
            \/ endCall'[d][x] = endCall[d][x]
            \/ /\ x = r /\ endCall'[d][x] = "applied" /\ endCall[d][x] # "none"
               /\ server'[x] \notin Live
      BY <1>0, <2>0, <2>1, <3>1, <3>2
    <3> QED BY <1>0, <2>0, <2>2, <3>1, <3>3, SafeServerChange
  <2>3. CASE server[r] \notin Live
    <3>1. server' = server
      BY <2>0, <2>3 DEF TypeOK
    <3>2. \A x \in ReqId : watcher'[x].got \in Over => server[x] \in Over
      BY <1>0, <2>0 DEF Bookkeeping, WatchersTrue
    <3>3. \A d \in Caller, x \in ReqId :
            \/ endCall'[d][x] \in {"none", endCall[d][x]}
            \/ endCall[d][x] # "none" /\ server[x] \notin Live
      BY <1>0, <2>0, <2>1, <2>3
    <3> QED BY <2>0, <3>1, <3>2, <3>3, SafeCalls DEF Bookkeeping
  <2> QED BY <2>2, <2>3
<1>2. CASE EndReturned(c, r)
  <2>1. server[r] \notin Live
    BY <1>2 DEF EndReturned, Bookkeeping, EndedOnServer
  <2> QED BY <1>2, <2>1, SafeDeleteGivenUp DEF EndReturned, daemonVars
<1>3. ASSUME SetEnd(c, r, "none"), UNCHANGED <<table, events, server, newCall>>,
             lost \subseteq lost',
             \A x \in ReqId : watcher'[x].got = watcher[x].got
      PROVE  Bookkeeping'
  <2>1. \A d \in Caller, x \in ReqId : endCall'[d][x] \in {"none", endCall[d][x]}
    BY <1>3, SetEndOnly
  <2>2. \A x \in ReqId : watcher'[x].got \in Over => server[x] \in Over
    BY <1>3 DEF Bookkeeping, WatchersTrue
  <2> QED BY <1>3, <2>1, <2>2, SafeCalls DEF Bookkeeping, daemonVars
<1>4. CASE EndServiceDown(c, r)
  BY <1>3, <1>4 DEF EndServiceDown
<1>5. CASE EndConnectionError(c, r)
  BY <1>0, <1>3, <1>5 DEF EndConnectionError
<1>6. CASE EndServerError(c, r)
  <2>1. /\ \A x \in ReqId : watcher'[x].got = watcher[x].got
        /\ endCall[c][r] # "none"
        /\ SetEnd(c, r, "none")
        /\ UNCHANGED <<events, server, newCall>>
    BY <1>0, <1>6 DEF EndServerError, ServerErrorHandled
  <2>2. \/ UNCHANGED <<table, lost>>
        \/ table' = Delete(table, r) /\ lost' = lost \cup {r}
    BY <1>6 DEF EndServerError, ServerErrorHandled
  <2> QED BY <1>3, <2>1, <2>2, SafeDeleteGivenUp DEF daemonVars
<1> QED BY <1>1, <1>2, <1>4, <1>5, <1>6 DEF EndStep

\* A round of the reclaimer lists only rows that are marked.
LEMMA SafeReclaimTick ==
  ASSUME TypeOK, Bookkeeping, ReclaimTick, UNCHANGED <<daemonVars, tunnel>>
  PROVE  Bookkeeping'
<1>0. UNCHANGED <<mode, status, used, table, events, server, newCall, watcher,
                  lost>>
  BY DEF ReclaimTick, daemonVars
<1>1. ToReclaim(table) \subseteq DOMAIN table \ Unmarked(table)
  BY DEF ToReclaim, Unmarked
<1>2. \A d \in Caller, x \in ReqId :
        \/ endCall'[d][x] \in {"none", endCall[d][x]}
        \/ x \in DOMAIN table \ Unmarked(table) /\ endCall'[d][x] = "queued"
  BY <1>1 DEF TypeOK, ReclaimTick
<1> QED BY <1>0, <1>2, SafeCalls DEF Bookkeeping, WatchersTrue

\* Every step of the service, the reclaimer and the server.
LEMMA SafeServiceNext ==
  ASSUME TypeOK, Bookkeeping, ServiceNext
  PROVE  Bookkeeping'
BY SafeNewSessionApplied, SafeReclaimTick, SafeWatcher, SafeServer, SafeEndStep
DEF ServiceNext, ServiceStep, ReclaimRound

\* The tunnel adds at most one event, of its own.
LEMMA TunnelEvents ==
  ASSUME TypeOK, TunnelSteps
  PROVE  events' = events \/ \E s \in Transition : events' = Append(events, TunnelEvent(s))
<1>1. ASSUME NEW s \in TunnelState, Enter(s)
      PROVE  \E x \in Transition : events' = Append(events, TunnelEvent(x))
  BY <1>1 DEF Enter, TunnelState
<1>2. TunnelDown \in TunnelState /\ [TunnelDown EXCEPT !.st = "Error"] \in TunnelState
  BY DEF TunnelDown, TunnelState, Transition
<1>3. TryConnect => \E x \in Transition : events' = Append(events, TunnelEvent(x))
  <2> SUFFICES ASSUME TryConnect
               PROVE  \E x \in Transition : events' = Append(events, TunnelEvent(x))
    OBVIOUS
  <2> PICK r \in GenerateParameter(table) :
        Enter(IF r = NoReq THEN [TunnelDown EXCEPT !.st = "Error"]
              ELSE [st |-> "Connecting", after |-> "nothing", peer |-> r])
    BY DEF TryConnect
  <2>1. r \in ReqId \cup {NoReq}
    BY TableElim DEF TypeOK, GenerateParameter
  <2>2. [st |-> "Connecting", after |-> "nothing", peer |-> r] \in TunnelState
    BY <2>1 DEF TunnelState, Transition
  <2> QED BY <1>1, <1>2, <2>2
<1>4. ASSUME NEW a \in {"nothing", "reconnect", "block"}, Leave(a)
      PROVE  \E x \in Transition : events' = Append(events, TunnelEvent(x))
  <2>1. [tun EXCEPT !.st = "Disconnecting", !.after = a] \in TunnelState
    BY DEF TypeOK, TunnelState, Transition
  <2> QED BY <1>1, <1>4, <2>1 DEF Leave
<1>5. [tun EXCEPT !.st = "Connected"] \in TunnelState
  BY DEF TypeOK, TunnelState, Transition
<1> QED BY <1>1, <1>2, <1>3, <1>4, <1>5
        DEF TunnelSteps, TunnelNext, TunnelCommand, TunnelConnect,
            TunnelDisconnect, TunnelConnected, TunnelClosed, TunnelFault

\* Every step of the tunnel: it only adds events of its own.
LEMMA SafeTunnelSteps ==
  ASSUME TypeOK, Bookkeeping, TunnelSteps
  PROVE  Bookkeeping'
<1>1. events' = events \/ \E s \in Transition : events' = Append(events, TunnelEvent(s))
  BY TunnelEvents
<1>2. UNCHANGED <<mode, status, used, table, server, newCall, watcher, endCall,
                  lost>>
  BY DEF TunnelSteps, TunnelFrame, TunnelNext, TunnelCommand, TunnelConnect,
         TunnelDisconnect, TunnelConnected, TunnelClosed, TunnelFault,
         daemonVars, svc
<1>3. EventsTrue(events', server)
  <2>1. ASSUME NEW s \in Transition, events' = Append(events, TunnelEvent(s))
        PROVE  EventsTrue(events', server)
    <3>1. TunnelEvent(s) \in Event /\ TunnelEvent(s).req = NoReq
      BY DEF TunnelEvent, Event
    <3> QED BY <2>1, <3>1, EventsTrueAppend DEF TypeOK, Bookkeeping
  <2> QED BY <1>1, <2>1 DEF Bookkeeping
<1> QED BY <1>2, <1>3, SafeFrame

\* Every step of the system.
LEMMA SafeNext ==
  ASSUME TypeOK, Bookkeeping, [Next]_vars
  PROVE  Bookkeeping'
<1>1. CASE UNCHANGED vars
  BY <1>1, SafeFrame DEF vars, Bookkeeping
<1> QED BY <1>1, SafeDaemonNext, SafeServiceNext, SafeTunnelSteps DEF Next
-----------------------------------------------------------------------------
(* The theorems *)

\* The invariant that the following theorems are read off.
THEOREM BookkeepingHolds == Spec => []Bookkeeping
<1>1. Init => Bookkeeping
  BY SafeInit
<1>2. TypeOK /\ Bookkeeping /\ [Next]_vars => Bookkeeping'
  BY SafeNext
<1> QED BY <1>1, <1>2, TypeCorrect, PTL DEF Spec

\* Neither the task of end_session nor the reclaimer ever holds a call to
\* end a session still in use.
THEOREM NeverEndsInUse == Spec => []EndsOnlyGivenUp
<1>1. Bookkeeping => EndsOnlyGivenUp
  BY DEF Bookkeeping
<1> QED BY <1>1, BookkeepingHolds, PTL

\* The unwrap of session_uuid in tunnel_state_transition cannot fail.
THEOREM UuidUnwrapSafe == Spec => []SessionUuidKnown
<1>1. Bookkeeping => SessionUuidKnown
  BY DEF Bookkeeping, OnlyAwaitedLacksUuid, SessionUuidKnown, Ready
<1> QED BY <1>1, BookkeepingHolds, PTL

\* A status shown to clients is that of a session in the table.
THEOREM StatusBacked == Spec => []StatusHasSession
<1>1. Bookkeeping => StatusHasSession
  BY DEF Bookkeeping
<1> QED BY <1>1, BookkeepingHolds, PTL

\* No session stays on the server without a row unless an answer about it
\* was lost or the reclaimer gave it up after a server error.
THEOREM NothingForgotten == Spec => []NoOrphan
<1>1. Bookkeeping => NoOrphan
  BY DEF Bookkeeping
<1> QED BY <1>1, BookkeepingHolds, PTL
=============================================================================
