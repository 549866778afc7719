---------------------------- MODULE LedgerProofs ----------------------------
(***************************************************************************)
(* Daemon implements SessionLedger: every step of the daemon, the session  *)
(* service, the reclaimer and the tunnel is, through Phase and OnServer, a *)
(* step of the ledger or none.                                             *)
(***************************************************************************)
EXTENDS DaemonSafetyProofs

\* The view of one request does not change.
Same(x) == Phase(x)' = Phase(x) /\ OnServer(x)' = OnServer(x)

-----------------------------------------------------------------------------
(* The ledger's steps, from the views of single requests *)

\* No view changes: no step.
LEMMA LedgerStutter ==
  ASSUME \A x \in ReqId : Same(x), lost' = lost
  PROVE  UNCHANGED Ledger!ledgerVars
BY DEF Same, Ledger!ledgerVars

\* One request is opened.
LEMMA LedgerOpen ==
  ASSUME NEW r \in ReqId, \A x \in ReqId \ {r} : Same(x), lost' = lost,
         OnServer(r)' = OnServer(r), Phase(r) = "free", Phase(r)' = "active"
  PROVE  Ledger!Next
<1>1. Ledger!Open(r)
  BY DEF Same, Ledger!Open
<1> QED BY <1>1 DEF Ledger!Next

\* The server accepts one.
LEMMA LedgerAccept ==
  ASSUME NEW r \in ReqId, \A x \in ReqId \ {r} : Same(x), lost' = lost,
         Phase(r) = "active", Phase(r)' = Phase(r),
         OnServer(r) = "none", OnServer(r)' = "live"
  PROVE  Ledger!Next
<1>1. Ledger!Accept(r)
  BY DEF Same, Ledger!Accept
<1> QED BY <1>1 DEF Ledger!Next

\* Active ones are given up.
LEMMA LedgerGiveUp ==
  ASSUME NEW R \in SUBSET ReqId, \A x \in ReqId \ R : Same(x), lost' = lost,
         \A x \in R : /\ Phase(x) = "active" /\ Phase(x)' = "ending"
                      /\ OnServer(x)' = OnServer(x)
  PROVE  Ledger!Next
<1>1. Ledger!GiveUp(R)
  BY DEF Same, Ledger!GiveUp
<1> QED BY <1>1 DEF Ledger!Next

\* One is over on the server.
LEMMA LedgerClose ==
  ASSUME NEW r \in ReqId, \A x \in ReqId \ {r} : Same(x), lost' = lost,
         Phase(r)' = Phase(r), OnServer(r) = "live", OnServer(r)' = "over"
  PROVE  Ledger!Next
<1>1. Ledger!Close(r)
  BY DEF Same, Ledger!Close
<1> QED BY <1>1 DEF Ledger!Next

\* One is forgotten.
LEMMA LedgerForget ==
  ASSUME NEW r \in ReqId, \A x \in ReqId \ {r} : Same(x), lost' = lost,
         Phase(r) \in {"active", "ending"}, Phase(r)' = "gone",
         OnServer(r) # "live", OnServer(r)' = OnServer(r)
  PROVE  Ledger!Next
<1>1. Ledger!Forget(r)
  BY DEF Same, Ledger!Forget
<1> QED BY <1>1 DEF Ledger!Next

\* One is abandoned.
LEMMA LedgerAbandon ==
  ASSUME NEW r \in ReqId, \A x \in ReqId \ {r} : Same(x), lost' = lost \cup {r},
         Phase(r) # "free", Phase(r)' = "gone", OnServer(r)' = OnServer(r)
  PROVE  Ledger!Next
<1>1. Phase(r) \in {"active", "ending", "gone"}
  BY DEF Phase
<1>2. Ledger!Abandon(r)
  BY <1>1 DEF Same, Ledger!Abandon
<1> QED BY <1>2 DEF Ledger!Next
-----------------------------------------------------------------------------
(* The views, before and after a step *)

\* A request's phase, by the sets of rows.
LEMMA PhaseIs ==
  ASSUME NEW x \in ReqId
  PROVE  /\ Phase(x) = IF x \notin used THEN "free"
                       ELSE IF x \notin DOMAIN table THEN "gone"
                       ELSE IF x \in Unmarked(table) THEN "active" ELSE "ending"
         /\ Phase(x)' = IF x \notin used' THEN "free"
                        ELSE IF x \notin DOMAIN table' THEN "gone"
                        ELSE IF x \in Unmarked(table') THEN "active" ELSE "ending"
BY DEF Phase, Unmarked

\* Its session, by the server's status.
LEMMA OnServerIs ==
  ASSUME NEW x \in ReqId
  PROVE  /\ OnServer(x) = IF server[x] = "None" THEN "none"
                          ELSE IF server[x] \in Live THEN "live" ELSE "over"
         /\ OnServer(x)' = IF server'[x] = "None" THEN "none"
                           ELSE IF server'[x] \in Live THEN "live" ELSE "over"
BY DEF OnServer

\* Steps that keep the ids of rows, their marks and the kind of every
\* session are none of the ledger's.
LEMMA NoLedgerStep ==
  ASSUME DOMAIN table' = DOMAIN table, Unmarked(table') = Unmarked(table),
         UNCHANGED <<used, server, lost>>
  PROVE  UNCHANGED Ledger!ledgerVars
<1>1. \A x \in ReqId : Same(x)
  BY PhaseIs, OnServerIs DEF Same
<1> QED BY <1>1, LedgerStutter

\* A row is deleted whose session is not live.
LEMMA ForgetStep ==
  ASSUME TypeOK, Bookkeeping, NEW r \in ReqId, table' = Delete(table, r),
         server[r] \notin Live, UNCHANGED <<used, server, lost>>
  PROVE  Ledger!Next \/ UNCHANGED Ledger!ledgerVars
<1>1. /\ DOMAIN table' = DOMAIN table \ {r}
      /\ Unmarked(table') = Unmarked(table) \ {r}
  BY DeleteRows DEF TypeOK
<1>2. DOMAIN table \subseteq used /\ Unmarked(table) \subseteq DOMAIN table
  BY DEF Bookkeeping, UsedFirst, Unmarked
<1>3. CASE r \notin DOMAIN table
  <2>1. DOMAIN table' = DOMAIN table /\ Unmarked(table') = Unmarked(table)
    BY <1>1, <1>2, <1>3
  <2> QED BY <2>1, NoLedgerStep
<1>4. CASE r \in DOMAIN table
  <2>1. \A x \in ReqId \ {r} : Same(x)
    BY <1>1, PhaseIs, OnServerIs DEF Same
  <2>2. Phase(r) \in {"active", "ending"} /\ Phase(r)' = "gone"
    BY <1>1, <1>2, <1>4, PhaseIs
  <2>3. OnServer(r) # "live" /\ OnServer(r)' = OnServer(r)
    BY OnServerIs
  <2> QED BY <2>1, <2>2, <2>3, LedgerForget
<1> QED BY <1>3, <1>4

\* A row is deleted and the request is noted as lost.
LEMMA AbandonStep ==
  ASSUME TypeOK, Bookkeeping, NEW r \in ReqId, table' = Delete(table, r),
         r \in used, lost' = lost \cup {r}, UNCHANGED <<used, server>>
  PROVE  Ledger!Next
<1>1. /\ DOMAIN table' = DOMAIN table \ {r}
      /\ Unmarked(table') = Unmarked(table) \ {r}
  BY DeleteRows DEF TypeOK
<1>2. \A x \in ReqId \ {r} : Same(x)
  BY <1>1, PhaseIs, OnServerIs DEF Same
<1>3. Phase(r) # "free" /\ Phase(r)' = "gone" /\ OnServer(r)' = OnServer(r)
  BY <1>1, PhaseIs, OnServerIs
<1> QED BY <1>2, <1>3, LedgerAbandon

\* Rows lose their place among the unmarked ones.
LEMMA GiveUpStep ==
  ASSUME TypeOK, Bookkeeping, NEW R \in SUBSET Unmarked(table),
         DOMAIN table' = DOMAIN table, Unmarked(table') = Unmarked(table) \ R,
         UNCHANGED <<used, server, lost>>
  PROVE  Ledger!Next
<1>1. DOMAIN table \subseteq used /\ Unmarked(table) \subseteq DOMAIN table
      /\ DOMAIN table \subseteq ReqId
  BY TableElim DEF TypeOK, Bookkeeping, UsedFirst, Unmarked
<1>2. R \in SUBSET ReqId
  BY <1>1
<1>3. \A x \in ReqId \ R : Same(x)
  BY PhaseIs, OnServerIs DEF Same
<1>4. ASSUME NEW x \in R
      PROVE  /\ Phase(x) = "active" /\ Phase(x)' = "ending"
             /\ OnServer(x)' = OnServer(x)
  <2>1. x \in ReqId /\ x \in used /\ x \in DOMAIN table
    BY <1>1
  <2> QED BY <2>1, PhaseIs, OnServerIs
<1> QED BY <1>2, <1>3, <1>4, LedgerGiveUp

\* A session changes on the server, or none does.
LEMMA ServerStep ==
  ASSUME NEW r \in ReqId, server[r] \in Live, server'[r] # "None",
         \A x \in ReqId \ {r} : server'[x] = server[x],
         UNCHANGED <<used, table, lost>>
  PROVE  Ledger!Next \/ UNCHANGED Ledger!ledgerVars
<1>1. \A x \in ReqId \ {r} : Same(x)
  BY PhaseIs, OnServerIs DEF Same
<1>2. Phase(r)' = Phase(r) /\ OnServer(r) = "live"
  BY PhaseIs, OnServerIs DEF Live
<1>3. CASE server'[r] \in Live
  <2>1. \A x \in ReqId : Same(x)
    BY <1>1, <1>2, <1>3, OnServerIs DEF Same
  <2> QED BY <2>1, LedgerStutter
<1>4. CASE server'[r] \notin Live
  <2>1. OnServer(r)' = "over"
    BY <1>4, OnServerIs
  <2> QED BY <1>1, <1>2, <2>1, LedgerClose
<1> QED BY <1>3, <1>4
-----------------------------------------------------------------------------
(* The steps of the system *)

\* end_session gives one row up.
LEMMA EndRowLedger ==
  ASSUME TypeOK, Bookkeeping, NEW r \in Unmarked(table), EndRow(r),
         UNCHANGED <<used, server, lost>>
  PROVE  Ledger!Next
<1>1. /\ DOMAIN table' = DOMAIN table
      /\ Unmarked(table') = Unmarked(table) \ {r}
  BY EndSessionRows DEF TypeOK, EndRow
<1> QED BY <1>1, GiveUpStep

\* A disconnect gives up one row, or none.
LEMMA OnDisconnectLedger ==
  ASSUME TypeOK, Bookkeeping, OnDisconnectInner, UNCHANGED <<used, server, lost>>
  PROVE  Ledger!Next \/ UNCHANGED Ledger!ledgerVars
<1>1. CASE Unmarked(table) # {}
  BY <1>1, EndRowLedger DEF OnDisconnectInner, EndSomeRow
<1>2. CASE Unmarked(table) = {}
  BY <1>2, NoLedgerStep DEF OnDisconnectInner, EndSomeRow
<1> QED BY <1>1, <1>2

\* Connect opens a request.
LEMMA OnConnectLedger ==
  ASSUME TypeOK, Bookkeeping, NEW r \in ReqId, NEW l \in Location, OnConnect(r, l)
  PROVE  Ledger!Next
<1>0. /\ r \notin used /\ r \notin DOMAIN table /\ used' = used \cup {r}
      /\ UNCHANGED <<server, lost>>
  BY DEF Bookkeeping, UsedFirst, OnConnect
<1>1. /\ DOMAIN table' = DOMAIN table \cup {r}
      /\ Unmarked(table') = Unmarked(table) \cup {r}
  BY <1>0, NewSessionRows DEF TypeOK, OnConnect
<1>2. \A x \in ReqId \ {r} : Same(x)
  BY <1>0, <1>1, PhaseIs, OnServerIs DEF Same
<1>3. Phase(r) = "free" /\ Phase(r)' = "active" /\ OnServer(r)' = OnServer(r)
  BY <1>0, <1>1, PhaseIs, OnServerIs
<1> QED BY <1>0, <1>2, <1>3, LedgerOpen

\* Its error forgets or abandons the request.
LEMMA OnConnectFailedLedger ==
  ASSUME TypeOK, Bookkeeping, OnConnectFailed
  PROVE  Ledger!Next \/ UNCHANGED Ledger!ledgerVars
<1>0. /\ newCall.req \in ReqId /\ newCall.req \in used
      /\ table' = Delete(table, newCall.req)
      /\ newCall.ph = "calling" => server[newCall.req] = "None"
      /\ UNCHANGED <<used, server>>
  <2>1. newCall.req \in Unmarked(table)
    BY DEF Bookkeeping, CallHasRow, OnConnectFailed
  <2>2. newCall.req \in DOMAIN table /\ DOMAIN table \subseteq used
    BY <2>1 DEF Bookkeeping, UsedFirst, Unmarked
  <2> QED BY <2>2, TableElim
          DEF TypeOK, Bookkeeping, CallHasRow, OnConnectFailed
<1>1. CASE newCall.ph = "calling" /\ lost' = lost
  BY <1>0, <1>1, ForgetStep DEF Live
<1>2. CASE lost' = lost \cup {newCall.req}
  BY <1>0, <1>2, AbandonStep
<1> QED BY <1>1, <1>2 DEF OnConnectFailed

\* A status forgets the request, or none.
LEMMA HandleStatusLedger ==
  ASSUME TypeOK, Bookkeeping, HandleVpnSessionStatus
  PROVE  Ledger!Next \/ UNCHANGED Ledger!ledgerVars
<1> DEFINE r == Head(events).req
           s == Head(events).st
<1>0. /\ r \in ReqId /\ table' = UpdatedServerStatus(table, r, s)
      /\ UNCHANGED <<used, server, lost>>
  BY HeadEvent DEF HandleVpnSessionStatus, svc
<1>1. CASE r \in Unmarked(table) /\ s \in Over
  <2>1. table' = Delete(table, r)
    BY <1>0, <1>1 DEF UpdatedServerStatus, Over
  <2>2. server[r] \in Over
    BY <1>0, <1>1, EventsTrueTail, ServiceAssumption
    DEF TypeOK, Bookkeeping, HandleVpnSessionStatus
  <2>3. server[r] \notin Live
    BY <2>2 DEF Over, Live
  <2> QED BY <1>0, <2>1, <2>3, ForgetStep
<1>2. CASE r \in Unmarked(table) /\ s \notin Over
  <2>1. table' = StoreServerStatus(table, r, s)
    BY <1>0, <1>2 DEF UpdatedServerStatus, Over
  <2>2. DOMAIN table' = DOMAIN table /\ Unmarked(table') = Unmarked(table)
    BY <2>1, StoreServerStatusRows DEF TypeOK
  <2> QED BY <1>0, <2>2, NoLedgerStep
<1>3. CASE r \notin Unmarked(table)
  BY <1>0, <1>3, NoLedgerStep DEF UpdatedServerStatus
<1> QED BY <1>1, <1>2, <1>3
\* A tunnel transition gives a row up on Error, and is none otherwise.
LEMMA TransitionLedger ==
  ASSUME TypeOK, Bookkeeping, NEW r \in ReqId, TransitionWithSession(r)
  PROVE  Ledger!Next \/ UNCHANGED Ledger!ledgerVars
<1>0. r \in Unmarked(table) /\ UNCHANGED <<used, server, lost>>
  BY DEF TransitionWithSession
<1>1. CASE Head(events).st = "Error"
  BY <1>0, <1>1, EndRowLedger DEF TransitionWithSession
<1>2. CASE Head(events).st # "Error"
  <2>1. table' = table \/ table' = StoreServerStatus(table, r, "ClientConnected")
    BY <1>2 DEF TransitionWithSession
  <2>2. DOMAIN table' = DOMAIN table /\ Unmarked(table') = Unmarked(table)
    BY <2>1, StoreServerStatusRows DEF TypeOK
  <2> QED BY <1>0, <2>2, NoLedgerStep
<1> QED BY <1>1, <1>2

\* The answer Accepted is none: the ledger has seen the server's step.
LEMMA OnConnectAcceptedLedger ==
  ASSUME TypeOK, OnConnectAccepted
  PROVE  UNCHANGED Ledger!ledgerVars
<1>1. DOMAIN table' = DOMAIN table /\ Unmarked(table') = Unmarked(table)
  BY UpdateOnAcceptedRows DEF TypeOK, OnConnectAccepted
<1> QED BY <1>1, NoLedgerStep DEF OnConnectAccepted

\* The start of the daemon gives up every row at once.
LEMMA RestartLedger ==
  ASSUME TypeOK, Bookkeeping, Restart
  PROVE  Ledger!Next
<1>1. DOMAIN table' = DOMAIN table /\ Unmarked(table') = {}
  BY ReclaimRows DEF TypeOK, Restart
<1>2. Unmarked(table') = Unmarked(table) \ Unmarked(table)
  BY <1>1
<1>3. Unmarked(table) \in SUBSET Unmarked(table)
  OBVIOUS
<1> QED BY <1>1, <1>2, <1>3, GiveUpStep DEF Restart

\* The steps of the daemon.
LEMMA DaemonLedger ==
  ASSUME TypeOK, Bookkeeping, DaemonNext
  PROVE  Ledger!Next \/ UNCHANGED Ledger!ledgerVars
<1>1. CASE TransitionWithoutSession \/ TunnelJoined
           \/ \E n \in notes : OnAckNotification(n)
  BY <1>1, NoLedgerStep
  DEF TransitionWithoutSession, TunnelJoined, OnAckNotification, svc
<1>2. CASE Exit \/ Crash
  BY <1>2, NoLedgerStep DEF Exit, Crash, Die
<1>3. CASE OnDisconnect \/ OnShutdown
  BY <1>3, OnDisconnectLedger DEF OnDisconnect, OnShutdown
<1> QED
  BY <1>1, <1>2, <1>3, OnConnectLedger, OnConnectAcceptedLedger,
     OnConnectFailedLedger, HandleStatusLedger, TransitionLedger, RestartLedger
  DEF DaemonNext, HandleTunnelStateTransition

\* The server accepts the awaited request.
LEMMA NewSessionAppliedLedger ==
  ASSUME TypeOK, Bookkeeping, NewSessionApplied, UNCHANGED <<daemonVars, tunnel>>
  PROVE  Ledger!Next
<1>p. newCall.req \in ReqId
  BY DEF TypeOK, NewSessionApplied, NewCall, Idle
<1> PICK r \in ReqId : r = newCall.req
  BY <1>p
<1>0. /\ r \in ReqId /\ r \in Unmarked(table) /\ r \in DOMAIN table
      /\ server[r] = "None" /\ server' = [server EXCEPT ![r] = "Accepted"]
      /\ UNCHANGED <<used, table, lost>>
  BY TableElim
  DEF TypeOK, Bookkeeping, CallHasRow, NewSessionApplied, Unmarked, daemonVars
<1>1. server'[r] = "Accepted" /\ \A x \in ReqId \ {r} : server'[x] = server[x]
  BY <1>0 DEF TypeOK
<1>2. \A x \in ReqId \ {r} : Same(x)
  BY <1>0, <1>1, PhaseIs, OnServerIs DEF Same
<1>3. r \in used
  BY <1>0 DEF Bookkeeping, UsedFirst
<1>4. Phase(r) = "active" /\ Phase(r)' = Phase(r)
  BY <1>0, <1>3, PhaseIs
<1>5. OnServer(r) = "none" /\ OnServer(r)' = "live"
  BY <1>0, <1>1, OnServerIs DEF Live
<1> QED BY <1>0, <1>2, <1>4, <1>5, LedgerAccept

\* The steps of the server: provisioning is none, the end of a session one.
LEMMA ServerLedger ==
  ASSUME TypeOK, Bookkeeping, NEW r \in ReqId,
         ClientConnected(r) \/ ServerProgress(r) \/ ServerFailure(r),
         UNCHANGED <<daemonVars, tunnel>>
  PROVE  Ledger!Next \/ UNCHANGED Ledger!ledgerVars
<1>0. UNCHANGED <<used, table, lost>>
  BY DEF ClientConnected, ServerProgress, ServerFailure, daemonVars
<1>1. CASE UNCHANGED server
  BY <1>0, <1>1, NoLedgerStep
<1>2. CASE server' # server
  <2>1. /\ server[r] \in Live /\ server'[r] # "None"
        /\ \A x \in ReqId \ {r} : server'[x] = server[x]
    <3>1. CASE ClientConnected(r)
      <4>1. server' = [server EXCEPT ![r] =
                         IF @ = "ServerReady" THEN "ClientConnected" ELSE @]
        BY <1>2, <3>1 DEF ClientConnected
      <4>2. server[r] = "ServerReady"
        BY <1>2, <4>1 DEF TypeOK
      <4> QED BY <4>1, <4>2 DEF TypeOK, Live
    <3>2. CASE ServerProgress(r)
      <4>1. PICK s \in Stages \cup {"ServerReady"} :
              server[r] \in Before(s) /\ server' = [server EXCEPT ![r] = s]
        BY <3>2 DEF ServerProgress
      <4>2. server[r] \in Live
        BY <4>1, ServiceAssumption DEF Before, Live
      <4>3. s # "None"
        BY ServiceAssumption
      <4> QED BY <4>1, <4>2, <4>3 DEF TypeOK
    <3>3. CASE ServerFailure(r)
      BY <3>3 DEF TypeOK, ServerFailure
    <3> QED BY <3>1, <3>2, <3>3
  <2> QED BY <1>0, <2>1, ServerStep
<1> QED BY <1>1, <1>2

\* The steps that end a session close, forget or abandon it.
LEMMA EndStepLedger ==
  ASSUME TypeOK, Bookkeeping, NEW c \in Caller, NEW r \in ReqId,
         EndStep(c, r), UNCHANGED <<daemonVars, tunnel>>
  PROVE  Ledger!Next \/ UNCHANGED Ledger!ledgerVars
<1>0. UNCHANGED used
  BY DEF daemonVars
<1>1. CASE EndApplied(c, r)
  <2>0. /\ UNCHANGED <<table, lost>>
        /\ server' = [server EXCEPT ![r] = IF @ \in Live THEN "Ended" ELSE @]
    BY <1>1 DEF EndApplied
  <2>1. CASE server[r] \in Live
    <3>1. server'[r] # "None" /\ \A x \in ReqId \ {r} : server'[x] = server[x]
      BY <2>0, <2>1 DEF TypeOK
    <3> QED BY <1>0, <2>0, <2>1, <3>1, ServerStep
  <2>2. CASE server[r] \notin Live
    <3>1. server' = server
      BY <2>0, <2>2 DEF TypeOK
    <3> QED BY <1>0, <2>0, <3>1, NoLedgerStep
  <2> QED BY <2>1, <2>2
<1>2. CASE EndReturned(c, r)
  <2>1. server[r] \notin Live
    BY <1>2 DEF EndReturned, Bookkeeping, EndedOnServer
  <2> QED BY <1>0, <1>2, <2>1, ForgetStep DEF EndReturned
<1>3. CASE EndServiceDown(c, r) \/ EndConnectionError(c, r)
  BY <1>0, <1>3, NoLedgerStep DEF EndServiceDown, EndConnectionError
<1>4. CASE EndServerError(c, r)
  <2>1. endCall[c][r] # "none" /\ UNCHANGED server
    BY <1>4 DEF EndServerError, TakeEnd
  <2>2. r \in used
    BY <2>1 DEF Bookkeeping, UsedFirst
  <2>3. \/ UNCHANGED <<table, lost>>
        \/ table' = Delete(table, r) /\ lost' = lost \cup {r}
    BY <1>4 DEF EndServerError, ServerErrorHandled
  <2> QED BY <1>0, <2>1, <2>2, <2>3, AbandonStep, NoLedgerStep
<1> QED BY <1>1, <1>2, <1>3, <1>4 DEF EndStep

\* The steps of the service, the reclaimer and the server.
LEMMA ServiceLedger ==
  ASSUME TypeOK, Bookkeeping, ServiceNext
  PROVE  Ledger!Next \/ UNCHANGED Ledger!ledgerVars
<1>0. UNCHANGED <<daemonVars, tunnel>> /\ UNCHANGED used
  BY DEF ServiceNext, daemonVars
<1>1. ASSUME NEW r \in ReqId,
             \/ WatchPoll(r) \/ WatchDeliver(r) \/ WatchStopped(r)
             \/ ClientConnectedServiceDown(r)
      PROVE  UNCHANGED Ledger!ledgerVars
  <2>1. UNCHANGED <<table, server, lost>>
    BY <1>1 DEF WatchPoll, WatchDeliver, WatchStopped, ClientConnectedServiceDown
  <2> QED BY <1>0, <2>1, NoLedgerStep
<1>2. CASE ReclaimTick
  <2>1. UNCHANGED <<table, server, lost>>
    BY <1>2 DEF ReclaimTick
  <2> QED BY <1>0, <2>1, NoLedgerStep
<1>3. ASSUME NEW r \in ReqId, ServiceStep(r)
      PROVE  Ledger!Next \/ UNCHANGED Ledger!ledgerVars
  BY <1>0, <1>1, <1>3, ServerLedger DEF ServiceStep
<1> QED BY <1>0, <1>2, <1>3, NewSessionAppliedLedger, EndStepLedger
        DEF ServiceNext, ReclaimRound

\* The steps of the tunnel are none.
LEMMA TunnelLedger ==
  ASSUME TunnelSteps
  PROVE  UNCHANGED Ledger!ledgerVars
BY NoLedgerStep
DEF TunnelSteps, TunnelFrame, TunnelNext, TunnelCommand, TunnelConnect,
    TunnelDisconnect, TunnelConnected, TunnelClosed, TunnelFault, daemonVars, svc

\* The initial states map to the ledger's.
LEMMA InitLedger == Init => Ledger!Init
BY PhaseIs, OnServerIs DEF Init, Ledger!Init
-----------------------------------------------------------------------------
\* The composed daemon implements the ledger: requests are opened once, given
\* up once, never revived, and no live session is forgotten in silence.
THEOREM DaemonImplementsLedger == Spec => ImplementsLedger
<1>1. Init => Ledger!Init
  BY InitLedger
<1>2. TypeOK /\ Bookkeeping /\ [Next]_vars => [Ledger!Next]_(Ledger!ledgerVars)
  <2> SUFFICES ASSUME TypeOK, Bookkeeping, [Next]_vars
               PROVE  Ledger!Next \/ UNCHANGED Ledger!ledgerVars
    OBVIOUS
  <2>1. CASE UNCHANGED vars
    BY <2>1, NoLedgerStep DEF vars
  <2> QED BY <2>1, DaemonLedger, ServiceLedger, TunnelLedger DEF Next
<1> QED BY <1>1, <1>2, TypeCorrect, BookkeepingHolds, PTL
        DEF Spec, ImplementsLedger, Ledger!Spec
=============================================================================
