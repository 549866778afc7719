---------------------------- MODULE AndroidProofs ----------------------------
(***************************************************************************)
(* The Android app, for every number of requests and of faults: its types, *)
(* that no session is left untracked, that none in use is ended, and that  *)
(* the tunnel is what the orchestrator shows.                              *)
(***************************************************************************)
EXTENDS Android, SequenceTheorems, TLAPS

-----------------------------------------------------------------------------
\* What the steps used by several handlers do

\* Of the state of a coroutine, a watcher and an end call.
LEMMA TaskParts ==
  ASSUME TypeOK, NEW r \in ReqId
  PROVE  /\ co[r].ph \in {"none", "new", "insert", "call", "update", "respond", "launch",
                          "fail", "delete", "done"}
         /\ co[r].cancelled \in BOOLEAN /\ co[r] \in Coroutine
         /\ watch[r].ph \in {"on", "polled", "delete", "off"} /\ watch[r] \in Watcher
         /\ watch[r].s \in Live \cup Final \cup {"none"} /\ watch[r].cancelled \in BOOLEAN
BY DEF TypeOK, Coroutine, Watcher

\* A watcher as it is launched, or after a poll.
LEMMA WatchType ==
  ASSUME NEW ph \in {"on", "polled", "delete", "off"}, NEW s \in Live \cup Final \cup {"none"}
  PROVE  /\ Watch(ph, s) \in Watcher /\ Watch(ph, s).ph = ph /\ Watch(ph, s).s = s
BY DEF Watch, Watcher

\* Cancelling the children of the scope moves no coroutine on, and stops the
\* watchers that wait.
LEMMA CancelParts ==
  ASSUME TypeOK, CancelChildren
  PROVE  /\ co' \in [ReqId -> Coroutine] /\ watch' \in [ReqId -> Watcher]
         /\ \A r \in ReqId :
              /\ co'[r].ph = co[r].ph
              /\ co[r].cancelled => co'[r].cancelled
              /\ co[r].ph \in {"none", "new"} => co'[r] = co[r]
              /\ r \notin old /\ co[r].ph \notin {"none", "new", "done"} => co'[r].cancelled
              /\ \/ watch'[r].ph = "off"
                 \/ watch'[r].ph = watch[r].ph /\ watch'[r].s = watch[r].s
<1>1. ASSUME NEW r \in ReqId
      PROVE  /\ co'[r] \in Coroutine /\ watch'[r] \in Watcher
             /\ co'[r].ph = co[r].ph
             /\ co[r].cancelled => co'[r].cancelled
             /\ co[r].ph \in {"none", "new"} => co'[r] = co[r]
             /\ r \notin old /\ co[r].ph \notin {"none", "new", "done"} => co'[r].cancelled
             /\ \/ watch'[r].ph = "off"
                \/ watch'[r].ph = watch[r].ph /\ watch'[r].s = watch[r].s
  <2>1. /\ co'[r] \in Coroutine /\ co'[r].ph = co[r].ph
        /\ co[r].cancelled => co'[r].cancelled
        /\ co[r].ph \in {"none", "new"} => co'[r] = co[r]
        /\ r \notin old /\ co[r].ph \notin {"none", "new", "done"} => co'[r].cancelled
    BY TaskParts DEF CancelChildren, Coroutine
  <2>2. /\ watch'[r] \in Watcher
        /\ \/ watch'[r].ph = "off"
           \/ watch'[r].ph = watch[r].ph /\ watch'[r].s = watch[r].s
    <3>1. "off" \in {"on", "polled", "delete", "off"}
          /\ "none" \in Live \cup Final \cup {"none"}
      OBVIOUS
    <3>2. Watch("off", "none") \in Watcher /\ Watch("off", "none").ph = "off"
      BY <3>1, WatchType
    <3>3. /\ [watch[r] EXCEPT !.cancelled = TRUE] \in Watcher
          /\ [watch[r] EXCEPT !.cancelled = TRUE].ph = watch[r].ph
          /\ [watch[r] EXCEPT !.cancelled = TRUE].s = watch[r].s
      BY TaskParts DEF Watcher
    <3>4. \/ watch'[r] = watch[r] \/ watch'[r] = Watch("off", "none")
          \/ watch'[r] = [watch[r] EXCEPT !.cancelled = TRUE]
      BY DEF CancelChildren
    <3> QED
      BY <3>2, <3>3, <3>4, TaskParts
  <2> QED
    BY <2>1, <2>2
<1>2. /\ co' = [r \in ReqId |-> co'[r]] /\ watch' = [r \in ReqId |-> watch'[r]]
  BY DEF CancelChildren
<1> QED
  BY <1>1, <1>2

\* The end calls of a caller.
EndCall == [ph : {"none", "queued", "call", "applied"}, row : BOOLEAN]

\* Calling for the end of sessions queues a call for each that has none.
LEMMA EndParts ==
  ASSUME TypeOK, NEW c \in Caller, NEW rs, EndVpnSession(c, rs)
  PROVE  /\ end' \in [Caller -> [ReqId -> EndCall]]
         /\ \A d \in Caller, r \in ReqId :
              \/ end'[d][r] = end[d][r]
              \/ d = c /\ r \in rs /\ end[d][r] = NoEnd /\ end'[d][r].ph = "queued"
<1>1. end \in [Caller -> [ReqId -> EndCall]]
  BY DEF TypeOK, EndCall
<1>2. [NoEnd EXCEPT !.ph = "queued"] \in EndCall
      /\ [NoEnd EXCEPT !.ph = "queued"].ph = "queued"
  BY DEF NoEnd, EndCall
<1> DEFINE new == [r \in ReqId |-> IF r \in rs /\ end[c][r] = NoEnd
                                  THEN [NoEnd EXCEPT !.ph = "queued"] ELSE end[c][r]]
<1>3. end' = [end EXCEPT ![c] = new]
  BY DEF EndVpnSession
<1>4. new \in [ReqId -> EndCall]
  BY <1>1, <1>2
<1>5. \A d \in Caller : end'[d] = IF d = c THEN new ELSE end[d]
  BY <1>1, <1>3
<1>6. \A r \in ReqId : \/ new[r] = end[c][r]
                       \/ r \in rs /\ end[c][r] = NoEnd /\ new[r].ph = "queued"
  BY <1>2
<1> HIDE DEF new
<1> QED
  BY <1>1, <1>3, <1>4, <1>5, <1>6

\* A disconnect ends the session of the state, if any.
LEMMA TransitionParts ==
  /\ \A r \in ReqId : r = TransitionOnDisconnect(st).req => r = st.req
  /\ IsDisconnectingOrDisconnected(TransitionOnDisconnect(st).to)
  /\ TransitionOnDisconnect(st).to \in {st, State("Disconnecting", st.req), Disconnected}
<1>1. NoReq \notin ReqId
  BY AndroidAssumption
<1> QED
  BY <1>1 DEF TransitionOnDisconnect, Plan, IsDisconnectingOrDisconnected, State, Disconnected

\* onDisconnect: the children are cancelled and the session's end is called
\* for, unless there is none.
LEMMA DisconnectParts ==
  ASSUME TypeOK, OnDisconnectInner
  PROVE  /\ LockFree /\ st' = Disconnected
         /\ co' \in [ReqId -> Coroutine] /\ watch' \in [ReqId -> Watcher]
         /\ end' \in [Caller -> [ReqId -> EndCall]]
         /\ tun' \in {tun, NoReq}
         /\ \A r \in ReqId :
              /\ co'[r].ph = co[r].ph /\ (co[r].cancelled => co'[r].cancelled)
              /\ co[r].ph \in {"none", "new"} => co'[r] = co[r]
              /\ \/ watch'[r].ph = "off"
                 \/ watch'[r].ph = watch[r].ph /\ watch'[r].s = watch[r].s
         /\ \A d \in Caller, r \in ReqId :
              \/ end'[d][r] = end[d][r]
              \/ /\ r = st.req /\ end[d][r] = NoEnd /\ end'[d][r].ph = "queued"
                 /\ r \notin old /\ co[r].ph \notin {"none", "new", "done"} => co'[r].cancelled
         /\ st.k \in {"Connecting", "Connected"} => tun' = NoReq
<1>1. CASE st = Disconnected
  <2>1. UNCHANGED <<st, tun, co, watch, end>> /\ LockFree
    BY <1>1 DEF OnDisconnectInner
  <2>2. st.k \notin {"Connecting", "Connected"}
    BY <1>1 DEF Disconnected
  <2> QED
    BY <1>1, <2>1, <2>2 DEF TypeOK, EndCall
<1>2. CASE st # Disconnected
  <2> DEFINE q == TransitionOnDisconnect(st).req
  <2>1. /\ LockFree /\ CancelChildren /\ EndVpnSession("user", {q})
        /\ tun' = IF TransitionOnDisconnect(st).off THEN NoReq ELSE tun
        /\ st' = Disconnected
    BY <1>2 DEF OnDisconnectInner
  <2>2. /\ st.k \in {"Connecting", "Connected"} => tun' = NoReq
        /\ tun' \in {tun, NoReq}
    BY <2>1 DEF TransitionOnDisconnect, Plan
  <2>3. "user" \in Caller
    BY DEF Caller
  <2>4. \A r \in ReqId : r \in {q} => r = st.req
    BY TransitionParts
  <2> HIDE DEF q
  <2>5. /\ end' \in [Caller -> [ReqId -> EndCall]]
        /\ \A d \in Caller, r \in ReqId :
             \/ end'[d][r] = end[d][r]
             \/ r \in {q} /\ end[d][r] = NoEnd /\ end'[d][r].ph = "queued"
    BY <2>1, <2>3, EndParts
  <2> QED
    BY <2>1, <2>2, <2>4, <2>5, CancelParts
<1> QED
  BY <1>1, <1>2

\* A coroutine goes on; nothing cancelled is taken back but by its end.
LEMMA CoParts ==
  ASSUME TypeOK, NEW r \in ReqId, NEW from,
         NEW to \in {"new", "insert", "call", "update", "respond", "launch", "fail", "delete",
                     "done"},
         Co(r, from, to)
  PROVE  /\ co[r].ph = from /\ co' \in [ReqId -> Coroutine]
         /\ co'[r].ph = to /\ (to # "done" => co'[r].cancelled = co[r].cancelled)
         /\ \A q \in ReqId : q # r => co'[q] = co[q]
<1>1. [ph |-> to, cancelled |-> to # "done" /\ co[r].cancelled] \in Coroutine
  BY TaskParts DEF Coroutine
<1>2. co' = [co EXCEPT ![r] = [ph |-> to, cancelled |-> to # "done" /\ co[r].cancelled]]
      /\ co[r].ph = from
  BY DEF Co
<1>3. co \in [ReqId -> Coroutine]
  BY DEF TypeOK
<1>4. to # "done" => (to # "done" /\ co[r].cancelled) = co[r].cancelled
  BY TaskParts
<1> QED
  BY <1>1, <1>2, <1>3, <1>4

\* What the main thread is told.
LEMMA DeliverParts ==
  ASSUME TypeOK, NEW m \in Message, Deliver(m)
  PROVE  /\ LockFree /\ msgs' \in Seq(Message)
         /\ msgs' = msgs \/ msgs' = Append(msgs, m)
BY DEF TypeOK, Deliver

\* The message that is taken.
LEMMA TakesParts ==
  ASSUME TypeOK, NEW k, Takes(k)
  PROVE  /\ msgs # <<>> /\ msgs' = Tail(msgs) /\ msgs' \in Seq(Message)
         /\ Head(msgs) \in Message /\ Head(msgs).k = k /\ Head(msgs).r \in ReqId
         /\ k = "update" => Head(msgs).s \in Live \cup Final
         /\ turn.k = "idle"
         /\ 1 \in DOMAIN msgs /\ msgs[1] = Head(msgs)
<1>1. /\ msgs # <<>> /\ msgs' = Tail(msgs) /\ Head(msgs).k = k /\ turn.k = "idle"
  BY DEF Takes
<1>2. msgs' \in Seq(Message) /\ Head(msgs) \in Message
      /\ 1 \in DOMAIN msgs /\ msgs[1] = Head(msgs)
  BY <1>1 DEF TypeOK
<1>3. Head(msgs).r \in ReqId /\ (k = "update" => Head(msgs).s \in Live \cup Final)
  BY <1>1, <1>2 DEF Message
<1> QED
  BY <1>1, <1>2, <1>3

\* A state that shows something of a request.
LEMMA StateParts ==
  ASSUME NEW k \in Shown, NEW r \in ReqId
  PROVE  State(k, r) \in AppState /\ State(k, r).k = k /\ State(k, r).req = r
BY DEF State, AppState

\* What onRevoke finds it has to do.
LEMMA TransitionType ==
  ASSUME TypeOK
  PROVE  TransitionOnDisconnect(st) \in Disconnection /\ NoPlan \in Disconnection
<1>1. st \in AppState /\ Disconnected \in AppState /\ st.req \in ReqId \cup {NoReq}
  BY DEF TypeOK, AppState, Disconnected
<1>2. st.k \in {"Connecting", "Connected"} => st.req \in ReqId
  BY <1>1 DEF AppState, Disconnected
<1>3. "Disconnecting" \in Shown
  BY DEF Shown
<1>4. st.k \in {"Connecting", "Connected"} => State("Disconnecting", st.req) \in AppState
  BY <1>2, <1>3, StateParts
<1>5. \A to \in AppState, off \in BOOLEAN, r \in ReqId \cup {NoReq} :
        Plan(to, off, r) \in Disconnection
  BY DEF Plan, Disconnection
<1> QED
  BY <1>1, <1>4, <1>5 DEF TransitionOnDisconnect, NoPlan

\* How far the main thread is with its handler, and with what.
LEMMA TurnParts ==
  ASSUME TypeOK
  PROVE  /\ turn.k \in {"idle", "connect", "launch", "update", "read", "apply", "ready",
                        "connecting", "establish", "up"}
         /\ turn.k \in {"connect", "launch", "ready", "connecting", "establish", "up"} =>
              turn.r \in ReqId /\ turn.s = "none"
         /\ turn.k \in {"update", "read"} => turn.r \in ReqId /\ turn.s \in Live \cup Final
         /\ turn.k = "apply" => \/ turn.r = NoReq /\ turn.s = "Disconnected"
                                \/ turn.r \in ReqId /\ turn.s \in Live
         /\ turn = Msg(turn.k, turn.r, turn.s)
BY DEF TypeOK, Handler, Idle, Msg

\* What the main thread may be at.
LEMMA HandlerTypes ==
  /\ Idle \in Handler /\ Idle.k = "idle" /\ Idle.r = NoReq
  /\ Msg("apply", NoReq, "Disconnected") \in Handler
  /\ \A r \in ReqId :
       /\ \A k \in {"connect", "launch", "ready", "connecting", "establish", "up"} :
            Msg(k, r, "none") \in Handler
       /\ \A k \in {"update", "read"}, x \in Live \cup Final : Msg(k, r, x) \in Handler
       /\ \A x \in Live : Msg("apply", r, x) \in Handler
  /\ \A k, r, x : Msg(k, r, x).k = k /\ Msg(k, r, x).r = r /\ Msg(k, r, x).s = x
BY DEF Handler, Idle, Msg

\* The state that a status of the server leads to: that of the status, the state
\* there is, which shows the same, or none.
LEMMA UpdateParts ==
  ASSUME NEW s \in AppState, NEW m, m.s \in Live \cup Final, m.r \in ReqId, HasUpdate(s, m)
  PROVE  \/ NewStateFromUpdate(s, m) = Disconnected
         \/ /\ NewStateFromUpdate(s, m) = State(m.s, m.r)
            /\ s.k \in Before(m.s) /\ m.s \in Live
         \/ NewStateFromUpdate(s, m) = s /\ s.k = m.s /\ m.s \in Live /\ s.req \in ReqId
<1>1. CASE m.s = "Failed"
  BY <1>1 DEF NewStateFromUpdate
<1>2. CASE m.s # "Failed" /\ s.k \in Before(m.s)
  <2>1. m.s \in Live
    BY <1>2 DEF Before, Final
  <2> QED
    BY <1>2, <2>1 DEF NewStateFromUpdate
<1>3. CASE m.s # "Failed" /\ s.k \notin Before(m.s)
  <2>1. s.k = m.s /\ NewStateFromUpdate(s, m) = s
    BY <1>3 DEF HasUpdate, NewStateFromUpdate
  <2>2. Disconnected.k \notin Live \cup Final /\ "Ended" \notin Shown
    BY AndroidAssumption DEF Disconnected, Live, Final, Shown
  <2>3. m.s \in Live /\ s.req \in ReqId
    BY <1>3, <2>1, <2>2 DEF AppState, Final
  <2> QED
    BY <2>1, <2>3
<1> QED
  BY <1>1, <1>2, <1>3

\* A message m has the handler write the state new.
Chooses(m, new) ==
  /\ new = Disconnected \/ (new.k \in Live /\ new.req \in ReqId /\ new = State(new.k, new.req))
  /\ new = Disconnected \/ new.req = m.r \/ (new = st /\ st.k \in Live)
  /\ new.k = "ServerReady" => turn.k = "read" /\ turn.s = "ServerReady"
  /\ turn' = Msg("apply", new.req, new.k) /\ Mixed(m, new)

\* An answer is dropped, or chooses the state to write.
LEMMA ResponseCases ==
  ASSUME TypeOK, OnConnectResponse
  PROVE  \/ UNCHANGED <<turn, odd>>
         \/ ~IsDisconnectingOrDisconnected(st) /\ \E new : Chooses(Head(msgs), new)
<1>1. Takes("response") /\ Head(msgs).r \in ReqId
  BY TakesParts DEF OnConnectResponse
<1>2. CASE IsDisconnectingOrDisconnected(st)
  BY <1>2 DEF OnConnectResponse
<1>3. CASE ~IsDisconnectingOrDisconnected(st)
  <2> DEFINE m == Head(msgs)
             new == IF m.s = "Accepted" THEN State("Accepted", m.r) ELSE Disconnected
  <2>1. turn' = Msg("apply", new.req, new.k) /\ Mixed(m, new)
    BY <1>3 DEF OnConnectResponse, Apply
  <2>2. new = Disconnected \/ (new = State("Accepted", m.r) /\ "Accepted" \in Live)
    BY DEF Live
  <2>3. Disconnected.k # "ServerReady" /\ \A k, x : State(k, x).k = k /\ State(k, x).req = x
    BY DEF Disconnected, State
  <2> HIDE DEF new
  <2>4. Chooses(m, new)
    BY <1>1, <2>1, <2>2, <2>3 DEF Chooses
  <2> QED
    BY <1>3, <2>4
<1> QED
  BY <1>2, <1>3

\* A status changes nothing, or chooses the state to write.
LEMMA ReadCases ==
  ASSUME TypeOK, UpdateReads
  PROVE  \/ turn' = Idle /\ UNCHANGED odd
         \/ HasUpdate(st, turn) /\ \E new : Chooses(turn, new) /\ new = NewStateFromUpdate(st, turn)
<1>1. turn.r \in ReqId /\ turn.s \in Live \cup Final /\ turn.k = "read"
  BY TurnParts DEF UpdateReads
<1>2. CASE ~HasUpdate(st, turn)
  BY <1>2 DEF UpdateReads
<1>3. CASE HasUpdate(st, turn)
  <2> DEFINE new == NewStateFromUpdate(st, turn)
  <2>1. turn' = Msg("apply", new.req, new.k) /\ Mixed(turn, new)
    BY <1>3 DEF UpdateReads, Apply
  <2>2. st \in AppState
    BY DEF TypeOK, AppState
  <2>3. \/ new = Disconnected
        \/ new = State(turn.s, turn.r) /\ turn.s \in Live
        \/ new = st /\ st.k = turn.s /\ turn.s \in Live /\ st.req \in ReqId
    BY <1>1, <1>3, <2>2, UpdateParts
  <2>4. /\ Disconnected.k # "ServerReady" /\ \A k, x : State(k, x).k = k /\ State(k, x).req = x
        /\ st = State(st.k, st.req)
    BY <2>2 DEF Disconnected, State, AppState
  <2> HIDE DEF new
  <2>5. Chooses(turn, new)
    BY <1>1, <2>1, <2>3, <2>4 DEF Chooses
  <2> QED
    BY <1>3, <2>5 DEF new
<1> QED
  BY <1>2, <1>3

\* The steps of a handler between its checks, reads and writes.
Writes ==
  \/ ConnectRequests \/ OnConnectResponse \/ OnVpnSessionUpdate \/ Permitted \/ UpdateReads
  \/ Applies \/ Connects \/ TurnOn \/ TurnedOn

\* They concern the state, the messages, the tunnel and the handler.
LEMMA WritesFrame ==
  ASSUME Writes
  PROVE  UNCHANGED <<revoke, plan, perm, rows, marked, co, watch, end, recl, old, server,
                     flying, faults, lost>>
BY DEF Writes, ConnectRequests, OnConnectResponse, OnVpnSessionUpdate, Permitted, UpdateReads,
       Applies, Connects, TurnOn, TurnedOn, dbVars, taskVars, serverVars, histVars

\* Each of them.
LEMMA WriteParts ==
  ASSUME TypeOK
  PROVE  /\ ConnectRequests =>
              /\ turn.k = "connect" /\ turn.r \in ReqId /\ turn' = Msg("launch", turn.r, "none")
              /\ st' = State("Requesting", turn.r) /\ UNCHANGED <<msgs, tun, odd>>
         /\ OnConnectResponse => Takes("response") /\ UNCHANGED <<st, tun>>
         /\ OnVpnSessionUpdate =>
              /\ Takes("update") /\ UNCHANGED <<st, tun, odd>>
              /\ turn' = turn \/ (~IsDisconnectingOrDisconnected(st) /\ turn' = Head(msgs))
         /\ Permitted =>
              /\ \/ turn.k = "update" /\ turn' = Msg("read", turn.r, turn.s)
                 \/ turn.k = "ready" /\ turn' = Msg("connecting", turn.r, "none")
              /\ turn.r \in ReqId /\ UNCHANGED <<st, msgs, tun, odd>>
         /\ UpdateReads => turn.k = "read" /\ turn.r \in ReqId /\ UNCHANGED <<st, msgs, tun>>
         /\ Applies =>
              /\ turn.k = "apply" /\ st' = State(turn.s, turn.r)
              /\ turn.s = "ServerReady" => turn' = Msg("ready", turn.r, "none")
              /\ turn.s # "ServerReady" => turn' = Idle
              /\ UNCHANGED <<msgs, tun, odd>>
         /\ Connects =>
              /\ turn.k = "connecting" /\ turn.r \in ReqId
              /\ turn' = Msg("establish", turn.r, "none")
              /\ st' = State("Connecting", turn.r) /\ UNCHANGED <<msgs, tun, odd>>
         /\ TurnOn =>
              /\ turn.k = "establish" /\ turn.r \in ReqId /\ turn' = Msg("up", turn.r, "none")
              /\ tun' = turn.r /\ UNCHANGED <<st, msgs, odd>>
         /\ TurnedOn =>
              /\ turn.k = "up" /\ turn.r \in ReqId /\ turn' = Idle
              /\ st' = State("Connected", turn.r) /\ UNCHANGED <<msgs, tun, odd>>
<1> USE DEF dbVars, serverVars, histVars, taskVars
<1>1. \A k : [turn EXCEPT !.k = k] = Msg(k, turn.r, turn.s)
  <2>1. turn = Msg(turn.k, turn.r, turn.s)
    BY TurnParts
  <2> QED
    BY <2>1 DEF Msg
<1>2. /\ turn.k \in {"connect", "launch", "ready", "connecting", "establish", "up"} =>
           turn.r \in ReqId /\ turn.s = "none"
      /\ turn.k \in {"update", "read"} => turn.r \in ReqId
  BY TurnParts
<1>3. ConnectRequests =>
        /\ turn.k = "connect" /\ turn.r \in ReqId /\ turn' = Msg("launch", turn.r, "none")
        /\ st' = State("Requesting", turn.r) /\ UNCHANGED <<msgs, tun, odd>>
  BY <1>1, <1>2 DEF ConnectRequests
<1>4. Permitted =>
        /\ \/ turn.k = "update" /\ turn' = Msg("read", turn.r, turn.s)
           \/ turn.k = "ready" /\ turn' = Msg("connecting", turn.r, "none")
        /\ turn.r \in ReqId /\ UNCHANGED <<st, msgs, tun, odd>>
  BY <1>1, <1>2 DEF Permitted
<1>5. Connects =>
        /\ turn.k = "connecting" /\ turn.r \in ReqId
        /\ turn' = Msg("establish", turn.r, "none")
        /\ st' = State("Connecting", turn.r) /\ UNCHANGED <<msgs, tun, odd>>
  BY <1>1, <1>2 DEF Connects
<1>6. TurnOn =>
        /\ turn.k = "establish" /\ turn.r \in ReqId /\ turn' = Msg("up", turn.r, "none")
        /\ tun' = turn.r /\ UNCHANGED <<st, msgs, odd>>
  BY <1>1, <1>2 DEF TurnOn
<1>7. TurnedOn =>
        /\ turn.k = "up" /\ turn.r \in ReqId /\ turn' = Idle
        /\ st' = State("Connected", turn.r) /\ UNCHANGED <<msgs, tun, odd>>
  BY <1>2 DEF TurnedOn
<1>8. /\ OnConnectResponse => Takes("response") /\ UNCHANGED <<st, tun>>
      /\ OnVpnSessionUpdate =>
           /\ Takes("update") /\ UNCHANGED <<st, tun, odd>>
           /\ turn' = turn \/ (~IsDisconnectingOrDisconnected(st) /\ turn' = Head(msgs))
      /\ UpdateReads => turn.k = "read" /\ turn.r \in ReqId /\ UNCHANGED <<st, msgs, tun>>
  BY <1>2 DEF OnConnectResponse, OnVpnSessionUpdate, UpdateReads
<1>9. Applies =>
        /\ turn.k = "apply" /\ st' = State(turn.s, turn.r)
        /\ turn.s = "ServerReady" => turn' = Msg("ready", turn.r, "none")
        /\ turn.s # "ServerReady" => turn' = Idle
        /\ UNCHANGED <<msgs, tun, odd>>
  BY DEF Applies
<1> QED
  BY <1>3, <1>4, <1>5, <1>6, <1>7, <1>8, <1>9

-----------------------------------------------------------------------------
\* Requests, watchers and the sessions on the server

\* How far the coroutine of a request is says what the server has seen of it.
Requests ==
  \A r \in ReqId :
    /\ co[r].ph \in {"none", "new", "insert"} => server[r] = "none" /\ r \notin flying
    /\ co[r].ph \in {"update", "respond", "launch"} => server[r] # "none"
    /\ co[r].ph \in {"fail", "delete"} =>
         r \in lost \/ (server[r] = "none" /\ r \notin flying)
    /\ r \in flying => server[r] = "none" /\ r \in rows \cup lost

\* A watcher is of a session that was requested, and deletes one that is over.
Watches ==
  \A r \in ReqId :
    /\ watch[r].ph # "off" => server[r] # "none" /\ co[r].ph = "done"
    /\ watch[r].ph = "polled" =>
         watch[r].s # "none" /\ (watch[r].s \in Final => server[r] \in Final)
    /\ watch[r].ph = "delete" => server[r] \in Final

\* An end call that was applied has ended the session.
Applied ==
  \A c \in Caller, r \in ReqId : end[c][r].ph = "applied" => server[r] \in Final

\* Every step keeps the types.
LEMMA TypeStep ==
  ASSUME TypeOK, Watches, [Next]_vars
  PROVE  TypeOK'
<1>0. /\ st \in AppState /\ Disconnected \in AppState /\ MaxFaults \in Nat
      /\ end \in [Caller -> [ReqId -> EndCall]]
  BY AndroidAssumption DEF TypeOK, AppState, EndCall
<1>00. \A k : Fault(k) => faults' \in 0..MaxFaults
  BY <1>0 DEF Fault, TypeOK
<1> USE DEF dbVars, serverVars, histVars, taskVars, uiVars
<1>1. CASE OnDisconnect
  BY <1>0, <1>1, DisconnectParts DEF OnDisconnect, TypeOK, EndCall
<1>2. CASE Writes
  <2>0. UNCHANGED <<revoke, plan, perm, rows, marked, co, watch, end, recl, old, server,
                    flying, faults, lost>>
    BY <1>2, WritesFrame
  <2>1. /\ "Connecting" \in Shown /\ "Connected" \in Shown /\ "Requesting" \in Shown
        /\ Live \subseteq Shown /\ State("Disconnected", NoReq) = Disconnected
    BY DEF Shown, State, Disconnected
  <2>2. \A m, new : Chooses(m, new) =>
          turn' \in Handler /\ odd' \subseteq {"mixed", "raced", "swept"}
    <3>1. ASSUME NEW m, NEW new, Chooses(m, new) PROVE turn' \in Handler
      <4>1. new = Disconnected \/ (new.k \in Live /\ new.req \in ReqId)
        BY <3>1 DEF Chooses
      <4>2. Disconnected.k = "Disconnected" /\ Disconnected.req = NoReq
        BY DEF Disconnected
      <4>3. turn' = Msg("apply", new.req, new.k)
        BY <3>1 DEF Chooses
      <4> QED
        BY <4>1, <4>2, <4>3, HandlerTypes
    <3>2. ASSUME NEW m, NEW new, Chooses(m, new)
          PROVE  odd' \subseteq {"mixed", "raced", "swept"}
      BY <3>2 DEF Chooses, Mixed, TypeOK
    <3> QED
      BY <3>1, <3>2
  <2>3. CASE OnConnectResponse
    <3>1. msgs' \in Seq(Message) /\ UNCHANGED <<st, tun>>
      BY <2>3, TakesParts DEF OnConnectResponse
    <3>2. turn' \in Handler /\ odd' \subseteq {"mixed", "raced", "swept"}
      BY <2>2, <2>3, ResponseCases DEF TypeOK
    <3> QED
      BY <2>0, <3>1, <3>2 DEF TypeOK
  <2>4. CASE UpdateReads
    <3>1. UNCHANGED <<st, msgs, tun>>
      BY <2>4 DEF UpdateReads
    <3>2. turn' \in Handler /\ odd' \subseteq {"mixed", "raced", "swept"}
      BY <2>2, <2>4, ReadCases, HandlerTypes DEF TypeOK
    <3> QED
      BY <2>0, <3>1, <3>2 DEF TypeOK
  <2>5. CASE OnVpnSessionUpdate
    <3>1. /\ msgs' \in Seq(Message) /\ UNCHANGED <<st, tun, odd>>
          /\ Head(msgs) \in Message /\ Head(msgs).k = "update"
      BY <2>5, TakesParts DEF OnVpnSessionUpdate
    <3>2. Head(msgs) \in Handler
      BY <3>1 DEF Message, Handler
    <3>3. turn' \in Handler
      BY <2>5, <3>2 DEF OnVpnSessionUpdate, TypeOK
    <3> QED
      BY <2>0, <3>1, <3>3 DEF TypeOK
  <2>6. CASE ConnectRequests \/ Connects \/ TurnOn \/ TurnedOn
    <3>1. turn.r \in ReqId /\ turn.s = "none" /\ turn = Msg(turn.k, turn.r, turn.s)
      BY <2>6, TurnParts DEF ConnectRequests, Connects, TurnOn, TurnedOn
    <3>2. \A k : [turn EXCEPT !.k = k] = Msg(k, turn.r, "none")
      BY <3>1 DEF Msg
    <3>3. turn' \in Handler
      BY <2>6, <3>1, <3>2, HandlerTypes DEF ConnectRequests, Connects, TurnOn, TurnedOn
    <3>4. st' \in AppState /\ tun' \in ReqId \cup {NoReq} /\ UNCHANGED <<msgs, odd>>
      BY <1>0, <2>1, <2>6, <3>1, StateParts
         DEF ConnectRequests, Connects, TurnOn, TurnedOn, TypeOK
    <3> QED
      BY <2>0, <3>3, <3>4 DEF TypeOK
  <2>7. CASE Permitted
    <3>1. /\ turn.k \in {"update", "ready"} /\ UNCHANGED <<st, msgs, tun, odd>>
          /\ \/ turn.k = "update" /\ turn' = [turn EXCEPT !.k = "read"]
             \/ turn.k = "ready" /\ turn' = [turn EXCEPT !.k = "connecting"]
      BY <2>7 DEF Permitted
    <3>2. turn = Msg(turn.k, turn.r, turn.s)
      BY TurnParts
    <3>3. \A k : [turn EXCEPT !.k = k] = Msg(k, turn.r, turn.s)
      BY <3>2 DEF Msg
    <3>4. /\ turn.k = "update" => turn.r \in ReqId /\ turn.s \in Live \cup Final
          /\ turn.k = "ready" => turn.r \in ReqId /\ turn.s = "none"
      BY TurnParts
    <3>5. turn' \in Handler
      BY <3>1, <3>3, <3>4, HandlerTypes
    <3> QED
      BY <2>0, <3>1, <3>5 DEF TypeOK
  <2>8. CASE Applies
    <3>1. \/ turn.r = NoReq /\ turn.s = "Disconnected"
          \/ turn.r \in ReqId /\ turn.s \in Live
      BY <2>8, TurnParts DEF Applies
    <3>2. st' \in AppState
      BY <1>0, <2>1, <2>8, <3>1, StateParts DEF Applies
    <3>3. turn' \in Handler
      <4>1. turn.s = "ServerReady" => turn.r \in ReqId
        BY <3>1
      <4> QED
        BY <2>8, <4>1, HandlerTypes DEF Applies
    <3> QED
      BY <2>0, <2>8, <3>2, <3>3 DEF Applies, TypeOK
  <2> QED
    BY <1>2, <2>3, <2>4, <2>5, <2>6, <2>7, <2>8 DEF Writes
<1>3. CASE NotPermitted
  <2>1. turn' \in Handler /\ OnDisconnectInner
    BY <1>3, HandlerTypes DEF NotPermitted
  <2> QED
    BY <1>0, <1>3, <2>1, DisconnectParts DEF NotPermitted, TypeOK, EndCall
<1>4. CASE ConnectLaunches
  <2>1. turn.r \in ReqId /\ turn' \in Handler
    BY <1>4, TurnParts, HandlerTypes DEF ConnectLaunches
  <2>2. co' \in [ReqId -> Coroutine]
    BY <1>4, <2>1, CoParts DEF ConnectLaunches
  <2> QED
    BY <1>4, <2>1, <2>2 DEF ConnectLaunches, TypeOK
<1>5. CASE TurnOnFails
  <2>1. faults' \in 0..MaxFaults
    BY <1>00, <1>5 DEF TurnOnFails, TypeOK
  <2>2. turn' \in Handler
    BY <1>5, HandlerTypes DEF TurnOnFails
  <2> QED
    BY <1>0, <1>5, <2>1, <2>2, DisconnectParts DEF TurnOnFails, TypeOK, EndCall
<1>6. CASE PermissionLost \/ Grant \/ RevokeTurnsOff \/ RevokeEnds
  BY <1>0, <1>00, <1>6 DEF PermissionLost, Grant, RevokeTurnsOff, RevokeEnds, TypeOK
<1>7. CASE OnRevoke
  <2>0. odd' \subseteq {"mixed", "raced", "swept"} /\ msgs' \in Seq(Message)
    BY <1>7 DEF OnRevoke, Raced, TypeOK
  <2>1. co' \in [ReqId -> Coroutine] /\ watch' \in [ReqId -> Watcher]
    BY <1>7, CancelParts DEF OnRevoke, TypeOK
  <2> QED
    BY <1>7, <2>0, <2>1 DEF OnRevoke, TypeOK
<1>7a. CASE RevokeReads
  <2>1. plan' \in Disconnection
    BY <1>7a, TransitionType DEF RevokeReads
  <2> QED
    BY <1>7a, <2>1 DEF RevokeReads, TypeOK
<1>7b. CASE RevokeMoves
  <2>0. plan.to \in AppState /\ plan' \in Disconnection /\ "user" \in Caller
    BY <1>7b, TransitionType DEF RevokeMoves, TypeOK, Disconnection, Caller
  <2>1. end' \in [Caller -> [ReqId -> EndCall]]
    BY <1>7b, <2>0, EndParts DEF RevokeMoves
  <2> QED
    BY <1>7b, <2>0, <2>1 DEF RevokeMoves, TypeOK, EndCall
<1>8. ASSUME NEW r \in ReqId, OnConnect(r) PROVE TypeOK'
  <2>1. turn' \in Handler
    BY <1>8, HandlerTypes DEF OnConnect
  <2>2. co' \in [ReqId -> Coroutine]
    BY <1>8, CoParts DEF OnConnect
  <2> QED
    BY <1>8, <2>1, <2>2 DEF OnConnect, TypeOK
<1>9. ASSUME NEW r \in ReqId, CoStep(r) PROVE TypeOK'
  <2>0. \A from : \A to \in {"call", "update", "respond", "launch", "fail", "delete", "done"} :
          Co(r, from, to) => co' \in [ReqId -> Coroutine]
    BY CoParts
  <2>1. CASE CoInserts(r) \/ CoAnswered(r) \/ CoUpdates(r) \/ CoDeletes(r)
    BY <2>0, <2>1 DEF CoInserts, CoAnswered, CoUpdates, CoDeletes, TypeOK
  <2>2. CASE CoFails(r)
    BY <1>00, <2>0, <2>2 DEF CoFails, TypeOK
  <2>3. CASE CoResponds(r)
    <3>1. Msg("response", r, "Accepted") \in Message /\ Msg("response", r, "Error") \in Message
      BY DEF Msg, Message
    <3>2. co' \in [ReqId -> Coroutine]
      BY <2>0, <2>3 DEF CoResponds
    <3>3. msgs' \in Seq(Message)
      BY <2>3, <3>1, DeliverParts DEF CoResponds
    <3> QED
      BY <2>3, <3>2, <3>3 DEF CoResponds, TypeOK
  <2>4. CASE CoLaunches(r)
    <3>1. Watch("on", "none") \in Watcher
      BY WatchType
    <3> QED
      BY <2>0, <2>4, <3>1 DEF CoLaunches, TypeOK
  <2>5. CASE CoCancelled(r)
    <3>1. co' \in [ReqId -> Coroutine]
      BY <2>0, <2>5 DEF CoCancelled
    <3>2. marked' \subseteq rows' /\ rows' \subseteq ReqId
      BY <2>5 DEF CoCancelled, TypeOK
    <3> QED
      BY <2>5, <3>1, <3>2 DEF CoCancelled, TypeOK
  <2> QED
    BY <1>9, <2>1, <2>2, <2>3, <2>4, <2>5 DEF CoStep
<1>10. ASSUME NEW r \in ReqId, WatchStep(r) PROVE TypeOK'
  <2>1. \A ph \in {"on", "polled", "delete", "off"}, s \in Live \cup Final \cup {"none"} :
          Watch(ph, s) \in Watcher
    BY WatchType
  <2>2. CASE Poll(r)
    BY <2>1, <2>2 DEF Poll, TypeOK
  <2>3. CASE WatchDelivers(r)
    <3>1. watch[r].s \in Live \cup Final /\ watch[r].ph = "polled"
      BY <2>3, TaskParts DEF WatchDelivers, Watches
    <3>2. Msg("update", r, watch[r].s) \in Message
      BY <3>1 DEF Msg, Message
    <3>3. msgs' \in Seq(Message)
      BY <2>3, <3>2, DeliverParts DEF WatchDelivers
    <3>4. watch' \in [ReqId -> Watcher]
      BY <2>1, <2>3 DEF WatchDelivers, TypeOK
    <3> QED
      BY <2>3, <3>3, <3>4 DEF WatchDelivers, TypeOK
  <2>4. CASE WatchDeletes(r)
    BY <2>1, <2>4 DEF WatchDeletes, TypeOK
  <2> QED
    BY <1>10, <2>2, <2>3, <2>4 DEF WatchStep
<1>11. ASSUME NEW c \in Caller, NEW r \in ReqId, EndStep(c, r) PROVE TypeOK'
  <2>0. NoEnd \in EndCall
    BY DEF NoEnd, EndCall
  <2>1. CASE EndReads(c, r)
    <3>1. [ph |-> "call", row |-> r \in rows] \in EndCall
      BY DEF EndCall
    <3>2. end' \in [Caller -> [ReqId -> EndCall]]
      BY <1>0, <2>1, <3>1 DEF EndReads
    <3> QED
      BY <2>1, <3>2 DEF EndReads, TypeOK, EndCall
  <2>2. CASE ServerEnds(c, r)
    <3>0. /\ end' = [end EXCEPT ![c][r] = [end[c][r] EXCEPT !.ph = "applied"]]
          /\ [end[c][r] EXCEPT !.ph = "applied"] \in EndCall
      BY <1>0, <2>2 DEF ServerEnds, EndCall
    <3>1. end' \in [Caller -> [ReqId -> EndCall]]
      BY <1>0, <3>0
    <3> QED
      BY <2>2, <3>1 DEF ServerEnds, TypeOK, EndCall, Final
  <2>3. CASE EndReturns(c, r)
    <3>0. end' = [end EXCEPT ![c][r] = NoEnd]
      BY <2>3 DEF EndReturns
    <3>1. end' \in [Caller -> [ReqId -> EndCall]]
      BY <1>0, <2>0, <3>0
    <3>2. marked' \subseteq rows' /\ rows' \subseteq ReqId /\ lost' \subseteq ReqId
      BY <2>3 DEF EndReturns, TypeOK
    <3>3. UNCHANGED <<uiVars, co, watch, recl, old, serverVars, faults, odd>>
      BY <2>3 DEF EndReturns
    <3> QED
      BY <3>1, <3>2, <3>3 DEF TypeOK, EndCall
  <2>4. CASE EndFails(c, r)
    <3>1. end' \in [Caller -> [ReqId -> EndCall]]
      BY <1>0, <2>0, <2>4 DEF EndFails
    <3>2. odd' \subseteq {"mixed", "raced", "swept"} /\ marked' \subseteq rows
      BY <2>4 DEF EndFails, Swept, TypeOK
    <3>3. faults' \in 0..MaxFaults
      BY <1>00, <2>4 DEF EndFails
    <3> QED
      BY <2>4, <3>1, <3>2, <3>3 DEF EndFails, RunReclaimer, TypeOK, EndCall
  <2> QED
    BY <1>11, <2>1, <2>2, <2>3, <2>4 DEF EndStep
<1>12. CASE ReclaimStep
  <2>1. "reclaimer" \in Caller
    BY DEF Caller
  <2>2. end' \in [Caller -> [ReqId -> EndCall]]
    BY <1>0, <1>12, <2>1, EndParts DEF ReclaimStep, Reclaim, ReclaimerStops
  <2>3. /\ recl' \in {"off", "on", "stopping"}
        /\ UNCHANGED <<uiVars, dbVars, co, watch, old, serverVars, histVars>>
    BY <1>12 DEF ReclaimStep, Reclaim, ReclaimerStops
  <2> QED
    BY <2>2, <2>3 DEF TypeOK, EndCall
<1>13. CASE ServiceRecreated
  <2>1. faults' \in 0..MaxFaults /\ msgs' \in Seq(Message) /\ old' \subseteq ReqId
    BY <1>00, <1>13 DEF ServiceRecreated, Used
  <2>2. /\ OnDisconnectInner /\ recl' = "on"
        /\ UNCHANGED <<turn, revoke, plan, perm, dbVars, serverVars, lost, odd>>
    BY <1>13 DEF ServiceRecreated
  <2>3. /\ st' = Disconnected /\ co' \in [ReqId -> Coroutine] /\ watch' \in [ReqId -> Watcher]
        /\ end' \in [Caller -> [ReqId -> EndCall]] /\ tun' \in {tun, NoReq}
    BY <2>2, DisconnectParts
  <2> QED
    BY <1>0, <2>1, <2>2, <2>3 DEF TypeOK, EndCall
<1>14. CASE ActivityStarts
  <2>1. faults' \in 0..MaxFaults /\ odd' \subseteq {"mixed", "raced", "swept"}
    BY <1>00, <1>14 DEF ActivityStarts, Swept, TypeOK
  <2> QED
    BY <1>14, <2>1 DEF ActivityStarts, TypeOK
<1>15. CASE ProcessRestarts
  <2>1. faults' \in 0..MaxFaults /\ msgs' \in Seq(Message)
    BY <1>00, <1>15 DEF ProcessRestarts
  <2>2. co' \in [ReqId -> Coroutine]
    BY <1>15 DEF ProcessRestarts, Coroutine
  <2>3. watch' \in [ReqId -> Watcher]
    BY <1>15, WatchType DEF ProcessRestarts
  <2>4. end' \in [Caller -> [ReqId -> EndCall]]
    BY <1>15 DEF ProcessRestarts, NoEnd, EndCall
  <2>5. /\ st' = Disconnected /\ revoke' = "none" /\ turn' \in Handler
        /\ tun' = NoReq /\ recl' = "on" /\ marked' = rows /\ plan' \in Disconnection
        /\ UNCHANGED <<perm, rows, old, serverVars, lost, odd>>
    BY <1>15, HandlerTypes, TransitionType DEF ProcessRestarts
  <2> QED
    BY <1>0, <2>1, <2>2, <2>3, <2>4, <2>5 DEF TypeOK, EndCall
<1>16. ASSUME NEW r \in ReqId, ServerStep(r) PROVE TypeOK'
  <2>1. server' \in [ReqId -> Live \cup Final \cup {"none"}] /\ flying' \subseteq ReqId
    BY <1>16 DEF ServerStep, ServerAccepts, ServerMoves, ServerFails, TypeOK, Live
  <2> QED
    BY <1>00, <1>16, <2>1 DEF ServerStep, ServerAccepts, ServerMoves, ServerFails, TypeOK
<1>17. CASE UNCHANGED vars
  BY <1>17 DEF vars, TypeOK
<1> QED
  BY <1>1, <1>2, <1>3, <1>4, <1>5, <1>6, <1>7, <1>7a, <1>7b, <1>8, <1>9, <1>10, <1>11, <1>12,
     <1>13, <1>14, <1>15, <1>16, <1>17 DEF Next, MainStep, RevokeStep, Writes
-----------------------------------------------------------------------------
\* The steps, sorted

\* The steps that the main thread and onRevoke have no part in.
Background ==
  \/ ReclaimStep \/ ActivityStarts \/ UNCHANGED vars
  \/ \E r \in ReqId : CoStep(r) \/ WatchStep(r) \/ ServerStep(r)
  \/ \E c \in Caller, r \in ReqId : EndStep(c, r)

\* A request is made, or its coroutine launched.
Starts(r) == OnConnect(r) \/ (ConnectLaunches /\ turn.r = r)

\* The steps that end in onDisconnect.
Disconnects == OnDisconnect \/ NotPermitted \/ TurnOnFails \/ ServiceRecreated

\* The steps there are.
LEMMA NextCases ==
  ASSUME TypeOK, [Next]_vars
  PROVE  \/ Writes \/ Disconnects \/ RevokeStep \/ PermissionLost \/ Grant
         \/ ProcessRestarts \/ Background \/ \E r \in ReqId : Starts(r)
<1>1. ConnectLaunches => \E r \in ReqId : Starts(r)
  BY TurnParts DEF ConnectLaunches, Starts
<1>2. \A r \in ReqId : OnConnect(r) => Starts(r)
  BY DEF Starts
<1> QED
  BY <1>1, <1>2 DEF Next, MainStep, Writes, Disconnects, Background

\* A start moves the coroutine of one request, and nothing but the handler.
LEMMA StartParts ==
  ASSUME TypeOK, NEW r \in ReqId, Starts(r)
  PROVE  /\ \/ /\ co[r].ph = "none" /\ co'[r].ph = "new" /\ st = Disconnected
               /\ turn' = Msg("connect", r, "none") /\ OnConnect(r)
            \/ /\ co[r].ph = "new" /\ co'[r].ph = "insert" /\ turn.k = "launch"
               /\ turn.r = r /\ turn' = Idle
         /\ co'[r].cancelled = co[r].cancelled
         /\ \A q \in ReqId : q # r => co'[q] = co[q]
         /\ UNCHANGED <<st, msgs, revoke, plan, perm, tun, watch, end, recl, old, rows,
                        marked, server, flying, faults, lost, odd>>
<1> USE DEF dbVars, serverVars, histVars
<1>1. CASE OnConnect(r)
  <2>1. Co(r, "none", "new")
    BY <1>1 DEF OnConnect
  <2>2. /\ co[r].ph = "none" /\ co'[r].ph = "new" /\ co'[r].cancelled = co[r].cancelled
        /\ \A q \in ReqId : q # r => co'[q] = co[q]
    BY <2>1, CoParts
  <2> QED
    BY <1>1, <2>2 DEF OnConnect
<1>2. CASE ConnectLaunches /\ turn.r = r
  <2>1. Co(r, "new", "insert")
    BY <1>2 DEF ConnectLaunches
  <2>2. /\ co[r].ph = "new" /\ co'[r].ph = "insert" /\ co'[r].cancelled = co[r].cancelled
        /\ \A q \in ReqId : q # r => co'[q] = co[q]
    BY <2>1, CoParts
  <2> QED
    BY <1>2, <2>2 DEF ConnectLaunches
<1> QED
  BY <1>1, <1>2 DEF Starts

\* What a step that ends in onDisconnect does besides.
LEMMA DisconnectsFrame ==
  ASSUME TypeOK, Disconnects
  PROVE  /\ OnDisconnectInner /\ turn'.k = "idle" /\ turn'.r = NoReq
         /\ turn.k \in {"idle", "update", "ready", "establish"}
         /\ msgs' = msgs \/ msgs' = <<>>
         /\ UNCHANGED <<revoke, plan, perm, rows, marked, server, flying, lost, odd>>
         /\ old' = old \/ (ServiceRecreated /\ old' = Used /\ turn.k = "idle")
<1> USE DEF dbVars, serverVars, histVars
<1>1. /\ Idle.k = "idle" /\ Idle.r = NoReq /\ (turn.k = "idle" => turn.r = NoReq)
  BY DEF TypeOK, Handler, Idle, Msg
<1> QED
  BY <1>1 DEF Disconnects, OnDisconnect, NotPermitted, TurnOnFails, ServiceRecreated

-----------------------------------------------------------------------------
\* Sessions are tracked

Track == Requests /\ Watches /\ Applied /\ SessionTracked

\* A step of an end call concerns no other call.
LEMMA EndStepParts ==
  ASSUME TypeOK, NEW c \in Caller, NEW r \in ReqId, EndStep(c, r)
  PROVE  /\ end[c][r] # NoEnd
         /\ \A d \in Caller, q \in ReqId : (d # c \/ q # r) => end'[d][q] = end[d][q]
         /\ \/ end'[c][r] = NoEnd \/ end'[c][r].ph = "call"
            \/ ServerEnds(c, r) /\ end'[c][r].ph = "applied"
<1>0. end \in [Caller -> [ReqId -> EndCall]] /\ NoEnd.ph = "none"
  BY DEF TypeOK, EndCall, NoEnd
<1>1. end[c][r] # NoEnd
  BY <1>0 DEF EndStep, EndReads, ServerEnds, EndReturns, EndFails
<1>2. \/ end' = [end EXCEPT ![c][r] = [ph |-> "call", row |-> r \in rows]]
      \/ end' = [end EXCEPT ![c][r] = NoEnd]
      \/ ServerEnds(c, r)
  BY DEF EndStep, EndReads, EndReturns, EndFails
<1>3. ASSUME NEW x, end' = [end EXCEPT ![c][r] = x]
      PROVE  /\ \A d \in Caller, q \in ReqId : (d # c \/ q # r) => end'[d][q] = end[d][q]
             /\ end'[c][r] = x
  BY <1>0, <1>3
<1>4. CASE end' = [end EXCEPT ![c][r] = [ph |-> "call", row |-> r \in rows]]
  <2> DEFINE x == [ph |-> "call", row |-> r \in rows]
  <2>1. x.ph = "call" /\ end' = [end EXCEPT ![c][r] = x]
    BY <1>4
  <2> HIDE DEF x
  <2> QED
    BY <1>1, <1>3, <2>1
<1>5. CASE end' = [end EXCEPT ![c][r] = NoEnd]
  BY <1>1, <1>3, <1>5
<1>6. CASE ServerEnds(c, r)
  <2> DEFINE x == [end[c][r] EXCEPT !.ph = "applied"]
  <2>1. x.ph = "applied" /\ end' = [end EXCEPT ![c][r] = x]
    BY <1>0, <1>6 DEF ServerEnds, EndCall
  <2> HIDE DEF x
  <2> QED
    BY <1>1, <1>3, <1>6, <2>1
<1> QED
  BY <1>2, <1>4, <1>5, <1>6

\* A step of the main thread, of onRevoke or of the reclaimer moves no request,
\* and at most stops watchers and queues end calls.
Calm ==
  /\ UNCHANGED <<server, flying, lost, rows>>
  /\ \A r \in ReqId : /\ co'[r].ph = co[r].ph /\ (co[r].cancelled => co'[r].cancelled)
                      /\ co[r].ph \in {"none", "new"} => co'[r] = co[r]
  /\ \A r \in ReqId : \/ watch'[r].ph = "off"
                      \/ watch'[r].ph = watch[r].ph /\ watch'[r].s = watch[r].s
  /\ \A d \in Caller, r \in ReqId :
       \/ end'[d][r] = end[d][r]
       \/ end[d][r] = NoEnd /\ end'[d][r].ph = "queued"

\* The steps that are calm.
LEMMA CalmSteps ==
  ASSUME TypeOK,
         \/ Writes \/ Disconnects \/ RevokeStep \/ PermissionLost \/ Grant
         \/ ReclaimStep \/ ActivityStarts \/ UNCHANGED vars
  PROVE  Calm
<1> USE DEF dbVars, serverVars, histVars, taskVars, uiVars
<1>1. OnDisconnectInner /\ UNCHANGED <<server, flying, lost, rows>> => Calm
  BY DisconnectParts DEF Calm
<1>2. UNCHANGED <<server, flying, lost, rows, co, watch, end>> => Calm
  BY DEF Calm
<1>3. CASE Writes
  BY <1>2, <1>3, WritesFrame
<1>4. CASE Disconnects
  BY <1>1, <1>4, DisconnectsFrame
<1>5. CASE PermissionLost \/ Grant \/ ActivityStarts \/ RevokeReads \/ RevokeTurnsOff
           \/ RevokeEnds \/ ReclaimerStops
  BY <1>2, <1>5 DEF PermissionLost, Grant, ActivityStarts, RevokeReads, RevokeTurnsOff,
                    RevokeEnds, ReclaimerStops
<1>6. CASE OnRevoke
  <2>1. CASE UNCHANGED <<co, watch>>
    BY <1>2, <1>6, <2>1 DEF OnRevoke
  <2>2. CASE CancelChildren
    BY <1>6, <2>2, CancelParts DEF OnRevoke, Calm
  <2> QED
    BY <1>6, <2>1, <2>2 DEF OnRevoke
<1>6a. CASE RevokeMoves
  <2>1. /\ "user" \in Caller /\ EndVpnSession("user", {plan.req})
        /\ UNCHANGED <<server, flying, lost, rows, co, watch>>
    BY <1>6a DEF RevokeMoves, Caller
  <2> QED
    BY <2>1, EndParts DEF Calm
<1>7. CASE Reclaim
  <2>1. "reclaimer" \in Caller
    BY DEF Caller
  <2> QED
    BY <1>7, <2>1, EndParts DEF Reclaim, Calm
<1>8. CASE UNCHANGED vars
  BY <1>2, <1>8 DEF vars
<1> QED
  BY <1>3, <1>4, <1>5, <1>6, <1>6a, <1>7, <1>8 DEF RevokeStep, ReclaimStep

\* Every step keeps the sessions tracked.
LEMMA TrackStep ==
  ASSUME TypeOK, TypeOK', Track, [Next]_vars
  PROVE  Track'
<1> USE DEF dbVars, serverVars, histVars, taskVars, uiVars
<1>0. /\ NoEnd.ph = "none" /\ Live \cap Final = {} /\ "none" \notin Live \cup Final
  BY AndroidAssumption DEF NoEnd, Live, Final
<1>00. /\ server \in [ReqId -> Live \cup Final \cup {"none"}]
       /\ watch \in [ReqId -> Watcher] /\ co \in [ReqId -> Coroutine]
  BY DEF TypeOK
<1>1. CASE Calm
  BY <1>1 DEF Calm, Track, Requests, Watches, Applied, SessionTracked
<1>2. ASSUME NEW r \in ReqId, Starts(r) PROVE Track'
  <2>1. /\ UNCHANGED <<server, flying, lost, rows, watch, end>>
        /\ co[r].ph \in {"none", "new"} /\ co'[r].ph \in {"new", "insert"}
        /\ \A q \in ReqId : q # r => co'[q] = co[q]
    BY <1>2, StartParts
  <2> QED
    BY <2>1 DEF Track, Requests, Watches, Applied, SessionTracked
<1>3. ASSUME NEW r \in ReqId, CoStep(r) PROVE Track'
  <2>0. \A from : \A to \in {"call", "update", "respond", "launch", "fail", "delete", "done"} :
          Co(r, from, to) => /\ co[r].ph = from /\ co'[r].ph = to
                             /\ \A q \in ReqId : q # r => co'[q] = co[q]
    BY CoParts
  <2>1. CASE CoInserts(r)
    <3>1. /\ co[r].ph = "insert" /\ co'[r].ph = "call"
          /\ \A q \in ReqId : q # r => co'[q] = co[q]
          /\ rows' = rows \cup {r} /\ flying' = flying \cup {r}
          /\ UNCHANGED <<server, lost, watch, end>>
      BY <2>0, <2>1 DEF CoInserts
    <3> QED
      BY <3>1 DEF Track, Requests, Watches, Applied, SessionTracked
  <2>2. CASE CoAnswered(r)
    <3>1. /\ co[r].ph = "call" /\ co'[r].ph = "update" /\ server[r] # "none"
          /\ \A q \in ReqId : q # r => co'[q] = co[q]
          /\ UNCHANGED <<server, flying, lost, rows, watch, end>>
      BY <2>0, <2>2 DEF CoAnswered
    <3> QED
      BY <3>1 DEF Track, Requests, Watches, Applied, SessionTracked
  <2>3. CASE CoFails(r)
    <3>1. /\ co[r].ph = "call" /\ co'[r].ph = "fail"
          /\ \A q \in ReqId : q # r => co'[q] = co[q]
          /\ UNCHANGED <<server, rows, watch, end>>
          /\ \/ r \in flying /\ flying' = flying \ {r} /\ UNCHANGED lost
             \/ lost' = lost \cup {r} /\ UNCHANGED flying
      BY <2>0, <2>3 DEF CoFails
    <3> QED
      BY <3>1 DEF Track, Requests, Watches, Applied, SessionTracked
  <2>4. CASE CoUpdates(r)
    <3>1. /\ co[r].ph = "update" /\ co'[r].ph = "respond"
          /\ \A q \in ReqId : q # r => co'[q] = co[q]
          /\ UNCHANGED <<server, flying, lost, rows, watch, end>>
      BY <2>0, <2>4 DEF CoUpdates
    <3> QED
      BY <3>1 DEF Track, Requests, Watches, Applied, SessionTracked
  <2>5. CASE CoResponds(r)
    <3>1. /\ \/ co[r].ph = "respond" /\ co'[r].ph = "launch"
             \/ co[r].ph = "fail" /\ co'[r].ph \in {"done", "delete"}
          /\ \A q \in ReqId : q # r => co'[q] = co[q]
          /\ UNCHANGED <<server, flying, lost, rows, watch, end>>
      BY <2>0, <2>5 DEF CoResponds
    <3> QED
      BY <3>1 DEF Track, Requests, Watches, Applied, SessionTracked
  <2>6. CASE CoLaunches(r)
    <3>1. /\ co[r].ph = "launch" /\ co'[r].ph = "done"
          /\ \A q \in ReqId : q # r => co'[q] = co[q]
          /\ UNCHANGED <<server, flying, lost, rows, end>>
      BY <2>0, <2>6 DEF CoLaunches
    <3>2. /\ watch'[r].ph = "on" /\ \A q \in ReqId : q # r => watch'[q] = watch[q]
      BY <1>00, <2>6 DEF CoLaunches, Watch
    <3> QED
      BY <3>1, <3>2 DEF Track, Requests, Watches, Applied, SessionTracked
  <2>7. CASE CoDeletes(r)
    <3>1. /\ co[r].ph = "delete" /\ co'[r].ph = "done" /\ rows' = rows \ {r}
          /\ \A q \in ReqId : q # r => co'[q] = co[q]
          /\ UNCHANGED <<server, flying, lost, watch, end>>
      BY <2>0, <2>7 DEF CoDeletes
    <3> QED
      BY <1>0, <3>1 DEF Track, Requests, Watches, Applied, SessionTracked
  <2>8. CASE CoCancelled(r)
    <3>1. /\ co[r].ph \in {"insert", "call", "update", "delete"} /\ co'[r].ph = "done"
          /\ \A q \in ReqId : q # r => co'[q] = co[q]
          /\ UNCHANGED <<server, flying, lost, watch, end>>
          /\ \/ rows' = rows \/ rows' = rows \cup {r}
             \/ rows' = rows \ {r} /\ co[r].ph = "delete"
      BY <2>0, <2>8 DEF CoCancelled
    <3> QED
      BY <1>0, <3>1 DEF Track, Requests, Watches, Applied, SessionTracked
  <2> QED
    BY <1>3, <2>1, <2>2, <2>3, <2>4, <2>5, <2>6, <2>7, <2>8 DEF CoStep
<1>4. ASSUME NEW r \in ReqId, WatchStep(r) PROVE Track'
  <2>1. CASE Poll(r)
    <3>1. /\ watch[r].ph = "on" /\ watch'[r].ph = "polled" /\ watch'[r].s = server[r]
          /\ \A q \in ReqId : q # r => watch'[q] = watch[q]
          /\ UNCHANGED <<server, flying, lost, rows, end, co>>
      BY <1>00, <2>1 DEF Poll, Watch
    <3> QED
      BY <3>1 DEF Track, Requests, Watches, Applied, SessionTracked
  <2>2. CASE WatchDelivers(r)
    <3>1. /\ watch[r].ph = "polled"
          /\ \/ watch'[r].ph \in {"on", "off"}
             \/ watch'[r].ph = "delete" /\ watch[r].s \in Final
          /\ \A q \in ReqId : q # r => watch'[q] = watch[q]
          /\ UNCHANGED <<server, flying, lost, rows, end, co>>
      BY <1>00, <2>2 DEF WatchDelivers, Watch
    <3> QED
      BY <3>1 DEF Track, Requests, Watches, Applied, SessionTracked
  <2>3. CASE WatchDeletes(r)
    <3>1. /\ watch[r].ph = "delete" /\ watch'[r].ph = "off"
          /\ \A q \in ReqId : q # r => watch'[q] = watch[q]
          /\ rows' = rows \/ rows' = rows \ {r}
          /\ UNCHANGED <<server, flying, lost, end, co>>
      BY <1>00, <2>3 DEF WatchDeletes, Watch
    <3> QED
      BY <1>0, <3>1 DEF Track, Requests, Watches, Applied, SessionTracked
  <2> QED
    BY <1>4, <2>1, <2>2, <2>3 DEF WatchStep
<1>5. ASSUME NEW c \in Caller, NEW r \in ReqId, EndStep(c, r) PROVE Track'
  <2>0. /\ \A d \in Caller, q \in ReqId : (d # c \/ q # r) => end'[d][q] = end[d][q]
        /\ \/ end'[c][r].ph \in {"none", "call"}
           \/ ServerEnds(c, r) /\ end'[c][r].ph = "applied"
    BY <1>0, <1>5, EndStepParts
  <2>1. CASE ServerEnds(c, r)
    <3>1. /\ server[r] \in Live /\ server'[r] \in Final
          /\ \A q \in ReqId : q # r => server'[q] = server[q]
          /\ UNCHANGED <<flying, lost, rows, watch, co>>
      BY <1>00, <2>1 DEF ServerEnds, Final
    <3> QED
      BY <1>0, <2>0, <3>1 DEF Track, Requests, Watches, Applied, SessionTracked
  <2>2. CASE ~ServerEnds(c, r) /\ EndReturns(c, r)
    <3>1. /\ end[c][r].ph = "applied" \/ server[r] \notin Live
          /\ rows' = rows \/ rows' = rows \ {r}
          /\ lost' = IF r \in flying THEN lost \cup {r} ELSE lost
          /\ UNCHANGED <<server, flying, watch, co>>
      BY <2>2 DEF EndReturns
    <3> QED
      BY <1>0, <2>0, <2>2, <3>1 DEF Track, Requests, Watches, Applied, SessionTracked
  <2>3. CASE ~ServerEnds(c, r) /\ (EndReads(c, r) \/ EndFails(c, r))
    <3>1. UNCHANGED <<server, flying, lost, rows, watch, co>>
      BY <2>3 DEF EndReads, EndFails
    <3> QED
      BY <2>0, <2>3, <3>1 DEF Track, Requests, Watches, Applied, SessionTracked
  <2> QED
    BY <1>5, <2>1, <2>2, <2>3 DEF EndStep
<1>6. CASE ProcessRestarts
  <2>1. /\ \A r \in ReqId : /\ co[r].ph = "none" => co'[r].ph = "none"
                            /\ co[r].ph # "none" => co'[r].ph = "done"
                            /\ watch'[r].ph = "off"
        /\ \A d \in Caller, r \in ReqId : end'[d][r] = NoEnd
        /\ UNCHANGED <<server, flying, lost, rows>>
    BY <1>6 DEF ProcessRestarts, Used, Watch
  <2> QED
    BY <1>0, <2>1 DEF Track, Requests, Watches, Applied, SessionTracked
<1>7. ASSUME NEW r \in ReqId, ServerStep(r) PROVE Track'
  <2>1. CASE ServerAccepts(r)
    <3>1. /\ r \in flying /\ flying' = flying \ {r} /\ server'[r] \in Live
          /\ \A q \in ReqId : q # r => server'[q] = server[q]
          /\ UNCHANGED <<rows, lost, co, watch, end>>
      BY <1>00, <2>1 DEF ServerAccepts, Live
    <3> QED
      BY <1>0, <3>1 DEF Track, Requests, Watches, Applied, SessionTracked
  <2>2. CASE ServerMoves(r) \/ ServerFails(r)
    <3>1. /\ server[r] \in Live /\ server'[r] \in Live \cup Final
          /\ \A q \in ReqId : q # r => server'[q] = server[q]
          /\ UNCHANGED <<flying, rows, lost, co, watch, end>>
      BY <1>00, <2>2 DEF ServerMoves, ServerFails, Live
    <3> QED
      BY <1>0, <3>1 DEF Track, Requests, Watches, Applied, SessionTracked
  <2> QED
    BY <1>7, <2>1, <2>2 DEF ServerStep
<1> QED
  BY <1>1, <1>2, <1>3, <1>4, <1>5, <1>6, <1>7, CalmSteps, NextCases DEF Background
-----------------------------------------------------------------------------
\* Requests that were made, and the lock

\* Whatever is known of a request, it was made.
UsedInv ==
  /\ st.req \in Used \cup {NoReq} /\ turn.r \in Used \cup {NoReq}
  /\ plan.req \in Used \cup {NoReq} /\ plan.to.req \in Used \cup {NoReq}
  /\ \A i \in DOMAIN msgs : msgs[i].r \in Used
  /\ rows \subseteq Used /\ old \subseteq Used
  /\ \A c \in Caller, r \in ReqId : end[c][r] # NoEnd => r \in Used

\* Only onConnect makes requests whose coroutine is not launched, one at a time;
\* nothing is told the main thread while onRevoke runs.
News ==
  /\ turn.k \in {"connect", "launch"} => co[turn.r].ph = "new" /\ turn.r \notin old
  /\ \A r \in ReqId :
       /\ co[r].ph = "new" => turn.k \in {"connect", "launch"} /\ turn.r = r
       /\ co[r].ph \in {"none", "new"} => ~co[r].cancelled
  /\ ~LockFree => msgs = <<>>

\* The state that a handler finds where it is, if only it has written it.
Finds ==
  /\ turn.k = "connect" => st = Disconnected
  /\ turn.k = "launch" => st = State("Requesting", turn.r)
  /\ turn.k \in {"update", "read", "apply"} => ~IsDisconnectingOrDisconnected(st)
  /\ turn.k \in {"ready", "connecting"} => st = State("ServerReady", turn.r)
  /\ turn.k \in {"establish", "up"} => st = State("Connecting", turn.r)
  /\ st.k = "ServerReady" => turn.k \in {"ready", "connecting"}

\* Unless onRevoke gave up a session in the middle of a handler, handlers and
\* onRevoke do not overlap, and each finds the state as it left it.
Locks ==
  "raced" \notin odd =>
    /\ Finds
    /\ turn.k # "idle" => LockFree
    /\ revoke \in {"turnOff", "end"} <=> st.k = "Disconnecting"
    /\ revoke = "moves" => plan = TransitionOnDisconnect(st)
    /\ revoke \in {"cancelled", "moves"} =>
         /\ st # Disconnected
         /\ \A r \in ReqId \ old : co[r].ph \in {"none", "new", "done"} \/ co[r].cancelled

\* The messages that are left, and the one that was added.
LEMMA MessagesLeft ==
  ASSUME TypeOK, NEW k, Takes(k)
  PROVE  \A i \in DOMAIN msgs' : i + 1 \in DOMAIN msgs /\ msgs'[i] = msgs[i + 1]
<1>1. msgs \in Seq(Message) /\ msgs # <<>> /\ msgs' = Tail(msgs)
  BY TakesParts DEF TypeOK
<1>2. Len(msgs) \in Nat /\ DOMAIN msgs = 1..Len(msgs) /\ DOMAIN Tail(msgs) = 1..(Len(msgs) - 1)
      /\ Len(msgs) # 0 /\ \A i \in 1..(Len(msgs) - 1) : Tail(msgs)[i] = msgs[i + 1]
  BY <1>1
<1> QED
  BY <1>1, <1>2

\* A message that is delivered comes last, or, from an old orchestrator, nowhere.
LEMMA MessageAdded ==
  ASSUME TypeOK, NEW m \in Message, Deliver(m)
  PROVE  \A i \in DOMAIN msgs' :
           \/ i \in DOMAIN msgs /\ msgs'[i] = msgs[i]
           \/ i = Len(msgs) + 1 /\ msgs'[i] = m /\ m.r \notin old
<1>1. msgs \in Seq(Message) /\ (msgs' = msgs \/ (m.r \notin old /\ msgs' = Append(msgs, m)))
  BY DEF TypeOK, Deliver
<1>2. CASE msgs' = msgs
  BY <1>2
<1>3. CASE m.r \notin old /\ msgs' = Append(msgs, m)
  <2>1. Len(msgs) \in Nat /\ DOMAIN msgs = 1..Len(msgs)
        /\ DOMAIN Append(msgs, m) = 1..(Len(msgs) + 1)
        /\ \A i \in 1..(Len(msgs) + 1) :
             Append(msgs, m)[i] = IF i = Len(msgs) + 1 THEN m ELSE msgs[i]
    BY <1>1
  <2> QED
    BY <1>3, <2>1
<1> QED
  BY <1>1, <1>2, <1>3

\* A request that was made stays so.
LEMMA UsedGrows ==
  ASSUME TypeOK, [Next]_vars
  PROVE  Used \subseteq Used'
<1> USE DEF dbVars, serverVars, histVars, taskVars, uiVars
<1>0. SUFFICES \A r \in ReqId : co[r].ph # "none" => co'[r].ph # "none"
  BY DEF Used
<1>1. CASE Calm
  BY <1>1 DEF Calm
<1>2. ASSUME NEW r \in ReqId, Starts(r)
      PROVE  \A q \in ReqId : co[q].ph # "none" => co'[q].ph # "none"
  BY <1>2, StartParts
<1>3. ASSUME NEW r \in ReqId, CoStep(r)
      PROVE  \A q \in ReqId : co[q].ph # "none" => co'[q].ph # "none"
  <2>0. \A from : \A to \in {"call", "update", "respond", "launch", "fail", "delete", "done"} :
          Co(r, from, to) => /\ co'[r].ph = to /\ \A q \in ReqId : q # r => co'[q] = co[q]
    BY CoParts
  <2>1. \E from : \E to \in {"call", "update", "respond", "launch", "fail", "delete", "done"} :
          Co(r, from, to)
    BY <1>3 DEF CoStep, CoInserts, CoAnswered, CoFails, CoUpdates, CoResponds, CoLaunches,
                CoDeletes, CoCancelled
  <2> QED
    BY <2>0, <2>1
<1>4. ASSUME NEW r \in ReqId, WatchStep(r) \/ ServerStep(r) PROVE co' = co
  BY <1>4 DEF WatchStep, Poll, WatchDelivers, WatchDeletes, ServerStep, ServerAccepts,
              ServerMoves, ServerFails
<1>5. ASSUME NEW c \in Caller, NEW r \in ReqId, EndStep(c, r) PROVE co' = co
  BY <1>5 DEF EndStep, EndReads, ServerEnds, EndReturns, EndFails
<1>6. CASE ProcessRestarts
  BY <1>6 DEF ProcessRestarts, Used
<1> QED
  BY <1>1, <1>2, <1>3, <1>4, <1>5, <1>6, CalmSteps, NextCases DEF Background

\* The steps in the background leave the state, the tunnel and the lock.
LEMMA BackgroundFrame ==
  ASSUME Background
  PROVE  UNCHANGED <<st, turn, revoke, plan, perm, tun, old>>
<1> USE DEF dbVars, serverVars, histVars, taskVars, uiVars
<1>1. ASSUME NEW r \in ReqId, CoStep(r) PROVE UNCHANGED <<st, turn, revoke, plan, perm, tun, old>>
  BY <1>1 DEF CoStep, CoInserts, CoAnswered, CoFails, CoUpdates, CoResponds, CoLaunches,
              CoDeletes, CoCancelled
<1>2. ASSUME NEW r \in ReqId, WatchStep(r) \/ ServerStep(r)
      PROVE  UNCHANGED <<st, turn, revoke, plan, perm, tun, old>>
  BY <1>2 DEF WatchStep, Poll, WatchDelivers, WatchDeletes, ServerStep, ServerAccepts,
              ServerMoves, ServerFails
<1>3. ASSUME NEW c \in Caller, NEW r \in ReqId, EndStep(c, r)
      PROVE  UNCHANGED <<st, turn, revoke, plan, perm, tun, old>>
  BY <1>3 DEF EndStep, EndReads, ServerEnds, EndReturns, EndFails
<1>4. CASE ReclaimStep \/ ActivityStarts \/ UNCHANGED vars
  BY <1>4 DEF ReclaimStep, Reclaim, ReclaimerStops, ActivityStarts, vars
<1> QED
  BY <1>1, <1>2, <1>3, <1>4 DEF Background

\* Only a new service makes requests those of an old one.
LEMMA OldFrame ==
  ASSUME TypeOK, [Next]_vars, ~ServiceRecreated
  PROVE  old' = old
<1> USE DEF dbVars, serverVars, histVars, taskVars, uiVars
<1>1. ASSUME NEW r \in ReqId, CoStep(r) PROVE old' = old
  BY <1>1 DEF CoStep, CoInserts, CoAnswered, CoFails, CoUpdates, CoResponds,
              CoLaunches, CoDeletes, CoCancelled
<1>2. ASSUME NEW r \in ReqId, WatchStep(r) \/ ServerStep(r) PROVE old' = old
  BY <1>2 DEF WatchStep, Poll, WatchDelivers, WatchDeletes, ServerStep, ServerAccepts,
              ServerMoves, ServerFails
<1>3. ASSUME NEW c \in Caller, NEW r \in ReqId, EndStep(c, r) PROVE old' = old
  BY <1>3 DEF EndStep, EndReads, ServerEnds, EndReturns, EndFails
<1>4. CASE ReclaimStep \/ ActivityStarts \/ UNCHANGED vars \/ ProcessRestarts
  BY <1>4 DEF ReclaimStep, Reclaim, ReclaimerStops, ActivityStarts, vars, ProcessRestarts
<1>5. CASE Writes \/ Disconnects \/ \E r \in ReqId : Starts(r)
  BY <1>5, WritesFrame, DisconnectsFrame, StartParts
<1>6. CASE PermissionLost \/ RevokeStep \/ Grant
  BY <1>6 DEF PermissionLost, RevokeStep, OnRevoke, RevokeReads, RevokeMoves, RevokeTurnsOff,
              RevokeEnds, Grant
<1> QED
  BY <1>1, <1>2, <1>3, <1>4, <1>5, <1>6, NextCases DEF Background

\* An end call is made for the session of the state or for a marked row.
LEMMA EndsQueued ==
  ASSUME TypeOK, [Next]_vars, NEW c \in Caller, NEW r \in ReqId,
         end[c][r] = NoEnd, end'[c][r] # NoEnd
  PROVE  \/ r = st.req /\ Disconnects
         \/ r = plan.req /\ RevokeMoves
         \/ r \in marked /\ Reclaim
<1> USE DEF dbVars, serverVars, histVars, taskVars, uiVars
<1>1. ASSUME NEW q \in ReqId, CoStep(q) PROVE end' = end
  BY <1>1 DEF CoStep, CoInserts, CoAnswered, CoFails, CoUpdates, CoResponds,
              CoLaunches, CoDeletes, CoCancelled
<1>2. ASSUME NEW q \in ReqId, WatchStep(q) \/ ServerStep(q) PROVE end' = end
  BY <1>2 DEF WatchStep, Poll, WatchDelivers, WatchDeletes, ServerStep, ServerAccepts,
              ServerMoves, ServerFails
<1>3. ASSUME NEW d \in Caller, NEW q \in ReqId, EndStep(d, q) PROVE FALSE
  BY <1>3, EndStepParts
<1>4. CASE ReclaimerStops \/ ActivityStarts \/ UNCHANGED vars \/ PermissionLost \/ OnRevoke
           \/ RevokeReads \/ RevokeTurnsOff \/ RevokeEnds \/ Grant
  BY <1>4 DEF ReclaimerStops, ActivityStarts, vars, PermissionLost, OnRevoke, RevokeReads,
              RevokeTurnsOff, RevokeEnds, Grant
<1>5. CASE ProcessRestarts
  BY <1>5 DEF ProcessRestarts
<1>6. CASE Reclaim
  <2>1. "reclaimer" \in Caller /\ EndVpnSession("reclaimer", marked)
    BY <1>6 DEF Caller, Reclaim
  <2> QED
    BY <1>6, <2>1, EndParts
<1>7. CASE Disconnects
  <2>1. OnDisconnectInner
    BY <1>7, DisconnectsFrame
  <2> QED
    BY <1>7, <2>1, DisconnectParts
<1>8. CASE Writes \/ \E q \in ReqId : Starts(q)
  BY <1>8, WritesFrame, StartParts
<1>9. CASE RevokeMoves
  <2>1. "user" \in Caller /\ EndVpnSession("user", {plan.req})
    BY <1>9 DEF Caller, RevokeMoves
  <2> QED
    BY <1>9, <2>1, EndParts
<1> QED
  BY <1>1, <1>2, <1>3, <1>4, <1>5, <1>6, <1>7, <1>8, <1>9, NextCases
     DEF Background, RevokeStep, ReclaimStep

\* The request of the state and of the handler after a step of it, and the
\* messages.
LEMMA WritesParts ==
  ASSUME TypeOK, Writes
  PROVE  /\ st'.req \in {st.req, turn.r}
         /\ \/ turn'.r \in {NoReq, turn.r, st.req}
            \/ 1 \in DOMAIN msgs /\ turn'.r = msgs[1].r
         /\ msgs' = msgs \/ Takes("response") \/ Takes("update")
<1>0. /\ \A k, x : State(k, x).req = x
      /\ \A k, r, x : Msg(k, r, x).r = r
      /\ Idle.r = NoReq /\ Disconnected.req = NoReq
      /\ \A k : [turn EXCEPT !.k = k].r = turn.r
  BY TurnParts DEF State, Msg, Idle, Disconnected
<1>1. ASSUME NEW m, NEW new, Chooses(m, new) PROVE turn'.r \in {NoReq, m.r, st.req}
  BY <1>0, <1>1 DEF Chooses
<1>2. CASE ConnectRequests \/ Connects \/ TurnOn \/ TurnedOn \/ Permitted
  <2>1. st' = st \/ st'.req = turn.r
    BY <1>0, <1>2, WriteParts
  <2>2. turn'.r \in {NoReq, turn.r}
    BY <1>0, <1>2, WriteParts
  <2>3. msgs' = msgs
    BY <1>2, WriteParts
  <2> QED
    BY <2>1, <2>2, <2>3
<1>3. CASE Applies
  BY <1>0, <1>3 DEF Applies
<1>4. CASE OnConnectResponse
  <2>1. Takes("response") /\ UNCHANGED st
    BY <1>4 DEF OnConnectResponse
  <2>2. 1 \in DOMAIN msgs /\ msgs[1] = Head(msgs)
    BY <2>1, TakesParts
  <2> QED
    BY <1>1, <1>4, <2>1, <2>2, ResponseCases
<1>5. CASE UpdateReads
  <2>1. UNCHANGED <<st, msgs>>
    BY <1>5 DEF UpdateReads
  <2> QED
    BY <1>0, <1>1, <1>5, <2>1, ReadCases
<1>6. CASE OnVpnSessionUpdate
  <2>1. Takes("update") /\ UNCHANGED st /\ (turn' = turn \/ turn' = Head(msgs))
    BY <1>6 DEF OnVpnSessionUpdate
  <2>2. 1 \in DOMAIN msgs /\ msgs[1] = Head(msgs)
    BY <2>1, TakesParts
  <2> QED
    BY <2>1, <2>2
<1> QED
  BY <1>2, <1>3, <1>4, <1>5, <1>6 DEF Writes

\* Each part for the steps that can change it.
LEMMA UsedStep ==
  ASSUME TypeOK, TypeOK', Watches, UsedInv, [Next]_vars
  PROVE  UsedInv'
<1> USE DEF dbVars, serverVars, histVars, taskVars, uiVars
<1>0. Used \subseteq Used'
  BY UsedGrows
<1>1. st'.req \in Used' \cup {NoReq}
  <2>0. Disconnected.req = NoReq /\ \A k, x : State(k, x).req = x
    BY DEF Disconnected, State
  <2>1. CASE st'.req \in {st.req, turn.r, NoReq}
    BY <1>0, <2>1 DEF UsedInv
  <2>2. CASE Writes
    BY <2>1, <2>2, WritesParts
  <2>3. CASE Disconnects
    BY <2>0, <2>1, <2>3, DisconnectsFrame, DisconnectParts
  <2>4. CASE OnRevoke \/ RevokeReads \/ RevokeTurnsOff \/ RevokeEnds \/ PermissionLost \/ Grant
             \/ ProcessRestarts
    BY <2>0, <2>1, <2>4 DEF OnRevoke, RevokeReads, RevokeTurnsOff, RevokeEnds, PermissionLost,
                            Grant, ProcessRestarts
  <2>5. CASE RevokeMoves
    BY <1>0, <2>5 DEF RevokeMoves, UsedInv
  <2>6. CASE Background \/ \E r \in ReqId : Starts(r)
    BY <2>1, <2>6, BackgroundFrame, StartParts
  <2> QED
    BY <2>2, <2>3, <2>4, <2>5, <2>6, NextCases DEF RevokeStep
<1>2. turn'.r \in Used' \cup {NoReq}
  <2>1. CASE turn'.r \in {st.req, turn.r, NoReq}
    BY <1>0, <2>1 DEF UsedInv
  <2>2. CASE Writes
    BY <1>0, <2>1, <2>2, WritesParts DEF UsedInv
  <2>3. CASE Disconnects
    BY <2>1, <2>3, DisconnectsFrame
  <2>4. CASE RevokeStep \/ PermissionLost \/ Grant
    BY <2>1, <2>4 DEF RevokeStep, OnRevoke, RevokeReads, RevokeMoves, RevokeTurnsOff, RevokeEnds,
                      PermissionLost, Grant
  <2>5. CASE ProcessRestarts
    BY <2>1, <2>5, HandlerTypes DEF ProcessRestarts
  <2>6. CASE Background
    BY <2>1, <2>6, BackgroundFrame
  <2>7. ASSUME NEW r \in ReqId, Starts(r) PROVE turn'.r \in Used' \cup {NoReq}
    <3>1. co'[r].ph # "none" /\ turn'.r \in {r, NoReq}
      BY <2>7, StartParts, HandlerTypes
    <3> QED
      BY <3>1 DEF Used
  <2> QED
    BY <2>2, <2>3, <2>4, <2>5, <2>6, <2>7, NextCases
<1>3. \A i \in DOMAIN msgs' : msgs'[i].r \in Used'
  <2>1. CASE msgs' = msgs \/ msgs' = <<>>
    BY <1>0, <2>1 DEF UsedInv
  <2>2. ASSUME NEW k, Takes(k) PROVE \A i \in DOMAIN msgs' : msgs'[i].r \in Used'
    BY <1>0, <2>2, MessagesLeft DEF UsedInv
  <2>3. ASSUME NEW r \in Used, NEW m \in Message, m.r = r, Deliver(m)
        PROVE  \A i \in DOMAIN msgs' : msgs'[i].r \in Used'
    BY <1>0, <2>3, MessageAdded DEF UsedInv
  <2>4. CASE \E k : Takes(k)
    BY <2>2, <2>4
  <2>5. ASSUME NEW r \in ReqId, CoStep(r) PROVE \A i \in DOMAIN msgs' : msgs'[i].r \in Used'
    <3>1. CASE CoResponds(r)
      <4>1. /\ Msg("response", r, "Accepted") \in Message /\ Msg("response", r, "Accepted").r = r
            /\ Msg("response", r, "Error") \in Message /\ Msg("response", r, "Error").r = r
        BY DEF Msg, Message
      <4>2. r \in Used
        BY <3>1 DEF CoResponds, Co, Used
      <4>3. Deliver(Msg("response", r, "Accepted")) \/ Deliver(Msg("response", r, "Error"))
        BY <3>1 DEF CoResponds
      <4> QED
        BY <2>3, <4>1, <4>2, <4>3
    <3>2. CASE ~CoResponds(r)
      BY <2>1, <2>5, <3>2 DEF CoStep, CoInserts, CoAnswered, CoFails, CoUpdates, CoLaunches,
                              CoDeletes, CoCancelled
    <3> QED
      BY <3>1, <3>2
  <2>6. ASSUME NEW r \in ReqId, WatchDelivers(r) PROVE \A i \in DOMAIN msgs' : msgs'[i].r \in Used'
    <3>1. watch[r].s \in Live \cup Final /\ r \in Used
      BY <2>6, TaskParts DEF WatchDelivers, Watches, Used
    <3>2. Msg("update", r, watch[r].s) \in Message /\ Msg("update", r, watch[r].s).r = r
      BY <3>1 DEF Msg, Message
    <3>3. Deliver(Msg("update", r, watch[r].s))
      BY <2>6 DEF WatchDelivers
    <3> QED
      BY <2>3, <3>1, <3>2, <3>3
  <2>7. CASE Writes
    BY <2>1, <2>4, <2>7, WritesParts
  <2>8. CASE RevokeStep \/ PermissionLost \/ Grant \/ ProcessRestarts \/ ReclaimStep
             \/ ActivityStarts \/ UNCHANGED vars
    BY <2>1, <2>8 DEF PermissionLost, RevokeStep, OnRevoke, RevokeReads, RevokeMoves,
         RevokeTurnsOff, RevokeEnds, Grant, ProcessRestarts, ReclaimStep, Reclaim, ReclaimerStops,
         ActivityStarts, vars
  <2>9. ASSUME NEW r \in ReqId, Poll(r) \/ WatchDeletes(r) \/ ServerStep(r)
        PROVE  msgs' = msgs
    BY <2>9 DEF Poll, WatchDeletes, ServerStep, ServerAccepts, ServerMoves, ServerFails
  <2>10. ASSUME NEW c \in Caller, NEW r \in ReqId, EndStep(c, r) PROVE msgs' = msgs
    BY <2>10 DEF EndStep, EndReads, ServerEnds, EndReturns, EndFails
  <2>11. CASE Disconnects \/ \E r \in ReqId : Starts(r)
    BY <2>1, <2>11, DisconnectsFrame, StartParts
  <2> QED
    BY <2>1, <2>5, <2>6, <2>7, <2>8, <2>9, <2>10, <2>11, NextCases DEF Background, WatchStep
<1>4. rows' \subseteq Used'
  <2>1. CASE rows' \subseteq rows
    BY <1>0, <2>1 DEF UsedInv
  <2>2. ASSUME NEW r \in ReqId, CoStep(r) PROVE rows' \subseteq Used'
    <3>1. rows' \subseteq rows \cup {r} /\ r \in Used
      BY <2>2 DEF CoStep, CoInserts, CoAnswered, CoFails, CoUpdates, CoResponds, CoLaunches,
                  CoDeletes, CoCancelled, Co, Used
    <3> QED
      BY <1>0, <3>1 DEF UsedInv
  <2>3. CASE Calm
    BY <2>1, <2>3 DEF Calm
  <2>4. CASE ProcessRestarts
    BY <2>1, <2>4 DEF ProcessRestarts
  <2>5. ASSUME NEW r \in ReqId, WatchStep(r) \/ ServerStep(r)
        PROVE  rows' \subseteq rows
    BY <2>5 DEF WatchStep, Poll, WatchDelivers, WatchDeletes, ServerStep,
                ServerAccepts, ServerMoves, ServerFails
  <2>6. ASSUME NEW c \in Caller, NEW r \in ReqId, EndStep(c, r) PROVE rows' \subseteq rows
    BY <2>6 DEF EndStep, EndReads, ServerEnds, EndReturns, EndFails
  <2>7. CASE \E r \in ReqId : Starts(r)
    BY <2>1, <2>7, StartParts
  <2> QED
    BY <2>1, <2>2, <2>3, <2>4, <2>5, <2>6, <2>7, CalmSteps, NextCases DEF Background
<1>5. old' \subseteq Used'
  <2>1. CASE ServiceRecreated
    BY <1>0, <2>1 DEF ServiceRecreated
  <2>2. CASE ~ServiceRecreated
    <3>1. old' = old
      BY <2>2, OldFrame
    <3> QED
      BY <1>0, <3>1 DEF UsedInv
  <2> QED
    BY <2>1, <2>2
<1>6. ASSUME NEW c \in Caller, NEW r \in ReqId, end'[c][r] # NoEnd PROVE r \in Used'
  <2>0. CASE r \in Used
    BY <1>0, <2>0
  <2>1. CASE end[c][r] # NoEnd
    BY <2>0, <2>1 DEF UsedInv
  <2>2. CASE end[c][r] = NoEnd
    <3>1. r \in {st.req, plan.req} \/ r \in marked
      BY <1>6, <2>2, EndsQueued
    <3> QED
      BY <2>0, <3>1, AndroidAssumption DEF UsedInv, TypeOK
  <2> QED
    BY <2>1, <2>2
<1>7. plan'.req \in Used' \cup {NoReq} /\ plan'.to.req \in Used' \cup {NoReq}
  <2>1. CASE plan' \in {plan, NoPlan}
    BY <1>0, <2>1 DEF UsedInv, NoPlan, Plan, Disconnected
  <2>2. CASE RevokeReads
    <3>1. plan' = TransitionOnDisconnect(st)
      BY <2>2 DEF RevokeReads
    <3>2. plan'.req \in {st.req, NoReq} /\ plan'.to.req \in {st.req, NoReq}
      BY <3>1 DEF TransitionOnDisconnect, Plan, State, Disconnected
    <3> QED
      BY <1>0, <3>2 DEF UsedInv
  <2>3. CASE OnRevoke \/ RevokeMoves \/ RevokeTurnsOff \/ RevokeEnds \/ PermissionLost \/ Grant
             \/ ProcessRestarts
    BY <2>1, <2>3 DEF OnRevoke, RevokeMoves, RevokeTurnsOff, RevokeEnds, PermissionLost, Grant,
                      ProcessRestarts
  <2>4. CASE Writes \/ Disconnects \/ Background \/ \E r \in ReqId : Starts(r)
    BY <2>1, <2>4, WritesFrame, DisconnectsFrame, BackgroundFrame, StartParts
  <2> QED
    BY <2>2, <2>3, <2>4, NextCases DEF RevokeStep
<1> QED
  BY <1>1, <1>2, <1>3, <1>4, <1>5, <1>6, <1>7 DEF UsedInv

\* What goes wrong is remembered.
LEMMA OddGrows ==
  ASSUME TypeOK, [Next]_vars
  PROVE  odd \subseteq odd'
<1> USE DEF dbVars, serverVars, histVars, taskVars, uiVars
<1>1. ASSUME NEW q \in ReqId, CoStep(q) PROVE odd' = odd
  BY <1>1 DEF CoStep, CoInserts, CoAnswered, CoFails, CoUpdates, CoResponds,
              CoLaunches, CoDeletes, CoCancelled
<1>2. ASSUME NEW q \in ReqId, WatchStep(q) \/ ServerStep(q) PROVE odd' = odd
  BY <1>2 DEF WatchStep, Poll, WatchDelivers, WatchDeletes, ServerStep, ServerAccepts,
              ServerMoves, ServerFails
<1>3. ASSUME NEW d \in Caller, NEW q \in ReqId, EndStep(d, q) PROVE odd \subseteq odd'
  BY <1>3 DEF EndStep, EndReads, ServerEnds, EndReturns, EndFails, Swept
<1>4. CASE ReclaimStep \/ UNCHANGED vars \/ PermissionLost \/ RevokeReads
           \/ RevokeMoves \/ RevokeTurnsOff \/ RevokeEnds \/ Grant \/ ProcessRestarts
  BY <1>4 DEF ReclaimStep, Reclaim, ReclaimerStops, vars, PermissionLost, RevokeReads,
              RevokeMoves, RevokeTurnsOff, RevokeEnds, Grant, ProcessRestarts
<1>5. CASE ActivityStarts \/ OnRevoke
  BY <1>5 DEF ActivityStarts, OnRevoke, Swept, Raced
<1>6. \A m, new : Chooses(m, new) => odd \subseteq odd'
  BY DEF Chooses, Mixed
<1>7. CASE OnConnectResponse
  BY <1>6, <1>7, ResponseCases
<1>8. CASE UpdateReads
  BY <1>6, <1>8, ReadCases
<1>9. CASE Writes /\ ~OnConnectResponse /\ ~UpdateReads
  BY <1>9, WriteParts DEF Writes
<1>10. CASE Disconnects \/ \E q \in ReqId : Starts(q)
  BY <1>10, DisconnectsFrame, StartParts
<1> QED
  BY <1>1, <1>2, <1>3, <1>4, <1>5, <1>7, <1>8, <1>9, <1>10, NextCases
     DEF Background, RevokeStep

\* A coroutine goes on where it was launched.
LEMMA CoStepParts ==
  ASSUME TypeOK, NEW r \in ReqId, CoStep(r)
  PROVE  /\ co[r].ph \notin {"none", "new", "done"} /\ co'[r].ph \notin {"none", "new", "insert"}
         /\ co'[r].ph # "done" => co'[r].cancelled = co[r].cancelled
         /\ \A q \in ReqId : q # r => co'[q] = co[q]
<1>1. \A from : \A to \in {"call", "update", "respond", "launch", "fail", "delete", "done"} :
        Co(r, from, to) => /\ co[r].ph = from /\ co'[r].ph = to
                           /\ to # "done" => co'[r].cancelled = co[r].cancelled
                           /\ \A q \in ReqId : q # r => co'[q] = co[q]
  BY CoParts
<1>2. \E from \in {"insert", "call", "update", "respond", "launch", "fail", "delete"} :
        \E to \in {"call", "update", "respond", "launch", "fail", "delete", "done"} :
          Co(r, from, to)
  BY DEF CoStep, CoInserts, CoAnswered, CoFails, CoUpdates, CoResponds, CoLaunches,
         CoDeletes, CoCancelled
<1> QED
  BY <1>1, <1>2

\* What other steps in the background do to coroutines.
LEMMA BackgroundParts ==
  ASSUME TypeOK, Background
  PROVE  Calm \/ co' = co \/ \E r \in ReqId : CoStep(r)
<1> USE DEF dbVars, serverVars, histVars, taskVars, uiVars
<1>1. ASSUME NEW r \in ReqId, WatchStep(r) \/ ServerStep(r) PROVE co' = co
  BY <1>1 DEF WatchStep, Poll, WatchDelivers, WatchDeletes, ServerStep, ServerAccepts,
              ServerMoves, ServerFails
<1>2. ASSUME NEW c \in Caller, NEW r \in ReqId, EndStep(c, r) PROVE co' = co
  BY <1>2 DEF EndStep, EndReads, ServerEnds, EndReturns, EndFails
<1> QED
  BY <1>1, <1>2, CalmSteps DEF Background

\* Only onConnect makes a request, and it ends with the coroutine launched.
LEMMA NewsStep ==
  ASSUME TypeOK, TypeOK', UsedInv, News, [Next]_vars
  PROVE  News'
<1> USE DEF dbVars, serverVars, histVars, taskVars, uiVars
<1> DEFINE At(k) == k \in {"connect", "launch"}
           Goal == /\ At(turn'.k) => co'[turn'.r].ph = "new" /\ turn'.r \notin old'
                   /\ \A r \in ReqId :
                        /\ co'[r].ph = "new" => At(turn'.k) /\ turn'.r = r
                        /\ co'[r].ph \in {"none", "new"} => ~co'[r].cancelled
<1>1. /\ At(turn.k) => co[turn.r].ph = "new" /\ turn.r \notin old /\ turn.r \in ReqId
      /\ \A r \in ReqId : /\ co[r].ph = "new" => At(turn.k) /\ turn.r = r
                          /\ co[r].ph \in {"none", "new"} => ~co[r].cancelled
  BY TurnParts DEF News
<1>2. /\ \A k, r, x : Msg(k, r, x).k = k /\ Msg(k, r, x).r = r
      /\ Idle.k = "idle"
  BY HandlerTypes
<1>3. Goal
  <2>1. CASE Calm /\ old' = old /\ turn'.r = turn.r /\ (At(turn'.k) <=> At(turn.k))
    BY <1>1, <2>1 DEF Calm
  <2>2. CASE Calm /\ ~At(turn.k) /\ ~At(turn'.k)
    BY <1>1, <2>2 DEF Calm
  <2>3. CASE Writes
    <3>1. Calm /\ old' = old
      BY <2>3, CalmSteps, WritesFrame
    <3>2. CASE ConnectRequests
      BY <1>2, <2>1, <3>1, <3>2, WriteParts
    <3>3. CASE OnConnectResponse
      <4>1. ~At(turn.k)
        BY <3>3, WriteParts DEF Takes
      <4>2. ~At(turn'.k)
        BY <1>2, <3>3, <4>1, ResponseCases DEF Chooses
      <4> QED
        BY <2>2, <3>1, <4>1, <4>2
    <3>4. CASE OnVpnSessionUpdate
      <4>1. Takes("update") /\ (turn' = turn \/ turn' = Head(msgs))
        BY <3>4, WriteParts
      <4>2. ~At(turn.k) /\ Head(msgs).k = "update"
        BY <4>1 DEF Takes
      <4> QED
        BY <2>2, <3>1, <4>1, <4>2
    <3>5. CASE UpdateReads
      <4>1. ~At(turn.k)
        BY <3>5, WriteParts
      <4>2. ~At(turn'.k)
        BY <1>2, <3>5, ReadCases DEF Chooses
      <4> QED
        BY <2>2, <3>1, <4>1, <4>2
    <3>6. CASE Permitted \/ Applies \/ Connects \/ TurnOn \/ TurnedOn
      <4>1. ~At(turn.k) /\ ~At(turn'.k)
        BY <1>2, <3>6, WriteParts
      <4> QED
        BY <2>2, <3>1, <4>1
    <3> QED
      BY <2>3, <3>2, <3>3, <3>4, <3>5, <3>6 DEF Writes
  <2>4. CASE Disconnects
    BY <2>2, <2>4, CalmSteps, DisconnectsFrame
  <2>5. CASE RevokeStep \/ PermissionLost \/ Grant
    <3>1. UNCHANGED <<turn, old>>
      BY <2>5 DEF RevokeStep, OnRevoke, RevokeReads, RevokeMoves, RevokeTurnsOff, RevokeEnds,
                  PermissionLost, Grant
    <3> QED
      BY <2>1, <2>5, <3>1, CalmSteps
  <2>6. CASE ProcessRestarts
    <3>1. \A r \in ReqId : co'[r].ph # "new" /\ ~co'[r].cancelled
      BY <2>6 DEF ProcessRestarts
    <3>2. ~At(turn'.k)
      BY <1>2, <2>6 DEF ProcessRestarts
    <3> QED
      BY <3>1, <3>2
  <2>7. CASE Background
    <3>0. UNCHANGED <<turn, old>>
      BY <2>7, BackgroundFrame
    <3>1. ASSUME NEW r \in ReqId, CoStep(r) PROVE Goal
      <4>1. /\ co[r].ph # "new" /\ co'[r].ph \notin {"none", "new"}
            /\ \A q \in ReqId : q # r => co'[q] = co[q]
        BY <3>1, CoStepParts
      <4>2. At(turn.k) => turn.r # r
        BY <1>1, <4>1
      <4> QED
        BY <1>1, <3>0, <4>1, <4>2
    <3>2. CASE co' = co
      BY <1>1, <3>0, <3>2
    <3> QED
      BY <2>1, <2>7, <3>0, <3>1, <3>2, BackgroundParts
  <2>8. ASSUME NEW r \in ReqId, Starts(r) PROVE Goal
    <3>1. /\ co'[r].cancelled = co[r].cancelled /\ \A q \in ReqId : q # r => co'[q] = co[q]
          /\ old' = old /\ co[r].ph \in {"none", "new"}
      BY <2>8, StartParts
    <3>2. CASE OnConnect(r)
      <4>1. /\ ~At(turn.k) /\ turn' = Msg("connect", r, "none") /\ co[r].ph = "none"
        BY <3>2 DEF OnConnect, Co
      <4>2. co'[r].ph = "new" /\ r \notin old
        BY <2>8, <4>1, StartParts DEF UsedInv, Used
      <4> QED
        BY <1>1, <1>2, <3>1, <4>1, <4>2
    <3>3. CASE co[r].ph = "new"
      <4>1. turn' = Idle /\ co'[r].ph = "insert"
        BY <2>8, <3>3, StartParts
      <4>2. turn.r = r
        BY <1>1, <3>3
      <4>3. \A q \in ReqId : q # r => co[q].ph # "new"
        BY <1>1, <4>2
      <4> QED
        BY <1>1, <1>2, <3>1, <4>1, <4>3
    <3> QED
      BY <2>8, <3>2, <3>3, StartParts
  <2> HIDE DEF Goal
  <2> QED
    BY <2>3, <2>4, <2>5, <2>6, <2>7, <2>8, NextCases
<1>4. ASSUME ~LockFree' PROVE msgs' = <<>>
  <2>0. ~LockFree => msgs = <<>>
    BY DEF News
  <2>1. CASE UNCHANGED <<msgs, revoke>>
    BY <1>4, <2>0, <2>1 DEF LockFree
  <2>2. CASE LockFree /\ revoke' = revoke
    BY <1>4, <2>2 DEF LockFree
  <2>3. CASE Writes
    <3>1. revoke' = revoke /\ (msgs' = msgs \/ msgs # <<>>)
      BY <2>3, WritesFrame, WritesParts DEF Takes
    <3> QED
      BY <2>0, <2>1, <2>2, <3>1
  <2>4. CASE Disconnects
    BY <2>2, <2>4, DisconnectsFrame, DisconnectParts
  <2>5. CASE OnRevoke
    BY <2>5 DEF OnRevoke
  <2>6. CASE RevokeReads \/ RevokeMoves \/ RevokeTurnsOff \/ RevokeEnds
    BY <2>0, <2>6 DEF RevokeReads, RevokeMoves, RevokeTurnsOff, RevokeEnds, LockFree
  <2>7. CASE PermissionLost \/ ProcessRestarts \/ Grant
    BY <1>4, <2>1, <2>7 DEF PermissionLost, ProcessRestarts, Grant, LockFree
  <2>8. CASE Background
    <3>0. revoke' = revoke
      BY <2>8, BackgroundFrame
    <3>1. ASSUME NEW r \in ReqId, CoStep(r) \/ WatchStep(r) \/ ServerStep(r)
          PROVE  msgs' = msgs \/ LockFree
      BY <3>1 DEF CoStep, CoInserts, CoAnswered, CoFails, CoUpdates, CoResponds, CoLaunches,
           CoDeletes, CoCancelled, WatchStep, Poll, WatchDelivers, WatchDeletes, ServerStep,
           ServerAccepts, ServerMoves, ServerFails, Deliver
    <3>2. ASSUME NEW c \in Caller, NEW r \in ReqId, EndStep(c, r) PROVE msgs' = msgs
      BY <3>2 DEF EndStep, EndReads, ServerEnds, EndReturns, EndFails
    <3>3. CASE ReclaimStep \/ ActivityStarts \/ UNCHANGED vars
      BY <2>1, <3>3 DEF ReclaimStep, Reclaim, ReclaimerStops, ActivityStarts, vars
    <3> QED
      BY <2>1, <2>2, <2>8, <3>0, <3>1, <3>2, <3>3 DEF Background
  <2>9. CASE \E r \in ReqId : Starts(r)
    BY <2>1, <2>9, StartParts
  <2> QED
    BY <2>3, <2>4, <2>5, <2>6, <2>7, <2>8, <2>9, NextCases DEF RevokeStep
<1> QED
  BY <1>3, <1>4 DEF News

\* A step of a handler finds the lock free, unless onRevoke came between.
LEMMA WritesUnlocked ==
  ASSUME TypeOK, News, Locks, "raced" \notin odd, Writes
  PROVE  LockFree /\ LockFree' /\ st.k # "Disconnecting"
<1>1. turn.k # "idle" \/ msgs # <<>>
  <2>1. CASE OnConnectResponse \/ OnVpnSessionUpdate
    BY <2>1, WriteParts DEF Takes
  <2>2. CASE ~OnConnectResponse /\ ~OnVpnSessionUpdate
    BY <2>2, WriteParts DEF Writes
  <2> QED
    BY <2>1, <2>2
<1>2. LockFree
  BY <1>1 DEF News, Locks
<1> QED
  BY <1>2, WritesFrame DEF Locks, LockFree

\* Every step keeps handlers and onRevoke apart, or has odd say that it did not.
LEMMA LockStep ==
  ASSUME TypeOK, TypeOK', News, Locks, [Next]_vars
  PROVE  Locks'
<1> USE DEF dbVars, serverVars, histVars, taskVars, uiVars
<1> DEFINE Frozen == \A r \in ReqId \ old' :
                       co'[r].ph \in {"none", "new", "done"} \/ co'[r].cancelled
           Goal == /\ Finds'
                   /\ turn'.k # "idle" => LockFree'
                   /\ revoke' \in {"turnOff", "end"} <=> st'.k = "Disconnecting"
                   /\ revoke' = "moves" => plan' = TransitionOnDisconnect(st')
                   /\ revoke' \in {"cancelled", "moves"} => st' # Disconnected /\ Frozen
<1> SUFFICES ASSUME "raced" \notin odd' PROVE Goal
  <2>1. Disconnected' = Disconnected
    BY DEF Disconnected
  <2>2. TransitionOnDisconnect(st)' = TransitionOnDisconnect(st')
    BY DEF TransitionOnDisconnect, Plan, State, Disconnected
  <2> QED
    BY <2>1, <2>2 DEF Locks
<1>0. "raced" \notin odd
  BY OddGrows
<1>1. /\ Finds /\ (turn.k # "idle" => LockFree)
      /\ revoke \in {"turnOff", "end"} <=> st.k = "Disconnecting"
      /\ revoke = "moves" => plan = TransitionOnDisconnect(st)
      /\ revoke \in {"cancelled", "moves"} =>
           /\ st # Disconnected
           /\ \A r \in ReqId \ old : co[r].ph \in {"none", "new", "done"} \/ co[r].cancelled
  BY <1>0 DEF Locks
<1>2. /\ Disconnected.k = "Disconnected" /\ \A k, x : State(k, x).k = k /\ State(k, x).req = x
      /\ \A k, r, x : Msg(k, r, x).k = k /\ Msg(k, r, x).r = r
      /\ Idle.k = "idle" /\ Idle.r = NoReq
  BY HandlerTypes DEF Disconnected, State
<1>3. CASE Writes
  <2>0. LockFree /\ LockFree' /\ st.k # "Disconnecting"
    BY <1>0, <1>3, WritesUnlocked
  <2>1. ASSUME st'.k # "Disconnecting", Finds' PROVE Goal
    BY <2>0, <2>1 DEF LockFree
  <2>2. ASSUME st' = st, turn'.k \in {"update", "read", "apply"},
               ~IsDisconnectingOrDisconnected(st), turn.k \notin {"ready", "connecting"}
        PROVE  Goal
    <3>1. Finds'
      BY <1>1, <2>2 DEF Finds, IsDisconnectingOrDisconnected
    <3> QED
      BY <2>0, <2>1, <2>2, <3>1
  <2>3. ASSUME st' = st, turn'.k = "idle", turn.k \notin {"ready", "connecting"}
        PROVE  Goal
    <3>1. Finds'
      BY <1>1, <2>3 DEF Finds
    <3> QED
      BY <2>0, <2>1, <2>3, <3>1
  <2>4. CASE ConnectRequests
    <3>1. st' = State("Requesting", turn'.r) /\ turn'.k = "launch"
      BY <1>2, <2>4, WriteParts
    <3>2. Finds'
      BY <1>2, <3>1 DEF Finds, State
    <3> QED
      BY <1>2, <2>1, <3>1, <3>2
  <2>5. CASE OnConnectResponse
    <3>1. turn.k = "idle" /\ st' = st
      BY <2>5, WriteParts DEF Takes
    <3>2. turn'.k = "idle" \/ (turn'.k = "apply" /\ ~IsDisconnectingOrDisconnected(st))
      BY <1>2, <2>5, <3>1, ResponseCases DEF Chooses
    <3> QED
      BY <2>2, <2>3, <3>1, <3>2
  <2>6. CASE OnVpnSessionUpdate
    <3>1. /\ turn.k = "idle" /\ st' = st /\ Head(msgs).k = "update"
          /\ turn' = turn \/ (~IsDisconnectingOrDisconnected(st) /\ turn' = Head(msgs))
      BY <2>6, WriteParts DEF Takes
    <3> QED
      BY <2>2, <2>3, <3>1
  <2>7. CASE Permitted
    <3>1. CASE turn.k = "update"
      <4>1. st' = st /\ turn'.k = "read"
        BY <1>2, <2>7, <3>1, WriteParts
      <4>2. ~IsDisconnectingOrDisconnected(st)
        BY <1>1, <3>1 DEF Finds
      <4> QED
        BY <2>2, <3>1, <4>1, <4>2
    <3>2. CASE turn.k = "ready"
      <4>1. st' = st /\ turn'.k = "connecting" /\ turn'.r = turn.r
        BY <1>2, <2>7, <3>2, WriteParts
      <4>2. st = State("ServerReady", turn.r)
        BY <1>1, <3>2 DEF Finds
      <4>3. Finds'
        BY <1>2, <4>1, <4>2 DEF Finds, State
      <4> QED
        BY <1>2, <2>1, <4>1, <4>2, <4>3
    <3> QED
      BY <2>7, <3>1, <3>2, WriteParts
  <2>8. CASE UpdateReads
    <3>1. turn.k = "read" /\ st' = st
      BY <2>8, WriteParts
    <3>2. turn'.k \in {"idle", "apply"}
      BY <1>2, <2>8, ReadCases DEF Chooses
    <3>3. ~IsDisconnectingOrDisconnected(st)
      BY <1>1, <3>1 DEF Finds
    <3> QED
      BY <2>2, <2>3, <3>1, <3>2, <3>3
  <2>9. CASE Applies
    <3>1. /\ turn.s \in Live \cup {"Disconnected"} /\ st' = State(turn.s, turn.r)
          /\ turn.s = "ServerReady" => turn' = Msg("ready", turn.r, "none")
          /\ turn.s # "ServerReady" => turn' = Idle
      BY <2>9, WriteParts, TurnParts
    <3>2. turn.s # "Disconnecting"
      BY <3>1, AndroidAssumption DEF Live
    <3>3. CASE turn.s = "ServerReady"
      <4>1. turn'.k = "ready" /\ turn'.r = turn.r /\ st' = State("ServerReady", turn.r)
        BY <1>2, <3>1, <3>3
      <4>2. Finds'
        BY <1>2, <4>1 DEF Finds, State
      <4> QED
        BY <1>2, <2>1, <3>1, <3>2, <4>2
    <3>4. CASE turn.s # "ServerReady"
      <4>1. turn'.k = "idle" /\ st'.k = turn.s
        BY <1>2, <3>1, <3>4
      <4>2. Finds'
        BY <3>4, <4>1 DEF Finds
      <4> QED
        BY <2>1, <3>2, <4>1, <4>2
    <3> QED
      BY <3>3, <3>4
  <2>10. CASE Connects
    <3>1. st' = State("Connecting", turn'.r) /\ turn'.k = "establish"
      BY <1>2, <2>10, WriteParts
    <3>2. Finds'
      BY <1>2, <3>1 DEF Finds, State
    <3> QED
      BY <1>2, <2>1, <3>1, <3>2
  <2>11. CASE TurnOn
    <3>1. st' = st /\ turn'.k = "up" /\ turn'.r = turn.r /\ turn.k = "establish"
      BY <1>2, <2>11, WriteParts
    <3>2. st' = State("Connecting", turn'.r)
      BY <1>1, <3>1 DEF Finds
    <3>3. Finds'
      BY <1>2, <3>1, <3>2 DEF Finds, State
    <3> QED
      BY <1>2, <2>1, <3>2, <3>3
  <2>12. CASE TurnedOn
    <3>1. st'.k = "Connected" /\ turn'.k = "idle"
      BY <1>2, <2>12, WriteParts
    <3>2. Finds'
      BY <3>1 DEF Finds
    <3> QED
      BY <2>1, <3>1, <3>2
  <2> HIDE DEF Goal
  <2> QED
    BY <1>3, <2>4, <2>5, <2>6, <2>7, <2>8, <2>9, <2>10, <2>11, <2>12 DEF Writes
<1>4. ASSUME st' = Disconnected, turn'.k = "idle", revoke' \in {"none", "due"} PROVE Goal
  <2>1. Finds'
    BY <1>2, <1>4 DEF Finds
  <2> QED
    BY <1>2, <1>4, <2>1
<1>5. CASE Disconnects
  BY <1>4, <1>5, DisconnectsFrame, DisconnectParts DEF LockFree
<1>6. ASSUME UNCHANGED <<st, turn>>, revoke' \in {"none", "due"}, LockFree PROVE Goal
  <2>1. Finds'
    BY <1>1, <1>6 DEF Finds
  <2> QED
    BY <1>1, <1>6, <2>1 DEF LockFree
<1>7. CASE OnRevoke
  <2>0. UNCHANGED <<st, turn, old>> /\ revoke = "due"
    BY <1>7 DEF OnRevoke
  <2>1. CASE st = Disconnected
    BY <1>6, <1>7, <2>0, <2>1 DEF OnRevoke, LockFree
  <2>2. CASE st # Disconnected
    <3>1. turn.k = "idle" /\ revoke' = "cancelled" /\ CancelChildren
      BY <1>7, <2>2 DEF OnRevoke, Raced
    <3>2. Frozen
      BY <2>0, <3>1, CancelParts
    <3>3. Finds'
      BY <1>1, <2>0 DEF Finds
    <3> QED
      BY <1>1, <2>0, <2>2, <3>1, <3>2, <3>3
  <2> QED
    BY <2>1, <2>2
<1>7a. CASE RevokeReads
  <2>1. /\ UNCHANGED <<st, turn, old, co>> /\ plan' = TransitionOnDisconnect(st)
        /\ revoke = "cancelled" /\ revoke' = "moves" /\ turn.k = "idle"
    BY <1>1, <1>7a DEF RevokeReads, LockFree
  <2>2. Finds' /\ Frozen
    BY <1>1, <2>1 DEF Finds
  <2> QED
    BY <1>1, <2>1, <2>2
<1>8. CASE RevokeMoves
  <2>0. /\ turn.k = "idle" /\ turn' = turn /\ st.k # "Disconnecting"
        /\ st' = TransitionOnDisconnect(st).to
        /\ revoke' = IF TransitionOnDisconnect(st).off THEN "turnOff" ELSE "none"
    BY <1>1, <1>8 DEF RevokeMoves, LockFree
  <2>1. CASE st.k \in {"Connecting", "Connected"}
    <3>1. st' = State("Disconnecting", st.req) /\ revoke' = "turnOff"
      BY <2>0, <2>1 DEF TransitionOnDisconnect, Plan
    <3>2. Finds'
      BY <1>2, <2>0, <3>1 DEF Finds
    <3> QED
      BY <1>2, <2>0, <3>1, <3>2
  <2>2. CASE st.k \notin {"Connecting", "Connected"}
    <3>1. st' = Disconnected /\ revoke' = "none"
      BY <2>0, <2>2 DEF TransitionOnDisconnect, Plan
    <3> QED
      BY <1>4, <2>0, <3>1
  <2> QED
    BY <2>1, <2>2
<1>9. CASE RevokeTurnsOff
  <2>1. UNCHANGED <<st, turn>> /\ revoke = "turnOff" /\ revoke' = "end" /\ turn.k = "idle"
    BY <1>1, <1>9 DEF RevokeTurnsOff, LockFree
  <2>2. Finds'
    BY <1>1, <2>1 DEF Finds
  <2> QED
    BY <1>1, <2>1, <2>2
<1>10. CASE RevokeEnds
  BY <1>1, <1>4, <1>10 DEF RevokeEnds, LockFree
<1>11. CASE PermissionLost \/ Grant
  BY <1>6, <1>11 DEF PermissionLost, Grant, LockFree
<1>12. CASE ProcessRestarts
  BY <1>2, <1>4, <1>12 DEF ProcessRestarts
<1>13. ASSUME NEW r \in ReqId, Starts(r) PROVE Goal
  <2>0. UNCHANGED <<st, revoke>>
    BY <1>13, StartParts
  <2>1. CASE turn' = Msg("connect", r, "none") /\ st = Disconnected
    <3>1. LockFree
      BY <1>1, <1>2, <2>1 DEF LockFree, TypeOK
    <3>2. Finds'
      BY <1>2, <2>0, <2>1 DEF Finds, Disconnected
    <3> QED
      BY <1>1, <2>0, <3>1, <3>2 DEF LockFree
  <2>2. CASE turn' = Idle /\ turn.k = "launch"
    <3>1. LockFree /\ st.k = "Requesting"
      BY <1>1, <1>2, <2>2 DEF Finds
    <3>2. Finds'
      BY <1>2, <2>0, <2>2, <3>1 DEF Finds
    <3> QED
      BY <1>1, <2>0, <3>1, <3>2 DEF LockFree
  <2> QED
    BY <1>13, <2>1, <2>2, StartParts
<1>14. CASE Background
  <2>0. UNCHANGED <<st, turn, revoke, plan, old>>
    BY <1>14, BackgroundFrame
  <2>1. Finds' /\ (LockFree <=> LockFree')
    BY <1>1, <2>0 DEF Finds, LockFree
  <2>2. revoke \in {"cancelled", "moves"} => Frozen
    <3>1. ASSUME revoke \in {"cancelled", "moves"}, NEW q \in ReqId, CoStep(q) PROVE Frozen
      BY <1>1, <2>0, <3>1, CoStepParts
    <3>2. CASE co' = co \/ Calm
      BY <1>1, <2>0, <3>2 DEF Calm
    <3> QED
      BY <1>14, <3>1, <3>2, BackgroundParts
  <2> QED
    BY <1>1, <2>0, <2>1, <2>2
<1> HIDE DEF Goal
<1> QED
  BY <1>3, <1>5, <1>7, <1>7a, <1>8, <1>9, <1>10, <1>11, <1>12, <1>13, <1>14, NextCases
     DEF RevokeStep

-----------------------------------------------------------------------------
\* The session in use is not ended

\* As long as nothing has gone wrong, the session of the state is of the
\* orchestrator there is, a handler is to write no other, and those in use are
\* neither marked nor being ended.
Spared ==
  odd = {} =>
    /\ st.req \notin old
    /\ turn.k = "apply" => turn.r \in {st.req, NoReq}
    /\ \A r \in InUse : r \notin marked /\ \A c \in Caller : end[c][r] = NoEnd

\* Unless something goes wrong, no step but a new connection gives the state
\* another request.
LEMMA SameRequest ==
  ASSUME TypeOK, Locks, Spared, [Next]_vars, odd' = {}, ~ConnectRequests
  PROVE  /\ st'.req \in {st.req, NoReq}
         /\ ~IsDisconnectingOrDisconnected(st') =>
              ~IsDisconnectingOrDisconnected(st) /\ st'.req = st.req
<1> USE DEF dbVars, serverVars, histVars, taskVars, uiVars
<1> DEFINE Goal == /\ st'.req \in {st.req, NoReq}
                   /\ ~IsDisconnectingOrDisconnected(st') =>
                        ~IsDisconnectingOrDisconnected(st) /\ st'.req = st.req
<1> SUFFICES Goal
  OBVIOUS
<1>0. /\ Disconnected.req = NoReq /\ Disconnected.k = "Disconnected" /\ NoReq \notin ReqId
      /\ \A k, x : State(k, x).k = k /\ State(k, x).req = x
  BY AndroidAssumption DEF Disconnected, State
<1>00. odd = {} /\ Finds
  BY OddGrows DEF Locks
<1>1. CASE st' \in {st, Disconnected}
  BY <1>0, <1>1 DEF IsDisconnectingOrDisconnected
<1>2. CASE Writes
  <2>1. CASE Applies
    <3>1. /\ turn.k = "apply" /\ st' = State(turn.s, turn.r)
          /\ turn.r \in {st.req, NoReq}
          /\ ~IsDisconnectingOrDisconnected(st)
      BY <1>00, <2>1, WriteParts DEF Spared, Finds
    <3>2. \/ turn.r = NoReq /\ turn.s = "Disconnected"
          \/ turn.r \in ReqId
      BY <3>1, TurnParts
    <3> QED
      BY <1>0, <3>1, <3>2 DEF IsDisconnectingOrDisconnected
  <2>2. CASE Connects
    <3>1. st = State("ServerReady", turn.r) /\ st' = State("Connecting", turn.r)
      BY <1>00, <2>2, WriteParts DEF Finds
    <3> QED
      BY <1>0, <3>1 DEF IsDisconnectingOrDisconnected
  <2>3. CASE TurnedOn
    <3>1. st = State("Connecting", turn.r) /\ st' = State("Connected", turn.r)
      BY <1>00, <2>3, WriteParts DEF Finds
    <3> QED
      BY <1>0, <3>1 DEF IsDisconnectingOrDisconnected
  <2>4. CASE ~Applies /\ ~Connects /\ ~TurnedOn
    <3>1. st' = st
      BY <1>2, <2>4, WriteParts DEF Writes
    <3> QED
      BY <1>1, <3>1
  <2> QED
    BY <2>1, <2>2, <2>3, <2>4
<1>3. CASE PermissionLost \/ RevokeReads \/ RevokeTurnsOff \/ Grant \/ OnRevoke
  BY <1>1, <1>3 DEF PermissionLost, RevokeReads, RevokeTurnsOff, Grant, OnRevoke
<1>4. CASE Disconnects
  BY <1>1, <1>4, DisconnectsFrame, DisconnectParts
<1>5. CASE ProcessRestarts \/ RevokeEnds
  BY <1>1, <1>5 DEF ProcessRestarts, RevokeEnds
<1>6. CASE RevokeMoves
  <2>1. st' \in {st, Disconnected, State("Disconnecting", st.req)}
    BY <1>00, <1>6, TransitionParts DEF RevokeMoves, Locks
  <2>2. st' = State("Disconnecting", st.req) => Goal
    BY <1>0 DEF IsDisconnectingOrDisconnected
  <2> QED
    BY <1>1, <2>1, <2>2
<1>7. CASE Background \/ \E q \in ReqId : Starts(q)
  BY <1>1, <1>7, BackgroundFrame, StartParts
<1> HIDE DEF Goal
<1> QED
  BY <1>2, <1>3, <1>4, <1>5, <1>6, <1>7, NextCases DEF RevokeStep

\* Nothing but a new connection makes a coroutine, or takes back that it was
\* cancelled.
LEMMA SameCoroutines ==
  ASSUME TypeOK, [Next]_vars, ~\E q \in ReqId : OnConnect(q), NEW r \in ReqId,
         co'[r].ph \notin {"none", "done"}, ~co'[r].cancelled
  PROVE  co[r].ph \notin {"none", "done"} /\ ~co[r].cancelled
<1>1. CASE Calm
  BY <1>1 DEF Calm
<1>2. ASSUME NEW q \in ReqId, CoStep(q) PROVE co[r].ph \notin {"none", "done"} /\ ~co[r].cancelled
  BY <1>2, CoStepParts
<1>3. CASE co' = co
  BY <1>3
<1>4. CASE ProcessRestarts
  BY <1>4 DEF ProcessRestarts
<1>5. ASSUME NEW q \in ReqId, Starts(q) PROVE co[r].ph \notin {"none", "done"} /\ ~co[r].cancelled
  BY <1>5, StartParts
<1> QED
  BY <1>1, <1>2, <1>3, <1>4, <1>5, BackgroundParts, CalmSteps, NextCases

\* A row is marked with all others, or not at all.
LEMMA MarkedStep ==
  ASSUME TypeOK, [Next]_vars
  PROVE  \/ marked' \subseteq marked
         \/ marked' = rows /\ ((Swept /\ UNCHANGED <<st, co>>) \/ ProcessRestarts)
<1> USE DEF dbVars, serverVars, histVars, taskVars, uiVars
<1>1. ASSUME NEW r \in ReqId, CoStep(r) PROVE marked' \subseteq marked
  BY <1>1 DEF CoStep, CoInserts, CoAnswered, CoFails, CoUpdates, CoResponds,
              CoLaunches, CoDeletes, CoCancelled
<1>2. ASSUME NEW r \in ReqId, WatchStep(r) \/ ServerStep(r) PROVE marked' \subseteq marked
  BY <1>2 DEF WatchStep, Poll, WatchDelivers, WatchDeletes, ServerStep, ServerAccepts,
              ServerMoves, ServerFails
<1>3. ASSUME NEW c \in Caller, NEW r \in ReqId, EndStep(c, r)
      PROVE  marked' \subseteq marked \/ (marked' = rows /\ Swept /\ UNCHANGED <<st, co>>)
  BY <1>3 DEF EndStep, EndReads, ServerEnds, EndReturns, EndFails
<1>4. CASE ReclaimStep \/ UNCHANGED vars
  BY <1>4 DEF ReclaimStep, Reclaim, ReclaimerStops, vars
<1>5. CASE Writes \/ Disconnects \/ \E r \in ReqId : Starts(r)
  BY <1>5, WritesFrame, DisconnectsFrame, StartParts
<1>6. CASE PermissionLost \/ RevokeStep \/ Grant
  BY <1>6 DEF PermissionLost, RevokeStep, OnRevoke, RevokeReads, RevokeMoves, RevokeTurnsOff,
              RevokeEnds, Grant
<1>7. CASE ActivityStarts
  BY <1>7 DEF ActivityStarts
<1>8. CASE ProcessRestarts
  BY <1>8 DEF ProcessRestarts
<1> QED
  BY <1>1, <1>2, <1>3, <1>4, <1>5, <1>6, <1>7, <1>8, NextCases DEF Background

\* A handler that is to write a state is to write one of the request there is.
LEMMA ApplyStep ==
  ASSUME TypeOK, Locks, Spared, [Next]_vars, odd' = {}, turn'.k = "apply"
  PROVE  turn'.r \in {st'.req, NoReq}
<1> USE DEF dbVars, serverVars, histVars, taskVars, uiVars
<1>0. odd = {} /\ (turn.k = "apply" => turn.r \in {st.req, NoReq})
      /\ (turn.k # "idle" => LockFree)
  BY OddGrows DEF Spared, Locks
<1>1. /\ \A k, r, x : Msg(k, r, x).k = k /\ Msg(k, r, x).r = r
      /\ Idle.k = "idle" /\ Disconnected.req = NoReq
  BY HandlerTypes DEF Disconnected
<1>2. CASE UNCHANGED <<st, turn>>
  BY <1>0, <1>2
<1>3. \A m, new : Chooses(m, new) => turn'.r \in {st.req, NoReq}
  BY <1>1 DEF Chooses, Mixed
<1>4. CASE OnConnectResponse
  BY <1>2, <1>3, <1>4, ResponseCases, WriteParts
<1>5. CASE UpdateReads
  BY <1>1, <1>3, <1>5, ReadCases, WriteParts
<1>6. CASE OnVpnSessionUpdate
  BY <1>6, WriteParts DEF Takes
<1>7. CASE Writes /\ ~OnConnectResponse /\ ~UpdateReads /\ ~OnVpnSessionUpdate
  BY <1>1, <1>7, WriteParts DEF Writes
<1>8. CASE Disconnects
  BY <1>8, DisconnectsFrame
<1>9. CASE RevokeStep
  BY <1>0, <1>2, <1>9 DEF RevokeStep, OnRevoke, RevokeReads, RevokeMoves, RevokeTurnsOff,
                          RevokeEnds, LockFree
<1>10. CASE PermissionLost \/ Grant
  BY <1>2, <1>10 DEF PermissionLost, Grant
<1>11. CASE ProcessRestarts
  BY <1>1, <1>11 DEF ProcessRestarts
<1>12. CASE Background
  BY <1>2, <1>12, BackgroundFrame
<1>13. CASE \E r \in ReqId : Starts(r)
  BY <1>1, <1>13, StartParts
<1> QED
  BY <1>4, <1>5, <1>6, <1>7, <1>8, <1>9, <1>10, <1>11, <1>12, <1>13, NextCases

\* No step but a new connection puts a session in use.
LEMMA SparedStep ==
  ASSUME TypeOK, TypeOK', UsedInv, News, Locks, Spared, [Next]_vars
  PROVE  Spared'
<1> USE DEF dbVars, serverVars, histVars, taskVars, uiVars
<1> DEFINE Goal == /\ st'.req \notin old'
                   /\ \A r \in InUse' : r \notin marked' /\ \A c \in Caller : end'[c][r] = NoEnd
<1>z. NoEnd' = NoEnd /\ NoReq' = NoReq
  BY DEF NoEnd
<1> SUFFICES ASSUME odd' = {} PROVE Goal
  BY <1>z, ApplyStep DEF Spared
<1>0. /\ odd = {} /\ st.req \notin old /\ NoReq \notin ReqId
      /\ \A r \in InUse : r \notin marked /\ \A c \in Caller : end[c][r] = NoEnd
  BY OddGrows, AndroidAssumption DEF Spared
<1>00. /\ Disconnected.req = NoReq /\ IsDisconnectingOrDisconnected(Disconnected)
       /\ \A k, x : State(k, x).k = k /\ State(k, x).req = x
  BY DEF Disconnected, State, IsDisconnectingOrDisconnected
<1>1. ASSUME NEW q \in ReqId, OnConnect(q) PROVE Goal
  <2>1. /\ q \notin Used /\ UNCHANGED <<st, marked, end, old>>
        /\ \A r \in ReqId : r # q => co'[r] = co[r]
    BY <1>1, StartParts DEF Starts, OnConnect, Co, Used
  <2>2. InUse' \subseteq InUse \cup {q}
    BY <2>1 DEF InUse
  <2>3. q \notin marked /\ \A c \in Caller : end[c][q] = NoEnd
    BY <2>1 DEF UsedInv, TypeOK
  <2> QED
    BY <1>0, <2>1, <2>2, <2>3
<1>2. CASE ConnectRequests
  <2>1. /\ turn.k = "connect" /\ turn.r \in ReqId /\ st'.req = turn.r
    BY <1>00, <1>2, WriteParts
  <2>2. UNCHANGED <<marked, end, old, co>>
    BY <1>2, WritesFrame DEF Writes
  <2>3. co[turn.r].ph = "new" /\ ~co[turn.r].cancelled /\ turn.r \notin old
    BY <2>1 DEF News
  <2>4. InUse' \subseteq InUse
    BY <2>1, <2>2, <2>3 DEF InUse
  <2> QED
    BY <1>0, <2>1, <2>2, <2>3, <2>4
<1>3. CASE ~ConnectRequests /\ ~\E q \in ReqId : OnConnect(q)
  <2>1. /\ st'.req \in {st.req, NoReq}
        /\ ~IsDisconnectingOrDisconnected(st') =>
             ~IsDisconnectingOrDisconnected(st) /\ st'.req = st.req
    BY <1>3, SameRequest
  <2>2. InUse' \subseteq InUse
    BY <1>3, <2>1, SameCoroutines DEF InUse
  <2>3. st'.req \notin old'
    <3>1. CASE ServiceRecreated
      <4>1. st' = Disconnected
        BY <3>1, DisconnectParts DEF ServiceRecreated
      <4> QED
        BY <1>0, <1>00, <4>1 DEF TypeOK
    <3>2. CASE ~ServiceRecreated
      BY <1>0, <2>1, <3>2, OldFrame DEF TypeOK
    <3> QED
      BY <3>1, <3>2
  <2>4. ASSUME NEW r \in InUse' PROVE r \notin marked'
    <3>1. CASE marked' \subseteq marked
      BY <1>0, <2>2, <3>1
    <3>2. CASE marked' = rows /\ Swept
      BY <2>2, <3>2 DEF Swept
    <3>3. CASE ProcessRestarts
      BY <1>00, <3>3 DEF ProcessRestarts, InUse
    <3> QED
      BY <3>1, <3>2, <3>3, MarkedStep
  <2>5. ASSUME NEW r \in InUse', NEW c \in Caller, end'[c][r] # NoEnd PROVE FALSE
    <3>1. r \in ReqId /\ end[c][r] = NoEnd
      BY <1>0, <2>2 DEF InUse
    <3>2. r = st.req /\ (Disconnects \/ RevokeMoves) /\ r \notin old
      <4>1. RevokeMoves => plan = TransitionOnDisconnect(st)
        BY <1>0 DEF RevokeMoves, Locks
      <4>2. (r = st.req /\ Disconnects) \/ (r = plan.req /\ RevokeMoves)
        BY <1>0, <2>2, <2>5, <3>1, EndsQueued
      <4> QED
        BY <1>0, <3>1, <4>1, <4>2, TransitionParts
    <3>3. co[r].ph = "new" => turn.k \in {"connect", "launch"}
      BY <3>1 DEF News
    <3>4. (co'[r].ph \in {"none", "done"} \/ co'[r].cancelled)
          /\ IsDisconnectingOrDisconnected(st')
      <4>1. CASE Disconnects
        <5>1. OnDisconnectInner /\ co[r].ph # "new"
          BY <3>3, <4>1, DisconnectsFrame
        <5>2. /\ st' = Disconnected /\ co'[r].ph = co[r].ph
              /\ co[r].ph \notin {"none", "new", "done"} => co'[r].cancelled
          BY <2>5, <3>1, <3>2, <5>1, DisconnectParts
        <5> QED
          BY <1>00, <5>1, <5>2
      <4>2. CASE RevokeMoves
        <5>1. /\ st' = TransitionOnDisconnect(st).to /\ co' = co /\ revoke = "moves"
          BY <1>0, <4>2 DEF RevokeMoves, Locks
        <5>2. /\ turn.k = "idle"
              /\ co[r].ph \in {"none", "new", "done"} \/ co[r].cancelled
          BY <1>0, <3>1, <3>2, <5>1 DEF Locks, LockFree
        <5> QED
          BY <3>3, <5>1, <5>2, TransitionParts
      <4> QED
        BY <3>2, <4>1, <4>2
    <3> QED
      BY <3>4 DEF InUse
  <2> QED
    BY <2>3, <2>4, <2>5
<1> QED
  BY <1>1, <1>2, <1>3
-----------------------------------------------------------------------------
\* The tunnel is what is shown

\* Nothing more will be sent of a request.
Still(r) == watch[r].ph = "off" /\ co[r].ph = "done"

\* ServerReady is the last message of a request.
ReadyLast ==
  \A i \in DOMAIN msgs :
    msgs[i].k = "update" /\ msgs[i].s = "ServerReady" =>
      Still(msgs[i].r) /\ \A j \in DOMAIN msgs : j > i => msgs[j].r # msgs[i].r

\* Nothing more will be told the main thread of a request.
Silent(r) == Still(r) /\ \A j \in DOMAIN msgs : msgs[j].r # r

\* From ServerReady on, nothing is left to come of a session: neither to a handler
\* that has it in hand, nor once it is shown, so that only a message of another
\* request could move what is connecting or connected.
Quiet ==
  /\ turn.k \in {"update", "read", "apply"} /\ turn.s = "ServerReady" /\ "raced" \notin odd =>
       Silent(turn.r)
  /\ odd \subseteq {"swept"} =>
       /\ st.k \in {"ServerReady", "Connecting", "Connected"} =>
            Silent(st.req) /\ (turn.k \in {"update", "read"} => turn.r # st.req)
       /\ turn.k = "apply" => st.k \notin {"Connecting", "Connected"}

\* The tunnel is as it is shown, but while turnOnVPN and onRevoke have changed it
\* and not yet the state.
Tunnel ==
  odd \subseteq {"swept"} =>
    /\ turn.k # "up" /\ revoke \in {"none", "due", "cancelled", "moves"} =>
         tun = IF st.k = "Connected" THEN st.req ELSE NoReq
    /\ turn.k = "up" => tun = turn.r
    /\ revoke = "end" => tun = NoReq

\* What is still stays so.
LEMMA StillStep ==
  ASSUME TypeOK, [Next]_vars, NEW r \in ReqId, Still(r)
  PROVE  Still(r)'
<1> USE DEF dbVars, serverVars, histVars, taskVars, uiVars
<1>1. CASE Calm
  BY <1>1 DEF Calm, Still
<1>2. ASSUME NEW q \in ReqId, Starts(q) PROVE Still(r)'
  <2>1. /\ co[q].ph \in {"none", "new"} /\ watch' = watch
        /\ \A p \in ReqId : p # q => co'[p] = co[p]
    BY <1>2, StartParts
  <2> QED
    BY <2>1 DEF Still
<1>3. ASSUME NEW q \in ReqId, CoStep(q) PROVE Still(r)'
  <2>0. \A from : \A to \in {"call", "update", "respond", "launch", "fail", "delete", "done"} :
          Co(q, from, to) => /\ co[q].ph = from /\ \A p \in ReqId : p # q => co'[p] = co[p]
    BY CoParts
  <2>1. \E from \in {"insert", "call", "update", "respond", "launch", "fail", "delete"} :
          \E to \in {"call", "update", "respond", "launch", "fail", "delete", "done"} :
            Co(q, from, to)
    BY <1>3 DEF CoStep, CoInserts, CoAnswered, CoFails, CoUpdates, CoResponds, CoLaunches,
                CoDeletes, CoCancelled
  <2>2. r # q /\ co'[r] = co[r]
    BY <2>0, <2>1 DEF Still
  <2>3. watch' = watch \/ watch' = [watch EXCEPT ![q] = Watch("on", "none")]
    BY <1>3 DEF CoStep, CoInserts, CoAnswered, CoFails, CoUpdates, CoResponds, CoLaunches,
                CoDeletes, CoCancelled
  <2> QED
    BY <2>2, <2>3 DEF Still, TypeOK
<1>4. ASSUME NEW q \in ReqId, WatchStep(q) PROVE Still(r)'
  <2>1. /\ watch[q].ph # "off" /\ co' = co
        /\ \E x : watch' = [watch EXCEPT ![q] = x]
    BY <1>4 DEF WatchStep, Poll, WatchDelivers, WatchDeletes
  <2> QED
    BY <2>1 DEF Still, TypeOK
<1>5. ASSUME NEW q \in ReqId, ServerStep(q) PROVE Still(r)'
  BY <1>5 DEF ServerStep, ServerAccepts, ServerMoves, ServerFails, Still
<1>6. ASSUME NEW c \in Caller, NEW q \in ReqId, EndStep(c, q) PROVE Still(r)'
  BY <1>6 DEF EndStep, EndReads, ServerEnds, EndReturns, EndFails, Still
<1>7. CASE ProcessRestarts
  BY <1>7 DEF ProcessRestarts, Used, Watch, Still
<1> QED
  BY <1>1, <1>2, <1>3, <1>4, <1>5, <1>6, <1>7, CalmSteps, NextCases DEF Background

\* The same in the next state.
StillAfter(r) == watch'[r].ph = "off" /\ co'[r].ph = "done"
SilentAfter(r) == StillAfter(r) /\ \A j \in DOMAIN msgs' : msgs'[j].r # r

\* Messages are left as they are, taken from the front or dropped, or one is
\* sent, by what is not still.
Sent(m) ==
  /\ Deliver(m) /\ ~Still(m.r)
  /\ m.k = "update" /\ m.s = "ServerReady" => StillAfter(m.r)

Shifted(d) ==
  \A i \in DOMAIN msgs' : i + d \in DOMAIN msgs /\ msgs'[i] = msgs[i + d]

\* Every step does one of these to the messages.
LEMMA MessagesStep ==
  ASSUME TypeOK, TypeOK', Watches, [Next]_vars
  PROVE  Shifted(0) \/ Shifted(1) \/ \E m \in Message : Sent(m)
<1> USE DEF dbVars, serverVars, histVars, taskVars, uiVars
<1>0. msgs \in Seq(Message)
  BY DEF TypeOK
<1>1. CASE msgs' = msgs \/ msgs' = <<>>
  <2>1. Len(msgs) \in Nat /\ DOMAIN msgs = 1..Len(msgs) /\ DOMAIN <<>> = {}
    BY <1>0
  <2>2. \A i \in DOMAIN msgs : i + 0 = i
    BY <2>1
  <2> QED
    BY <1>1, <2>1, <2>2 DEF Shifted
<1>2. CASE \E k : Takes(k)
  BY <1>2, MessagesLeft DEF Shifted
<1>3. ASSUME NEW r \in ReqId, CoStep(r)
      PROVE  Shifted(0) \/ Shifted(1) \/ \E m \in Message : Sent(m)
  <2>1. CASE CoResponds(r)
    <3>1. ASSUME NEW x \in {"Accepted", "Error"}
          PROVE  /\ Msg("response", r, x) \in Message /\ Msg("response", r, x).r = r
                 /\ Msg("response", r, x).k = "response"
      BY DEF Msg, Message
    <3>2. ~Still(r)
      BY <2>1 DEF CoResponds, Co, Still
    <3>3. \E x \in {"Accepted", "Error"} : Deliver(Msg("response", r, x))
      BY <2>1 DEF CoResponds
    <3> QED
      BY <3>1, <3>2, <3>3 DEF Sent
  <2>2. CASE ~CoResponds(r)
    BY <1>1, <1>3, <2>2 DEF CoStep, CoInserts, CoAnswered, CoFails, CoUpdates, CoLaunches,
                            CoDeletes, CoCancelled
  <2> QED
    BY <2>1, <2>2
<1>4. ASSUME NEW r \in ReqId, WatchDelivers(r) PROVE \E m \in Message : Sent(m)
  <2> DEFINE m == Msg("update", r, watch[r].s)
  <2>1. watch[r].s \in Live \cup Final /\ watch[r].ph = "polled" /\ co[r].ph = "done"
    BY <1>4, TaskParts DEF WatchDelivers, Watches
  <2>2. m \in Message /\ m.r = r /\ m.s = watch[r].s
    BY <2>1 DEF Msg, Message
  <2>3. Deliver(m) /\ co' = co
    BY <1>4 DEF WatchDelivers
  <2>4. watch[r].s = "ServerReady" => watch'[r].ph = "off"
    BY <1>4 DEF WatchDelivers, TypeOK, Watch
  <2> HIDE DEF m
  <2>5. Sent(m)
    BY <2>1, <2>2, <2>3, <2>4 DEF Sent, Still, StillAfter
  <2> QED
    BY <2>2, <2>5
<1>5. CASE Writes
  BY <1>1, <1>2, <1>5, WritesParts
<1>6. CASE PermissionLost \/ RevokeStep \/ Grant \/ ProcessRestarts \/ ReclaimStep
           \/ ActivityStarts \/ UNCHANGED vars
  BY <1>1, <1>6 DEF PermissionLost, RevokeStep, OnRevoke, RevokeReads, RevokeMoves,
       RevokeTurnsOff, RevokeEnds, Grant, ProcessRestarts, ReclaimStep, Reclaim, ReclaimerStops,
       ActivityStarts, vars
<1>7. ASSUME NEW r \in ReqId, Poll(r) \/ WatchDeletes(r) \/ ServerStep(r)
      PROVE  msgs' = msgs
  BY <1>7 DEF Poll, WatchDeletes, ServerStep, ServerAccepts, ServerMoves, ServerFails
<1>8. ASSUME NEW c \in Caller, NEW r \in ReqId, EndStep(c, r) PROVE msgs' = msgs
  BY <1>8 DEF EndStep, EndReads, ServerEnds, EndReturns, EndFails
<1>9. CASE Disconnects \/ \E r \in ReqId : Starts(r)
  BY <1>1, <1>9, DisconnectsFrame, StartParts
<1> QED
  BY <1>1, <1>3, <1>4, <1>5, <1>6, <1>7, <1>8, <1>9, NextCases DEF Background, WatchStep

\* A request of which nothing is left to come keeps so.
LEMMA SilentStep ==
  ASSUME TypeOK, TypeOK', Watches, [Next]_vars, NEW r \in ReqId, Silent(r)
  PROVE  SilentAfter(r)
<1>0. Still(r) /\ \A j \in DOMAIN msgs : msgs[j].r # r
  BY DEF Silent
<1>1. StillAfter(r)
  <2>1. Still(r)'
    BY <1>0, StillStep
  <2> QED
    BY <2>1 DEF Still, StillAfter
<1>2. CASE Shifted(0) \/ Shifted(1)
  <2>1. \A j \in DOMAIN msgs' : msgs'[j].r # r
    BY <1>0, <1>2 DEF Shifted
  <2> QED
    BY <1>1, <2>1 DEF SilentAfter
<1>3. ASSUME NEW m \in Message, Sent(m) PROVE \A j \in DOMAIN msgs' : msgs'[j].r # r
  BY <1>0, <1>3, MessageAdded DEF Sent
<1> QED
  BY <1>1, <1>2, <1>3, MessagesStep DEF SilentAfter

\* ServerReady stays the last message of its request.
LEMMA ReadyStep ==
  ASSUME TypeOK, TypeOK', Watches, ReadyLast, [Next]_vars
  PROVE  ReadyLast'
<1>0. /\ msgs \in Seq(Message) /\ msgs' \in Seq(Message) /\ \A m \in Message : m.r \in ReqId
  BY DEF TypeOK, Message
<1>00. /\ Len(msgs) \in Nat /\ DOMAIN msgs = 1..Len(msgs) /\ DOMAIN msgs' \subseteq Nat
       /\ \A i \in DOMAIN msgs : msgs[i] \in Message
  BY <1>0
<1> SUFFICES ASSUME NEW i \in DOMAIN msgs', msgs'[i].k = "update", msgs'[i].s = "ServerReady"
             PROVE  /\ StillAfter(msgs'[i].r)
                    /\ \A j \in DOMAIN msgs' : j > i => msgs'[j].r # msgs'[i].r
  BY DEF ReadyLast, Still, StillAfter
<1>1. ASSUME NEW d \in {0, 1}, Shifted(d)
      PROVE  /\ StillAfter(msgs'[i].r)
             /\ \A j \in DOMAIN msgs' : j > i => msgs'[j].r # msgs'[i].r
  <2>1. i + d \in DOMAIN msgs /\ msgs'[i] = msgs[i + d]
    BY <1>1 DEF Shifted
  <2>2. /\ Still(msgs[i + d].r) /\ \A j \in DOMAIN msgs : j > i + d => msgs[j].r # msgs[i + d].r
    BY <2>1 DEF ReadyLast
  <2>3. StillAfter(msgs'[i].r)
    <3> DEFINE r == msgs[i + d].r
    <3>1. r \in ReqId /\ Still(r)
      BY <1>0, <1>00, <2>1, <2>2
    <3>2. watch'[r].ph = "off" /\ co'[r].ph = "done"
      BY <3>1, StillStep DEF Still
    <3> QED
      BY <2>1, <3>2 DEF StillAfter
  <2>4. ASSUME NEW j \in DOMAIN msgs', j > i PROVE msgs'[j].r # msgs'[i].r
    <3>1. j + d \in DOMAIN msgs /\ msgs'[j] = msgs[j + d] /\ j + d > i + d
      BY <1>00, <1>1, <2>4 DEF Shifted
    <3> QED
      BY <2>1, <2>2, <3>1
  <2> QED
    BY <2>3, <2>4
<1>2. ASSUME NEW m \in Message, Sent(m)
      PROVE  /\ StillAfter(msgs'[i].r)
             /\ \A j \in DOMAIN msgs' : j > i => msgs'[j].r # msgs'[i].r
  <2>1. \A j \in DOMAIN msgs' : \/ j \in DOMAIN msgs /\ msgs'[j] = msgs[j]
                                \/ j = Len(msgs) + 1 /\ msgs'[j] = m
    BY <1>2, MessageAdded DEF Sent
  <2>2. CASE i \in DOMAIN msgs /\ msgs'[i] = msgs[i]
    <3> DEFINE r == msgs[i].r
    <3>1. r \in ReqId /\ Still(r) /\ \A j \in DOMAIN msgs : j > i => msgs[j].r # r
      BY <1>0, <1>00, <2>2 DEF ReadyLast
    <3>2. watch'[r].ph = "off" /\ co'[r].ph = "done"
      BY <3>1, StillStep DEF Still
    <3>3. m.r # r
      BY <1>2, <3>1 DEF Sent
    <3> QED
      BY <2>1, <2>2, <3>1, <3>2, <3>3 DEF StillAfter
  <2>3. CASE i = Len(msgs) + 1 /\ msgs'[i] = m
    <3>1. StillAfter(m.r)
      BY <1>2, <2>3 DEF Sent
    <3>2. \A j \in DOMAIN msgs' : ~(j > i)
      BY <1>00, <2>1, <2>3
    <3> QED
      BY <2>3, <3>1, <3>2
  <2> QED
    BY <2>1, <2>2, <2>3
<1> QED
  BY <1>1, <1>2, MessagesStep

\* What is connecting or connected is moved by no message of another request,
\* unless odd says so.
LEMMA ChoosesQuiet ==
  ASSUME TypeOK, Quiet, [Next]_vars, NEW m, NEW new, Chooses(m, new),
         odd' \subseteq {"swept"}, m.r # st.req \/ ~Silent(st.req)
  PROVE  st.k \notin {"Connecting", "Connected"}
<1> SUFFICES ASSUME st.k \in {"Connecting", "Connected"} PROVE FALSE
  OBVIOUS
<1>1. odd \subseteq {"swept"}
  BY OddGrows
<1>2. m.r # st.req
  BY <1>1 DEF Quiet
<1>3. new = st
  BY <1>2 DEF Chooses, Mixed
<1>4. Disconnected.k = "Disconnected" /\ "Connecting" \notin Live /\ "Connected" \notin Live
  BY AndroidAssumption DEF Disconnected, Live
<1> QED
  BY <1>3, <1>4 DEF Chooses

\* What is ready, connecting or connected stays silent, and becomes so with
\* ServerReady.
LEMMA QuietStep ==
  ASSUME TypeOK, TypeOK', Watches, News, Locks, ReadyLast, Quiet, [Next]_vars
  PROVE  Quiet'
<1> USE DEF dbVars, serverVars, histVars, taskVars, uiVars
<1> DEFINE Up(s) == s.k \in {"ServerReady", "Connecting", "Connected"}
           Goal ==
             /\ turn'.k \in {"update", "read", "apply"} /\ turn'.s = "ServerReady" =>
                  SilentAfter(turn'.r)
             /\ odd' \subseteq {"swept"} =>
                  /\ Up(st') => /\ SilentAfter(st'.req)
                                /\ turn'.k \in {"update", "read"} => turn'.r # st'.req
                  /\ turn'.k = "apply" => st'.k \notin {"Connecting", "Connected"}
<1> SUFFICES ASSUME "raced" \notin odd' PROVE Goal
  BY DEF Quiet, Silent, Still, SilentAfter, StillAfter
<1>0. /\ Disconnected.k = "Disconnected"
      /\ \A k, x : State(k, x).k = k /\ State(k, x).req = x
      /\ \A k, r, x : Msg(k, r, x).k = k /\ Msg(k, r, x).r = r /\ Msg(k, r, x).s = x
      /\ Idle.k = "idle"
  BY HandlerTypes DEF Disconnected, State
<1>1. /\ "raced" \notin odd /\ (odd' \subseteq {"swept"} => odd \subseteq {"swept"})
      /\ Finds /\ (turn.k # "idle" => LockFree)
  BY OddGrows DEF Locks
<1>2. turn.k \in {"update", "read", "apply"} /\ turn.s = "ServerReady" =>
        Silent(turn.r) /\ SilentAfter(turn.r)
  <2>1. ASSUME turn.k \in {"update", "read", "apply"}, turn.s = "ServerReady"
        PROVE  Silent(turn.r) /\ turn.r \in ReqId
    BY <1>1, <2>1, TurnParts DEF Quiet
  <2> QED
    BY <2>1, SilentStep
<1>3. odd \subseteq {"swept"} /\ Up(st) => Silent(st.req) /\ SilentAfter(st.req)
  <2>1. ASSUME odd \subseteq {"swept"}, Up(st) PROVE Silent(st.req) /\ st.req \in ReqId
    BY <2>1 DEF Quiet, TypeOK, AppState, Disconnected
  <2> QED
    BY <2>1, SilentStep
<1>4. /\ odd \subseteq {"swept"} =>
           /\ Up(st) => (turn.k \in {"update", "read"} => turn.r # st.req)
           /\ turn.k = "apply" => st.k \notin {"Connecting", "Connected"}
  BY DEF Quiet
<1>5. CASE UNCHANGED <<st, turn>>
  BY <1>1, <1>2, <1>3, <1>4, <1>5
<1>6. ASSUME ~Up(st'), turn'.k \notin {"update", "read", "apply"} PROVE Goal
  BY <1>6
<1>7. ASSUME st' = st, turn'.k \notin {"update", "read", "apply"} PROVE Goal
  BY <1>1, <1>3, <1>7
<1>8. CASE Writes
  <2>1. CASE ConnectRequests
    BY <1>0, <1>6, <2>1, WriteParts
  <2>2. CASE OnConnectResponse
    <3>1. Takes("response") /\ turn.k = "idle" /\ st' = st
      BY <2>2, WriteParts DEF Takes
    <3>2. ASSUME NEW new, Chooses(Head(msgs), new) PROVE Goal
      <4>1. turn'.k = "apply" /\ turn'.s = new.k /\ new.k # "ServerReady"
        BY <1>0, <3>1, <3>2 DEF Chooses
      <4>2. 1 \in DOMAIN msgs /\ msgs[1] = Head(msgs)
        BY <3>1, TakesParts
      <4>3. Head(msgs).r # st.req \/ ~Silent(st.req)
        BY <4>2 DEF Silent
      <4>4. odd' \subseteq {"swept"} => st.k \notin {"Connecting", "Connected"}
        BY <3>1, <3>2, <4>3, ChoosesQuiet
      <4> QED
        BY <1>1, <1>3, <3>1, <4>1, <4>4
    <3> QED
      BY <1>7, <2>2, <3>1, <3>2, ResponseCases
  <2>3. CASE OnVpnSessionUpdate
    <3>1. /\ Takes("update") /\ turn.k = "idle" /\ st' = st
          /\ turn' = turn \/ turn' = Head(msgs)
      BY <2>3, WriteParts DEF Takes
    <3>2. CASE turn' = Head(msgs)
      <4> DEFINE r == Head(msgs).r
      <4>1. /\ 1 \in DOMAIN msgs /\ msgs[1] = Head(msgs) /\ r \in ReqId
            /\ Head(msgs).k = "update"
        BY <3>1, TakesParts
      <4>2. ASSUME Head(msgs).s = "ServerReady" PROVE SilentAfter(r)
        <5>1. Still(r) /\ \A j \in DOMAIN msgs : j > 1 => msgs[j].r # r
          BY <4>1, <4>2 DEF ReadyLast
        <5>2. StillAfter(r)
          <6>1. \A q \in ReqId : Still(q) => StillAfter(q)
            BY StillStep DEF Still, StillAfter
          <6> QED
            BY <4>1, <5>1, <6>1
        <5>3. \A i \in DOMAIN msgs' : i + 1 \in DOMAIN msgs /\ msgs'[i] = msgs[i + 1]
          BY <3>1, MessagesLeft
        <5>4. \A i \in DOMAIN msgs' : i + 1 > 1
          <6>1. msgs' \in Seq(Message)
            BY DEF TypeOK
          <6> QED
            BY <6>1
        <5> QED
          BY <5>1, <5>2, <5>3, <5>4 DEF SilentAfter
      <4>3. odd \subseteq {"swept"} /\ Up(st) => r # st.req
        BY <1>3, <4>1 DEF Silent
      <4> QED
        BY <1>1, <1>3, <3>1, <3>2, <4>1, <4>2, <4>3
    <3> QED
      BY <1>5, <3>1, <3>2
  <2>4. CASE Permitted
    <3>1. CASE turn.k = "update"
      <4>1. st' = st /\ turn'.k = "read" /\ turn'.r = turn.r /\ turn'.s = turn.s
        BY <1>0, <2>4, <3>1, WriteParts
      <4> QED
        BY <1>1, <1>2, <1>3, <1>4, <3>1, <4>1
    <3>2. CASE turn.k # "update"
      BY <1>0, <1>7, <2>4, <3>2, WriteParts
    <3> QED
      BY <3>1, <3>2
  <2>5. CASE UpdateReads
    <3>1. turn.k = "read" /\ st' = st
      BY <2>5, WriteParts
    <3>2. ASSUME NEW new, Chooses(turn, new) PROVE Goal
      <4>1. /\ turn'.k = "apply" /\ turn'.s = new.k /\ turn'.r = new.req
            /\ new.k = "ServerReady" => turn.s = "ServerReady"
        BY <1>0, <3>2 DEF Chooses
      <4>2. st.k # "ServerReady"
        BY <1>1, <3>1 DEF Finds
      <4>3. new.k = "ServerReady" => new.req = turn.r
        BY <1>0, <3>2, <4>2 DEF Chooses
      <4>4. odd \subseteq {"swept"} /\ Up(st) => turn.r # st.req
        BY <1>4, <3>1
      <4>5. ASSUME odd' \subseteq {"swept"} PROVE st.k \notin {"Connecting", "Connected"}
        BY <1>1, <3>1, <3>2, <4>4, <4>5, ChoosesQuiet
      <4> QED
        BY <1>1, <1>2, <1>3, <3>1, <4>1, <4>3, <4>5
    <3> QED
      BY <1>0, <1>7, <2>5, <3>1, <3>2, ReadCases
  <2>6. CASE Applies
    <3>1. /\ turn.k = "apply" /\ turn.s \in Live \cup {"Disconnected"}
          /\ st'.k = turn.s /\ st'.req = turn.r /\ turn'.k \in {"ready", "idle"}
      BY <1>0, <2>6, WriteParts, TurnParts
    <3>2. turn.s \notin {"Connecting", "Connected"}
      BY <3>1, AndroidAssumption DEF Live
    <3> QED
      BY <1>2, <3>1, <3>2
  <2>7. CASE Connects
    <3>1. /\ st.k = "ServerReady" /\ st.req = turn.r /\ st'.k = "Connecting"
          /\ st'.req = turn.r /\ turn'.k = "establish"
      BY <1>0, <1>1, <2>7, WriteParts DEF Finds
    <3> QED
      BY <1>1, <1>3, <3>1
  <2>8. CASE TurnOn
    BY <1>0, <1>7, <2>8, WriteParts
  <2>9. CASE TurnedOn
    <3>1. /\ st.k = "Connecting" /\ st.req = turn.r /\ st'.k = "Connected"
          /\ st'.req = turn.r /\ turn'.k = "idle"
      BY <1>0, <1>1, <2>9, WriteParts DEF Finds
    <3> QED
      BY <1>1, <1>3, <3>1
  <2> HIDE DEF Goal
  <2> QED
    BY <1>8, <2>1, <2>2, <2>3, <2>4, <2>5, <2>6, <2>7, <2>8, <2>9 DEF Writes
<1>9. CASE Disconnects
  BY <1>0, <1>6, <1>9, DisconnectsFrame, DisconnectParts
<1>10. CASE OnRevoke \/ RevokeReads \/ RevokeTurnsOff \/ PermissionLost \/ Grant
  BY <1>5, <1>10 DEF OnRevoke, RevokeReads, RevokeTurnsOff, PermissionLost, Grant
<1>11. CASE RevokeMoves
  <2>1. turn'.k = "idle" /\ st' = TransitionOnDisconnect(st).to
    BY <1>1, <1>11 DEF RevokeMoves, Locks, LockFree
  <2>2. ~Up(st')
    BY <2>1, TransitionParts DEF IsDisconnectingOrDisconnected
  <2> QED
    BY <1>6, <2>1, <2>2
<1>12. CASE RevokeEnds
  BY <1>0, <1>1, <1>6, <1>12 DEF RevokeEnds, LockFree
<1>13. CASE ProcessRestarts
  BY <1>0, <1>6, <1>13 DEF ProcessRestarts
<1>14. CASE \E r \in ReqId : Starts(r)
  BY <1>0, <1>7, <1>14, StartParts
<1>15. CASE Background
  BY <1>5, <1>15, BackgroundFrame
<1> HIDE DEF Goal
<1> QED
  BY <1>8, <1>9, <1>10, <1>11, <1>12, <1>13, <1>14, <1>15, NextCases DEF RevokeStep

\* Every step of turnOnVPN, onDisconnect and onRevoke leaves the tunnel as Tunnel
\* has it; nothing else moves the tunnel, or the state out of Connected.
LEMMA TunnelStep ==
  ASSUME TypeOK, TypeOK', News, Locks, Quiet, Tunnel, [Next]_vars
  PROVE  Tunnel'
<1> USE DEF dbVars, serverVars, histVars, taskVars, uiVars
<1> DEFINE Goal ==
      /\ turn'.k # "up" /\ revoke' \in {"none", "due", "cancelled", "moves"} =>
           tun' = IF st'.k = "Connected" THEN st'.req ELSE NoReq
      /\ turn'.k = "up" => tun' = turn'.r
      /\ revoke' = "end" => tun' = NoReq
<1> SUFFICES ASSUME odd' \subseteq {"swept"} PROVE Goal
  BY DEF Tunnel
<1>0. /\ Disconnected.k = "Disconnected"
      /\ \A k, x : State(k, x).k = k /\ State(k, x).req = x
      /\ \A k, r, x : Msg(k, r, x).k = k /\ Msg(k, r, x).r = r
      /\ Idle.k = "idle"
  BY HandlerTypes DEF Disconnected, State
<1>1. odd \subseteq {"swept"} /\ "raced" \notin odd
  BY OddGrows
<1>2. /\ turn.k # "up" /\ revoke \in {"none", "due", "cancelled", "moves"} =>
           tun = IF st.k = "Connected" THEN st.req ELSE NoReq
      /\ turn.k = "up" => tun = turn.r
      /\ revoke = "end" => tun = NoReq
  BY <1>1 DEF Tunnel
<1>3. /\ Finds /\ (turn.k # "idle" => LockFree)
      /\ revoke \in {"turnOff", "end"} <=> st.k = "Disconnecting"
  BY <1>1 DEF Locks
<1>4. CASE UNCHANGED <<st, turn, revoke, tun>>
  BY <1>2, <1>4
<1>5. ASSUME UNCHANGED <<st, tun>>, turn.k # "up", turn'.k # "up", LockFree,
             revoke' \in {"none", "due", "cancelled", "moves"}
      PROVE  Goal
  BY <1>2, <1>5 DEF LockFree
<1>6. CASE Writes
  <2>0. /\ LockFree /\ revoke' \in {"none", "due"}
    BY <1>1, <1>6, WritesUnlocked, WritesFrame DEF LockFree
  <2>1. ASSUME tun' = tun, st.k # "Connected", st'.k # "Connected", turn.k # "up",
               turn'.k # "up"
        PROVE  Goal
    BY <1>2, <2>0, <2>1 DEF LockFree
  <2>2. CASE ConnectRequests
    <3>1. st.k = "Disconnected" /\ st'.k = "Requesting" /\ tun' = tun /\ turn.k # "up"
          /\ turn'.k # "up"
      BY <1>0, <1>3, <2>2, WriteParts DEF Finds
    <3> QED
      BY <2>1, <3>1
  <2>3. CASE OnConnectResponse
    <3>1. turn.k = "idle" /\ UNCHANGED <<st, tun>>
      BY <2>3, WriteParts DEF Takes
    <3>2. turn'.k # "up"
      BY <1>0, <2>3, <3>1, ResponseCases DEF Chooses
    <3> QED
      BY <1>5, <2>0, <3>1, <3>2
  <2>4. CASE OnVpnSessionUpdate
    <3>1. /\ turn.k = "idle" /\ UNCHANGED <<st, tun>> /\ turn'.k # "up"
      BY <2>4, WriteParts DEF Takes
    <3> QED
      BY <1>5, <2>0, <3>1
  <2>5. CASE Permitted
    BY <1>0, <1>5, <2>0, <2>5, WriteParts
  <2>6. CASE UpdateReads
    <3>1. turn.k = "read" /\ UNCHANGED <<st, tun>>
      BY <2>6, WriteParts
    <3>2. turn'.k # "up"
      BY <1>0, <2>6, ReadCases DEF Chooses
    <3> QED
      BY <1>5, <2>0, <3>1, <3>2
  <2>7. CASE Applies
    <3>1. /\ turn.k = "apply" /\ turn.s \in Live \cup {"Disconnected"} /\ tun' = tun
          /\ st'.k = turn.s /\ turn'.k \in {"ready", "idle"}
      BY <1>0, <2>7, WriteParts, TurnParts
    <3>2. turn.s # "Connected" /\ st.k # "Connected"
      BY <1>1, <3>1, AndroidAssumption DEF Live, Quiet
    <3> QED
      BY <2>1, <3>1, <3>2
  <2>8. CASE Connects
    <3>1. st.k = "ServerReady" /\ st'.k = "Connecting" /\ tun' = tun /\ turn.k # "up"
          /\ turn'.k # "up"
      BY <1>0, <1>3, <2>8, WriteParts DEF Finds
    <3> QED
      BY <2>1, <3>1
  <2>9. CASE TurnOn
    BY <1>0, <2>0, <2>9, WriteParts
  <2>10. CASE TurnedOn
    BY <1>0, <1>2, <2>0, <2>10, WriteParts
  <2> HIDE DEF Goal
  <2> QED
    BY <1>6, <2>2, <2>3, <2>4, <2>5, <2>6, <2>7, <2>8, <2>9, <2>10 DEF Writes
<1>7. CASE Disconnects
  <2>1. /\ OnDisconnectInner /\ turn'.k = "idle" /\ turn.k # "up" /\ revoke' = revoke
    BY <1>7, DisconnectsFrame
  <2>2. /\ LockFree /\ st' = Disconnected /\ tun' \in {tun, NoReq}
        /\ st.k \in {"Connecting", "Connected"} => tun' = NoReq
    BY <2>1, DisconnectParts
  <2>3. tun' = NoReq
    BY <1>2, <2>1, <2>2 DEF LockFree
  <2> QED
    BY <1>0, <2>1, <2>2, <2>3
<1>8. CASE OnRevoke
  <2>1. /\ UNCHANGED <<st, turn, tun>> /\ revoke = "due" /\ revoke' \in {"none", "cancelled"}
        /\ turn.k = "idle" \/ st = Disconnected
    BY <1>8 DEF OnRevoke, Raced
  <2>2. turn.k # "up"
    BY <1>0, <1>3, <2>1 DEF Finds
  <2> QED
    BY <1>5, <2>1, <2>2 DEF LockFree
<1>8a. CASE RevokeReads
  BY <1>2, <1>8a DEF RevokeReads
<1>9. CASE RevokeMoves
  <2>0. /\ turn.k = "idle" /\ UNCHANGED <<turn, tun>> /\ st.k # "Disconnecting"
        /\ revoke = "moves" /\ st' = TransitionOnDisconnect(st).to
        /\ revoke' = IF TransitionOnDisconnect(st).off THEN "turnOff" ELSE "none"
    BY <1>1, <1>3, <1>9 DEF RevokeMoves, Locks, LockFree
  <2>1. CASE st.k \in {"Connecting", "Connected"}
    <3>1. revoke' = "turnOff"
      BY <2>0, <2>1 DEF TransitionOnDisconnect, Plan
    <3> QED
      BY <2>0, <3>1
  <2>2. CASE st.k \notin {"Connecting", "Connected"}
    <3>1. st' = Disconnected /\ revoke' = "none"
      BY <2>0, <2>2 DEF TransitionOnDisconnect, Plan
    <3> QED
      BY <1>0, <1>2, <2>0, <2>2, <3>1
  <2> QED
    BY <2>1, <2>2
<1>10. CASE RevokeTurnsOff
  BY <1>3, <1>10 DEF RevokeTurnsOff, LockFree
<1>11. CASE RevokeEnds
  BY <1>0, <1>2, <1>3, <1>11 DEF RevokeEnds, LockFree
<1>12. CASE PermissionLost \/ Grant
  BY <1>2, <1>12 DEF PermissionLost, Grant
<1>13. CASE ProcessRestarts
  BY <1>0, <1>13 DEF ProcessRestarts
<1>14. ASSUME NEW r \in ReqId, Starts(r) PROVE Goal
  <2>1. UNCHANGED <<st, tun, revoke>> /\ turn'.k # "up"
    BY <1>0, <1>14, StartParts
  <2>2. turn.k # "up"
    BY <1>14 DEF Starts, OnConnect, ConnectLaunches
  <2> QED
    BY <1>2, <2>1, <2>2
<1>15. CASE Background
  BY <1>4, <1>15, BackgroundFrame
<1> HIDE DEF Goal
<1> QED
  BY <1>6, <1>7, <1>8, <1>8a, <1>9, <1>10, <1>11, <1>12, <1>13, <1>14, <1>15, NextCases
     DEF RevokeStep
-----------------------------------------------------------------------------
\* The inductive invariant: the types; how far each request is on the server and
\* in the table (Track); that what is known of a request was requested (UsedInv),
\* and by whom it is being made (News); that handlers and onRevoke do not overlap
\* (Locks); what is not ended (Spared); and which messages can still come
\* (ReadyLast, Quiet) when the tunnel is up (Tunnel).
AndroidInv ==
  /\ TypeOK /\ Track /\ UsedInv /\ News /\ Locks /\ Spared
  /\ ReadyLast /\ Quiet /\ Tunnel

\* The invariant holds when the app starts.
LEMMA AndroidInit ==
  ASSUME Init
  PROVE  AndroidInv
<1>0. /\ Disconnected.k = "Disconnected" /\ Disconnected.req = NoReq
      /\ Idle.k = "idle" /\ Idle.r = NoReq /\ Idle \in Handler
      /\ NoEnd.ph = "none" /\ MaxFaults \in Nat /\ "none" \notin Live
  BY AndroidAssumption, HandlerTypes DEF Disconnected, NoEnd, Live
<1>1. /\ Watch("off", "none") \in Watcher /\ Watch("off", "none").ph = "off"
  BY WatchType
<1>2. /\ co \in [ReqId -> Coroutine]
      /\ \A r \in ReqId : co[r].ph = "none" /\ ~co[r].cancelled
  BY DEF Init, Coroutine
<1>3. /\ watch \in [ReqId -> Watcher] /\ \A r \in ReqId : watch[r].ph = "off"
  BY <1>1 DEF Init
<1>4. /\ end \in [Caller -> [ReqId -> EndCall]]
      /\ \A c \in Caller, r \in ReqId : end[c][r] = NoEnd
  BY DEF Init, NoEnd, EndCall
<1>5. /\ st = Disconnected /\ msgs = <<>> /\ revoke = "none" /\ perm = TRUE
      /\ turn = Idle /\ plan = NoPlan /\ tun = NoReq
      /\ recl = "on" /\ rows = {} /\ marked = {} /\ old = {}
      /\ server = [r \in ReqId |-> "none"] /\ flying = {}
      /\ faults = 0 /\ lost = {} /\ odd = {}
  BY DEF Init
<1>6. TypeOK
  <2>1. Disconnected \in AppState /\ NoPlan \in Disconnection
    BY <1>0 DEF AppState, Disconnection, NoPlan, Plan
  <2> QED
    BY <1>0, <1>2, <1>3, <1>4, <1>5, <2>1 DEF TypeOK, EndCall
<1>7. Track
  BY <1>0, <1>2, <1>3, <1>4, <1>5 DEF Track, Requests, Watches, Applied, SessionTracked
<1>8. UsedInv /\ News /\ Locks /\ ReadyLast /\ Quiet
  <2>1. UsedInv /\ ReadyLast /\ Quiet
    BY <1>0, <1>4, <1>5 DEF UsedInv, NoPlan, Plan, ReadyLast, Quiet
  <2>2. News /\ Locks
    BY <1>0, <1>2, <1>5 DEF News, Locks, Finds, LockFree
  <2> QED
    BY <2>1, <2>2
<1>9. Spared
  BY <1>0, <1>2, <1>4, <1>5 DEF Spared, InUse
<1>10. Tunnel
  BY <1>0, <1>5 DEF Tunnel
<1> QED
  BY <1>6, <1>7, <1>8, <1>9, <1>10 DEF AndroidInv

\* The inductive invariant holds in every state, for every set of requests and
\* every bound on the faults of any kind.
THEOREM AndroidInvHolds == Spec => []AndroidInv
<1>1. ASSUME AndroidInv, [Next]_vars PROVE AndroidInv'
  <2>1. TypeOK'
    BY <1>1, TypeStep DEF AndroidInv, Track
  <2>2. Track'
    BY <1>1, <2>1, TrackStep DEF AndroidInv
  <2>3. UsedInv'
    BY <1>1, <2>1, UsedStep DEF AndroidInv, Track
  <2>4. Locks'
    BY <1>1, <2>1, LockStep DEF AndroidInv
  <2>4a. News'
    BY <1>1, <2>1, NewsStep DEF AndroidInv
  <2>5. Spared'
    BY <1>1, <2>1, SparedStep DEF AndroidInv
  <2>6. ReadyLast'
    BY <1>1, <2>1, ReadyStep DEF AndroidInv, Track
  <2>7. Quiet'
    BY <1>1, <2>1, QuietStep DEF AndroidInv, Track
  <2>8. Tunnel'
    BY <1>1, <2>1, TunnelStep DEF AndroidInv
  <2> QED
    BY <2>1, <2>2, <2>3, <2>4, <2>4a, <2>5, <2>6, <2>7, <2>8 DEF AndroidInv
<1> QED
  BY <1>1, AndroidInit, PTL DEF Spec

\* Orchestrator, coroutines, table and server have only the states they are
\* declared to have, and no row is marked that is not in the table.
THEOREM AndroidTypeCorrect == Spec => []TypeOK
<1>1. AndroidInv => TypeOK
  BY DEF AndroidInv
<1> QED
  BY <1>1, AndroidInvHolds, PTL

\* VPNSessionRepository leaves no session on the server without a row, whichever
\* coroutines are cancelled and wherever a process ends, but for those whose
\* request or answer was lost or overtaken.
THEOREM AndroidTracksSessions == Spec => []SessionTracked
<1>1. AndroidInv => SessionTracked
  BY DEF AndroidInv, Track
<1> QED
  BY <1>1, AndroidInvHolds, PTL

\* As long as nothing that odd names has happened, neither onDisconnect nor the
\* reclaimer ends a session that is requested, shown or connected.
THEOREM AndroidSparesSessionInUse == Spec => []EndsNotInUse
<1>1. AndroidInv => EndsNotInUse
  BY DEF AndroidInv, Spared, EndsNotInUse
<1> QED
  BY <1>1, AndroidInvHolds, PTL

\* Between two handlers the tunnel is up if and only if VPNOrchestrator shows
\* Connected, and leads to the server of the session shown.
THEOREM AndroidTunnelIsShown == Spec => []TunnelAsShown
<1>1. AndroidInv => TunnelAsShown
  BY DEF AndroidInv, Tunnel, TunnelAsShown, LockFree
<1> QED
  BY <1>1, AndroidInvHolds, PTL
=============================================================================
