------------------------------- MODULE Android -------------------------------
(***************************************************************************)
(* The Android app (modvpn-android): the orchestrator on the main thread   *)
(* of the service's process, the repository whose coroutines request, watch*)
(* and end sessions, the reclaimer, and the table of sessions, which the   *)
(* process of the service shares with that of the activity.                *)
(*                                                                         *)
(* A coroutine that is cancelled ends at its next suspension: what it does *)
(* between two of them is still done, and so may be the statement it is    *)
(* suspended in.  Only onDisconnect, onRevoke, onDestroy and the callbacks *)
(* that send messages take the lock: a handler of the main thread is a step*)
(* for each access to the state, and onRevoke, on another thread, runs     *)
(* between any two.  The VPN server and WireGuard are external.            *)
(***************************************************************************)
EXTENDS Naturals, Sequences

CONSTANTS ReqId,      \* request ids, each used once
          NoReq,
          Stages,     \* optional statuses between Accepted and ServerReady
          Kinds,      \* the faults that may happen
          MaxFaults   \* bound on them together

FaultKind == {"request", "end", "turnOn", "server", "revoke", "activity", "restart"}

ASSUME AndroidAssumption ==
  /\ NoReq \notin ReqId /\ MaxFaults \in Nat /\ Kinds \subseteq FaultKind
  /\ Stages \subseteq {"ServerCreated", "ServerRunning"}

VARIABLES
  st,        \* vpnOrchestratorState
  msgs,      \* messages of the coroutines to the main thread
  turn,      \* the main thread: how far its handler is, and with what
  revoke,    \* the thread that calls onRevoke
  plan,      \* what it has read that it has to do
  perm,      \* VpnService.prepare gives the permission
  tun,       \* the peer of currentTunnelHandle, or NoReq
  co,        \* per request, the coroutine of newVpnSession
  watch,     \* per request, the coroutine of its watcher
  end,       \* per caller and request, the coroutine of endVpnSession
  recl,      \* the reclaimer
  rows,      \* table vpn_session
  marked,    \* rows with markForDeletion
  old,       \* requests of orchestrators that were destroyed
  server,    \* per request, its session on the server
  flying,    \* requests for sessions on their way to the server
  faults,
  lost,      \* history: sessions whose answer, or whose request, was lost
  odd        \* history: what has gone wrong (see Mixed, Raced and Swept)

uiVars == <<st, msgs, turn, revoke, plan, perm, tun>>
dbVars == <<rows, marked>>
taskVars == <<co, watch, end, recl, old>>
serverVars == <<server, flying>>
histVars == <<faults, lost, odd>>
vars == <<uiVars, dbVars, taskVars, serverVars, histVars>>

Live == {"Accepted", "ServerReady"} \cup Stages
Final == {"Failed", "Ended"}
Caller == {"user", "reclaimer"}

Disconnected == [k |-> "Disconnected", req |-> NoReq]
State(k, r) == [k |-> k, req |-> r]
IsDisconnectingOrDisconnected(s) == s.k \in {"Disconnected", "Disconnecting"}

Msg(k, r, s) == [k |-> k, r |-> r, s |-> s]
Idle == Msg("idle", NoReq, "none")
NoEnd == [ph |-> "none", row |-> FALSE]
Plan(to, off, r) == [to |-> to, off |-> off, req |-> r]
NoPlan == Plan(Disconnected, FALSE, NoReq)
Watch(ph, s) == [ph |-> ph, s |-> s, cancelled |-> FALSE]

Init ==
  /\ st = Disconnected /\ msgs = <<>> /\ revoke = "none" /\ perm = TRUE
  /\ turn = Idle /\ plan = NoPlan /\ tun = NoReq
  /\ co = [r \in ReqId |-> [ph |-> "none", cancelled |-> FALSE]]
  /\ watch = [r \in ReqId |-> Watch("off", "none")]
  /\ end = [c \in Caller |-> [r \in ReqId |-> NoEnd]]
  /\ recl = "on" /\ rows = {} /\ marked = {} /\ old = {}
  /\ server = [r \in ReqId |-> "none"] /\ flying = {}
  /\ faults = 0 /\ lost = {} /\ odd = {}

Fault(k) == k \in Kinds /\ faults < MaxFaults /\ faults' = faults + 1

Used == {r \in ReqId : co[r].ph # "none"}

\* The session of the state, and one that is being requested.
InUse ==
  {r \in ReqId : \/ st.req = r /\ ~IsDisconnectingOrDisconnected(st)
                 \/ co[r].ph \notin {"none", "done"} /\ ~co[r].cancelled}

\* History: a message of one request leads the state of another to new;
\* onRevoke gave up a session in the middle of a handler; a session in use
\* was marked for deletion with all the others.
Mixed(m, new) == odd' = IF m.r # st.req /\ new # st THEN odd \cup {"mixed"} ELSE odd
Raced ==
  odd' = IF turn.k # "idle" /\ st # Disconnected THEN odd \cup {"raced"} ELSE odd
Swept == odd' = IF rows \cap InUse # {} THEN odd \cup {"swept"} ELSE odd

-----------------------------------------------------------------------------
\* State of the orchestrator (VPNState.kt)

\* To which state a disconnect leads, whether the tunnel is turned off, and
\* which session is ended.
TransitionOnDisconnect(s) ==
  IF s.k = "Disconnecting" THEN Plan(s, FALSE, NoReq)
  ELSE IF s.k \in {"Connecting", "Connected"}
    THEN Plan(State("Disconnecting", s.req), TRUE, s.req)
    ELSE Plan(Disconnected, FALSE, s.req)

\* The states that a status of the server moves forward.
Before(s) ==
  CASE s = "ServerCreated" -> {"Accepted"}
    [] s = "ServerRunning" -> {"Accepted", "ServerCreated"}
    [] s = "ServerReady" -> {"Accepted", "ServerCreated", "ServerRunning"}
    [] OTHER -> {}

\* Mutant: a state made from a status does not keep the request.
ForgetfulUpdate(s, m) ==
  IF m.s = "Failed" THEN Disconnected
  ELSE IF s.k \in Before(m.s) THEN State(m.s, NoReq) ELSE s

\* newStateFromUpdate gives a state, not null.
HasUpdate(s, m) == m.s = "Failed" \/ s.k \in Before(m.s) \cup {m.s}

\* That state.  The request is that of the message, unless it is s itself.
NewStateFromUpdate(s, m) ==
  IF m.s = "Failed" THEN Disconnected
  ELSE IF s.k \in Before(m.s) THEN State(m.s, m.r) ELSE s

-----------------------------------------------------------------------------
\* Steps used by several handlers

\* Mutant: no coroutine is cancelled.
CancelNothing == UNCHANGED <<co, watch>>

\* vpnSessionScope.coroutineContext.cancelChildren(): a watcher is suspended
\* while it waits or polls, with nothing to undo.
CancelChildren ==
  /\ co' = [r \in ReqId |->
       IF r \in old \/ co[r].ph \in {"none", "new", "done"} THEN co[r]
       ELSE [co[r] EXCEPT !.cancelled = TRUE]]
  /\ watch' = [r \in ReqId |->
       IF r \in old \/ watch[r].ph = "off" THEN watch[r]
       ELSE IF watch[r].ph = "on" THEN Watch("off", "none")
       ELSE [watch[r] EXCEPT !.cancelled = TRUE]]

\* repository.endVpnSession
EndVpnSession(c, rs) ==
  end' = [end EXCEPT ![c] = [r \in ReqId |->
    IF r \in rs /\ @[r] = NoEnd THEN [NoEnd EXCEPT !.ph = "queued"] ELSE @[r]]]

\* onRevoke holds the lock.
LockFree == revoke \in {"none", "due"}

\* Mutant: the tunnel is left on.
OnDisconnectLeavesOn ==
  /\ LockFree
  /\ IF st = Disconnected THEN UNCHANGED <<st, tun, co, watch, end>>
     ELSE /\ CancelChildren
          /\ EndVpnSession("user", {TransitionOnDisconnect(st).req})
          /\ tun' = IF turn.k = "idle" THEN tun ELSE NoReq
          /\ st' = Disconnected

\* onDisconnect on the main thread, under the lock: at its end what was
\* Disconnecting is Disconnected.
OnDisconnectInner ==
  /\ LockFree
  /\ IF st = Disconnected THEN UNCHANGED <<st, tun, co, watch, end>>
     ELSE /\ CancelChildren
          /\ EndVpnSession("user", {TransitionOnDisconnect(st).req})
          /\ tun' = IF TransitionOnDisconnect(st).off THEN NoReq ELSE tun
          /\ st' = Disconnected

\* The coroutine of newVpnSession goes on.
Co(r, from, to) ==
  /\ co[r].ph = from
  /\ co' = [co EXCEPT ![r] = [ph |-> to, cancelled |-> to # "done" /\ @.cancelled]]

-----------------------------------------------------------------------------
\* Handlers of the main thread (VPNOrchestrator.kt), one at a time

\* Disconnected, and with the permission: a request id is made ...
OnConnect(r) ==
  /\ turn.k = "idle" /\ st = Disconnected /\ perm
  /\ Co(r, "none", "new") /\ turn' = Msg("connect", r, "none")
  /\ UNCHANGED <<st, msgs, revoke, plan, perm, tun, watch, end, recl, old>>
  /\ UNCHANGED <<dbVars, serverVars, histVars>>

\* ... the state is written ...
ConnectRequests ==
  /\ turn.k = "connect" /\ turn' = [turn EXCEPT !.k = "launch"]
  /\ st' = State("Requesting", turn.r)
  /\ UNCHANGED <<msgs, revoke, plan, perm, tun, dbVars, taskVars, serverVars, histVars>>

\* ... and the coroutine of newVpnSession launched.
ConnectLaunches ==
  /\ turn.k = "launch" /\ turn' = Idle
  /\ Co(turn.r, "new", "insert")
  /\ UNCHANGED <<st, msgs, revoke, plan, perm, tun, watch, end, recl, old>>
  /\ UNCHANGED <<dbVars, serverVars, histVars>>

OnDisconnect ==
  /\ turn.k = "idle" /\ st # Disconnected
  /\ OnDisconnectInner
  /\ UNCHANGED <<msgs, turn, revoke, plan, perm, recl, old, dbVars, serverVars, histVars>>

Takes(k) == turn.k = "idle" /\ msgs # <<>> /\ Head(msgs).k = k /\ msgs' = Tail(msgs)
Apply(new) == turn' = Msg("apply", new.req, new.k)

\* Only a state without session drops the answer.
OnConnectResponse ==
  /\ Takes("response")
  /\ LET m == Head(msgs)
         new == IF m.s = "Accepted" THEN State("Accepted", m.r) ELSE Disconnected
     IN IF IsDisconnectingOrDisconnected(st) THEN UNCHANGED <<turn, odd>>
        ELSE Apply(new) /\ Mixed(m, new)
  /\ UNCHANGED <<st, revoke, plan, perm, tun, dbVars, taskVars, serverVars, faults, lost>>

\* So of a status; then the permission is checked ...
OnVpnSessionUpdate ==
  /\ Takes("update")
  /\ turn' = IF IsDisconnectingOrDisconnected(st) THEN turn ELSE Head(msgs)
  /\ UNCHANGED <<st, revoke, plan, perm, tun, dbVars, taskVars, serverVars, histVars>>

\* disconnectAndNotifyIfNoVPNPermission, on a status and in turnOnVPN
Permitted ==
  /\ perm
  /\ \/ turn.k = "update" /\ turn' = [turn EXCEPT !.k = "read"]
     \/ turn.k = "ready" /\ turn' = [turn EXCEPT !.k = "connecting"]
  /\ UNCHANGED <<st, msgs, revoke, plan, perm, tun, dbVars, taskVars, serverVars, histVars>>

NotPermitted ==
  /\ ~perm /\ turn.k \in {"update", "ready"} /\ turn' = Idle
  /\ OnDisconnectInner
  /\ UNCHANGED <<msgs, revoke, plan, perm, recl, old, dbVars, serverVars, histVars>>

\* ... the state is read, and the next one made of it ...
UpdateReads ==
  /\ turn.k = "read"
  /\ LET new == NewStateFromUpdate(st, turn)
     IN IF HasUpdate(st, turn) THEN Apply(new) /\ Mixed(turn, new)
        ELSE turn' = Idle /\ UNCHANGED odd
  /\ UNCHANGED <<st, msgs, revoke, plan, perm, tun, dbVars, taskVars, serverVars, faults, lost>>

\* ... and written, as an answer's is; with ServerReady goes on turnOnVPN.
Applies ==
  /\ turn.k = "apply"
  /\ st' = State(turn.s, turn.r)
  /\ turn' = IF turn.s = "ServerReady" THEN Msg("ready", turn.r, "none") ELSE Idle
  /\ UNCHANGED <<msgs, revoke, plan, perm, tun, dbVars, taskVars, serverVars, histVars>>

Connects ==
  /\ turn.k = "connecting" /\ turn' = [turn EXCEPT !.k = "establish"]
  /\ st' = State("Connecting", turn.r)
  /\ UNCHANGED <<msgs, revoke, plan, perm, tun, dbVars, taskVars, serverVars, histVars>>

\* vpnService.turnOnVPN sets the handle ...
TurnOn ==
  /\ turn.k = "establish" /\ perm
  /\ tun' = turn.r /\ turn' = [turn EXCEPT !.k = "up"]
  /\ UNCHANGED <<st, msgs, revoke, plan, perm, dbVars, taskVars, serverVars, histVars>>

\* ... or fails, certainly without permission.
TurnOnFails ==
  /\ turn.k = "establish" /\ turn' = Idle
  /\ IF perm THEN Fault("turnOn") ELSE UNCHANGED faults
  /\ OnDisconnectInner
  /\ UNCHANGED <<msgs, revoke, plan, perm, recl, old, dbVars, serverVars, lost, odd>>

TurnedOn ==
  /\ turn.k = "up" /\ turn' = Idle
  /\ st' = State("Connected", turn.r)
  /\ UNCHANGED <<msgs, revoke, plan, perm, tun, dbVars, taskVars, serverVars, histVars>>

\* Another app takes the permission, and onRevoke is due.
PermissionLost ==
  /\ perm /\ revoke = "none" /\ Fault("revoke")
  /\ perm' = FALSE /\ revoke' = "due"
  /\ UNCHANGED <<st, msgs, turn, plan, tun, dbVars, taskVars, serverVars, lost, odd>>

\* onRevoke, on any thread: under the lock, which only onDisconnect of the
\* main thread takes.  Messages are removed, and the children cancelled ...
OnRevoke ==
  /\ revoke = "due"
  /\ msgs' = <<>>
  /\ IF st = Disconnected THEN revoke' = "none" /\ UNCHANGED <<co, watch>>
     ELSE revoke' = "cancelled" /\ CancelChildren
  /\ Raced
  /\ UNCHANGED <<st, turn, plan, perm, tun, end, recl, old>>
  /\ UNCHANGED <<dbVars, serverVars, faults, lost>>

\* ... the state, which the main thread may have written since, says what to
\* do ...
RevokeReads ==
  /\ revoke = "cancelled" /\ revoke' = "moves"
  /\ plan' = TransitionOnDisconnect(st)
  /\ UNCHANGED <<st, msgs, turn, perm, tun, dbVars, taskVars, serverVars, histVars>>

\* ... and is written, and the session ended.
RevokeMoves ==
  /\ revoke = "moves" /\ plan' = NoPlan
  /\ st' = plan.to
  /\ EndVpnSession("user", {plan.req})
  /\ revoke' = IF plan.off THEN "turnOff" ELSE "none"
  /\ UNCHANGED <<msgs, turn, perm, tun, co, watch, recl, old>>
  /\ UNCHANGED <<dbVars, serverVars, histVars>>

RevokeTurnsOff ==
  /\ revoke = "turnOff" /\ revoke' = "end"
  /\ tun' = NoReq
  /\ UNCHANGED <<st, msgs, turn, plan, perm, dbVars, taskVars, serverVars, histVars>>

RevokeEnds ==
  /\ revoke = "end" /\ revoke' = "none"
  /\ st' = Disconnected
  /\ UNCHANGED <<msgs, turn, plan, perm, tun, dbVars, taskVars, serverVars, histVars>>

\* The user gives the permission again.
Grant ==
  /\ ~perm /\ revoke = "none" /\ perm' = TRUE
  /\ UNCHANGED <<st, msgs, turn, revoke, plan, tun, dbVars, taskVars, serverVars, histVars>>

-----------------------------------------------------------------------------
\* newVpnSession (VPNSessionRepository.kt)

\* The callbacks send to the orchestrator under its lock.
Deliver(m) ==
  LockFree /\ msgs' = IF m.r \in old THEN msgs ELSE Append(msgs, m)

\* The row is inserted and the request sent.
CoInserts(r) ==
  /\ Co(r, "insert", "call") /\ ~co[r].cancelled
  /\ rows' = rows \cup {r} /\ flying' = flying \cup {r}
  /\ UNCHANGED <<uiVars, marked, watch, end, recl, old, server, histVars>>

CoAnswered(r) ==
  /\ Co(r, "call", "update") /\ ~co[r].cancelled /\ server[r] # "none"
  /\ UNCHANGED <<uiVars, dbVars, watch, end, recl, old, serverVars, histVars>>

\* The server refuses, or there is no answer, whatever it does.
CoFails(r) ==
  /\ Co(r, "call", "fail") /\ ~co[r].cancelled
  /\ \/ r \in flying /\ flying' = flying \ {r} /\ UNCHANGED <<faults, lost>>
     \/ Fault("request") /\ lost' = lost \cup {r} /\ UNCHANGED flying
  /\ UNCHANGED <<uiVars, dbVars, watch, end, recl, old, server, odd>>

\* The row is written back as it was made: not marked.
CoUpdates(r) ==
  /\ Co(r, "update", "respond") /\ ~co[r].cancelled
  /\ marked' = marked \ {r}
  /\ UNCHANGED <<uiVars, rows, watch, end, recl, old, serverVars, histVars>>

\* The callback runs, cancelled or not.
CoResponds(r) ==
  /\ \/ Co(r, "respond", "launch") /\ Deliver(Msg("response", r, "Accepted"))
     \/ /\ Co(r, "fail", IF co[r].cancelled THEN "done" ELSE "delete")
        /\ Deliver(Msg("response", r, "Error"))
  /\ UNCHANGED <<st, turn, revoke, plan, perm, tun, watch, end, recl, old>>
  /\ UNCHANGED <<dbVars, serverVars, histVars>>

\* The watcher is a new child of the scope: a cancellation before does not
\* reach it.
CoLaunches(r) ==
  /\ Co(r, "launch", "done")
  /\ watch' = [watch EXCEPT ![r] = Watch("on", "none")]
  /\ UNCHANGED <<uiVars, dbVars, end, recl, old, serverVars, histVars>>

CoDeletes(r) ==
  /\ Co(r, "delete", "done") /\ ~co[r].cancelled
  /\ rows' = rows \ {r} /\ marked' = marked \ {r}
  /\ UNCHANGED <<uiVars, watch, end, recl, old, serverVars, histVars>>

\* Cancelled in a statement, which is executed or not, or in the call.
CoCancelled(r) ==
  /\ \E ph \in {"insert", "call", "update", "delete"} :
       /\ Co(r, ph, "done") /\ co[r].cancelled
       /\ \/ UNCHANGED dbVars
          \/ ph = "insert" /\ rows' = rows \cup {r} /\ UNCHANGED marked
          \/ ph = "update" /\ marked' = marked \ {r} /\ UNCHANGED rows
          \/ ph = "delete" /\ rows' = rows \ {r} /\ marked' = marked \ {r}
  /\ UNCHANGED <<uiVars, watch, end, recl, old, serverVars, histVars>>

-----------------------------------------------------------------------------
\* VPNSessionWatcher.watch

\* Every poll is delivered; one that repeats a message not yet handled is
\* left out, as it is handled like the first.
Poll(r) ==
  LET m == Msg("update", r, server[r])
  IN /\ watch[r].ph = "on" /\ \A i \in DOMAIN msgs : msgs[i] # m
     /\ watch' = [watch EXCEPT ![r] = Watch("polled", server[r])]
     /\ UNCHANGED <<uiVars, dbVars, co, end, recl, old, serverVars, histVars>>

\* Mutant: any answer ends the watch.
WatchDeliversOnce(r) ==
  /\ watch[r].ph = "polled"
  /\ Deliver(Msg("update", r, watch[r].s))
  /\ watch' = [watch EXCEPT ![r] = Watch("off", "none")]
  /\ UNCHANGED <<st, turn, revoke, plan, perm, tun, co, end, recl, old>>
  /\ UNCHANGED <<dbVars, serverVars, histVars>>

\* The watch ends with ServerReady or a final status.
WatchDelivers(r) ==
  LET w == watch[r]
  IN /\ w.ph = "polled"
     /\ Deliver(Msg("update", r, w.s))
     /\ watch' = [watch EXCEPT ![r] =
          Watch(IF w.cancelled \/ w.s = "ServerReady" THEN "off"
                ELSE IF w.s \in Final THEN "delete" ELSE "on", "none")]
     /\ UNCHANGED <<st, turn, revoke, plan, perm, tun, co, end, recl, old>>
     /\ UNCHANGED <<dbVars, serverVars, histVars>>

\* deleteWithRequestId; a watcher cancelled here may not get to it.
WatchDeletes(r) ==
  /\ watch[r].ph = "delete"
  /\ watch' = [watch EXCEPT ![r] = Watch("off", "none")]
  /\ \/ rows' = rows \ {r} /\ marked' = marked \ {r}
     \/ watch[r].cancelled /\ UNCHANGED dbVars
  /\ UNCHANGED <<uiVars, co, end, recl, old, serverVars, histVars>>

-----------------------------------------------------------------------------
\* endVpnSession and the reclaimer (VpnSessionReclaimer.kt)

EndReads(c, r) ==
  /\ end[c][r].ph = "queued"
  /\ end' = [end EXCEPT ![c][r] = [ph |-> "call", row |-> r \in rows]]
  /\ UNCHANGED <<uiVars, dbVars, co, watch, recl, old, serverVars, histVars>>

ServerEnds(c, r) ==
  /\ end[c][r].ph = "call" /\ server[r] \in Live
  /\ server' = [server EXCEPT ![r] = "Ended"]
  /\ end' = [end EXCEPT ![c][r].ph = "applied"]
  /\ UNCHANGED <<uiVars, dbVars, co, watch, recl, old, flying, histVars>>

\* Success, or not_found: the row that was read is deleted.
EndReturns(c, r) ==
  /\ \/ end[c][r].ph = "applied"
     \/ end[c][r].ph = "call" /\ server[r] \notin Live
  /\ end' = [end EXCEPT ![c][r] = NoEnd]
  /\ IF end[c][r].row THEN rows' = rows \ {r} /\ marked' = marked \ {r}
                      ELSE UNCHANGED dbVars
  /\ lost' = IF r \in flying THEN lost \cup {r} ELSE lost
  /\ UNCHANGED <<uiVars, co, watch, recl, old, serverVars, faults, odd>>

RunReclaimer == recl' = IF recl = "off" THEN "on" ELSE recl

\* Mutant: the row is deleted whatever the error.
EndFailsDeletes(c, r) ==
  /\ end[c][r].ph \in {"call", "applied"} /\ Fault("end")
  /\ end' = [end EXCEPT ![c][r] = NoEnd]
  /\ rows' = rows \ {r} /\ marked' = marked \ {r}
  /\ UNCHANGED <<uiVars, co, watch, recl, old, serverVars, lost, odd>>

\* Any other error: if there was a row, all rows are marked.
EndFails(c, r) ==
  /\ end[c][r].ph \in {"call", "applied"} /\ Fault("end")
  /\ end' = [end EXCEPT ![c][r] = NoEnd]
  /\ IF end[c][r].row THEN marked' = rows /\ Swept ELSE UNCHANGED <<marked, odd>>
  /\ RunReclaimer
  /\ UNCHANGED <<uiVars, rows, co, watch, old, serverVars, lost>>

\* Mutant: every row is reclaimed.
ReclaimAll ==
  /\ recl = "on"
  /\ recl' = IF rows = {} THEN "stopping" ELSE "on"
  /\ EndVpnSession("reclaimer", rows)
  /\ UNCHANGED <<uiVars, dbVars, co, watch, old, serverVars, histVars>>

\* Mutant: it stops after one round.
ReclaimOnce ==
  /\ recl = "on"
  /\ recl' = "stopping"
  /\ EndVpnSession("reclaimer", marked)
  /\ UNCHANGED <<uiVars, dbVars, co, watch, old, serverVars, histVars>>

\* A round: toReclaim, and an end for each, until there are none.  (A call
\* of an earlier round that is still under way counts for this one.)
Reclaim ==
  /\ recl = "on"
  /\ recl' = IF marked = {} THEN "stopping" ELSE "on"
  /\ EndVpnSession("reclaimer", marked)
  /\ UNCHANGED <<uiVars, dbVars, co, watch, old, serverVars, histVars>>

\* After the loop, _running is still to be reset.
ReclaimerStops ==
  /\ recl = "stopping" /\ recl' = "off"
  /\ UNCHANGED <<uiVars, dbVars, co, watch, end, old, serverVars, histVars>>

-----------------------------------------------------------------------------
\* Life of the service and of the processes

\* onDestroy, and later onCreate, with a new orchestrator and repository;
\* what the coroutines of the old one send is not heard.
ServiceRecreated ==
  /\ turn.k = "idle" /\ Fault("restart")
  /\ OnDisconnectInner
  /\ msgs' = <<>> /\ old' = Used /\ recl' = "on"
  /\ UNCHANGED <<turn, revoke, plan, perm, dbVars, serverVars, lost, odd>>

\* The activity's process starts while the service runs; VPNApplication is
\* created in each process, and its init marks all rows.
ActivityStarts ==
  /\ Fault("activity")
  /\ marked' = rows /\ Swept
  /\ UNCHANGED <<uiVars, rows, taskVars, serverVars, lost>>

\* The service's process ends, and starts again with the same init.
ProcessRestarts ==
  /\ Fault("restart")
  /\ st' = Disconnected /\ msgs' = <<>> /\ revoke' = "none"
  /\ turn' = Idle /\ plan' = NoPlan /\ tun' = NoReq
  /\ co' = [r \in ReqId |->
       [ph |-> IF r \in Used THEN "done" ELSE "none", cancelled |-> FALSE]]
  /\ watch' = [r \in ReqId |-> Watch("off", "none")]
  /\ end' = [c \in Caller |-> [r \in ReqId |-> NoEnd]]
  /\ recl' = "on" /\ marked' = rows
  /\ UNCHANGED <<perm, rows, old, serverVars, lost, odd>>

-----------------------------------------------------------------------------
\* The VPN server

ServerAccepts(r) ==
  /\ r \in flying /\ flying' = flying \ {r}
  /\ server' = [server EXCEPT ![r] = "Accepted"]
  /\ UNCHANGED <<uiVars, dbVars, taskVars, histVars>>

ServerMoves(r) ==
  /\ server[r] \in Live
  /\ \E s \in Stages \cup {"ServerReady"} :
       server[r] \in Before(s) /\ server' = [server EXCEPT ![r] = s]
  /\ UNCHANGED <<uiVars, dbVars, taskVars, flying, histVars>>

ServerFails(r) ==
  /\ server[r] \in Live /\ Fault("server")
  /\ \E s \in Final : server' = [server EXCEPT ![r] = s]
  /\ UNCHANGED <<uiVars, dbVars, taskVars, flying, lost, odd>>

-----------------------------------------------------------------------------
MainStep ==
  \/ ConnectRequests \/ ConnectLaunches \/ OnConnectResponse \/ OnVpnSessionUpdate
  \/ Permitted \/ NotPermitted \/ UpdateReads \/ Applies \/ Connects
  \/ TurnOn \/ TurnOnFails \/ TurnedOn
RevokeStep == OnRevoke \/ RevokeReads \/ RevokeMoves \/ RevokeTurnsOff \/ RevokeEnds
CoStep(r) ==
  \/ CoInserts(r) \/ CoAnswered(r) \/ CoFails(r) \/ CoUpdates(r) \/ CoResponds(r)
  \/ CoLaunches(r) \/ CoDeletes(r) \/ CoCancelled(r)
WatchStep(r) == Poll(r) \/ WatchDelivers(r) \/ WatchDeletes(r)
EndStep(c, r) == EndReads(c, r) \/ ServerEnds(c, r) \/ EndReturns(c, r) \/ EndFails(c, r)
ReclaimStep == Reclaim \/ ReclaimerStops
ServerStep(r) == ServerAccepts(r) \/ ServerMoves(r) \/ ServerFails(r)

Next ==
  \/ MainStep \/ OnDisconnect \/ PermissionLost \/ RevokeStep \/ Grant \/ ReclaimStep
  \/ ServiceRecreated \/ ActivityStarts \/ ProcessRestarts
  \/ \E r \in ReqId : OnConnect(r) \/ CoStep(r) \/ WatchStep(r) \/ ServerStep(r)
  \/ \E c \in Caller, r \in ReqId : EndStep(c, r)

Spec == Init /\ [][Next]_vars

\* Threads and coroutines run, and calls return or fail; nothing is assumed
\* of the user, the permission and the server's provisioning.
FairSpec ==
  /\ Spec
  /\ WF_vars(MainStep) /\ WF_vars(RevokeStep) /\ WF_vars(ReclaimStep)
  /\ \A r \in ReqId : WF_vars(CoStep(r)) /\ WF_vars(WatchStep(r))
  /\ \A c \in Caller, r \in ReqId : WF_vars(EndStep(c, r))

-----------------------------------------------------------------------------
Shown == {"Requesting", "Connecting", "Connected", "Disconnecting"} \cup Live
AppState == {Disconnected} \cup [k : Shown, req : ReqId]
Disconnection == [to : AppState, off : BOOLEAN, req : ReqId \cup {NoReq}]
Coroutine == [ph : {"none", "new", "insert", "call", "update", "respond", "launch", "fail",
                    "delete", "done"}, cancelled : BOOLEAN]
Watcher == [ph : {"on", "polled", "delete", "off"},
            s : Live \cup Final \cup {"none"}, cancelled : BOOLEAN]
Message == [k : {"update"}, r : ReqId, s : Live \cup Final]
             \cup [k : {"response"}, r : ReqId, s : {"Accepted", "Error"}]
Handler ==
  {Idle, Msg("apply", NoReq, "Disconnected")}
    \cup [k : {"connect", "launch", "ready", "connecting", "establish", "up"}, r : ReqId,
          s : {"none"}]
    \cup [k : {"update", "read"}, r : ReqId, s : Live \cup Final]
    \cup [k : {"apply"}, r : ReqId, s : Live]

TypeOK ==
  /\ st \in AppState
  /\ msgs \in Seq(Message)
  /\ turn \in Handler
  /\ revoke \in {"none", "due", "cancelled", "moves", "turnOff", "end"} /\ perm \in BOOLEAN
  /\ plan \in Disconnection
  /\ tun \in ReqId \cup {NoReq}
  /\ co \in [ReqId -> Coroutine] /\ watch \in [ReqId -> Watcher]
  /\ end \in [Caller -> [ReqId -> [ph : {"none", "queued", "call", "applied"}, row : BOOLEAN]]]
  /\ recl \in {"off", "on", "stopping"}
  /\ marked \subseteq rows /\ rows \subseteq ReqId /\ old \subseteq ReqId
  /\ server \in [ReqId -> Live \cup Final \cup {"none"}] /\ flying \subseteq ReqId
  /\ faults \in 0..MaxFaults /\ lost \subseteq ReqId
  /\ odd \subseteq {"mixed", "raced", "swept"}

\* A session that lives on the server has a row from which it can be ended,
\* whichever coroutines were cancelled and wherever a process ended, unless
\* the answer to its request was lost or an end call overtook the request.
SessionTracked ==
  \A r \in ReqId : server[r] \in Live => r \in rows \cup lost

\* No end call concerns the session in use, unless all rows were marked
\* (a failed end call, the start of the activity), a message was taken for
\* another request's, or onRevoke met a handler of the main thread halfway.
EndsNotInUse ==
  odd = {} => \A c \in Caller, r \in InUse : end[c][r] = NoEnd

\* At rest the tunnel is up when Connected is shown, to the server of that
\* session, and down otherwise, unless a message of another request or a
\* revocation in the middle of a handler came between.
TunnelAsShown ==
  (odd \subseteq {"swept"} /\ turn.k = "idle" /\ LockFree) =>
    tun = IF st.k = "Connected" THEN st.req ELSE NoReq

\* What a running reclaimer can find marked is ended and deleted, through
\* failed end calls and restarts, or is written back as unmarked by the
\* coroutine that requests it.
MarkedIsReclaimed ==
  \A r \in ReqId : (r \in marked /\ recl = "on") ~> r \notin marked

\* A session that is ready on the server gets connected or given up: its
\* watcher is started after the answer was sent, and stops only after it
\* has delivered ServerReady.  Excepted are messages of another request,
\* and a revocation in the middle of a handler, which then writes back the
\* state of a session whose watcher was cancelled.
ReadyIsConnected ==
  \A r \in ReqId :
    (server[r] = "ServerReady" /\ st.req = r /\ st.k \in {"Requesting"} \cup Live) ~>
      \/ st.k \in {"Connected", "Disconnected"} \/ st.req # r
      \/ server[r] # "ServerReady" \/ odd \cap {"mixed", "raced"} # {}
=============================================================================
