------------------------- MODULE VpnSessionService -------------------------
(***************************************************************************)
(* Everything that talks to the VPN server on behalf of the daemon: the    *)
(* VpnSessionService actor (handler.rs), its status watchers (watcher.rs), *)
(* the tasks that end a session (the one daemon.rs end_session spawns and  *)
(* the Reclaimer of reclaimer.rs) and the server itself, as far as this    *)
(* code can tell.  All of them share the vpn_session table.                *)
(*                                                                         *)
(* The actor handles one command at a time and awaits the server inside    *)
(* NewSession, so it serves nobody else until that call has returned.      *)
(* A call may be lost before the server sees it or lose its answer after;  *)
(* such failures (other than a NewSession the server never accepted), and  *)
(* sessions the server fails to provision or ends itself, are drawn from   *)
(* the budget of faults, MaxFaults.                                        *)
(***************************************************************************)
EXTENDS DaemonState

CONSTANTS NoReq,      \* no request
          MaxFaults,  \* bound on the faults of a behaviour
          Stages      \* provisioning statuses the server goes through

ASSUME ServiceAssumption ==
  /\ NoReq \notin ReqId
  /\ MaxFaults \in Nat
  /\ Stages \subseteq {"ServerCreated", "ServerRunning"}

VARIABLES
  table,      \* the vpn_session table
  events,     \* the daemon's event queue: statuses and tunnel transitions
  server,     \* per request, the session as the server has it
  svcUp,      \* the VpnSessionService actor has not been shut down
  newCall,    \* the NewSession call in progress
  watcher,    \* per request, its watcher
  endCall,    \* per caller and request, the EndSession call
  connTask,   \* requests with a ClientConnected command to be sent
  faults,     \* faults so far
  lost        \* requests a call about which went wrong unnoticed by the row

Caller == {"daemon", "reclaimer"}
\* queued: asleep in the daemon's task, or in the reclaimer's list; applied:
\* the server has ended the session, its answer is on its way back.
EndPhase == {"none", "queued", "applied"}
Live == {"Accepted", "ServerCreated", "ServerRunning", "ServerReady",
         "ClientConnected"}
\* Mutant: a watcher goes on after ServerReady.
FinalWatchNotReady == {"Failed", "ClientConnected", "Ended"}

FinalWatch == {"Failed", "ServerReady", "ClientConnected", "Ended"}

\* got is the answer to a poll that is not yet delivered, last the one before.
Watcher ==
  [ph : {"none", "idle", "gone"}, stop : BOOLEAN,
   last : VpnSessionStatus \cup {"null"}, got : {"null"}]
  \cup [ph : {"polled"}, stop : BOOLEAN,
        last : VpnSessionStatus \cup {"null"}, got : VpnSessionStatus]
NoWatcher == [ph |-> "none", stop |-> FALSE, last |-> "null", got |-> "null"]
GoneWatcher == [NoWatcher EXCEPT !.ph = "gone"]

Idle == [req |-> NoReq, loc |-> NoLoc, ph |-> "idle"]
NewCall == {Idle} \cup
  [req : ReqId, loc : Location, ph : {"calling", "applied"}]

\* One kind of record for both kinds of daemon events; a tunnel transition
\* belongs to no request.
StatusEvent(r, s) == [req |-> r, st |-> s]
TunnelEvent(tr) == [req |-> NoReq, st |-> tr]

ServiceFree == svcUp /\ newCall.ph = "idle"

\* stop_watcher: the shutdown channel of a watcher that still runs fires.
StopWatcher(w, r) ==
  [w EXCEPT ![r].stop = w[r].ph \in {"idle", "polled"}]

-----------------------------------------------------------------------------
\* NewSession

CallNewSession(r, l) ==
  /\ newCall' = [req |-> r, loc |-> l, ph |-> "calling"]

\* The server accepts the session; the answer is on its way.
NewSessionApplied ==
  /\ newCall.ph = "calling"
  /\ newCall' = [newCall EXCEPT !.ph = "applied"]
  /\ server' = [server EXCEPT ![newCall.req] = "Accepted"]
  /\ UNCHANGED <<table, events, svcUp, watcher, endCall, connTask, faults, lost>>

-----------------------------------------------------------------------------
\* Watchers

StartWatcher(r) ==
  watcher' = [watcher EXCEPT ![r] = [NoWatcher EXCEPT !.ph = "idle"]]

\* The tick and the server's answer to it.  select! may prefer a due tick to
\* a shutdown that is also ready, and a poll under way is never cancelled.
\* A poll that fails, or answers what the last one did, changes nothing.
WatchPoll(r) ==
  /\ watcher[r].ph = "idle"
  /\ server[r] \notin {"None", watcher[r].last}
  /\ watcher' = [watcher EXCEPT ![r].ph = "polled", ![r].got = server[r]]
  /\ UNCHANGED <<table, events, server, svcUp, newCall, endCall, connTask,
                 faults, lost>>

\* The rest of watch_ended: the event for the daemon, and the end of the
\* watch after a final status.
WatchDeliver(r) ==
  /\ watcher[r].ph = "polled"
  /\ events' = Append(events, StatusEvent(r, watcher[r].got))
  /\ watcher' = [watcher EXCEPT ![r] =
       IF watcher[r].got \in FinalWatch THEN GoneWatcher
       ELSE [watcher[r] EXCEPT !.ph = "idle", !.last = watcher[r].got,
                               !.got = "null"]]
  /\ UNCHANGED <<table, server, svcUp, newCall, endCall, connTask, faults,
                 lost>>

WatchStopped(r) ==
  /\ watcher[r].ph = "idle"
  /\ watcher[r].stop
  /\ watcher' = [watcher EXCEPT ![r] = GoneWatcher]
  /\ UNCHANGED <<table, events, server, svcUp, newCall, endCall, connTask,
                 faults, lost>>

-----------------------------------------------------------------------------
\* EndSession, for the daemon's task and for the reclaimer

SetEnd(c, r, ph) == endCall' = [endCall EXCEPT ![c][r] = ph]

\* The service takes the command: it stops the watcher and calls the server
\* from a task of its own.  The reclaimer ends one session at a time.
TakeEnd(c, r) ==
  /\ ServiceFree
  /\ endCall[c][r] = "queued"
  /\ c = "reclaimer" =>
       \A x \in ReqId : endCall["reclaimer"][x] # "applied"
  /\ watcher' = StopWatcher(watcher, r)

\* The call reaches the server, retried for 15 seconds if need be.
EndApplied(c, r) ==
  /\ TakeEnd(c, r)
  /\ SetEnd(c, r, "applied")
  /\ server' = [server EXCEPT ![r] = IF @ \in Live THEN "Ended" ELSE @]
  /\ UNCHANGED <<table, events, svcUp, newCall, connTask, faults, lost>>

\* Ended: both callers delete the row.
EndReturned(c, r) ==
  /\ endCall[c][r] = "applied"
  /\ SetEnd(c, r, "none")
  /\ table' = Delete(table, r)
  /\ UNCHANGED <<events, server, svcUp, newCall, watcher, connTask, faults, lost>>

\* The service is down: both callers leave the row to a later reclaim.
EndServiceDown(c, r) ==
  /\ ~svcUp
  /\ endCall[c][r] = "queued"
  /\ SetEnd(c, r, "none")
  /\ UNCHANGED <<table, events, server, svcUp, newCall, watcher, connTask,
                 faults, lost>>

Fault == faults < MaxFaults /\ faults' = faults + 1

\* Mutant: the row is deleted although the server was not reached.
ConnectionErrorDeletes(c, r) ==
  /\ TakeEnd(c, r)
  /\ Fault
  /\ SetEnd(c, r, "none")
  /\ table' = Delete(table, r)
  /\ UNCHANGED <<events, server, svcUp, newCall, connTask, lost>>

\* No connection to the server: both callers leave the row.
EndConnectionError(c, r) ==
  /\ TakeEnd(c, r)
  /\ Fault
  /\ SetEnd(c, r, "none")
  /\ UNCHANGED <<table, events, server, svcUp, newCall, connTask, lost>>

\* A gRPC status, which a call timing out or broken off is as well.  The
\* daemon's task leaves the row to the reclaimer, the reclaimer deletes it.
ServerErrorHandled(c, r) ==
  /\ SetEnd(c, r, "none")
  /\ table' = IF c = "reclaimer" THEN Delete(table, r) ELSE table
  /\ lost' = IF c = "reclaimer" THEN lost \cup {r} ELSE lost

EndServerError(c, r) ==
  /\ \/ TakeEnd(c, r)
     \/ endCall[c][r] = "applied" /\ UNCHANGED watcher
  /\ Fault
  /\ ServerErrorHandled(c, r)
  /\ UNCHANGED <<events, server, svcUp, newCall, connTask>>

\* reclaim(): the list of sessions to end, taken once per tick.
ReclaimTick ==
  /\ \A r \in ReqId : endCall["reclaimer"][r] = "none"
  /\ endCall' = [endCall EXCEPT !["reclaimer"] =
       [r \in ReqId |-> IF r \in ToReclaim(table) THEN "queued" ELSE "none"]]
  /\ UNCHANGED <<table, events, server, svcUp, newCall, watcher, connTask,
                 faults, lost>>

-----------------------------------------------------------------------------
\* ClientConnected: the watcher is stopped and the server told, or the call
\* fails, which nobody looks at.

ClientConnected(r) ==
  /\ r \in connTask
  /\ ServiceFree
  /\ connTask' = connTask \ {r}
  /\ watcher' = StopWatcher(watcher, r)
  /\ \/ server' = [server EXCEPT ![r] =
                     IF @ = "ServerReady" THEN "ClientConnected" ELSE @]
     \/ UNCHANGED server
  /\ UNCHANGED <<table, events, svcUp, newCall, endCall, faults, lost>>

ClientConnectedServiceDown(r) ==
  /\ r \in connTask
  /\ ~svcUp
  /\ connTask' = connTask \ {r}
  /\ UNCHANGED <<table, events, server, svcUp, newCall, watcher, endCall,
                 faults, lost>>

-----------------------------------------------------------------------------
\* The server: provisioning, its failure, and sessions ended by the server.

Before(s) ==
  {"Accepted"} \cup IF s = "ServerReady" THEN Stages
                    ELSE IF s = "ServerRunning" THEN Stages \ {s} ELSE {}

ServerProgress(r) ==
  /\ \E s \in Stages \cup {"ServerReady"} :
       /\ server[r] \in Before(s)
       /\ server' = [server EXCEPT ![r] = s]
  /\ UNCHANGED <<table, events, svcUp, newCall, watcher, endCall, connTask,
                 faults, lost>>

ServerFailure(r) ==
  /\ server[r] \in Live
  /\ Fault
  /\ \/ server' = [server EXCEPT ![r] = "Ended"]
     \/ /\ server[r] \notin {"ServerReady", "ClientConnected"}
        /\ server' = [server EXCEPT ![r] = "Failed"]
  /\ UNCHANGED <<table, events, svcUp, newCall, watcher, endCall, connTask,
                 lost>>

\* Service shutdown: no command is handled any more, and dropping the
\* shutdown channels stops every watcher.
StopService ==
  /\ svcUp' = FALSE
  /\ watcher' = [r \in ReqId |-> StopWatcher(watcher, r)[r]]
=============================================================================
