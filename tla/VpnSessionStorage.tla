------------------------- MODULE VpnSessionStorage -------------------------
(***************************************************************************)
(* The vpn_session table of the daemon's SQLite database and the queries   *)
(* of vpn_session/storage.rs, as operators on the table's value.           *)
(*                                                                         *)
(* A table is a function from the request ids of its rows (the primary     *)
(* key) to the columns the daemon decides on.  The three server columns    *)
(* (endpoint, private address, public key) are always written together,    *)
(* so they are one Boolean, ready.  Storage calls succeed here.  In the    *)
(* code an error is fatal in the handlers of statuses and transitions      *)
(* (expect), returned to the client by Connect and Disconnect, wherever    *)
(* they are, and logged or passed over by the tasks and the reclaimer.     *)
(* A query that reads a row and then writes it is one step: only the       *)
(* daemon's handlers do so, on unmarked rows, and what the other tasks     *)
(* delete is marked (EndsOnlyGivenUp).                                     *)
(***************************************************************************)
EXTENDS Naturals

CONSTANTS ReqId,      \* request ids (v4 UUIDs, never generated twice)
          Location    \* locations a client may ask for

\* Values of the column server_status; "null" before the server accepted.
StorageServerStatus == {"null", "Accepted", "ServerCreated", "ServerRunning",
                        "ServerReady", "ClientConnected"}

\* What the API reports of a session (VpnSessionStatus).
VpnSessionStatus == {"Accepted", "Failed", "ServerCreated", "ServerRunning",
                     "ServerReady", "ClientConnected", "Ended"}

Row == [loc : Location, srv : StorageServerStatus, uuid : BOOLEAN,
        ready : BOOLEAN, mark : BOOLEAN]

Table == UNION {[ids -> Row] : ids \in SUBSET ReqId}

\* No rows.
EmptyTable == [r \in {} |-> {}]

Unmarked(t) == {r \in DOMAIN t : ~t[r].mark}

NewSession(t, r, l) ==
  [x \in DOMAIN t \cup {r} |->
     IF x = r THEN [loc |-> l, srv |-> "null", uuid |-> FALSE,
                    ready |-> FALSE, mark |-> FALSE]
              ELSE t[x]]

Delete(t, r) == [x \in DOMAIN t \ {r} |-> t[x]]

\* Mutant: the row is deleted at once instead of being marked.
EndSessionDeletes(t, r) == Delete(t, r)

\* storage.end_session marks the row found by .one(); the SQL names no
\* order, so which unmarked row r is found is left to the caller.
EndSession(t, r) ==
  [x \in DOMAIN t |-> IF x = r THEN [t[x] EXCEPT !.mark = TRUE] ELSE t[x]]

Reclaim(t) == [x \in DOMAIN t |-> [t[x] EXCEPT !.mark = TRUE]]

\* Mutants: sessions in use are listed too; only ready sessions are listed.
ToReclaimUnfiltered(t) == {r \in DOMAIN t : t[r].uuid}
ToReclaimReady(t) == {r \in DOMAIN t : t[r].mark /\ t[r].uuid /\ t[r].ready}

ToReclaim(t) == {r \in DOMAIN t : t[r].mark /\ t[r].uuid}

\* Mutant: the uuid of the session is not stored.
UpdateOnAcceptedNoUuid(t, r) ==
  [x \in DOMAIN t |->
     IF x = r THEN [t[x] EXCEPT !.srv = "Accepted"] ELSE t[x]]

UpdateOnAccepted(t, r) ==
  [x \in DOMAIN t |->
     IF x = r THEN [t[x] EXCEPT !.srv = "Accepted", !.uuid = TRUE] ELSE t[x]]

\* The columns written for a row that stays, by the status received.
StoreServerStatus(t, r, s) ==
  [x \in DOMAIN t |->
     IF x = r THEN [t[x] EXCEPT !.srv = s,
                                !.ready = (s = "ServerReady") \/ t[x].ready]
              ELSE t[x]]

\* updated_server_status, its effect on the table: only the row of the
\* status's own request, and only while it is not marked for deletion.
UpdatedServerStatus(t, r, s) ==
  IF r \notin Unmarked(t) THEN t
  ELSE IF s \in {"Failed", "Ended"} THEN Delete(t, r)
  ELSE StoreServerStatus(t, r, s)
=============================================================================
