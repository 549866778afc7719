--------------------------- MODULE SessionLedger ---------------------------
(***************************************************************************)
(* What the session bookkeeping of the daemon promises, without saying     *)
(* how: each request is opened once, is active until it is given up or     *)
(* found to be over, and may be forgotten then.  No request comes back to   *)
(* life, the server accepts only an active one, and the client forgets no  *)
(* session that is still live there unless an answer about it is lost.     *)
(***************************************************************************)
EXTENDS Naturals

CONSTANT ReqId

VARIABLES phase,   \* per request, the client's record of it
          srv,     \* per request, the session on the server
          missed   \* requests whose fate the client was not told

ledgerVars == <<phase, srv, missed>>

Init ==
  /\ phase = [r \in ReqId |-> "free"]
  /\ srv = [r \in ReqId |-> "none"]
  /\ missed = {}

\* A request is recorded before the server hears of it.
Open(r) ==
  /\ phase[r] = "free"
  /\ phase' = [phase EXCEPT ![r] = "active"]
  /\ UNCHANGED <<srv, missed>>

Accept(r) ==
  /\ phase[r] = "active" /\ srv[r] = "none"
  /\ srv' = [srv EXCEPT ![r] = "live"]
  /\ UNCHANGED <<phase, missed>>

\* The client gives up some active requests, one or all of them.
GiveUp(R) ==
  /\ \A r \in R : phase[r] = "active"
  /\ phase' = [r \in ReqId |-> IF r \in R THEN "ending" ELSE phase[r]]
  /\ UNCHANGED <<srv, missed>>

\* The session is over on the server, by anyone's doing.
Close(r) ==
  /\ srv[r] = "live"
  /\ srv' = [srv EXCEPT ![r] = "over"]
  /\ UNCHANGED <<phase, missed>>

\* The record goes, when nothing is left on the server ...
Forget(r) ==
  /\ phase[r] \in {"active", "ending"}
  /\ srv[r] # "live"
  /\ phase' = [phase EXCEPT ![r] = "gone"]
  /\ UNCHANGED <<srv, missed>>

\* ... or the client has no answer and stops trying.
Abandon(r) ==
  /\ phase[r] \in {"active", "ending", "gone"}
  /\ phase' = [phase EXCEPT ![r] = "gone"]
  /\ missed' = missed \cup {r}
  /\ UNCHANGED srv

Next ==
  \/ \E r \in ReqId : \/ Open(r) \/ Accept(r) \/ Close(r)
                      \/ Forget(r) \/ Abandon(r)
  \/ \E R \in SUBSET ReqId : GiveUp(R)

Spec == Init /\ [][Next]_ledgerVars
=============================================================================
