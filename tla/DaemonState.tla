---------------------------- MODULE DaemonState ----------------------------
(***************************************************************************)
(* The in-memory state of the daemon (state.rs): the VpnStatus shown to    *)
(* clients and the decisions taken on it.  A status is a record [st, loc]; *)
(* Disconnected carries no location (NoLoc).                               *)
(***************************************************************************)
EXTENDS VpnSessionStorage, Sequences

CONSTANT NoLoc        \* the location of Disconnected

ASSUME NoLocAssumption == NoLoc \notin Location

Disconnected == [st |-> "Disconnected", loc |-> NoLoc]

\* Before the tunnel is told to connect, and from then on.
ServerSide == {"Accepted", "ServerCreated", "ServerRunning"}
TunnelSide == {"ServerReady", "Connecting", "Connected"}

VpnStatus == {Disconnected} \cup
  [st : ServerSide \cup TunnelSide \cup {"Disconnecting"}, loc : Location]

\* Mutant: only a session the tunnel is concerned with counts.
InProgressInTunnel(s) == s.st \in TunnelSide \cup {"Disconnecting"}

VpnSessionInProgress(s) == s.st # "Disconnected"

\* Mutants: Disconnected keeps the location; one status is forgotten.
UpdateKeepsLocation(s) ==
  IF s.st \in TunnelSide \cup {"Disconnecting"}
    THEN [st |-> "Disconnecting", loc |-> s.loc]
    ELSE [st |-> "Disconnected", loc |-> s.loc]
UpdateForgetsAccepted(s) ==
  IF s.st = "Accepted" THEN s
  ELSE IF s.st \in TunnelSide \cup {"Disconnecting"}
    THEN [st |-> "Disconnecting", loc |-> s.loc]
    ELSE Disconnected

UpdateStateOnDisconnect(s) ==
  IF s.st \in TunnelSide \cup {"Disconnecting"}
    THEN [st |-> "Disconnecting", loc |-> s.loc]
    ELSE Disconnected

\* Mutant: a connected tunnel is not told.
CommandForgetsConnected(s) ==
  IF s.st \in TunnelSide \ {"Connected"} THEN <<"Disconnect">> ELSE <<>>

\* tunnel_command_on_disconnect: the commands sent to the tunnel.
TunnelCommandOnDisconnect(s) ==
  IF s.st \in TunnelSide THEN <<"Disconnect">> ELSE <<>>

\* The VpnStatus a server status of an unmarked row leads to; the two that
\* lead to none (Accepted, ClientConnected) keep the current one.
StatusFromServer(cur, s, l) ==
  CASE s \in {"Failed", "Ended"} -> Disconnected
    [] s \in {"ServerCreated", "ServerRunning", "ServerReady"} ->
         [st |-> s, loc |-> l]
    [] OTHER -> cur

\* Mutant: the tunnel is never told to connect.
NoCommandOnStatus(s) == <<>>

\* update_tunnel_on_new_status: the commands sent to the tunnel.
TunnelCommandOnStatus(s) ==
  IF s = "ServerReady" THEN <<"Connect">> ELSE <<>>

\* The VpnStatus a tunnel transition tr leads to when an unmarked row of
\* location l is found.
StatusFromTunnel(tr, l) ==
  IF tr \in {"Disconnected", "Error"} THEN Disconnected
  ELSE [st |-> tr, loc |-> l]
=============================================================================
