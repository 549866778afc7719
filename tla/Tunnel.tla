------------------------------- MODULE Tunnel -------------------------------
(***************************************************************************)
(* The tunnel state machine (talpid-core, external) as this daemon drives  *)
(* it: commands arrive on tcmd, transitions are appended to the daemon's   *)
(* event queue, and every attempt to connect first asks the daemon's       *)
(* ParameterGenerator (tunnel.rs) for the peer, read from the vpn_session  *)
(* table.                                                                  *)
(***************************************************************************)
EXTENDS VpnSessionService

VARIABLES
  tun,        \* the tunnel's state, what follows a disconnect, its peer
  tcmd        \* commands sent and not yet handled

Transition == {"Disconnected", "Connecting", "Connected", "Disconnecting",
               "Error"}
TunnelState == [st : Transition, after : {"nothing", "reconnect", "block"},
                peer : ReqId \cup {NoReq}]
TunnelDown == [st |-> "Disconnected", after |-> "nothing", peer |-> NoReq]

\* The tunnel enters state s and tells the daemon.
Enter(s) ==
  /\ tun' = s
  /\ events' = Append(events, TunnelEvent(s.st))

\* generate_parameter looks at one row of the table, whichever the query
\* finds and whether or not it is marked for deletion, and fails if there
\* is none or the server's address and key are not in it.
GenerateParameter(t) ==
  IF t = EmptyTable THEN {NoReq}
  ELSE {IF t[r].ready THEN r ELSE NoReq : r \in DOMAIN t}

\* Parameters first, so that Connecting is announced with a peer.
TryConnect ==
  \E r \in GenerateParameter(table) :
    Enter(IF r = NoReq THEN [TunnelDown EXCEPT !.st = "Error"]
          ELSE [st |-> "Connecting", after |-> "nothing", peer |-> r])

Leave(after) == Enter([tun EXCEPT !.st = "Disconnecting", !.after = after])

TunnelConnect ==
  /\ tcmd # <<>> /\ Head(tcmd) = "Connect"
  /\ tcmd' = Tail(tcmd)
  /\ \/ tun.st \in {"Disconnected", "Error"} /\ TryConnect
     \/ tun.st \in {"Connecting", "Connected"} /\ Leave("reconnect")
     \/ /\ tun.st = "Disconnecting"
        /\ tun' = [tun EXCEPT !.after = "reconnect"]
        /\ UNCHANGED events
  /\ UNCHANGED <<table, faults>>

TunnelDisconnect ==
  /\ tcmd # <<>> /\ Head(tcmd) = "Disconnect"
  /\ tcmd' = Tail(tcmd)
  /\ \/ tun.st = "Disconnected" /\ UNCHANGED <<tun, events>>
     \/ tun.st = "Error" /\ Enter(TunnelDown)
     \/ tun.st \in {"Connecting", "Connected"} /\ Leave("nothing")
     \/ /\ tun.st = "Disconnecting"
        /\ tun' = [tun EXCEPT !.after = "nothing"]
        /\ UNCHANGED events
  /\ UNCHANGED <<table, faults>>

TunnelConnected ==
  /\ tun.st = "Connecting"
  /\ Enter([tun EXCEPT !.st = "Connected"])
  /\ UNCHANGED <<table, tcmd, faults>>

\* The tunnel is closed: stop, connect again, or stay blocked in Error.
TunnelClosed ==
  /\ tun.st = "Disconnecting"
  /\ \/ tun.after = "nothing" /\ Enter(TunnelDown)
     \/ tun.after = "reconnect" /\ TryConnect
     \/ tun.after = "block" /\ Enter([TunnelDown EXCEPT !.st = "Error"])
  /\ UNCHANGED <<table, tcmd, faults>>

\* The tunnel breaks: it reconnects, or gives up and blocks.
TunnelFault ==
  /\ tun.st \in {"Connecting", "Connected"}
  /\ faults < MaxFaults
  /\ faults' = faults + 1
  /\ Leave("reconnect") \/ Leave("block")
  /\ UNCHANGED <<table, tcmd>>

TunnelCommand == TunnelConnect \/ TunnelDisconnect

TunnelNext ==
  TunnelCommand \/ TunnelConnected \/ TunnelClosed \/ TunnelFault
=============================================================================
