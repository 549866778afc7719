------------------------------- MODULE Account -------------------------------
(***************************************************************************)
(* Signing in and out: the device service actor (device/handler.rs), the   *)
(* device and token tables it writes in several statements each, the       *)
(* authentication layer in front of every call (modvpn-controller's        *)
(* auth.rs), and the daemon's guards on sign in, sign out and connect.     *)
(*                                                                         *)
(* Of the daemon's session only its being set up or in progress matters    *)
(* here.  A call goes from the client through the authentication layer,    *)
(* which asks the device service, to the daemon, which spawns a task that  *)
(* sends the command to the device service.  The service handles one       *)
(* command at a time, awaiting the server and the database on the way; a   *)
(* statement that fails ends the command, or is passed over.               *)
(***************************************************************************)
EXTENDS Naturals, Sequences

CONSTANTS Call,        \* calls of clients, each made at most once
          Device,      \* device ids (v4 UUIDs, never generated twice)
          Token,       \* tokens the server issues
          NoCall, NoDevice, NoToken,
          MaxEnds      \* bound on ends of the process

ASSUME AccountAssumption ==
  /\ NoCall \notin Call /\ NoDevice \notin Device /\ NoToken \notin Token
  /\ MaxEnds \in Nat

VARIABLES
  mode,       \* the process
  device,     \* the row of the device table
  tokens,     \* the token table, in the order of its primary key
  mem,        \* DeviceService.token
  calls,      \* per call, what it asks for and where it is
  queue,      \* commands sent to the device service
  work,       \* the command the device service is handling
  session,    \* the daemon's session and the device it was requested for
  owner,      \* per token, the device the server issued it to
  honoured,   \* tokens the server accepts
  made,       \* device ids generated so far
  failed,     \* steps whose statement failed, until that is made good
  ends        \* times the process ended so far

vars == <<mode, device, tokens, mem, calls, queue, work, session, owner,
          honoured, made, failed, ends>>
server == <<owner, honoured>>
store == <<device, tokens, made, failed>>

Op == {"SignIn", "SignOut", "Connect"}
\* auth: at the authentication layer; command: at the daemon; task: in the
\* task the daemon spawned; service: at the device service.
CallPhase == {"auth", "command", "task", "service", "done"}
NoDeviceRow == [id |-> NoDevice, addr |-> FALSE]
Idle == [op |-> "none", step |-> "none", call |-> NoCall, tok |-> NoToken]
NoSession == [ph |-> "none", dev |-> NoDevice]

\* get_token: one row, without an order, which SQLite finds first by its
\* primary key.
First(ts) == IF ts = <<>> THEN NoToken ELSE Head(ts)

Init ==
  /\ mode = "Down" /\ device = NoDeviceRow /\ tokens = <<>>
  /\ mem = NoToken
  /\ calls = [c \in Call |-> [op |-> "none", ph |-> "new"]]
  /\ queue = <<>> /\ work = Idle /\ session = NoSession
  /\ owner = [t \in Token |-> NoDevice] /\ honoured = {}
  /\ made = {} /\ failed = {} /\ ends = 0

-----------------------------------------------------------------------------
\* Calls

\* After a panic of the daemon task the others run on until main returns.
Alive == mode \in {"Up", "Panicked"}
MoveTo(c, ph) == calls' = [calls EXCEPT ![c].ph = ph]
Send(cmd, c) == queue' = Append(queue, [cmd |-> cmd, call |-> c])

\* Only signing in needs no authentication.
MakeCall(c, op) ==
  /\ Alive /\ calls[c].ph = "new"
  /\ IF op = "SignIn"
       THEN /\ calls' = [calls EXCEPT ![c] = [op |-> op, ph |-> "command"]]
            /\ UNCHANGED queue
       ELSE /\ calls' = [calls EXCEPT ![c] = [op |-> op, ph |-> "auth"]]
            /\ Send("IsAuthenticated", c)
  /\ UNCHANGED <<mode, mem, work, session, ends, server, store>>

\* The device service takes the next command.
Takes(cmd, c) ==
  /\ Alive /\ work = Idle
  /\ queue # <<>> /\ Head(queue) = [cmd |-> cmd, call |-> c]
  /\ queue' = Tail(queue)

HandleIsAuthenticated(c) ==
  /\ Takes("IsAuthenticated", c)
  /\ MoveTo(c, IF mem # NoToken THEN "command" ELSE "done")
  /\ UNCHANGED <<mode, mem, work, session, ends, server, store>>

\* The daemon handles nothing while it awaits NewSession.
AtDaemon(c, op) ==
  /\ mode = "Up" /\ session.ph \in {"none", "session"}
  /\ calls[c] = [op |-> op, ph |-> "command"]

\* Sign in and sign out are refused while a session is in progress.
OnAccountSignInOut(c) ==
  /\ \E op \in {"SignIn", "SignOut"} : AtDaemon(c, op)
  /\ MoveTo(c, IF session.ph = "session" THEN "done" ELSE "task")
  /\ UNCHANGED <<mode, mem, queue, work, session, ends, server, store>>

TaskSends(c) ==
  /\ Alive /\ calls[c].ph = "task"
  /\ MoveTo(c, "service")
  /\ Send(calls[c].op, c)
  /\ UNCHANGED <<mode, mem, work, session, ends, server, store>>

-----------------------------------------------------------------------------
\* Connect, as far as it reads the device and the token

\* get_device_unique_id unwraps the row it expects.
UnwrapFails == device = NoDeviceRow

\* A status that shows a session refuses the call; else the row of the new
\* session is inserted (module Daemon) and the device's id read.
OnConnect(c) ==
  /\ AtDaemon(c, "Connect")
  /\ MoveTo(c, "done")
  /\ \/ session.ph = "session" /\ UNCHANGED <<mode, session>>
     \/ /\ session.ph = "none" /\ UnwrapFails
        /\ mode' = "Panicked"
        /\ UNCHANGED session
     \/ /\ session.ph = "none" /\ ~UnwrapFails
        /\ session' = [ph |-> "calling", dev |-> device.id]
        /\ UNCHANGED mode
  /\ UNCHANGED <<mem, queue, work, ends, server, store>>

\* The server grants the session to a token it honours ...
SessionGranted ==
  /\ Alive /\ session.ph = "calling"
  /\ First(tokens) \in honoured
  /\ session' = [session EXCEPT !.ph = "granted"]
  /\ UNCHANGED <<mode, mem, calls, queue, work, ends, server, store>>

\* ... and the daemon gets its answer; any call may fail.
NewSessionAnswered ==
  /\ mode = "Up"
  /\ \/ /\ session.ph = "granted"
        /\ session' = [session EXCEPT !.ph = "session"]
     \/ /\ session.ph \in {"calling", "granted"}
        /\ session' = NoSession
  /\ UNCHANGED <<mode, mem, calls, queue, work, ends, server, store>>

SessionEnds ==
  /\ mode = "Up" /\ session.ph = "session"
  /\ session' = NoSession
  /\ UNCHANGED <<mode, mem, calls, queue, work, ends, server, store>>

-----------------------------------------------------------------------------
\* The device service

\* Mutant: the device is generated anew although there is one.
InitDeviceAlways ==
  \E d \in Device \ made :
    /\ device' = [id |-> d, addr |-> FALSE]
    /\ made' = made \cup {d}

\* DeviceStorage::init: the row that is there, or a new one.
InitDevice ==
  IF device # NoDeviceRow THEN UNCHANGED <<device, made>>
  ELSE \E d \in Device \ made :
         /\ device' = [id |-> d, addr |-> FALSE]
         /\ made' = made \cup {d}

At(op, step) == Alive /\ work.op = op /\ work.step = step
Step(s) == work' = [work EXCEPT !.step = s]
Done == work' = Idle /\ MoveTo(work.call, "done")

\* Connecting fails, or the device is initialised and its details read,
\* unless the storage fails.
SignInStart(c) ==
  /\ Takes("SignIn", c)
  /\ \/ /\ InitDevice /\ failed' = failed \ {"init"}
        /\ \/ /\ work' = [op |-> "SignIn", step |-> "add", call |-> c, tok |-> NoToken]
              /\ UNCHANGED calls
           \/ MoveTo(c, "done") /\ UNCHANGED work
     \/ MoveTo(c, "done") /\ UNCHANGED <<work, device, made, failed>>
  /\ UNCHANGED <<mode, tokens, mem, session, ends, server>>

\* Mutant: an error answer is taken for an answer without a token.
AddDeviceUnchecked ==
  /\ At("SignIn", "add")
  /\ Step("save")
  /\ UNCHANGED <<mode, mem, calls, queue, session, ends, server, store>>

\* The server issues a token to the device, or not, and its answer arrives,
\* or not.
AddDevice ==
  /\ At("SignIn", "add")
  /\ \/ \E t \in Token :
          /\ owner[t] = NoDevice
          /\ owner' = [owner EXCEPT ![t] = device.id]
          /\ honoured' = honoured \cup {t}
          /\ \/ work' = [work EXCEPT !.step = "save", !.tok = t] /\ UNCHANGED calls
             \/ Done
     \/ Done /\ UNCHANGED server
  /\ UNCHANGED <<mode, mem, queue, session, ends, store>>

\* save_token, first statement: the row is inserted ...
SaveToken ==
  /\ At("SignIn", "save")
  /\ tokens' = Append(tokens, work.tok)
  /\ Step("prune")
  /\ UNCHANGED <<mode, device, made, failed, mem, calls, queue, session, ends, server>>

\* ... second statement: the older ones are deleted.
PruneTokens ==
  /\ At("SignIn", "prune")
  /\ tokens' = <<work.tok>>
  /\ Step("address")
  /\ UNCHANGED <<mode, device, made, failed, mem, calls, queue, session, ends, server>>

\* update_ipv4_address finds the row by the id read before; only this actor
\* changes it.
SetAddress == device' = [device EXCEPT !.addr = TRUE]

\* The address is stored, then the token is kept in memory.
UpdateIpv4Address ==
  /\ At("SignIn", "address")
  /\ SetAddress
  /\ mem' = work.tok
  /\ Done /\ failed' = {}
  /\ UNCHANGED <<mode, tokens, made, queue, session, ends, server>>

\* Mutant: any error of the call is passed over.
SignOutIgnoresErrors(c) ==
  /\ Takes("SignOut", c)
  /\ honoured' \in {honoured, honoured \ {First(tokens)}}
  /\ work' = [op |-> "SignOut", step |-> "delete", call |-> c, tok |-> NoToken]
  /\ UNCHANGED <<mode, mem, calls, session, ends, owner, store>>

\* The server forgets the token, or never knew it (Unauthenticated); any
\* other error, whether the server has acted or not, ends the command.  If
\* the token cannot be read the call is made without one.
SignOutCall(c) ==
  /\ Takes("SignOut", c)
  /\ \/ /\ \/ honoured' = honoured \ {First(tokens)} /\ UNCHANGED failed
           \/ failed' = failed \cup {"token"} /\ UNCHANGED honoured
        /\ work' = [op |-> "SignOut", step |-> "delete", call |-> c, tok |-> NoToken]
        /\ UNCHANGED calls
     \/ /\ honoured' \in {honoured, honoured \ {First(tokens)}}
        /\ MoveTo(c, "done")
        /\ UNCHANGED <<work, failed>>
  /\ UNCHANGED <<mode, device, tokens, made, mem, session, ends, owner>>

\* reinitialize: the device is deleted ...
DeleteDevice ==
  /\ At("SignOut", "delete")
  /\ device' = NoDeviceRow
  /\ Step("init")
  /\ UNCHANGED <<mode, tokens, made, failed, mem, calls, queue, session, ends, server>>

\* ... and another one made.
ReinitDevice ==
  /\ At("SignOut", "init")
  /\ InitDevice /\ failed' = failed \ {"init"}
  /\ Step("remove")
  /\ UNCHANGED <<mode, tokens, mem, calls, queue, session, ends, server>>

RemoveAll == tokens' = <<>>

\* Mutant: the token stays in memory.
RemoveTokensNotMemory ==
  /\ At("SignOut", "remove")
  /\ RemoveAll
  /\ Done /\ failed' = failed \cap {"init"}
  /\ UNCHANGED <<mode, device, made, mem, queue, session, ends, server>>

RemoveTokens ==
  /\ At("SignOut", "remove")
  /\ RemoveAll /\ mem' = NoToken
  /\ Done /\ failed' = failed \cap {"init"}
  /\ UNCHANGED <<mode, device, made, queue, session, ends, server>>

\* A statement fails, and with it the command; reinitialize passes over an
\* init that does.
StorageFails ==
  /\ \/ /\ At("SignIn", work.step) /\ work.step \in {"save", "prune", "address"}
        /\ Done
     \/ /\ At("SignOut", work.step) /\ work.step \in {"delete", "remove"}
        /\ Done
     \/ At("SignOut", "init") /\ Step("remove") /\ UNCHANGED calls
  /\ failed' = failed \cup {work.step}
  /\ UNCHANGED <<mode, device, tokens, made, mem, queue, session, ends, server>>

-----------------------------------------------------------------------------
\* The server stops honouring a token by itself.
Expire ==
  /\ \E t \in honoured : honoured' = honoured \ {t}
  /\ UNCHANGED <<mode, mem, calls, queue, work, session, ends, owner, store>>

\* The process ends: by a crash or a shutdown, or because the daemon panicked.
ProcessEnds ==
  /\ Alive /\ ends < MaxEnds
  /\ ends' = ends + 1
  /\ mode' = "Down"
  /\ mem' = NoToken /\ queue' = <<>> /\ work' = Idle /\ session' = NoSession
  /\ calls' = [c \in Call |->
       IF calls[c].ph = "new" THEN calls[c] ELSE [calls[c] EXCEPT !.ph = "done"]]
  /\ failed' = failed \cap {"token"}
  /\ UNCHANGED <<device, tokens, made, server>>

\* Mutant: the device is taken to be there.
StartUninitialized ==
  /\ mode = "Down"
  /\ mode' = "Up"
  /\ mem' = First(tokens)
  /\ UNCHANGED <<calls, queue, work, session, ends, server, store>>

\* create_daemon: the device is initialised, the token read.
Start ==
  /\ mode = "Down"
  /\ mode' = "Up"
  /\ InitDevice
  /\ mem' = First(tokens)
  /\ UNCHANGED <<tokens, failed, calls, queue, work, session, ends, server>>

Next ==
  \/ \E c \in Call : \/ \E op \in Op : MakeCall(c, op)
                     \/ HandleIsAuthenticated(c) \/ OnAccountSignInOut(c)
                     \/ TaskSends(c) \/ OnConnect(c)
                     \/ SignInStart(c) \/ SignOutCall(c)
  \/ SessionGranted \/ NewSessionAnswered \/ SessionEnds
  \/ AddDevice \/ SaveToken \/ PruneTokens \/ UpdateIpv4Address
  \/ DeleteDevice \/ ReinitDevice \/ RemoveTokens \/ StorageFails
  \/ Expire \/ ProcessEnds \/ Start

Spec == Init /\ [][Next]_vars

-----------------------------------------------------------------------------
DeviceRow == [id : Device, addr : BOOLEAN]
CallState == [op : Op \cup {"none"}, ph : CallPhase \cup {"new"}]
Command == [cmd : {"IsAuthenticated", "SignIn", "SignOut"}, call : Call]
Work ==
  [op : {"SignIn"}, step : {"add"}, call : Call, tok : {NoToken}]
  \cup [op : {"SignIn"}, step : {"save", "prune", "address"}, call : Call, tok : Token]
  \cup [op : {"SignOut"}, step : {"delete", "init", "remove"}, call : Call,
        tok : {NoToken}]
Session == [ph : {"calling", "granted", "session"}, dev : Device]

TypeOK ==
  /\ mode \in {"Up", "Panicked", "Down"}
  /\ device \in DeviceRow \cup {NoDeviceRow}
  /\ tokens \in Seq(Token)
  /\ mem \in Token \cup {NoToken}
  /\ calls \in [Call -> CallState]
  /\ queue \in Seq(Command)
  /\ work \in Work \cup {Idle}
  /\ session \in Session \cup {NoSession}
  /\ owner \in [Token -> Device \cup {NoDevice}]
  /\ honoured \subseteq Token
  /\ made \subseteq Device
  /\ failed \subseteq {"token", "save", "prune", "address", "delete", "init", "remove"}
  /\ ends \in 0..MaxEnds

\* Whenever the device service is between commands, the token in memory,
\* which decides whether a client is authenticated, is the one in the table,
\* which calls to the server use: wherever the process has ended and whatever
\* call or statement has failed, unless one of a sign in that had inserted
\* its token, and until the next sign in, sign out or start.
MemIsStored ==
  Alive /\ work = Idle /\ failed \cap {"prune", "address"} = {} => mem = First(tokens)

\* The token in use, as long as the server honours it, was issued to the
\* device in the table: sign out gives the token up before the device, if it
\* can read it.
TokenOfDevice ==
  First(tokens) \in honoured /\ "token" \notin failed => owner[First(tokens)] = device.id

\* Until the process ends, a client that is authenticated has a device with an
\* address, which the tunnel's parameters need, unless it is signing out or
\* a sign out could not remove its token.
SignedInHasAddress ==
  ends = 0 /\ mem # NoToken /\ work.op # "SignOut" /\ "remove" \notin failed => device.addr

\* The comment on get_device_unique_id, "assumes device was initialized":
\* wherever the process ended before, the row is there, except between the
\* two statements of reinitialize, and after it when the second one failed.
DeviceInitialized ==
  Alive /\ UnwrapFails =>
    \/ work.op = "SignOut" /\ work.step = "init"
    \/ "init" \in failed

-----------------------------------------------------------------------------
\* What the code says, and is not so.

\* The refusal of on_account_sign_out: no sign out when a session is in
\* progress; so the device of a session is not replaced under it, when no
\* statement fails.
NoSignOutInSession ==
  session.ph = "session" /\ failed = {} => session.dev = device.id
=============================================================================
