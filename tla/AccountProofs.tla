---------------------------- MODULE AccountProofs ----------------------------
(***************************************************************************)
(* Type correctness of Account, and that what a client is told about being *)
(* signed in, the token sent to the server and the device it stands for    *)
(* agree, whenever the process ends and whatever call or statement fails.  *)
(***************************************************************************)
EXTENDS Account, TLAPS

\* MoveTo keeps the type of calls.
LEMMA MoveToType ==
  ASSUME TypeOK, NEW c \in Call, NEW ph \in CallPhase, MoveTo(c, ph)
  PROVE  calls' \in [Call -> CallState]
BY DEF TypeOK, MoveTo, CallState

\* The command taken is removed from the queue of the device service.
LEMMA TakesType ==
  ASSUME TypeOK, NEW cmd, NEW c \in Call, Takes(cmd, c)
  PROVE  queue' \in Seq(Command)
BY DEF TypeOK, Takes

\* A command sent is one the device service knows.
LEMMA SendType ==
  ASSUME TypeOK, NEW cmd \in {"IsAuthenticated", "SignIn", "SignOut"},
         NEW c \in Call, Send(cmd, c)
  PROVE  queue' \in Seq(Command)
<1>1. [cmd |-> cmd, call |-> c] \in Command
  BY DEF Command
<1> QED
  BY <1>1 DEF TypeOK, Send

\* DeviceStorage::init leaves one row, the one that was there if any.
LEMMA InitDeviceType ==
  ASSUME TypeOK, InitDevice
  PROVE  /\ device' \in DeviceRow
         /\ made' \subseteq Device
         /\ device # NoDeviceRow => device' = device
<1>1. CASE device # NoDeviceRow
  BY <1>1 DEF TypeOK, InitDevice
<1>2. CASE device = NoDeviceRow
  <2>1. PICK d \in Device \ made : /\ device' = [id |-> d, addr |-> FALSE]
                                  /\ made' = made \cup {d}
    BY <1>2 DEF InitDevice
  <2>2. [id |-> d, addr |-> FALSE] \in DeviceRow
    BY <2>1 DEF DeviceRow
  <2> QED
    BY <1>2, <2>1, <2>2 DEF TypeOK
<1> QED
  BY <1>1, <1>2

\* The token read is one of the table, or none.
LEMMA FirstType ==
  ASSUME TypeOK
  PROVE  /\ First(tokens) \in Token \cup {NoToken}
         /\ tokens = <<>> => First(tokens) = NoToken
         /\ tokens # <<>> => 1 \in 1..Len(tokens) /\ First(tokens) = tokens[1]
BY DEF TypeOK, First

\* What the step of the work under way says of its other parts.
LEMMA WorkAt ==
  ASSUME TypeOK, NEW op, NEW step, op # "none", At(op, step)
  PROVE  /\ work \in Work /\ work.op = op /\ work.step = step
         /\ work.call \in Call
         /\ step \in {"save", "prune", "address"} => work.tok \in Token
BY DEF TypeOK, At, Work, Idle

\* The work of the device service is over.
LEMMA DoneType ==
  ASSUME TypeOK, work.call \in Call, Done
  PROVE  work' = Idle /\ calls' \in [Call -> CallState]
BY MoveToType DEF Done, CallPhase

\* A statement that fails ends the work, but for the init of a sign out.
LEMMA FailureParts ==
  ASSUME TypeOK, StorageFails
  PROVE  /\ Alive /\ work.call \in Call /\ calls' \in [Call -> CallState]
         /\ work' \in Work \cup {Idle}
         /\ \/ work' = Idle /\ Done /\ ~(work.op = "SignOut" /\ work.step = "init")
            \/ /\ work.op = "SignOut" /\ work.step = "init" /\ UNCHANGED calls
               /\ work'.op = "SignOut" /\ work'.step = "remove"
<1>1. CASE /\ \/ At("SignIn", work.step) /\ work.step \in {"save", "prune", "address"}
              \/ At("SignOut", work.step) /\ work.step \in {"delete", "remove"}
           /\ Done
  BY <1>1, WorkAt, DoneType DEF At
<1>2. CASE At("SignOut", "init") /\ Step("remove") /\ UNCHANGED calls
  <2>1. work \in Work /\ work.op = "SignOut" /\ work.step = "init" /\ work.call \in Call
    BY <1>2, WorkAt
  <2>2. work' \in Work /\ work'.op = "SignOut" /\ work'.step = "remove"
    BY <1>2, <2>1 DEF Step, Work
  <2> QED
    BY <1>2, <2>1, <2>2 DEF At, TypeOK
<1> QED
  BY <1>1, <1>2 DEF StorageFails

\* Only sign in and sign out have a task.
TaskOps ==
  \A c \in Call : calls[c].ph = "task" => calls[c].op \in {"SignIn", "SignOut"}

\* Sign in works on a device that is there.
SignInHasDevice == work.op = "SignIn" => device # NoDeviceRow

\* Every step keeps the types.
LEMMA TypeStep ==
  ASSUME TypeOK, TaskOps, SignInHasDevice, [Next]_vars
  PROVE  TypeOK'
<1>1. ASSUME NEW c \in Call, NEW op \in Op, MakeCall(c, op) PROVE TypeOK'
  <2>1. queue' \in Seq(Command)
    BY <1>1, SendType DEF MakeCall, TypeOK
  <2>2. \A ph \in CallPhase : [op |-> op, ph |-> ph] \in CallState
    BY DEF CallState
  <2>3. calls' \in [Call -> CallState]
    BY <1>1, <2>2 DEF MakeCall, TypeOK, CallPhase
  <2> QED
    BY <1>1, <2>1, <2>3 DEF MakeCall, TypeOK, server, store
<1>2. ASSUME NEW c \in Call, HandleIsAuthenticated(c) PROVE TypeOK'
  BY <1>2, TakesType, MoveToType
  DEF HandleIsAuthenticated, TypeOK, CallPhase, server, store
<1>3. ASSUME NEW c \in Call, OnAccountSignInOut(c) PROVE TypeOK'
  BY <1>3, MoveToType DEF OnAccountSignInOut, TypeOK, CallPhase, server, store
<1>4. ASSUME NEW c \in Call, TaskSends(c) PROVE TypeOK'
  <2>1. calls[c].op \in {"SignIn", "SignOut"}
    BY <1>4 DEF TaskSends, TaskOps
  <2> QED
    BY <1>4, <2>1, SendType, MoveToType DEF TaskSends, TypeOK, CallPhase, server, store
<1>5. ASSUME NEW c \in Call, OnConnect(c) PROVE TypeOK'
  <2>1. calls' \in [Call -> CallState]
    BY <1>5, MoveToType DEF OnConnect, CallPhase
  <2>2. session' \in Session \cup {NoSession}
    BY <1>5 DEF OnConnect, UnwrapFails, TypeOK, DeviceRow, Session
  <2> QED
    BY <1>5, <2>1, <2>2 DEF OnConnect, AtDaemon, TypeOK, server, store
<1>6. ASSUME NEW c \in Call, SignInStart(c) PROVE TypeOK'
  <2>1. [op |-> "SignIn", step |-> "add", call |-> c, tok |-> NoToken] \in Work
    BY DEF Work
  <2>2. /\ work' \in Work \cup {Idle} /\ calls' \in [Call -> CallState]
        /\ queue' \in Seq(Command)
    BY <1>6, <2>1, TakesType, MoveToType DEF SignInStart, TypeOK, CallPhase
  <2>3. /\ device' \in DeviceRow \cup {NoDeviceRow} /\ made' \subseteq Device
        /\ failed' \subseteq failed
    BY <1>6, InitDeviceType DEF SignInStart, TypeOK
  <2> QED
    BY <1>6, <2>2, <2>3 DEF SignInStart, TypeOK, server
<1>7. ASSUME NEW c \in Call, SignOutCall(c) PROVE TypeOK'
  <2>1. [op |-> "SignOut", step |-> "delete", call |-> c, tok |-> NoToken] \in Work
    BY DEF Work
  <2> QED
    BY <1>7, <2>1, TakesType, MoveToType DEF SignOutCall, TypeOK, CallPhase
<1>8. CASE SessionGranted \/ NewSessionAnswered \/ SessionEnds
  <2>1. session' \in Session \cup {NoSession}
    <3>1. session.ph # "none" => session \in Session
      BY DEF TypeOK, NoSession
    <3>2. \A ph \in {"granted", "session"} : session.ph # "none" =>
            [session EXCEPT !.ph = ph] \in Session
      BY <3>1 DEF Session
    <3> QED
      BY <1>8, <3>2 DEF SessionGranted, NewSessionAnswered, SessionEnds
  <2> QED
    BY <1>8, <2>1 DEF SessionGranted, NewSessionAnswered, SessionEnds, TypeOK,
      server, store
<1>9. CASE AddDevice
  <2>1. work.call \in Call /\ work \in Work /\ work.op = "SignIn"
    BY <1>9, WorkAt DEF AddDevice
  <2>2. work' \in Work \cup {Idle}
    BY <1>9, <2>1 DEF AddDevice, Done, Work
  <2>3. calls' \in [Call -> CallState]
    BY <1>9, <2>1, DoneType DEF AddDevice, TypeOK
  <2>4. device.id \in Device \cup {NoDevice}
    BY DEF TypeOK, DeviceRow, NoDeviceRow
  <2>5. owner' \in [Token -> Device \cup {NoDevice}] /\ honoured' \subseteq Token
    BY <1>9, <2>4 DEF AddDevice, TypeOK, server
  <2> QED
    BY <1>9, <2>2, <2>3, <2>5 DEF AddDevice, TypeOK, store
<1>10. CASE SaveToken \/ PruneTokens
  <2>1. work \in Work /\ work.op = "SignIn" /\ work.tok \in Token
    BY <1>10, WorkAt DEF SaveToken, PruneTokens
  <2>2. work' \in Work
    BY <1>10, <2>1, AccountAssumption DEF SaveToken, PruneTokens, Step, Work
  <2>3. <<work.tok>> \in Seq(Token) /\ Append(tokens, work.tok) \in Seq(Token)
    BY <2>1 DEF TypeOK
  <2>4. tokens' \in Seq(Token)
    BY <1>10, <2>3 DEF SaveToken, PruneTokens
  <2> QED
    BY <1>10, <2>2, <2>4 DEF SaveToken, PruneTokens, TypeOK, server
<1>11. CASE UpdateIpv4Address
  <2>1. work.call \in Call /\ work.tok \in Token
    BY <1>11, WorkAt DEF UpdateIpv4Address
  <2>2. device' \in DeviceRow
    BY <1>11 DEF UpdateIpv4Address, SetAddress, At, SignInHasDevice, TypeOK, DeviceRow
  <2> QED
    BY <1>11, <2>1, <2>2, DoneType DEF UpdateIpv4Address, TypeOK, server
<1>12. CASE DeleteDevice
  <2>1. work \in Work /\ work.op = "SignOut"
    BY <1>12, WorkAt DEF DeleteDevice
  <2>2. work' \in Work
    BY <1>12, <2>1 DEF DeleteDevice, Step, Work
  <2> QED
    BY <1>12, <2>2 DEF DeleteDevice, TypeOK, server
<1>13. CASE ReinitDevice
  <2>1. work \in Work /\ work.op = "SignOut"
    BY <1>13, WorkAt DEF ReinitDevice
  <2>2. work' \in Work
    BY <1>13, <2>1 DEF ReinitDevice, Step, Work
  <2> QED
    BY <1>13, <2>2, InitDeviceType DEF ReinitDevice, TypeOK, server
<1>14. CASE RemoveTokens
  <2>1. work.call \in Call
    BY <1>14, WorkAt DEF RemoveTokens
  <2> QED
    BY <1>14, <2>1, DoneType DEF RemoveTokens, RemoveAll, TypeOK, server
<1>15. CASE Expire
  BY <1>15 DEF Expire, TypeOK, store
<1>16. CASE ProcessEnds
  <2>1. calls' \in [Call -> CallState]
    BY <1>16 DEF ProcessEnds, TypeOK, CallPhase, CallState
  <2>2. queue' \in Seq(Command)
    BY <1>16 DEF ProcessEnds
  <2>3. ends' \in 0..MaxEnds
    BY <1>16, AccountAssumption DEF ProcessEnds, TypeOK
  <2> QED
    BY <1>16, <2>1, <2>2, <2>3 DEF ProcessEnds, TypeOK, server, store
<1>17. CASE Start
  BY <1>17, InitDeviceType, FirstType DEF Start, TypeOK, server
<1>18. CASE StorageFails
  <2>1. work.call \in Call /\ calls' \in [Call -> CallState] /\ work' \in Work \cup {Idle}
    BY <1>18, FailureParts
  <2>2. work.step \in {"save", "prune", "address", "delete", "init", "remove"}
    BY <1>18 DEF StorageFails, At
  <2> QED
    BY <1>18, <2>1, <2>2 DEF StorageFails, TypeOK, server
<1>19. CASE UNCHANGED vars
  BY <1>19 DEF vars, TypeOK
<1> QED
  BY <1>1, <1>2, <1>3, <1>4, <1>5, <1>6, <1>7, <1>8, <1>9, <1>10, <1>11, <1>12,
     <1>13, <1>14, <1>15, <1>16, <1>17, <1>18, <1>19 DEF Next

-----------------------------------------------------------------------------
\* The token being saved was issued to the device in the table.
NewTokenOwned ==
  work.step \in {"save", "prune", "address"} => owner[work.tok] = device.id

\* Tokens in the table were issued, so the server issues none of them again.
StoredOwned == \A i \in 1..Len(tokens) : owner[tokens[i]] # NoDevice

\* Past its call, sign out has a token the server no longer honours, unless
\* it could not read it.
GivenUpFirst ==
  work.op = "SignOut" /\ "token" \notin failed => First(tokens) \notin honoured

\* Memory follows the table but between the statements that save a token,
\* and after one of them has failed.
MemFollows ==
  /\ Alive /\ work.step \notin {"prune", "address"} /\ failed \cap {"prune", "address"} = {}
       => mem = First(tokens)
  /\ work.step = "address" => tokens = <<work.tok>>

\* A process that is not running does no work.
DownIdle == mode = "Down" => work = Idle

Agree ==
  /\ SignInHasDevice /\ NewTokenOwned /\ StoredOwned /\ GivenUpFirst
  /\ TokenOfDevice /\ MemFollows

\* TypeOK, TokenOfDevice and MemIsStored are not inductive without the rest.
AccountInv == TypeOK /\ TaskOps /\ DownIdle /\ Agree

\* A task is made by OnAccountSignInOut alone.
LEMMA TaskOpsStep ==
  ASSUME TypeOK, TaskOps, [Next]_vars
  PROVE  TaskOps'
<1>1. ASSUME NEW c \in Call, NEW op \in Op, MakeCall(c, op) PROVE TaskOps'
  BY <1>1 DEF MakeCall, TaskOps, TypeOK
<1>2. ASSUME NEW c \in Call, OnAccountSignInOut(c) PROVE TaskOps'
  BY <1>2 DEF OnAccountSignInOut, AtDaemon, MoveTo, TaskOps, TypeOK, CallState
<1>3. ASSUME NEW c \in Call, NEW ph \in CallPhase \ {"task"}, MoveTo(c, ph)
      PROVE TaskOps'
  BY <1>3 DEF MoveTo, TaskOps, TypeOK, CallState
<1>4. ASSUME UNCHANGED calls PROVE TaskOps'
  BY <1>4 DEF TaskOps
<1>5. CASE ProcessEnds
  BY <1>5 DEF ProcessEnds, TaskOps, TypeOK, CallState
<1>6. ASSUME NEW c \in Call,
             \/ HandleIsAuthenticated(c) \/ TaskSends(c) \/ OnConnect(c)
             \/ SignInStart(c) \/ SignOutCall(c)
      PROVE TaskOps'
  BY <1>6, <1>3, <1>4
  DEF HandleIsAuthenticated, TaskSends, OnConnect, SignInStart, SignOutCall, CallPhase
<1>7. CASE SessionGranted \/ NewSessionAnswered \/ SessionEnds \/ SaveToken
           \/ PruneTokens \/ DeleteDevice \/ ReinitDevice \/ Expire \/ Start
  BY <1>7, <1>4 DEF SessionGranted, NewSessionAnswered, SessionEnds, SaveToken,
    PruneTokens, DeleteDevice, ReinitDevice, Expire, Start
<1>8. CASE AddDevice \/ UpdateIpv4Address \/ RemoveTokens \/ StorageFails
  <2>1. work.call \in Call
    BY <1>8, WorkAt, FailureParts DEF AddDevice, UpdateIpv4Address, RemoveTokens
  <2> QED
    BY <1>8, <2>1, <1>3, <1>4
    DEF AddDevice, UpdateIpv4Address, RemoveTokens, StorageFails, Done, CallPhase
<1>9. CASE UNCHANGED vars
  BY <1>9, <1>4 DEF vars
<1> QED
  BY <1>1, <1>2, <1>5, <1>6, <1>7, <1>8, <1>9 DEF Next

\* Work is begun and done by a process that runs.
LEMMA DownIdleStep ==
  ASSUME DownIdle, [Next]_vars
  PROVE  DownIdle'
<1>1. CASE ProcessEnds
  BY <1>1 DEF ProcessEnds, DownIdle
<1>2. CASE Start
  BY <1>2 DEF Start, DownIdle
<1>3. ASSUME mode # "Down", UNCHANGED mode PROVE DownIdle'
  BY <1>3 DEF DownIdle
<1>4. CASE \/ \E c \in Call : \/ \E op \in Op : MakeCall(c, op)
                              \/ HandleIsAuthenticated(c) \/ OnAccountSignInOut(c)
                              \/ TaskSends(c) \/ SignInStart(c) \/ SignOutCall(c)
           \/ SessionGranted \/ NewSessionAnswered \/ SessionEnds
  BY <1>4, <1>3 DEF MakeCall, HandleIsAuthenticated, OnAccountSignInOut, TaskSends,
    SignInStart, SignOutCall, SessionGranted, NewSessionAnswered, SessionEnds,
    AtDaemon, Takes, Alive
<1>5. CASE \E c \in Call : OnConnect(c)
  BY <1>5 DEF OnConnect, AtDaemon, DownIdle
<1>6. CASE AddDevice \/ SaveToken \/ PruneTokens \/ UpdateIpv4Address
           \/ DeleteDevice \/ ReinitDevice \/ RemoveTokens \/ StorageFails
  <2>1. mode \in {"Up", "Panicked"} /\ UNCHANGED mode
    BY <1>6, Zenon DEF AddDevice, SaveToken, PruneTokens, UpdateIpv4Address,
      DeleteDevice, ReinitDevice, RemoveTokens, StorageFails, At, Alive
  <2> QED
    BY <1>3, <2>1
<1>7. CASE Expire \/ UNCHANGED vars
  BY <1>7 DEF Expire, vars, DownIdle
<1> QED
  BY <1>1, <1>2, <1>4, <1>5, <1>6, <1>7 DEF Next

\* Steps that touch neither the tables, nor the memory and the work of the
\* device service, nor the server's tokens.
LEMMA AgreeQuiet ==
  ASSUME Agree, Alive' => Alive,
         UNCHANGED <<device, tokens, mem, work, owner, honoured, failed>>
  PROVE  Agree'
BY DEF Agree, SignInHasDevice, NewTokenOwned, StoredOwned, GivenUpFirst,
  TokenOfDevice, MemFollows

\* A row that DeviceStorage::init makes takes no token along.
LEMMA RowAppears ==
  ASSUME TypeOK, Agree, device # NoDeviceRow => device' = device,
         UNCHANGED <<tokens, owner, honoured>>, failed' \cup {"init"} = failed \cup {"init"}
  PROVE  TokenOfDevice'
<1>1. "token" \notin failed' => "token" \notin failed
  OBVIOUS
<1>2. CASE device = NoDeviceRow /\ "token" \notin failed
  <2>1. First(tokens) \notin honoured
    BY <1>2, FirstType, AccountAssumption
       DEF TypeOK, NoDeviceRow, Agree, TokenOfDevice, StoredOwned
  <2> QED
    BY <2>1 DEF TokenOfDevice
<1>3. CASE device # NoDeviceRow
  BY <1>1, <1>3 DEF Agree, TokenOfDevice
<1> QED
  BY <1>1, <1>2, <1>3 DEF TokenOfDevice

\* Every step keeps memory, tables and server in agreement.
LEMMA AgreeStep ==
  ASSUME TypeOK, TypeOK', DownIdle, Agree, [Next]_vars
  PROVE  Agree'
<1> USE FirstType
<1>0. /\ \A t \in Token : t # NoToken
      /\ NoToken \notin honoured /\ NoToken \notin honoured'
      /\ device \in DeviceRow => device.id # NoDevice /\ device # NoDeviceRow
      /\ NoDeviceRow.id = NoDevice
  BY AccountAssumption DEF TypeOK, DeviceRow, NoDeviceRow
<1>1. ASSUME NEW c \in Call,
             \/ \E op \in Op : MakeCall(c, op)
             \/ HandleIsAuthenticated(c) \/ OnAccountSignInOut(c)
             \/ TaskSends(c) \/ OnConnect(c)
      PROVE  Agree'
  BY <1>1, AgreeQuiet DEF MakeCall, HandleIsAuthenticated, OnAccountSignInOut,
    TaskSends, OnConnect, AtDaemon, Takes, Alive, server, store
<1>2. CASE SessionGranted \/ NewSessionAnswered \/ SessionEnds
  BY <1>2, AgreeQuiet
  DEF SessionGranted, NewSessionAnswered, SessionEnds, Alive, server, store
<1>3. CASE UNCHANGED vars
  BY <1>3, AgreeQuiet DEF vars, Alive
<1>4. ASSUME NEW c \in Call, SignInStart(c) PROVE Agree'
  <2>0. /\ UNCHANGED <<mode, tokens, mem, owner, honoured>> /\ Alive /\ work = Idle
        /\ work' = Idle \/ (InitDevice /\ work'.op = "SignIn" /\ work'.step = "add")
    BY <1>4 DEF SignInStart, Takes, server
  <2>1. CASE InitDevice /\ failed' = failed \ {"init"}
    <3>1. device' \in DeviceRow /\ (device # NoDeviceRow => device' = device)
      BY <2>1, InitDeviceType
    <3>2. device' # NoDeviceRow
      BY <3>1, AccountAssumption DEF DeviceRow, NoDeviceRow
    <3>3. SignInHasDevice' /\ NewTokenOwned' /\ GivenUpFirst'
      BY <2>0, <3>2 DEF SignInHasDevice, NewTokenOwned, GivenUpFirst, Idle
    <3>4. StoredOwned'
      BY <2>0 DEF Agree, StoredOwned
    <3>5. TokenOfDevice'
      BY <2>0, <2>1, <3>1, RowAppears
    <3>6. MemFollows'
      BY <2>0, <2>1 DEF Alive, Idle, Agree, MemFollows
    <3> QED
      BY <3>3, <3>4, <3>5, <3>6 DEF Agree
  <2>2. CASE UNCHANGED <<work, device, made, failed>>
    BY <2>0, <2>2, AgreeQuiet DEF Alive
  <2> QED
    BY <1>4, <2>1, <2>2 DEF SignInStart
<1>5. ASSUME NEW c \in Call, SignOutCall(c) PROVE Agree'
  <2>0. /\ UNCHANGED <<mode, device, tokens, mem, owner>> /\ Alive /\ work = Idle
        /\ work' = Idle \/ (work'.op = "SignOut" /\ work'.step = "delete")
        /\ honoured' \subseteq honoured
    BY <1>5 DEF SignOutCall, Takes
  <2>1. SignInHasDevice' /\ NewTokenOwned' /\ StoredOwned'
    BY <2>0 DEF Idle, Agree, SignInHasDevice, NewTokenOwned, StoredOwned
  <2>2. failed' = failed \/ failed' = failed \cup {"token"}
    BY <1>5 DEF SignOutCall
  <2>3. TokenOfDevice' /\ MemFollows'
    BY <2>0, <2>2 DEF Idle, Alive, Agree, TokenOfDevice, MemFollows
  <2>4. GivenUpFirst'
    BY <1>5, <2>0 DEF SignOutCall, Idle, GivenUpFirst
  <2> QED
    BY <2>1, <2>3, <2>4 DEF Agree
<1>6. CASE AddDevice
  <2>8. At("SignIn", "add") /\ UNCHANGED <<mode, mem, store>>
    BY <1>6, Zenon DEF AddDevice
  <2>0. work.op = "SignIn" /\ work.step = "add" /\ work \in Work
    BY <2>8, WorkAt
  <2>9. device # NoDeviceRow /\ device.id # NoDevice
    BY <2>0, <1>0 DEF Agree, SignInHasDevice, TypeOK
  <2>1. ASSUME NEW t \in Token, owner[t] = NoDevice,
               owner' = [owner EXCEPT ![t] = device.id],
               honoured' = honoured \cup {t}
        PROVE  Agree'
    <3>1. \A i \in 1..Len(tokens) : tokens[i] \in Token /\ tokens[i] # t
      <4>1. \A i \in 1..Len(tokens) : tokens[i] \in Token
        BY DEF TypeOK
      <4>2. \A i \in 1..Len(tokens) : owner[tokens[i]] # NoDevice
        BY DEF Agree, StoredOwned
      <4> QED
        BY <2>1, <4>1, <4>2
    <3>2. StoredOwned' /\ TokenOfDevice'
      BY <1>6, <2>0, <2>9, <2>1, <3>1, <1>0
      DEF AddDevice, store, Agree, StoredOwned, TokenOfDevice, TypeOK
    <3>3. \/ work' = Idle
          \/ /\ work'.op = "SignIn" /\ work'.step = "save" /\ work'.tok \in Token
             /\ owner'[work'.tok] = device.id
      BY <1>6, <2>0, <2>1 DEF AddDevice, Done, TypeOK, Work
    <3> QED
      BY <2>8, <2>0, <2>9, <3>2, <3>3 DEF store, Idle, Alive, Agree,
        SignInHasDevice, NewTokenOwned, GivenUpFirst, MemFollows
  <2>2. CASE Done /\ UNCHANGED server
    BY <1>6, <2>0, <2>2 DEF AddDevice, Done, Idle, server, store, Alive, Agree,
      SignInHasDevice, NewTokenOwned, StoredOwned, GivenUpFirst, TokenOfDevice,
      MemFollows
  <2> QED
    BY <1>6, <2>1, <2>2 DEF AddDevice
<1>7. CASE SaveToken
  <2>1. /\ work.op = "SignIn" /\ work.step = "save" /\ work \in Work
        /\ work.tok \in Token
    BY <1>7, WorkAt DEF SaveToken
  <2>2. /\ work'.op = "SignIn" /\ work'.step = "prune" /\ work'.tok = work.tok
    BY <1>7, <2>1 DEF SaveToken, Step, Work
  <2>3. device # NoDeviceRow /\ device.id # NoDevice /\ owner[work.tok] = device.id
    BY <2>1, <1>0 DEF Agree, SignInHasDevice, NewTokenOwned, TypeOK
  <2>4. /\ tokens' = Append(tokens, work.tok)
        /\ UNCHANGED <<device, owner, honoured>>
    BY <1>7 DEF SaveToken, server
  <2>5. /\ Len(tokens') = Len(tokens) + 1
        /\ \A i \in 1..Len(tokens) : tokens'[i] = tokens[i]
        /\ tokens'[Len(tokens) + 1] = work.tok
    BY <2>1, <2>4 DEF TypeOK
  <2>6. StoredOwned'
    BY <2>3, <2>4, <2>5 DEF Agree, StoredOwned, TypeOK
  <2>7. TokenOfDevice'
    <3>1. CASE tokens = <<>>
      BY <2>1, <2>3, <2>4, <3>1 DEF TokenOfDevice, First
    <3>2. CASE tokens # <<>>
      <4>1. First(tokens') = First(tokens) /\ failed' = failed
        BY <1>7, <2>1, <2>4, <3>2 DEF SaveToken, First, TypeOK
      <4> QED
        BY <2>4, <4>1 DEF Agree, TokenOfDevice
    <3> QED
      BY <3>1, <3>2
  <2> QED
    BY <2>2, <2>3, <2>4, <2>6, <2>7 DEF Agree, SignInHasDevice, NewTokenOwned,
      GivenUpFirst, MemFollows
<1>8. CASE PruneTokens
  <2>1. /\ work.op = "SignIn" /\ work.step = "prune" /\ work \in Work
        /\ work.tok \in Token
    BY <1>8, WorkAt DEF PruneTokens
  <2>2. /\ work'.op = "SignIn" /\ work'.step = "address" /\ work'.tok = work.tok
    BY <1>8, <2>1 DEF PruneTokens, Step, Work
  <2>3. device # NoDeviceRow /\ device.id # NoDevice /\ owner[work.tok] = device.id
    BY <2>1, <1>0 DEF Agree, SignInHasDevice, NewTokenOwned, TypeOK
  <2>4. tokens' = <<work.tok>> /\ UNCHANGED <<device, owner, honoured>>
    BY <1>8 DEF PruneTokens, server
  <2>5. First(tokens') = work.tok /\ StoredOwned'
    BY <2>3, <2>4 DEF First, StoredOwned
  <2> QED
    BY <2>2, <2>3, <2>4, <2>5 DEF Agree, SignInHasDevice, NewTokenOwned,
      GivenUpFirst, TokenOfDevice, MemFollows
<1>9. CASE UpdateIpv4Address
  <2>1. /\ work.op = "SignIn" /\ work.step = "address" /\ work.tok \in Token
        /\ tokens = <<work.tok>>
        /\ owner[work.tok] = device.id
    BY <1>9, WorkAt DEF UpdateIpv4Address, Agree, MemFollows, NewTokenOwned
  <2>2. device' # NoDeviceRow /\ device'.id = device.id
    <3>1. device \in DeviceRow
      BY <2>1 DEF Agree, SignInHasDevice, TypeOK
    <3> QED
      BY <1>9, <3>1, AccountAssumption DEF UpdateIpv4Address, SetAddress, DeviceRow,
        NoDeviceRow
  <2>3. /\ work' = Idle /\ mem' = First(tokens) /\ UNCHANGED <<tokens, owner, honoured>>
        /\ First(tokens) = work.tok
    BY <1>9, <2>1 DEF UpdateIpv4Address, Done, First, server
  <2> QED
    BY <2>1, <2>2, <2>3 DEF Idle, Agree, SignInHasDevice, NewTokenOwned, StoredOwned,
      GivenUpFirst, TokenOfDevice, MemFollows
<1>10. CASE DeleteDevice
  <2>1. work.op = "SignOut" /\ work.step = "delete" /\ work \in Work
    BY <1>10, WorkAt DEF DeleteDevice
  <2>2. work'.op = "SignOut" /\ work'.step = "init"
    BY <1>10, <2>1 DEF DeleteDevice, Step, Work
  <2> QED
    BY <1>10, <2>1, <2>2 DEF DeleteDevice, server, Alive, Agree, SignInHasDevice,
      NewTokenOwned, StoredOwned, GivenUpFirst, TokenOfDevice, MemFollows
<1>11. CASE ReinitDevice
  <2>1. work.op = "SignOut" /\ work.step = "init" /\ work \in Work
    BY <1>11, WorkAt DEF ReinitDevice
  <2>2. work'.op = "SignOut" /\ work'.step = "remove"
    BY <1>11, <2>1 DEF ReinitDevice, Step, Work
  <2> QED
    BY <1>11, <2>1, <2>2 DEF ReinitDevice, server, Alive, Agree, SignInHasDevice,
      NewTokenOwned, StoredOwned, GivenUpFirst, TokenOfDevice, MemFollows
<1>12. CASE RemoveTokens
  <2>1. /\ work' = Idle /\ tokens' = <<>> /\ mem' = NoToken
        /\ UNCHANGED <<device, owner, honoured>>
    BY <1>12 DEF RemoveTokens, RemoveAll, Done, server
  <2>2. First(tokens') = NoToken /\ StoredOwned'
    BY <2>1 DEF First, StoredOwned
  <2> QED
    BY <2>1, <2>2, <1>0 DEF Idle, Agree, SignInHasDevice, NewTokenOwned,
      GivenUpFirst, TokenOfDevice, MemFollows
<1>13. CASE Expire
  BY <1>13 DEF Expire, Alive, store, Agree, SignInHasDevice, NewTokenOwned,
    StoredOwned, GivenUpFirst, TokenOfDevice, MemFollows
<1>14. CASE ProcessEnds
  BY <1>14 DEF ProcessEnds, Alive, server, store, Idle, Agree, SignInHasDevice,
    NewTokenOwned, StoredOwned, GivenUpFirst, TokenOfDevice, MemFollows
<1>15. CASE Start
  <2>1. /\ work = Idle /\ work' = Idle
        /\ mem' = First(tokens) /\ UNCHANGED <<tokens, owner, honoured>>
    BY <1>15 DEF Start, server, DownIdle
  <2>2. device' \in DeviceRow /\ (device # NoDeviceRow => device' = device)
    BY <1>15, InitDeviceType DEF Start
  <2>3. device' # NoDeviceRow
    BY <2>2, AccountAssumption DEF DeviceRow, NoDeviceRow
  <2>4. SignInHasDevice' /\ StoredOwned' /\ GivenUpFirst'
    BY <2>1, <2>3 DEF Idle, Agree, SignInHasDevice, StoredOwned, GivenUpFirst
  <2>5. TokenOfDevice'
    <3>1. failed' = failed
      BY <1>15 DEF Start
    <3> QED
      BY <2>1, <2>2, <3>1, RowAppears
  <2>6. MemFollows' /\ NewTokenOwned'
    BY <2>1 DEF Idle, NewTokenOwned, MemFollows
  <2> QED
    BY <2>4, <2>5, <2>6 DEF Agree
<1>16. CASE StorageFails
  <2>1. /\ Alive /\ UNCHANGED <<mode, device, tokens, mem, owner, honoured>>
        /\ failed' = failed \cup {work.step}
    BY <1>16, FailureParts DEF StorageFails, server
  <2>2. \/ work' = Idle
        \/ /\ work.op = "SignOut" /\ work.step = "init"
           /\ work'.op = "SignOut" /\ work'.step = "remove"
    BY <1>16, FailureParts
  <2>3. SignInHasDevice' /\ NewTokenOwned' /\ StoredOwned'
    BY <2>1, <2>2 DEF Idle, Agree, SignInHasDevice, NewTokenOwned, StoredOwned
  <2>4. GivenUpFirst' /\ TokenOfDevice'
    BY <2>1, <2>2 DEF Idle, Agree, GivenUpFirst, TokenOfDevice
  <2>5. MemFollows'
    BY <2>1, <2>2 DEF Idle, Alive, Agree, MemFollows
  <2> QED
    BY <2>3, <2>4, <2>5 DEF Agree
<1> QED
  BY <1>1, <1>2, <1>3, <1>4, <1>5, <1>6, <1>7, <1>8, <1>9, <1>10, <1>11, <1>12, <1>13,
     <1>14, <1>15, <1>16 DEF Next

\* The inductive invariant: memory, tables, the device service's work and the
\* server's tokens agree after every step.
THEOREM AccountInvHolds == Spec => []AccountInv
<1>1. Init => AccountInv
  <2> SUFFICES ASSUME Init PROVE AccountInv
    OBVIOUS
  <2>1. TypeOK
    BY AccountAssumption DEF Init, TypeOK, CallState
  <2>2. TaskOps /\ DownIdle
    BY DEF Init, TaskOps, DownIdle
  <2>3. Agree
    BY DEF Init, Agree, SignInHasDevice, NewTokenOwned, StoredOwned, GivenUpFirst,
      TokenOfDevice, MemFollows, Idle, First, Alive
  <2> QED
    BY <2>1, <2>2, <2>3 DEF AccountInv
<1>2. AccountInv /\ [Next]_vars => AccountInv'
  <2> SUFFICES ASSUME AccountInv, [Next]_vars PROVE AccountInv'
    OBVIOUS
  <2>1. TypeOK'
    BY TypeStep DEF AccountInv, Agree
  <2>2. TaskOps' /\ DownIdle'
    BY TaskOpsStep, DownIdleStep DEF AccountInv
  <2>3. Agree'
    BY <2>1, AgreeStep DEF AccountInv
  <2> QED
    BY <2>1, <2>2, <2>3 DEF AccountInv
<1> QED
  BY <1>1, <1>2, PTL DEF Spec

\* Every variable keeps its type.
THEOREM AccountTypeCorrect == Spec => []TypeOK
<1>1. AccountInv => TypeOK
  BY DEF AccountInv
<1> QED
  BY <1>1, AccountInvHolds, PTL

\* Between commands of the device service, is_authenticated answers by the
\* token that calls to the server use.
THEOREM AuthenticatedByStoredToken == Spec => []MemIsStored
<1>1. AccountInv => MemIsStored
  BY DEF AccountInv, Agree, MemFollows, MemIsStored, Idle
<1> QED
  BY <1>1, AccountInvHolds, PTL

\* A token the server honours stands for the device in the table, through
\* sign in, sign out, failed calls and ends of the process.
THEOREM TokenStandsForDevice == Spec => []TokenOfDevice
<1>1. AccountInv => TokenOfDevice
  BY DEF AccountInv, Agree
<1> QED
  BY <1>1, AccountInvHolds, PTL

-----------------------------------------------------------------------------
\* The device and its address

\* Before it first starts, the process has stored no token.
NothingStored == ends = 0 /\ mode = "Down" => tokens = <<>>

\* Sign out is past the statement that deletes the device.
Deleted == work.op = "SignOut" /\ work.step \in {"init", "remove"}

\* SignedInHasAddress, and until sign out deletes the device.
KeepsAddress ==
  ends = 0 /\ mem # NoToken /\ ~Deleted /\ "remove" \notin failed => device.addr

Addressed == DeviceInitialized /\ KeepsAddress /\ NothingStored

\* Steps that touch neither the device, nor the memory and the work of the
\* device service.
LEMMA AddressedQuiet ==
  ASSUME Addressed, UNCHANGED <<device, mem, work, failed>>, Alive' => Alive,
         ends' = ends, mode' = "Down" => mode = "Down" /\ tokens' = tokens
  PROVE  Addressed'
BY DEF Addressed, DeviceInitialized, UnwrapFails, KeepsAddress, Deleted, NothingStored

\* Every step keeps the device where the daemon expects it, and its address
\* while somebody is signed in.
LEMMA AddressedStep ==
  ASSUME TypeOK, DownIdle, SignInHasDevice, Addressed, [Next]_vars
  PROVE  Addressed'
<1>0. /\ Idle.op = "none" /\ NoDeviceRow.addr = FALSE /\ (Alive <=> mode # "Down")
      /\ \A r \in DeviceRow : r # NoDeviceRow
      /\ ends \in Nat
  BY AccountAssumption DEF Idle, NoDeviceRow, DeviceRow, TypeOK, Alive
<1>1. ASSUME Alive, mode' = mode, ends' = ends, UNCHANGED <<device, mem>>,
             failed \subseteq failed', Deleted => Deleted' \/ "remove" \in failed',
             work.op = "SignOut" /\ work.step = "init" => "init" \in failed'
      PROVE  Addressed'
  BY <1>0, <1>1
     DEF Addressed, DeviceInitialized, UnwrapFails, KeepsAddress, NothingStored, Alive
<1>2. ASSUME NEW c \in Call,
             \/ \E op \in Op : MakeCall(c, op)
             \/ HandleIsAuthenticated(c) \/ OnAccountSignInOut(c) \/ TaskSends(c)
             \/ OnConnect(c)
      PROVE  Addressed'
  BY <1>2, AddressedQuiet DEF MakeCall, HandleIsAuthenticated, OnAccountSignInOut,
    TaskSends, OnConnect, AtDaemon, Takes, Alive, store
<1>3. CASE SessionGranted \/ NewSessionAnswered \/ SessionEnds \/ Expire \/ UNCHANGED vars
  BY <1>3, AddressedQuiet
     DEF SessionGranted, NewSessionAnswered, SessionEnds, Expire, Alive, store, vars
<1>4. ASSUME NEW c \in Call, SignInStart(c) PROVE Addressed'
  <2>1. /\ Alive /\ mode' = mode /\ ends' = ends /\ mem' = mem /\ work = Idle
        /\ tokens' = tokens /\ (work' = Idle \/ work'.op = "SignIn")
    BY <1>4 DEF SignInStart, Takes
  <2>2. CASE InitDevice /\ failed' = failed \ {"init"}
    <3>1. device' # NoDeviceRow /\ (device # NoDeviceRow => device' = device)
      BY <1>0, <2>2, InitDeviceType
    <3>2. KeepsAddress'
      BY <1>0, <2>1, <2>2, <3>1 DEF Addressed, KeepsAddress, Deleted
    <3> QED
      BY <1>0, <2>1, <3>1, <3>2 DEF Addressed, DeviceInitialized, UnwrapFails, NothingStored
  <2>3. CASE UNCHANGED <<work, device, made, failed>>
    BY <2>1, <2>3, AddressedQuiet DEF Alive
  <2> QED
    BY <1>4, <2>2, <2>3 DEF SignInStart
<1>5. ASSUME NEW c \in Call, SignOutCall(c) PROVE Addressed'
  <2>1. /\ Alive /\ mode' = mode /\ ends' = ends /\ work = Idle
        /\ UNCHANGED <<device, mem>> /\ failed \subseteq failed'
    BY <1>5 DEF SignOutCall, Takes
  <2> QED
    BY <1>0, <1>1, <2>1 DEF Deleted
<1>6. CASE AddDevice \/ SaveToken \/ PruneTokens
  <2>1. /\ Alive /\ mode' = mode /\ ends' = ends /\ work.op = "SignIn"
        /\ UNCHANGED <<device, mem, failed>>
    BY <1>6, Zenon DEF AddDevice, SaveToken, PruneTokens, At, store
  <2> QED
    BY <1>1, <2>1 DEF Deleted
<1>7. CASE UpdateIpv4Address
  <2>1. /\ Alive /\ mode' = mode /\ ends' = ends /\ work.op = "SignIn"
        /\ device' = [device EXCEPT !.addr = TRUE]
    BY <1>7, Zenon DEF UpdateIpv4Address, At, SetAddress
  <2>2. device # NoDeviceRow
    BY <2>1 DEF SignInHasDevice
  <2>3. device'.addr = TRUE
    BY <2>1, <2>2 DEF TypeOK, DeviceRow
  <2>4. mode' # "Down" /\ device' # NoDeviceRow
    BY <1>0, <2>1, <2>3
  <2> QED
    BY <2>3, <2>4
       DEF Addressed, DeviceInitialized, UnwrapFails, KeepsAddress, NothingStored
<1>8. CASE DeleteDevice
  <2>1. /\ mode' = mode /\ Alive /\ work' = [work EXCEPT !.step = "init"]
    BY <1>8, Zenon DEF DeleteDevice, At, Step
  <2>2. work'.op = "SignOut" /\ work'.step = "init"
    BY <1>8, <2>1, WorkAt DEF DeleteDevice, Work
  <2> QED
    BY <1>0, <2>1, <2>2
       DEF Addressed, DeviceInitialized, KeepsAddress, Deleted, NothingStored
<1>9. CASE ReinitDevice
  <2>1. mode' = mode /\ Alive /\ InitDevice /\ work' = [work EXCEPT !.step = "remove"]
    BY <1>9, Zenon DEF ReinitDevice, At, Step
  <2>2. work'.op = "SignOut" /\ work'.step = "remove" /\ device' # NoDeviceRow
    BY <1>0, <1>9, <2>1, WorkAt, InitDeviceType DEF ReinitDevice, Work
  <2> QED
    BY <1>0, <2>1, <2>2
       DEF Addressed, DeviceInitialized, UnwrapFails, KeepsAddress, Deleted, NothingStored
<1>10. CASE RemoveTokens
  <2>1. mode' = mode /\ Alive /\ mem' = NoToken /\ device' = device
        /\ work.op = "SignOut" /\ work.step = "remove" /\ failed' = failed \cap {"init"}
    BY <1>10, Zenon DEF RemoveTokens, At
  <2>2. device = NoDeviceRow => "init" \in failed'
    BY <2>1 DEF Addressed, DeviceInitialized, UnwrapFails
  <2> QED
    BY <1>0, <2>1, <2>2
       DEF Addressed, DeviceInitialized, UnwrapFails, KeepsAddress, NothingStored
<1>13. CASE StorageFails
  <2>1. /\ mode' = mode /\ ends' = ends /\ UNCHANGED <<device, mem>>
        /\ failed' = failed \cup {work.step} /\ Alive
    BY <1>13, FailureParts DEF StorageFails
  <2>2. Deleted => Deleted' \/ "remove" \in failed'
    <3>1. work.step = "init" /\ work.op = "SignOut" =>
            work'.op = "SignOut" /\ work'.step = "remove"
      BY <1>13, FailureParts
    <3> QED
      BY <2>1, <3>1 DEF Deleted
  <2> QED
    BY <1>1, <2>1, <2>2
<1>11. CASE ProcessEnds
  <2>1. mode' = "Down" /\ ends' = ends + 1
    BY <1>11 DEF ProcessEnds
  <2>2. ends' # 0 /\ ~Alive'
    BY <1>0, <2>1 DEF Alive
  <2> QED
    BY <2>2 DEF Addressed, DeviceInitialized, KeepsAddress, Deleted, NothingStored
<1>12. CASE Start
  <2>1. mode = "Down" /\ mode' = "Up" /\ InitDevice /\ mem' = First(tokens) /\ ends' = ends
    BY <1>12 DEF Start
  <2>2. device' # NoDeviceRow
    BY <1>0, <2>1, InitDeviceType
  <2>3. ends' = 0 => mem' = NoToken
    BY <2>1, FirstType DEF Addressed, NothingStored
  <2> QED
    BY <2>1, <2>2, <2>3
       DEF Addressed, DeviceInitialized, UnwrapFails, KeepsAddress, Deleted, NothingStored
<1> QED
  BY <1>2, <1>3, <1>4, <1>5, <1>6, <1>7, <1>8, <1>9, <1>10, <1>11, <1>12, <1>13 DEF Next

\* The device and the address stay in every interleaving of the device
\* service with calls and sessions.
THEOREM AddressedHolds == Spec => []Addressed
<1>1. Init => Addressed
  BY DEF Init, Addressed, DeviceInitialized, KeepsAddress, Deleted, NothingStored, Alive
<1>2. AccountInv /\ Addressed /\ [Next]_vars => Addressed'
  BY AddressedStep DEF AccountInv, Agree
<1> QED
  BY <1>1, <1>2, AccountInvHolds, PTL DEF Spec

\* The daemon finds the device whose row it unwraps, wherever the process
\* ended before, but for the moment of a sign out.
THEOREM DeviceIsThere == Spec => []DeviceInitialized
<1>1. Addressed => DeviceInitialized
  BY DEF Addressed
<1> QED
  BY <1>1, AddressedHolds, PTL

\* A client that is signed in has a device with the address the tunnel needs,
\* until a sign out cannot remove the token.
THEOREM DeviceHasAddress == Spec => []SignedInHasAddress
<1>1. Addressed => SignedInHasAddress
  BY DEF Addressed, KeepsAddress, Deleted, SignedInHasAddress
<1> QED
  BY <1>1, AddressedHolds, PTL
=============================================================================
