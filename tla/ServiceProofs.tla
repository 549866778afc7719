---------------------------- MODULE ServiceProofs ----------------------------
(***************************************************************************)
(* The controller, its clients and the Windows service, for every set of   *)
(* clients and locations.  What holds of the controller is shown once, for *)
(* any step of the daemon and anything a client can do (ControllerStep);   *)
(* the clients' programs and the service take such steps only, but for a   *)
(* service that cannot be created.                                         *)
(***************************************************************************)
EXTENDS SystemService, SequenceTheorems, TLAPS

-----------------------------------------------------------------------------
\* Values

\* The statuses an event, a Connect or a Disconnect leads to are statuses,
\* and neither a notification nor an error is one.
LEMMA StatusValues ==
  /\ Disconnected \in VpnStatus /\ EventStatus \subseteq VpnStatus
  /\ \A l \in Location : [st |-> "Accepted", loc |-> l] \in VpnStatus
  /\ \A s \in VpnStatus : UpdateStateOnDisconnect(s) \in VpnStatus
  /\ \A s \in VpnStatus : s # Note /\ s # Plain("Error")
  /\ Note # Plain("Error")
<1> USE DEF VpnStatus, ServerSide, TunnelSide
<1>1. Disconnected \in VpnStatus
  OBVIOUS
<1>2. EventStatus \subseteq VpnStatus
  BY ControllerAssumption DEF EventStatus
<1>3. \A l \in Location : [st |-> "Accepted", loc |-> l] \in VpnStatus
  OBVIOUS
<1>4. \A s \in VpnStatus : UpdateStateOnDisconnect(s) \in VpnStatus
  BY DEF UpdateStateOnDisconnect, Disconnected
<1>5. \A s \in VpnStatus : s # Note /\ s # Plain("Error")
  BY DEF Disconnected, Note, Plain
<1>6. Note # Plain("Error")
  BY DEF Note, Plain
<1> QED
  BY <1>1, <1>2, <1>3, <1>4, <1>5, <1>6

\* What may be answered.
LEMMA AnswerValues ==
  /\ VpnStatus \subseteq Answer
  /\ \A a \in {"None", "Ok", "No", "Error"} : Plain(a) \in Answer
  /\ None \in Answer
BY DEF Answer, None

\* No call, as TakeAnswer leaves it.
LEMMA NoCallType == NoCall \in CallState /\ NoCall.ph = "idle" /\ NoCall.cmd = "Ask"
BY AnswerValues DEF NoCall, CallState, CallPhase, Command

\* No stream, as StreamEnds and HangUp leave it.
LEMMA NoStreamType == NoStream \in Stream /\ ~NoStream.open /\ NoStream.q = <<>>
BY DEF NoStream, Stream

\* The stream watch_events opens.
LEMMA OpenedStream == [open |-> TRUE, q |-> <<>>] \in Stream
BY DEF Stream

\* What a method of the controller queues.
LEMMA ItemType ==
  ASSUME NEW k \in Command \ {"WatchEvents"}, NEW c \in Client
  PROVE  Item(k, c) \in QueueItem
BY DEF Item, QueueItem

\* What is known of a call, a stream and an item of the queue.
LEMMA CallParts ==
  ASSUME TypeOK, NEW c \in Client
  PROVE  /\ call[c].ph \in CallPhase /\ call[c].cmd \in Command
         /\ call[c].loc \in Location \cup {NoLoc} /\ call[c].ans \in Answer
         /\ stream[c].open \in BOOLEAN /\ stream[c].q \in Seq(VpnStatus \cup {Note})
BY DEF TypeOK, CallState, Stream

\* An item without a client is an event or the shutdown.
LEMMA ItemParts ==
  ASSUME NEW it \in QueueItem
  PROVE  /\ it.c \in Client => it.k \in Command \ {"WatchEvents"}
         /\ it.c \notin Client => it.c = NoClient /\ it.k \in {"Event", "Shutdown"}
         /\ it.k \in Command => it.c \in Client
BY ControllerAssumption DEF QueueItem, Item, Command

\* The head of the queue.
LEMMA HeadParts ==
  ASSUME TypeOK, queue # <<>>
  PROVE  /\ Head(queue) \in QueueItem /\ Tail(queue) \in Seq(QueueItem)
         /\ 1 \in DOMAIN queue /\ queue[1] = Head(queue)
BY DEF TypeOK

\* An answer keeps the types of the calls.
LEMMA AnsweredType ==
  ASSUME TypeOK, NEW c \in Client, NEW a \in Answer
  PROVE  Answered(c, a) \in [Client -> CallState]
BY DEF TypeOK, Answered, CallState, CallPhase

\* notify keeps the types of the streams, opens and closes none, and adds
\* to those of open subscribers only.
LEMMA NotifyType ==
  ASSUME TypeOK, NEW es \in Seq(VpnStatus \cup {Note}), Notify(es)
  PROVE  /\ stream' \in [Client -> Stream] /\ subs' \subseteq Client
         /\ \A c \in Client :
              /\ stream'[c].open = stream[c].open
              /\ stream'[c].q = IF c \in subs /\ stream[c].open
                                  THEN stream[c].q \o es ELSE stream[c].q
<1>1. ASSUME NEW c \in Client
      PROVE  (stream[c].q \o es) \in Seq(VpnStatus \cup {Note})
  BY CallParts, ConcatProperties
<1> QED
  BY <1>1 DEF TypeOK, Notify, Stream

-----------------------------------------------------------------------------
\* Anything a client can do, and any step of the daemon.
ClientMove(c) ==
  \/ \E cmd \in Command, l \in Location \cup {NoLoc} :
       /\ (cmd = "Connect") = (l # NoLoc)
       /\ MakeCall(c, cmd, l) /\ calls' \in 0..MaxCalls
  \/ TakeAnswer(c) \/ ReadEvent(c) \/ StreamEnds(c)
  \/ \E cs \in SUBSET Client : HangUp(cs)

ControllerStep == DaemonNext \/ Signal \/ \E c \in Client : ClientMove(c)

\* A command in the queue is that of a call that waits for it, or whose
\* client has gone; a client has at most one there.
QueuedCalls ==
  /\ \A i \in DOMAIN queue : queue[i].c \in Client =>
       /\ call[queue[i].c].ph \in {"sent", "gone"}
       /\ call[queue[i].c].ph = "sent" => call[queue[i].c].cmd = queue[i].k
       /\ queue[i].k = "Connect" => call[queue[i].c].loc \in Location
  /\ \A i, j \in DOMAIN queue :
       queue[i].c \in Client /\ queue[i].c = queue[j].c => i = j

\* The command being handled stays at the head.
ConnectAtHead == dm = "connect" => queue # <<>> /\ Head(queue).k = "Connect"

ConnectHasLocation ==
  \A c \in Client :
    call[c].cmd = "Connect" /\ call[c].ph = "auth" => call[c].loc \in Location

QueueInv == QueuedCalls /\ ConnectAtHead /\ ConnectHasLocation

\* Initially nothing is queued and nobody calls.
LEMMA InitType == Init => TypeOK /\ QueueInv
<1> SUFFICES ASSUME Init PROVE TypeOK /\ QueueInv
  OBVIOUS
<1>1. queue \in Seq(QueueItem) /\ DOMAIN queue = {}
  BY DEF Init
<1>2. call \in [Client -> CallState] /\ stream \in [Client -> Stream]
  BY NoCallType, NoStreamType DEF Init
<1>3. /\ devUp \in BOOLEAN /\ subs \subseteq Client
      /\ calls \in 0..MaxCalls /\ evs \in 0..MaxEvents
  BY ControllerAssumption DEF Init
<1>4. TypeOK
  BY <1>1, <1>2, <1>3, StatusValues DEF Init, TypeOK
<1>5. QueueInv
  BY <1>1, NoCallType
     DEF Init, QueueInv, QueuedCalls, ConnectAtHead, ConnectHasLocation
<1> QED
  BY <1>4, <1>5

\* Client moves keep the types whatever the daemon does.
LEMMA ClientMoveType ==
  ASSUME TypeOK, NEW c \in Client, ClientMove(c)
  PROVE  TypeOK'
<1>1. ASSUME NEW cmd \in Command, NEW l \in Location \cup {NoLoc},
             MakeCall(c, cmd, l), calls' \in 0..MaxCalls
      PROVE  TypeOK'
  <2>1. call' \in [Client -> CallState]
    BY <1>1, AnswerValues DEF TypeOK, MakeCall, CallState, CallPhase
  <2>2. queue' \in Seq(QueueItem)
    BY <1>1, ItemType DEF TypeOK, MakeCall, AllowedUnauthorized
  <2> QED
    BY <1>1, <2>1, <2>2 DEF TypeOK, MakeCall
<1>2. CASE TakeAnswer(c)
  BY <1>2, NoCallType DEF TypeOK, TakeAnswer
<1>3. CASE ReadEvent(c)
  <2>1. Tail(stream[c].q) \in Seq(VpnStatus \cup {Note})
    BY <1>3, CallParts DEF ReadEvent
  <2> QED
    BY <1>3, <2>1 DEF TypeOK, ReadEvent, Stream
<1>4. CASE StreamEnds(c)
  BY <1>4, NoStreamType DEF TypeOK, StreamEnds
<1>5. ASSUME NEW cs \in SUBSET Client, HangUp(cs)
      PROVE  TypeOK'
  <2>1. call' \in [Client -> CallState]
    BY <1>5, NoCallType DEF TypeOK, HangUp, CallState, CallPhase
  <2> QED
    BY <1>5, <2>1, NoStreamType DEF TypeOK, HangUp
<1> QED
  BY <1>1, <1>2, <1>3, <1>4, <1>5 DEF ClientMove

\* The authentication layer and the answering tasks keep the types.
LEMMA CallStepType ==
  ASSUME TypeOK, NEW c \in Client, CallStep(c)
  PROVE  TypeOK'
<1>1. CASE Authorized(c)
  <2>1. call' \in [Client -> CallState]
    <3>1. [call EXCEPT ![c].ph = "answered", ![c].ans = Plain("Ok")]
            \in [Client -> CallState]
      BY AnswerValues DEF TypeOK, CallState, CallPhase
    <3>2. [call EXCEPT ![c].ph = "sent"] \in [Client -> CallState]
      BY DEF TypeOK, CallState, CallPhase
    <3> QED
      BY <1>1, <3>1, <3>2 DEF Authorized
  <2>2. queue' \in Seq(QueueItem)
    <3>1. queue' = queue \/ (call[c].cmd # "WatchEvents"
                               /\ queue' = Append(queue, Item(call[c].cmd, c)))
      BY <1>1 DEF Authorized
    <3> QED
      BY <3>1, ItemType, CallParts DEF TypeOK
  <2>3. stream' \in [Client -> Stream] /\ subs' \subseteq Client
    BY <1>1, OpenedStream DEF TypeOK, Authorized
  <2> QED
    BY <1>1, <2>1, <2>2, <2>3 DEF TypeOK, Authorized
<1>2. CASE Unauthenticated(c)
  <2>1. call' \in [Client -> CallState]
    BY <1>2, AnswerValues DEF TypeOK, Unauthenticated, CallState, CallPhase
  <2> QED
    BY <1>2, <2>1 DEF TypeOK, Unauthenticated
<1>3. CASE TaskAnswers(c)
  <2>1. TaskAnswer(c) \subseteq Answer
    BY CallParts, AnswerValues DEF TaskAnswer
  <2>2. call' \in [Client -> CallState]
    BY <1>3, <2>1, AnsweredType DEF TaskAnswers
  <2> QED
    BY <1>3, <2>2 DEF TypeOK, TaskAnswers
<1> QED
  BY <1>1, <1>2, <1>3 DEF CallStep

\* What an item taken from the queue says of the call it is of.
LEMMA TakesParts ==
  ASSUME TypeOK, QueueInv, NEW k, NEW c, Takes(k, c)
  PROVE  /\ queue' = Tail(queue) /\ queue # <<>> /\ queue' \in Seq(QueueItem)
         /\ Head(queue).k = k /\ Head(queue).c = c /\ dm = "run"
         /\ c \in Client => /\ call[c].ph \in {"sent", "gone"}
                            /\ call[c].ph = "sent" => call[c].cmd = k
BY HeadParts DEF Takes, Item, QueueInv, QueuedCalls

\* While the daemon awaits the new session, its command is at the head.
LEMMA ConnectParts ==
  ASSUME TypeOK, QueueInv, dm = "connect"
  PROVE  /\ queue # <<>> /\ Tail(queue) \in Seq(QueueItem)
         /\ Head(queue).c \in Client /\ Head(queue).k = "Connect"
         /\ call[Head(queue).c].loc \in Location
         /\ call[Head(queue).c].ph \in {"sent", "gone"}
         /\ call[Head(queue).c].ph = "sent" => call[Head(queue).c].cmd = "Connect"
<1>1. queue # <<>> /\ Head(queue).k = "Connect"
  BY DEF QueueInv, ConnectAtHead
<1>2. Head(queue).c \in Client
  BY <1>1, HeadParts, ItemParts DEF Command
<1> QED
  BY <1>1, <1>2, HeadParts DEF QueueInv, QueuedCalls

\* The handlers of commands keep the types.
LEMMA OnCommandType ==
  ASSUME TypeOK, QueueInv, NEW c \in Client, OnCommand(c)
  PROVE  TypeOK'
<1>1. CASE OnConnectRefused(c)
  BY <1>1, TakesParts, AnsweredType, AnswerValues DEF TypeOK, OnConnectRefused
<1>2. CASE OnConnect(c)
  BY <1>2 DEF TypeOK, OnConnect
<1>3. CASE ConnectAccepted(c)
  <2>1. status' \in VpnStatus
    BY <1>3, ConnectParts, StatusValues DEF ConnectAccepted
  <2>2. call' \in [Client -> CallState]
    BY <1>3, <2>1, AnsweredType, AnswerValues DEF ConnectAccepted
  <2> QED
    BY <1>3, <2>1, <2>2, ConnectParts DEF TypeOK, ConnectAccepted
<1>4. CASE ConnectFailed(c)
  <2>1. call' \in [Client -> CallState]
    BY <1>4, AnsweredType, AnswerValues, StatusValues DEF ConnectFailed
  <2>2. stream' \in [Client -> Stream] /\ subs' \subseteq Client
    <3>1. <<Note>> \in Seq(VpnStatus \cup {Note})
      OBVIOUS
    <3> QED
      BY <1>4, <3>1, NotifyType DEF ConnectFailed
  <2> QED
    BY <1>4, <2>1, <2>2, ConnectParts DEF TypeOK, ConnectFailed
<1>5. CASE OnDisconnect(c)
  <2>1. status' \in VpnStatus
    BY <1>5, StatusValues DEF TypeOK, OnDisconnect, OnDisconnectInner
  <2>2. call' \in [Client -> CallState]
    BY <1>5, <2>1, AnsweredType, AnswerValues DEF OnDisconnect
  <2>3. stream' \in [Client -> Stream] /\ subs' \subseteq Client
    <3>1. <<status'>> \in Seq(VpnStatus \cup {Note})
      BY <2>1
    <3> QED
      BY <1>5, <3>1, NotifyType DEF OnDisconnect, OnDisconnectInner
  <2> QED
    BY <1>5, <2>1, <2>2, <2>3, TakesParts DEF TypeOK, OnDisconnect
<1>6. CASE OnGetVpnStatus(c)
  <2>1. call' \in [Client -> CallState]
    BY <1>6, AnswerValues DEF TypeOK, OnGetVpnStatus, CallState, CallPhase
  <2> QED
    BY <1>6, <2>1, TakesParts DEF TypeOK, OnGetVpnStatus
<1>7. CASE OnOther(c)
  <2>1. call' \in [Client -> CallState]
    <3>1. Answered(c, Plain("Error")) \in [Client -> CallState]
      BY AnsweredType, AnswerValues
    <3>2. [call EXCEPT ![c].ph = "task"] \in [Client -> CallState]
      BY DEF TypeOK, CallState, CallPhase
    <3> QED
      BY <1>7, <3>1, <3>2 DEF TypeOK, OnOther
  <2> QED
    BY <1>7, <2>1, TakesParts DEF TypeOK, OnOther
<1> QED
  BY <1>1, <1>2, <1>3, <1>4, <1>5, <1>6, <1>7 DEF OnCommand

\* The daemon task keeps the types.
LEMMA DaemonStepType ==
  ASSUME TypeOK, QueueInv, DaemonStep
  PROVE  TypeOK'
<1>1. CASE Run \/ TunnelJoined \/ ServerJoined
  BY <1>1 DEF TypeOK, Run, TunnelJoined, ServerJoined
<1>2. CASE HandleEvent
  <2>1. /\ status' \in VpnStatus
        /\ stream' \in [Client -> Stream] /\ subs' \subseteq Client
    <3>1. CASE UNCHANGED <<status, stream, subs>>
      BY <3>1 DEF TypeOK
    <3>2. ASSUME NEW s \in EventStatus, status' = s, Notify(<<s>>)
          PROVE  /\ status' \in VpnStatus
                 /\ stream' \in [Client -> Stream] /\ subs' \subseteq Client
      <4>1. s \in VpnStatus /\ <<s>> \in Seq(VpnStatus \cup {Note})
        BY StatusValues
      <4> QED
        BY <3>2, <4>1, NotifyType
    <3>3. CASE status' = Disconnected /\ Notify(<<Note, Disconnected>>)
      <4>1. <<Note, Disconnected>> \in Seq(VpnStatus \cup {Note})
        BY StatusValues
      <4> QED
        BY <3>3, <4>1, NotifyType, StatusValues
    <3> QED
      BY <1>2, <3>1, <3>2, <3>3 DEF HandleEvent
  <2> QED
    BY <1>2, <2>1, TakesParts DEF TypeOK, HandleEvent
<1>3. CASE HandleShutdown
  <2>1. status' \in VpnStatus
    BY <1>3, StatusValues DEF TypeOK, HandleShutdown, OnDisconnectInner
  <2>2. stream' \in [Client -> Stream] /\ subs' \subseteq Client
    <3>1. <<status'>> \in Seq(VpnStatus \cup {Note})
      BY <2>1
    <3> QED
      BY <1>3, <3>1, NotifyType DEF HandleShutdown, OnDisconnectInner
  <2> QED
    BY <1>3, <2>1, <2>2, TakesParts DEF TypeOK, HandleShutdown
<1>4. CASE SubscribersCleared
  BY <1>4 DEF TypeOK, SubscribersCleared
<1>5. CASE DeviceStopped
  BY <1>5 DEF TypeOK, DeviceStopped
<1> QED
  BY <1>1, <1>2, <1>3, <1>4, <1>5, OnCommandType DEF DaemonStep

\* Every step of the daemon and its clients keeps the types.
LEMMA ControllerType ==
  ASSUME TypeOK, QueueInv, ControllerStep
  PROVE  TypeOK'
<1>1. CASE QueueEvent
  <2>1. Item("Event", NoClient) \in QueueItem
    BY DEF QueueItem
  <2>2. queue' \in Seq(QueueItem)
    BY <1>1, <2>1 DEF TypeOK, QueueEvent
  <2> QED
    BY <1>1, <2>2, ControllerAssumption DEF TypeOK, QueueEvent
<1>2. CASE QueueShutdown
  <2>1. Item("Shutdown", NoClient) \in QueueItem
    BY DEF QueueItem
  <2>2. queue' \in Seq(QueueItem)
    BY <1>2, <2>1 DEF TypeOK, QueueShutdown
  <2> QED
    BY <1>2, <2>2 DEF TypeOK, QueueShutdown
<1>3. CASE ServerDrains \/ ServerCloses \/ Signal
  BY <1>3 DEF TypeOK, ServerDrains, ServerCloses, Signal
<1> QED
  BY <1>1, <1>2, <1>3, ClientMoveType, CallStepType, DaemonStepType
     DEF ControllerStep, DaemonNext

-----------------------------------------------------------------------------
\* How the queue and the calls in it change.

\* The head is taken and the other calls stay as they are.
LEMMA QueueTail ==
  ASSUME TypeOK, QueuedCalls, queue # <<>>, queue' = Tail(queue),
         \A d \in Client : d # Head(queue).c => call'[d] = call[d]
  PROVE  QueuedCalls'
<1> DEFINE n == Len(queue)
<1>1. /\ n \in Nat \ {0} /\ DOMAIN queue = 1..n /\ DOMAIN queue' = 1..(n - 1)
      /\ \A i \in 1..(n - 1) : queue'[i] = queue[i + 1]
      /\ Head(queue) = queue[1]
  BY DEF TypeOK
<1>2. ASSUME NEW i \in DOMAIN queue', queue'[i].c \in Client
      PROVE  /\ i + 1 \in DOMAIN queue /\ queue'[i] = queue[i + 1]
             /\ call'[queue'[i].c] = call[queue[i + 1].c]
  <2>1. i + 1 \in DOMAIN queue /\ 1 \in DOMAIN queue /\ i + 1 # 1
        /\ queue'[i] = queue[i + 1]
    BY <1>1
  <2>2. queue[i + 1].c # queue[1].c
    BY <1>2, <2>1 DEF QueuedCalls
  <2> QED
    BY <1>1, <1>2, <2>1, <2>2
<1>3. ASSUME NEW i \in DOMAIN queue', NEW j \in DOMAIN queue',
             queue'[i].c \in Client, queue'[i].c = queue'[j].c
      PROVE  i = j
  <2>1. i + 1 = j + 1
    BY <1>2, <1>3 DEF QueuedCalls
  <2> QED
    BY <1>1, <2>1
<1> QED
  BY <1>2, <1>3 DEF QueuedCalls

\* The daemon's own items do not concern calls.
LEMMA QueueAppendOwn ==
  ASSUME TypeOK, QueuedCalls, NEW it \in QueueItem, it.c \notin Client,
         queue' = Append(queue, it), call' = call
  PROVE  QueuedCalls'
<1> DEFINE n == Len(queue)
<1>1. /\ n \in Nat /\ DOMAIN queue = 1..n /\ DOMAIN queue' = 1..(n + 1)
      /\ queue'[n + 1] = it /\ \A i \in DOMAIN queue : queue'[i] = queue[i]
  BY DEF TypeOK
<1>2. \A i \in DOMAIN queue' :
        queue'[i].c \in Client => i \in DOMAIN queue /\ queue'[i] = queue[i]
  BY <1>1
<1> QED
  BY <1>2 DEF QueuedCalls

\* A call is sent, which was not in the queue.
LEMMA QueueAppendCall ==
  ASSUME TypeOK, QueuedCalls, NEW c \in Client, NEW k \in Command \ {"WatchEvents"},
         call[c].ph \notin {"sent", "gone"},
         queue' = Append(queue, Item(k, c)),
         call'[c].ph = "sent", call'[c].cmd = k,
         k = "Connect" => call'[c].loc \in Location,
         \A d \in Client : d # c => call'[d] = call[d]
  PROVE  QueuedCalls'
<1> DEFINE n == Len(queue)
<1>1. /\ n \in Nat /\ DOMAIN queue = 1..n /\ DOMAIN queue' = 1..(n + 1)
      /\ queue'[n + 1] = Item(k, c)
      /\ \A i \in DOMAIN queue : queue'[i] = queue[i]
  BY ItemType DEF TypeOK
<1>2. Item(k, c).k = k /\ Item(k, c).c = c
  BY DEF Item
<1>3. \A i \in DOMAIN queue : queue[i].c # c
  BY DEF QueuedCalls
<1>4. \A i \in DOMAIN queue' :
        i = n + 1 \/ (i \in DOMAIN queue /\ queue'[i] = queue[i] /\ queue'[i].c # c)
  BY <1>1, <1>3
<1>5. ASSUME NEW i \in DOMAIN queue', queue'[i].c \in Client
      PROVE  /\ call'[queue'[i].c].ph \in {"sent", "gone"}
             /\ call'[queue'[i].c].ph = "sent" => call'[queue'[i].c].cmd = queue'[i].k
             /\ queue'[i].k = "Connect" => call'[queue'[i].c].loc \in Location
  BY <1>1, <1>2, <1>4, <1>5 DEF QueuedCalls
<1>6. ASSUME NEW i \in DOMAIN queue', NEW j \in DOMAIN queue',
             queue'[i].c \in Client, queue'[i].c = queue'[j].c
      PROVE  i = j
  BY <1>1, <1>2, <1>4, <1>6 DEF QueuedCalls
<1> QED
  BY <1>5, <1>6 DEF QueuedCalls

\* The queue stays, and so do the calls in it, or their clients leave.
LEMMA QueueStays ==
  ASSUME TypeOK, QueuedCalls, queue' = queue,
         \A d \in Client : call[d].ph \in {"sent", "gone"} =>
            \/ call'[d] = call[d]
            \/ call'[d].ph = "gone" /\ call'[d].loc = call[d].loc
  PROVE  QueuedCalls'
<1>1. \A i \in DOMAIN queue : queue[i].c \in Client =>
        call[queue[i].c].ph \in {"sent", "gone"}
  BY DEF QueuedCalls
<1> QED
  BY <1>1 DEF QueuedCalls

\* A step other than the daemon's keeps the head.
LEMMA HeadStays ==
  ASSUME TypeOK, ConnectAtHead, dm' = dm,
         queue' = queue \/ \E it \in QueueItem : queue' = Append(queue, it)
  PROVE  ConnectAtHead'
<1>1. ASSUME NEW it \in QueueItem, queue' = Append(queue, it)
      PROVE  queue' # <<>> /\ (queue # <<>> => Head(queue') = Head(queue))
  BY <1>1 DEF TypeOK
<1> QED
  BY <1>1 DEF ConnectAtHead

\* Clients keep QueueInv; a client that leaves keeps the location of its
\* call, which may still be in the queue.
LEMMA ClientMoveQueue ==
  ASSUME TypeOK, QueueInv, NEW c \in Client, ClientMove(c)
  PROVE  QueueInv'
<1> USE DEF QueueInv
<1>1. ASSUME NEW cmd \in Command, NEW l \in Location \cup {NoLoc},
             (cmd = "Connect") = (l # NoLoc), MakeCall(c, cmd, l)
      PROVE  QueueInv'
  <2>1. /\ call'[c] = [ph |-> IF cmd \in AllowedUnauthorized THEN "sent" ELSE "auth",
                       cmd |-> cmd, loc |-> l, ans |-> None]
        /\ \A d \in Client : d # c => call'[d] = call[d]
    BY <1>1 DEF MakeCall, TypeOK
  <2>2. CASE cmd \in AllowedUnauthorized
    <3>1. /\ cmd \in Command \ {"WatchEvents"} /\ cmd # "Connect"
          /\ queue' = Append(queue, Item(cmd, c)) /\ call[c].ph = "idle" /\ dm' = dm
      BY <1>1, <2>2 DEF MakeCall, AllowedUnauthorized
    <3>2. QueuedCalls'
      BY <2>1, <2>2, <3>1, QueueAppendCall
    <3>3. ConnectAtHead'
      BY <3>1, HeadStays, ItemType
    <3>4. ConnectHasLocation'
      BY <2>1, <2>2 DEF ConnectHasLocation
    <3> QED
      BY <3>2, <3>3, <3>4
  <2>3. CASE cmd \notin AllowedUnauthorized
    <3>1. queue' = queue /\ call[c].ph = "idle" /\ dm' = dm
      BY <1>1, <2>3 DEF MakeCall
    <3>2. QueuedCalls'
      BY <2>1, <3>1, QueueStays
    <3>3. ConnectAtHead'
      BY <3>1, HeadStays
    <3>4. ConnectHasLocation'
      BY <1>1, <2>1 DEF ConnectHasLocation
    <3> QED
      BY <3>2, <3>3, <3>4
  <2> QED
    BY <2>2, <2>3
<1>2. CASE TakeAnswer(c)
  <2>1. /\ call'[c] = NoCall /\ call[c].ph = "answered"
        /\ \A d \in Client : d # c => call'[d] = call[d]
    BY <1>2 DEF TakeAnswer, TypeOK
  <2>2. queue' = queue /\ dm' = dm
    BY <1>2 DEF TakeAnswer
  <2> QED
    BY <2>1, <2>2, QueueStays, HeadStays, NoCallType DEF ConnectHasLocation
<1>3. CASE ReadEvent(c) \/ StreamEnds(c)
  BY <1>3 DEF ReadEvent, StreamEnds, QueuedCalls, ConnectAtHead, ConnectHasLocation
<1>4. ASSUME NEW cs \in SUBSET Client, HangUp(cs)
      PROVE  QueueInv'
  <2>1. \A d \in Client : \/ call'[d] = call[d]
                          \/ call'[d].ph = "gone" /\ call'[d].loc = call[d].loc
    BY <1>4 DEF HangUp, NoCall
  <2>2. queue' = queue /\ dm' = dm
    BY <1>4 DEF HangUp
  <2> QED
    BY <2>1, <2>2, QueueStays, HeadStays DEF ConnectHasLocation
<1> QED
  BY <1>1, <1>2, <1>3, <1>4 DEF ClientMove

\* A call that is authorized is queued once.
LEMMA CallStepQueue ==
  ASSUME TypeOK, QueueInv, NEW c \in Client, CallStep(c)
  PROVE  QueueInv'
<1> USE DEF QueueInv
<1>1. ASSUME call[c].ph \in {"auth", "task"}, call'[c].ph = "answered",
             \A d \in Client : d # c => call'[d] = call[d],
             queue' = queue, dm' = dm
      PROVE  QueueInv'
  BY <1>1, QueueStays, HeadStays DEF ConnectHasLocation
<1>2. CASE Authorized(c)
  <2>1. CASE call[c].cmd = "WatchEvents"
    BY <1>1, <1>2, <2>1 DEF Authorized, TypeOK, CallState
  <2>2. CASE call[c].cmd # "WatchEvents"
    <3>1. /\ call' = [call EXCEPT ![c].ph = "sent"] /\ call[c].ph = "auth"
          /\ queue' = Append(queue, Item(call[c].cmd, c)) /\ dm' = dm
      BY <1>2, <2>2 DEF Authorized
    <3>2. /\ call'[c].ph = "sent" /\ call'[c].cmd = call[c].cmd
          /\ call'[c].loc = call[c].loc
          /\ \A d \in Client : d # c => call'[d] = call[d]
      BY <3>1 DEF TypeOK, CallState
    <3>3. call[c].cmd \in Command \ {"WatchEvents"}
      BY <2>2, CallParts
    <3>4. call[c].cmd = "Connect" => call[c].loc \in Location
      BY <3>1 DEF ConnectHasLocation
    <3>5. QueuedCalls'
      BY <3>1, <3>2, <3>3, <3>4, QueueAppendCall
    <3>6. ConnectAtHead'
      BY <3>1, <3>3, HeadStays, ItemType
    <3>7. ConnectHasLocation'
      BY <3>2 DEF ConnectHasLocation
    <3> QED
      BY <3>5, <3>6, <3>7
  <2> QED
    BY <2>1, <2>2
<1>3. CASE Unauthenticated(c)
  BY <1>1, <1>3 DEF Unauthenticated, TypeOK, CallState
<1>4. CASE TaskAnswers(c)
  BY <1>1, <1>4 DEF TaskAnswers, Answered, TypeOK, CallState
<1> QED
  BY <1>2, <1>3, <1>4 DEF CallStep

\* A command is handled, its client apart.
LEMMA HandledQueue ==
  ASSUME TypeOK, QueueInv, queue # <<>>, queue' = Tail(queue), dm' # "connect",
         \A d \in Client : d # Head(queue).c => call'[d] = call[d],
         \A d \in Client : d = Head(queue).c => call'[d].ph # "auth"
  PROVE  QueueInv'
<1>1. QueuedCalls'
  BY QueueTail DEF QueueInv
<1>2. ConnectHasLocation'
  BY DEF QueueInv, ConnectHasLocation
<1> QED
  BY <1>1, <1>2 DEF QueueInv, ConnectAtHead

\* What an answer does to the calls.
LEMMA AnsweredParts ==
  ASSUME TypeOK, NEW c \in Client, NEW a, call' = Answered(c, a)
  PROVE  /\ \A d \in Client : d # c => call'[d] = call[d]
         /\ call'[c].ph = IF call[c].ph = "gone" THEN "gone" ELSE "answered"
         /\ call[c].ph # "gone" => call'[c].ans = a
         /\ call'[c].cmd = call[c].cmd /\ call'[c].loc = call[c].loc
BY DEF TypeOK, Answered, CallState

\* A command left to a task.
LEMMA TaskParts ==
  ASSUME TypeOK, NEW c \in Client,
         \/ OnGetVpnStatus(c)
         \/ OnOther(c)
  PROVE  /\ \A d \in Client : d # c => call'[d] = call[d]
         /\ call[c].ph = "gone" <=> call'[c].ph = "gone"
         /\ call'[c].ph \in {"gone", "answered", "task"}
         /\ call'[c].cmd = call[c].cmd
<1>1. CASE OnGetVpnStatus(c)
  BY <1>1 DEF OnGetVpnStatus, TypeOK, CallState
<1>2. CASE OnOther(c)
  <2>1. CASE call' = Answered(c, Plain("Error"))
    BY <2>1, AnsweredParts
  <2>2. CASE call[c].ph = "gone" /\ call' = call
    BY <2>2
  <2>3. CASE call[c].ph # "gone" /\ call' = [call EXCEPT ![c].ph = "task"]
    BY <2>3 DEF TypeOK, CallState
  <2> QED
    BY <1>2, <2>1, <2>2, <2>3 DEF OnOther
<1> QED
  BY <1>1, <1>2

\* The handlers of commands take the head of the queue.
LEMMA OnCommandQueue ==
  ASSUME TypeOK, QueueInv, NEW c \in Client, OnCommand(c)
  PROVE  QueueInv'
<1>1. CASE OnConnectRefused(c)
  BY <1>1, TakesParts, AnsweredParts, HandledQueue DEF OnConnectRefused
<1>2. CASE OnConnect(c)
  BY <1>2 DEF OnConnect, QueueInv, QueuedCalls, ConnectAtHead, ConnectHasLocation, Item
<1>3. CASE ConnectAccepted(c)
  BY <1>3, ConnectParts, AnsweredParts, HandledQueue DEF ConnectAccepted
<1>4. CASE ConnectFailed(c)
  BY <1>4, ConnectParts, AnsweredParts, HandledQueue DEF ConnectFailed
<1>5. CASE OnDisconnect(c)
  BY <1>5, TakesParts, AnsweredParts, HandledQueue DEF OnDisconnect
<1>6. CASE OnGetVpnStatus(c)
  <2>1. PICK k : Takes(k, c) /\ dm' = dm
    BY <1>6 DEF OnGetVpnStatus
  <2> QED
    BY <1>6, <2>1, TakesParts, TaskParts, HandledQueue
<1>7. CASE OnOther(c)
  <2>1. PICK k : Takes(k, c) /\ dm' = dm
    BY <1>7 DEF OnOther
  <2> QED
    BY <1>7, <2>1, TakesParts, TaskParts, HandledQueue
<1> QED
  BY <1>1, <1>2, <1>3, <1>4, <1>5, <1>6, <1>7 DEF OnCommand

\* Every step of the daemon and its clients keeps QueueInv.
LEMMA ControllerQueue ==
  ASSUME TypeOK, QueueInv, ControllerStep
  PROVE  QueueInv'
<1>1. CASE QueueEvent \/ QueueShutdown
  <2>1. PICK it \in {Item("Event", NoClient), Item("Shutdown", NoClient)} :
           queue' = Append(queue, it)
    BY <1>1 DEF QueueEvent, QueueShutdown
  <2>2. it \in QueueItem /\ it.c \notin Client /\ call' = call /\ dm' = dm
    BY <1>1, <2>1, ControllerAssumption DEF QueueEvent, QueueShutdown, QueueItem, Item
  <2> QED
    BY <2>1, <2>2, QueueAppendOwn, HeadStays DEF QueueInv, ConnectHasLocation
<1>2. CASE ServerDrains \/ ServerCloses \/ Signal
  BY <1>2 DEF ServerDrains, ServerCloses, Signal, QueueInv, QueuedCalls,
              ConnectAtHead, ConnectHasLocation
<1>3. CASE Run \/ TunnelJoined \/ ServerJoined \/ SubscribersCleared \/ DeviceStopped
  BY <1>3 DEF Run, TunnelJoined, ServerJoined, SubscribersCleared, DeviceStopped,
              QueueInv, QueuedCalls, ConnectAtHead, ConnectHasLocation
<1>4. CASE HandleEvent
  BY <1>4, TakesParts, HandledQueue, ControllerAssumption DEF HandleEvent
<1>5. CASE HandleShutdown
  BY <1>5, TakesParts, HandledQueue, ControllerAssumption DEF HandleShutdown
<1> QED
  BY <1>1, <1>2, <1>3, <1>4, <1>5, ClientMoveQueue, CallStepQueue, OnCommandQueue
     DEF ControllerStep, DaemonNext, DaemonStep

-----------------------------------------------------------------------------
\* The end of the daemon and of the gRPC server

\* A closed server has no call under way.
ClosedIsIdle ==
  grpc = "closed" => \A c \in Client : call[c].ph \notin {"auth", "sent", "task"}

\* The device service ends after the server.
EndsInOrder ==
  /\ dm \in {"device", "ended"} => grpc = "closed"
  /\ ~devUp => dm = "ended"

\* The order in which handle_shutdown ends the parts of the daemon.
LEMMA ControllerClosed ==
  ASSUME TypeOK, QueueInv, ClosedIsIdle, EndsInOrder, ControllerStep
  PROVE  ClosedIsIdle' /\ EndsInOrder'
<1>0. ASSUME grpc' = grpc, dm' = dm \/ dm' \notin {"device", "ended"},
             ~devUp => dm' = dm, devUp' = devUp,
             \A c \in Client : call'[c].ph \in {"auth", "sent", "task"} =>
                grpc # "closed" \/ call[c].ph \in {"auth", "sent", "task"}
      PROVE  ClosedIsIdle' /\ EndsInOrder'
  BY <1>0 DEF ClosedIsIdle, EndsInOrder
<1>1. ASSUME NEW c \in Client, ClientMove(c)
      PROVE  ClosedIsIdle' /\ EndsInOrder'
  <2>1. /\ grpc' = grpc /\ dm' = dm /\ devUp' = devUp
    BY <1>1 DEF ClientMove, MakeCall, TakeAnswer, ReadEvent, StreamEnds, HangUp
  <2>2. ASSUME NEW cmd \in Command, NEW l, MakeCall(c, cmd, l)
        PROVE  grpc # "closed"
    BY <2>2 DEF MakeCall
  <2>3. CASE TakeAnswer(c)
    BY <1>0, <2>1, <2>3, NoCallType DEF TakeAnswer, TypeOK
  <2>4. CASE ReadEvent(c) \/ StreamEnds(c)
    BY <1>0, <2>1, <2>4 DEF ReadEvent, StreamEnds
  <2>5. ASSUME NEW cs \in SUBSET Client, HangUp(cs)
        PROVE  ClosedIsIdle' /\ EndsInOrder'
    BY <1>0, <2>1, <2>5 DEF HangUp, NoCall
  <2> QED
    BY <1>0, <1>1, <2>1, <2>2, <2>3, <2>4, <2>5 DEF ClientMove
<1>2. ASSUME NEW c \in Client, CallStep(c)
      PROVE  ClosedIsIdle' /\ EndsInOrder'
  <2>1. call[c].ph \in {"auth", "task"} /\ \A d \in Client : d # c => call'[d] = call[d]
    BY <1>2, AnsweredParts
       DEF CallStep, Authorized, Unauthenticated, TaskAnswers, TypeOK
  <2>2. grpc' = grpc /\ dm' = dm /\ devUp' = devUp
    BY <1>2 DEF CallStep, Authorized, Unauthenticated, TaskAnswers
  <2> QED
    BY <1>0, <2>1, <2>2
<1>3. ASSUME NEW c \in Client, OnCommand(c)
      PROVE  ClosedIsIdle' /\ EndsInOrder'
  <2>1. /\ grpc' = grpc /\ devUp' = devUp
        /\ dm \in {"run", "connect"} /\ dm' \in {"run", "connect"}
    BY <1>3, TakesParts
       DEF OnCommand, OnConnectRefused, OnConnect, ConnectAccepted, ConnectFailed,
           OnDisconnect, OnGetVpnStatus, OnOther
  <2>2. CASE OnConnectRefused(c) \/ OnDisconnect(c)
    BY <1>0, <2>1, <2>2, AnsweredParts DEF OnConnectRefused, OnDisconnect, EndsInOrder
  <2>3. CASE OnConnect(c)
    BY <1>0, <2>1, <2>3 DEF OnConnect, EndsInOrder
  <2>4. CASE ConnectAccepted(c) \/ ConnectFailed(c)
    BY <1>0, <2>1, <2>4, AnsweredParts DEF ConnectAccepted, ConnectFailed, EndsInOrder
  <2>5. CASE OnGetVpnStatus(c) \/ OnOther(c)
    <3>1. PICK k : Takes(k, c)
      BY <2>5 DEF OnGetVpnStatus, OnOther
    <3>2. call[c].ph \in {"sent", "gone"}
      BY <3>1, TakesParts
    <3> QED
      BY <1>0, <2>1, <2>5, <3>2, TaskParts DEF EndsInOrder
  <2> QED
    BY <1>3, <2>2, <2>3, <2>4, <2>5 DEF OnCommand
<1>4. CASE Run \/ HandleEvent \/ HandleShutdown \/ TunnelJoined \/ SubscribersCleared
  <2>1. /\ grpc' = grpc /\ devUp' = devUp /\ call' = call
        /\ dm # "ended" /\ dm' \notin {"device", "ended"}
    BY <1>4, TakesParts
       DEF Run, HandleEvent, HandleShutdown, TunnelJoined, SubscribersCleared
  <2> QED
    BY <1>0, <2>1 DEF EndsInOrder
<1>5. CASE ServerJoined \/ DeviceStopped
  BY <1>5 DEF ServerJoined, DeviceStopped, ClosedIsIdle, EndsInOrder, TypeOK
<1>6. CASE QueueEvent \/ QueueShutdown \/ Signal
  BY <1>6 DEF QueueEvent, QueueShutdown, Signal, ClosedIsIdle, EndsInOrder
<1>7. CASE ServerDrains \/ ServerCloses
  BY <1>7 DEF ServerDrains, ServerCloses, InFlight, ClosedIsIdle, EndsInOrder
<1> QED
  BY <1>1, <1>2, <1>3, <1>4, <1>5, <1>6, <1>7
     DEF ControllerStep, DaemonNext, DaemonStep

-----------------------------------------------------------------------------
\* Streams

\* The streams of clients, whatever the daemon does.
StreamsKept ==
  \A c \in Client :
    /\ ~stream[c].open => stream[c].q = <<>>
    /\ call[c].ph = "gone" => ~stream[c].open
    /\ call[c].cmd = "WatchEvents" /\ call[c].ph = "auth" => ~stream[c].open

\* StreamCurrent, with what holds while the daemon stops.
Served ==
  \A c \in Client :
    stream[c].open =>
      /\ LastIs(stream[c].q, status) \/ status.st = "Accepted"
      /\ ~Stopping => c \in subs

\* What comes last, when something is sent or read.
LEMMA LastSent ==
  ASSUME NEW q \in Seq(VpnStatus \cup {Note}), NEW s \in VpnStatus
  PROVE  /\ LastIs(q \o <<s>>, s)
         /\ LastIs(q, s) => LastIs(q \o <<Note>>, s)
         /\ LastIs(q \o <<Note, s>>, s)
         /\ q # <<>> => (LastIs(q, s) => LastIs(Tail(q), s))
         /\ q # <<>> /\ Tail(q) = <<>> /\ LastIs(q, s) /\ Head(q) # Note => Head(q) = s
<1> DEFINE n == Len(q)
<1>0. n \in Nat /\ DOMAIN q = 1..n /\ s # Note
  BY StatusValues
<1>1. LastIs(q \o <<s>>, s)
  <2>1. /\ DOMAIN (q \o <<s>>) = 1..(n + 1) /\ (q \o <<s>>)[n + 1] = s
    BY <1>0
  <2> QED
    BY <1>0, <2>1 DEF LastIs
<1>2. ASSUME LastIs(q, s) PROVE LastIs(q \o <<Note>>, s)
  <2>1. /\ DOMAIN (q \o <<Note>>) = 1..(n + 1) /\ (q \o <<Note>>)[n + 1] = Note
        /\ \A i \in 1..n : (q \o <<Note>>)[i] = q[i]
    BY <1>0
  <2>2. \A i \in DOMAIN (q \o <<Note>>) :
          (q \o <<Note>>)[i] # Note => i \in DOMAIN q
    BY <1>0, <2>1
  <2> QED
    BY <1>0, <1>2, <2>1, <2>2 DEF LastIs
<1>3. LastIs(q \o <<Note, s>>, s)
  <2>1. /\ DOMAIN (q \o <<Note, s>>) = 1..(n + 2) /\ (q \o <<Note, s>>)[n + 2] = s
    BY <1>0
  <2> QED
    BY <1>0, <2>1 DEF LastIs
<1>4. ASSUME q # <<>>, LastIs(q, s) PROVE LastIs(Tail(q), s)
  <2>1. /\ n > 0 /\ DOMAIN Tail(q) = 1..(n - 1)
        /\ \A i \in 1..(n - 1) : Tail(q)[i] = q[i + 1]
    BY <1>0, <1>4
  <2> SUFFICES ASSUME NEW i \in 1..(n - 1), Tail(q)[i] # Note,
                      \A j \in 1..(n - 1) : j > i => Tail(q)[j] = Note
               PROVE  Tail(q)[i] = s
    BY <2>1 DEF LastIs
  <2>2. ASSUME NEW j \in 1..n, j > i + 1
        PROVE  q[j] = Note
    <3>1. j - 1 \in 1..(n - 1) /\ j - 1 > i /\ (j - 1) + 1 = j
      BY <1>0, <2>2
    <3> QED
      BY <2>1, <3>1
  <2>3. i + 1 \in 1..n /\ q[i + 1] # Note
    BY <1>0, <2>1
  <2> QED
    BY <1>0, <1>4, <2>1, <2>2, <2>3 DEF LastIs
<1>5. ASSUME q # <<>>, Tail(q) = <<>>, LastIs(q, s), Head(q) # Note
      PROVE  Head(q) = s
  <2>0. Len(Tail(q)) = n - 1 /\ Len(<<>>) = 0
    BY <1>0, <1>5
  <2>1. n = 1
    <3>1. Len(Tail(q)) = Len(<<>>)
      BY <1>5
    <3> HIDE DEF n
    <3> QED
      BY <1>0, <2>0, <3>1
  <2>2. Head(q) = q[1]
    BY <1>5
  <2> QED
    BY <1>0, <1>5, <2>1, <2>2 DEF LastIs
<1> QED
  BY <1>1, <1>2, <1>3, <1>4, <1>5

\* The broadcast of a new status, or of a notification, to all streams.
LEMMA NotifiedServed ==
  ASSUME TypeOK, status' \in VpnStatus, Served, ~Stopping, NEW es,
         \/ es = <<status'>>
         \/ es = <<Note, status'>>
         \/ es = <<Note>> /\ status' = status,
         Notify(es)
  PROVE  Served'
<1>1. es \in Seq(VpnStatus \cup {Note})
  <2>1. /\ <<status'>> \in Seq(VpnStatus \cup {Note})
        /\ <<Note, status'>> \in Seq(VpnStatus \cup {Note})
        /\ <<Note>> \in Seq(VpnStatus \cup {Note})
    OBVIOUS
  <2> QED
    BY <2>1
<1> SUFFICES ASSUME NEW c \in Client, stream'[c].open
             PROVE  /\ LastIs(stream'[c].q, status') \/ status'.st = "Accepted"
                    /\ c \in subs'
  BY DEF Served
<1>2. stream[c].open /\ c \in subs /\ stream'[c].q = stream[c].q \o es
  BY <1>1, NotifyType DEF Served
<1>3. c \in subs'
  BY <1>2 DEF Notify
<1>4. stream[c].q \in Seq(VpnStatus \cup {Note})
  BY CallParts
<1>5. CASE es = <<status'>> \/ es = <<Note, status'>>
  <2>1. /\ LastIs(stream[c].q \o <<status'>>, status')
        /\ LastIs(stream[c].q \o <<Note, status'>>, status')
    BY <1>4, LastSent
  <2> QED
    BY <1>2, <1>3, <1>5, <2>1
<1>6. CASE es = <<Note>> /\ status' = status
  <2>1. LastIs(stream[c].q, status') => LastIs(stream[c].q \o <<Note>>, status')
    BY <1>4, LastSent
  <2> QED
    BY <1>2, <1>3, <1>6, <2>1 DEF Served
<1> QED
  BY <1>5, <1>6

\* What changes neither the status nor an open stream.
LEMMA ServedStays ==
  ASSUME Served, status' = status, dm' = dm, subs \subseteq subs',
         \A c \in Client : stream'[c].open => stream[c].open /\ stream'[c] = stream[c]
  PROVE  Served'
BY DEF Served, Stopping

\* Clients read what comes first and close their own streams only.
LEMMA ClientMoveStreams ==
  ASSUME TypeOK, StreamsKept, Served, NEW c \in Client, ClientMove(c)
  PROVE  StreamsKept' /\ Served'
<1>0. status' = status /\ dm' = dm /\ subs' = subs
  BY DEF ClientMove, MakeCall, TakeAnswer, ReadEvent, StreamEnds, HangUp
<1>1. ASSUME NEW cmd \in Command, NEW l \in Location \cup {NoLoc}, MakeCall(c, cmd, l)
      PROVE  StreamsKept' /\ Served'
  <2>1. /\ call'[c].cmd = cmd /\ call'[c].ph \in {"sent", "auth"}
        /\ \A d \in Client : d # c => call'[d] = call[d]
        /\ stream' = stream /\ (cmd = "WatchEvents" => ~stream[c].open)
    BY <1>1 DEF MakeCall, TypeOK
  <2> QED
    BY <1>0, <2>1, ServedStays DEF StreamsKept
<1>2. CASE TakeAnswer(c)
  <2>1. /\ call'[c] = NoCall /\ stream' = stream
        /\ \A d \in Client : d # c => call'[d] = call[d]
    BY <1>2 DEF TakeAnswer, TypeOK
  <2> QED
    BY <1>0, <2>1, ServedStays, NoCallType DEF StreamsKept
<1>3. CASE ReadEvent(c)
  <2>1. /\ stream[c].open /\ stream[c].q # <<>> /\ call' = call
        /\ stream'[c].open = stream[c].open /\ stream'[c].q = Tail(stream[c].q)
        /\ \A d \in Client : d # c => stream'[d] = stream[d]
    BY <1>3 DEF ReadEvent, TypeOK, Stream
  <2>2. StreamsKept'
    BY <2>1 DEF StreamsKept
  <2>3. status \in VpnStatus /\ stream[c].q \in Seq(VpnStatus \cup {Note})
    BY CallParts DEF TypeOK
  <2>4. LastIs(stream[c].q, status) => LastIs(stream'[c].q, status')
    BY <1>0, <2>1, <2>3, LastSent
  <2>5. Served'
    BY <1>0, <2>1, <2>4 DEF Served, Stopping
  <2> QED
    BY <2>2, <2>5
<1>4. CASE StreamEnds(c)
  <2>1. /\ stream'[c] = NoStream /\ call' = call
        /\ \A d \in Client : d # c => stream'[d] = stream[d]
    BY <1>4 DEF StreamEnds, TypeOK
  <2> QED
    BY <1>0, <2>1, ServedStays, NoStreamType DEF StreamsKept
<1>5. ASSUME NEW cs \in SUBSET Client, HangUp(cs)
      PROVE  StreamsKept' /\ Served'
  <2>1. \A d \in Client : IF d \in cs THEN stream'[d] = NoStream
                          ELSE stream'[d] = stream[d] /\ call'[d] = call[d]
    BY <1>5 DEF HangUp
  <2> QED
    BY <1>0, <2>1, ServedStays, NoStreamType DEF StreamsKept
<1> QED
  BY <1>1, <1>2, <1>3, <1>4, <1>5 DEF ClientMove

\* watch_events opens a stream that was closed, and subscribes it.
LEMMA CallStepStreams ==
  ASSUME TypeOK, StreamsKept, Served, NEW c \in Client, CallStep(c)
  PROVE  StreamsKept' /\ Served'
<1>0. status' = status /\ dm' = dm
  BY DEF CallStep, Authorized, Unauthenticated, TaskAnswers
<1>1. CASE Authorized(c)
  <2>1. CASE call[c].cmd = "WatchEvents"
    <3>1. /\ stream'[c] = [open |-> TRUE, q |-> <<>>] /\ subs' = subs \cup {c}
          /\ call'[c].ph = "answered"
          /\ \A d \in Client : d # c => stream'[d] = stream[d] /\ call'[d] = call[d]
      BY <1>1, <2>1 DEF Authorized, TypeOK, CallState
    <3>2. StreamsKept'
      BY <3>1 DEF StreamsKept
    <3>3. LastIs(<<>>, status)
      BY DEF LastIs
    <3> QED
      BY <1>0, <3>1, <3>2, <3>3 DEF Served, Stopping
  <2>2. CASE call[c].cmd # "WatchEvents"
    <3>1. /\ stream' = stream /\ subs' = subs /\ call'[c].ph = "sent"
          /\ \A d \in Client : d # c => call'[d] = call[d]
      BY <1>1, <2>2 DEF Authorized, TypeOK, CallState
    <3> QED
      BY <1>0, <3>1, ServedStays DEF StreamsKept
  <2> QED
    BY <2>1, <2>2
<1>2. CASE Unauthenticated(c) \/ TaskAnswers(c)
  <2>1. /\ stream' = stream /\ subs' = subs /\ call'[c].ph = "answered"
        /\ \A d \in Client : d # c => call'[d] = call[d]
    BY <1>2, AnsweredParts DEF Unauthenticated, TaskAnswers, TypeOK, CallState
  <2> QED
    BY <1>0, <2>1, ServedStays DEF StreamsKept
<1> QED
  BY <1>1, <1>2 DEF CallStep

\* A broadcast opens and closes no stream, and an answer no call of one.
LEMMA KeptStays ==
  ASSUME StreamsKept,
         \A d \in Client : /\ stream'[d].open = stream[d].open
                           /\ ~stream[d].open => stream'[d].q = stream[d].q,
         \A d \in Client : \/ call'[d] = call[d]
                           \/ call[d].ph # "gone" /\ call'[d].ph \in {"answered", "task"}
                           \/ call[d].ph = "gone" /\ call'[d].ph = "gone"
  PROVE  StreamsKept'
BY DEF StreamsKept

\* The handlers of commands send every new status but Accepted.
LEMMA OnCommandStreams ==
  ASSUME TypeOK, TypeOK', QueueInv, StreamsKept, Served, NEW c \in Client, OnCommand(c)
  PROVE  StreamsKept' /\ Served'
<1>0. status \in VpnStatus /\ status' \in VpnStatus
  BY DEF TypeOK
<1>1. CASE OnConnectRefused(c)
  BY <1>1, AnsweredParts, KeptStays, ServedStays DEF OnConnectRefused
<1>2. CASE OnConnect(c)
  BY <1>2, KeptStays DEF OnConnect, Served, Stopping
<1>3. CASE ConnectAccepted(c)
  <2>1. status'.st = "Accepted" /\ stream' = stream /\ subs' = subs /\ ~Stopping
    BY <1>3 DEF ConnectAccepted, Stopping
  <2>2. StreamsKept'
    BY <1>3, <2>1, AnsweredParts, KeptStays DEF ConnectAccepted
  <2> QED
    BY <2>1, <2>2 DEF Served
<1>4. CASE ConnectFailed(c)
  <2>1. <<Note>> \in Seq(VpnStatus \cup {Note}) /\ Notify(<<Note>>) /\ ~Stopping
        /\ status' = status
    BY <1>4 DEF ConnectFailed, Stopping
  <2>2. StreamsKept'
    BY <1>4, <2>1, AnsweredParts, NotifyType, KeptStays DEF ConnectFailed
  <2>3. Served'
    BY <1>0, <2>1, NotifiedServed
  <2> QED
    BY <2>2, <2>3
<1>5. CASE OnDisconnect(c)
  <2>1. <<status'>> \in Seq(VpnStatus \cup {Note}) /\ Notify(<<status'>>) /\ ~Stopping
    BY <1>0, <1>5, TakesParts DEF OnDisconnect, OnDisconnectInner, Stopping
  <2>2. StreamsKept'
    BY <1>5, <2>1, AnsweredParts, NotifyType, KeptStays DEF OnDisconnect
  <2>3. Served'
    BY <1>0, <2>1, NotifiedServed
  <2> QED
    BY <2>2, <2>3
<1>6. CASE OnGetVpnStatus(c) \/ OnOther(c)
  <2>1. stream' = stream /\ subs' = subs /\ status' = status /\ dm' = dm
    BY <1>6 DEF OnGetVpnStatus, OnOther
  <2>2. StreamsKept'
    BY <1>6, <2>1, TaskParts, KeptStays
  <2> QED
    BY <2>1, <2>2, ServedStays
<1> QED
  BY <1>1, <1>2, <1>3, <1>4, <1>5, <1>6 DEF OnCommand

\* Every step of the daemon and its clients keeps the streams current.
LEMMA ControllerStreams ==
  ASSUME TypeOK, TypeOK', QueueInv, StreamsKept, Served, ControllerStep
  PROVE  StreamsKept' /\ Served'
<1>0. status \in VpnStatus /\ status' \in VpnStatus
  BY DEF TypeOK
<1>1. CASE HandleEvent
  <2>1. call' = call /\ dm' = dm /\ ~Stopping
    BY <1>1, TakesParts DEF HandleEvent, Stopping
  <2>2. CASE UNCHANGED <<status, stream, subs>>
    BY <2>1, <2>2, KeptStays, ServedStays
  <2>3. CASE Notify(<<status'>>)
    <3>1. <<status'>> \in Seq(VpnStatus \cup {Note})
      BY <1>0
    <3> QED
      BY <1>0, <2>1, <2>3, <3>1, NotifyType, KeptStays, NotifiedServed
  <2>4. CASE Notify(<<Note, status'>>)
    <3>1. <<Note, status'>> \in Seq(VpnStatus \cup {Note})
      BY <1>0
    <3> QED
      BY <1>0, <2>1, <2>4, <3>1, NotifyType, KeptStays, NotifiedServed
  <2> QED
    BY <1>1, <2>2, <2>3, <2>4 DEF HandleEvent
<1>2. CASE HandleShutdown
  <2>1. <<status'>> \in Seq(VpnStatus \cup {Note}) /\ Notify(<<status'>>) /\ ~Stopping
        /\ call' = call
    BY <1>0, <1>2, TakesParts DEF HandleShutdown, OnDisconnectInner, Stopping
  <2> QED
    BY <1>0, <2>1, NotifyType, KeptStays, NotifiedServed
<1>3. CASE Run \/ TunnelJoined \/ ServerJoined \/ DeviceStopped \/ SubscribersCleared
  <2>1. /\ stream' = stream /\ call' = call /\ status' = status
        /\ Stopping' \/ (~Stopping /\ subs' = subs)
    BY <1>3 DEF Run, TunnelJoined, ServerJoined, DeviceStopped, SubscribersCleared,
                Stopping
  <2> QED
    BY <2>1, KeptStays DEF Served
<1>4. CASE QueueEvent \/ QueueShutdown \/ Signal \/ ServerDrains \/ ServerCloses
  <2>1. /\ stream' = stream /\ call' = call /\ status' = status /\ subs' = subs
        /\ dm' = dm
    BY <1>4 DEF QueueEvent, QueueShutdown, Signal, ServerDrains, ServerCloses
  <2> QED
    BY <2>1, KeptStays, ServedStays
<1> QED
  BY <1>1, <1>2, <1>3, <1>4, ClientMoveStreams, CallStepStreams, OnCommandStreams
     DEF ControllerStep, DaemonNext, DaemonStep

-----------------------------------------------------------------------------
\* The answer to GetVpnStatus is a status.
StatusAnswers ==
  \A c \in Client :
    call[c].cmd = "GetVpnStatus" /\ call[c].ph \in {"task", "answered"} =>
      call[c].ans \in VpnStatus \cup {Plain("Error")}

\* A client makes its calls without an answer.
LEMMA ClientMoveAnswers ==
  ASSUME TypeOK, StatusAnswers, NEW c \in Client, ClientMove(c)
  PROVE  StatusAnswers'
<1>0. ASSUME \A d \in Client : d # c => call'[d] = call[d],
             call'[c].cmd = "GetVpnStatus" => call'[c].ph \notin {"task", "answered"}
      PROVE  StatusAnswers'
  BY <1>0 DEF StatusAnswers
<1>1. ASSUME NEW cmd \in Command, NEW l, MakeCall(c, cmd, l)
      PROVE  StatusAnswers'
  BY <1>0, <1>1 DEF MakeCall, TypeOK
<1>2. CASE TakeAnswer(c)
  BY <1>0, <1>2, NoCallType DEF TakeAnswer, TypeOK
<1>3. CASE ReadEvent(c) \/ StreamEnds(c)
  BY <1>3 DEF ReadEvent, StreamEnds, StatusAnswers
<1>4. ASSUME NEW cs \in SUBSET Client, HangUp(cs)
      PROVE  StatusAnswers'
  BY <1>4 DEF HangUp, NoCall, StatusAnswers
<1> QED
  BY <1>1, <1>2, <1>3, <1>4 DEF ClientMove

\* The handler of GetVpnStatus answers with the status it has read.
LEMMA ControllerAnswers ==
  ASSUME TypeOK, QueueInv, StatusAnswers, ControllerStep
  PROVE  StatusAnswers'
<1>0. ASSUME NEW c \in Client, \A d \in Client : d # c => call'[d] = call[d],
             call'[c].cmd = "GetVpnStatus" /\ call'[c].ph \in {"task", "answered"} =>
               call'[c].ans \in VpnStatus \cup {Plain("Error")}
      PROVE  StatusAnswers'
  BY <1>0 DEF StatusAnswers
<1>1. ASSUME call' = call PROVE StatusAnswers'
  BY <1>1 DEF StatusAnswers
<1>2. ASSUME NEW c \in Client, ClientMove(c)
      PROVE  StatusAnswers'
  BY <1>2, ClientMoveAnswers
<1>3. ASSUME NEW c \in Client, CallStep(c)
      PROVE  StatusAnswers'
  <2>1. CASE Authorized(c)
    <3>1. CASE call[c].cmd = "WatchEvents"
      BY <1>0, <2>1, <3>1 DEF Authorized, TypeOK, CallState
    <3>2. CASE call[c].cmd # "WatchEvents"
      BY <1>0, <2>1, <3>2 DEF Authorized, TypeOK, CallState
    <3> QED
      BY <3>1, <3>2
  <2>2. CASE Unauthenticated(c)
    BY <1>0, <2>2 DEF Unauthenticated, TypeOK, CallState
  <2>3. CASE TaskAnswers(c)
    <3>1. PICK a \in TaskAnswer(c) : call' = Answered(c, a)
      BY <2>3 DEF TaskAnswers
    <3>2. call[c].ph = "task" /\ (call[c].cmd = "GetVpnStatus" => a = call[c].ans)
      BY <2>3, <3>1 DEF TaskAnswers, TaskAnswer
    <3> QED
      BY <1>0, <3>1, <3>2, AnsweredParts DEF StatusAnswers
  <2> QED
    BY <1>3, <2>1, <2>2, <2>3 DEF CallStep
<1>4. ASSUME NEW c \in Client, OnCommand(c)
      PROVE  StatusAnswers'
  <2>1. ASSUME NEW k, k # "GetVpnStatus", Takes(k, c), NEW a, call' = Answered(c, a)
        PROVE  StatusAnswers'
    BY <1>0, <2>1, TakesParts, AnsweredParts
  <2>2. CASE OnConnectRefused(c) \/ OnDisconnect(c)
    BY <2>1, <2>2 DEF OnConnectRefused, OnDisconnect
  <2>3. CASE OnConnect(c)
    BY <1>1, <2>3 DEF OnConnect
  <2>4. CASE ConnectAccepted(c) \/ ConnectFailed(c)
    <3>1. PICK a : call' = Answered(c, a)
      BY <2>4 DEF ConnectAccepted, ConnectFailed
    <3>2. Head(queue).c = c /\ dm = "connect"
      BY <2>4 DEF ConnectAccepted, ConnectFailed
    <3> QED
      BY <1>0, <3>1, <3>2, ConnectParts, AnsweredParts
  <2>5. CASE OnGetVpnStatus(c)
    <3>1. CASE call[c].ph = "gone"
      BY <1>1, <2>5, <3>1 DEF OnGetVpnStatus
    <3>2. CASE call[c].ph # "gone"
      BY <1>0, <2>5, <3>2 DEF OnGetVpnStatus, TypeOK, CallState
    <3> QED
      BY <3>1, <3>2
  <2>6. CASE OnOther(c)
    <3>1. PICK k : Takes(k, c) /\ k # "GetVpnStatus"
      BY <2>6 DEF OnOther
    <3>2. call[c].ph = "gone" \/ call[c].cmd # "GetVpnStatus"
      BY <3>1, TakesParts
    <3> QED
      BY <1>0, <2>6, <3>2, TaskParts
  <2> QED
    BY <1>4, <2>2, <2>3, <2>4, <2>5, <2>6 DEF OnCommand
<1>5. CASE \/ Run \/ HandleEvent \/ HandleShutdown \/ TunnelJoined
           \/ SubscribersCleared \/ ServerJoined \/ DeviceStopped
  BY <1>1, <1>5 DEF Run, HandleEvent, HandleShutdown, TunnelJoined,
     SubscribersCleared, ServerJoined, DeviceStopped
<1>6. CASE QueueEvent \/ QueueShutdown \/ Signal \/ ServerDrains \/ ServerCloses
  BY <1>1, <1>6 DEF QueueEvent, QueueShutdown, Signal, ServerDrains, ServerCloses
<1> QED
  BY <1>2, <1>3, <1>4, <1>5, <1>6 DEF ControllerStep, DaemonNext, DaemonStep

-----------------------------------------------------------------------------
\* The controller

ControllerInv ==
  /\ TypeOK /\ QueueInv /\ ClosedIsIdle /\ EndsInOrder
  /\ StreamsKept /\ Served /\ StatusAnswers

\* The invariant of the controller holds initially ...
LEMMA InitController == Init => ControllerInv
<1> SUFFICES ASSUME Init PROVE ControllerInv
  OBVIOUS
<1>1. ClosedIsIdle /\ EndsInOrder
  BY DEF Init, ClosedIsIdle, EndsInOrder
<1>2. StreamsKept /\ Served
  BY NoCallType, NoStreamType DEF Init, StreamsKept, Served
<1>3. StatusAnswers
  BY NoCallType DEF Init, StatusAnswers
<1> QED
  BY <1>1, <1>2, <1>3, InitType DEF ControllerInv

\* ... and is kept by every step of the daemon and its clients.
LEMMA ControllerInvStep ==
  ASSUME ControllerInv, ControllerStep \/ UNCHANGED vars
  PROVE  ControllerInv'
<1>1. CASE UNCHANGED vars
  BY <1>1
     DEF vars, ControllerInv, TypeOK, QueueInv, QueuedCalls, ConnectAtHead,
         ConnectHasLocation, ClosedIsIdle, EndsInOrder, StreamsKept, Served, Stopping,
         StatusAnswers
<1>2. CASE ControllerStep
  <2>1. TypeOK' /\ QueueInv'
    BY <1>2, ControllerType, ControllerQueue DEF ControllerInv
  <2>2. ClosedIsIdle' /\ EndsInOrder'
    BY <1>2, ControllerClosed DEF ControllerInv
  <2>3. StreamsKept' /\ Served'
    BY <1>2, <2>1, ControllerStreams DEF ControllerInv
  <2>4. StatusAnswers'
    BY <1>2, ControllerAnswers DEF ControllerInv
  <2> QED
    BY <2>1, <2>2, <2>3, <2>4 DEF ControllerInv
<1> QED
  BY <1>1, <1>2

\* The free clients of Controller take such steps.
LEMMA NextIsControllerStep == ASSUME TypeOK, Next PROVE ControllerStep
<1>1. ASSUME NEW c \in Client, ClientStep(c)
      PROVE  ClientMove(c)
  <2>1. {c} \in SUBSET Client
    OBVIOUS
  <2>2. calls \in 0..MaxCalls /\ MaxCalls \in Nat
    BY ControllerAssumption DEF TypeOK
  <2>3. Counted => calls' \in 0..MaxCalls
    BY <2>2 DEF Counted
  <2> QED
    BY <1>1, <2>1, <2>3 DEF ClientStep, ClientMove
<1> QED
  BY <1>1 DEF Next, ControllerStep

\* The invariant of the controller, with clients that do anything.
THEOREM ControllerInvHolds == Spec => []ControllerInv
<1>1. ControllerInv /\ [Next]_vars => ControllerInv'
  BY ControllerInvStep, NextIsControllerStep DEF ControllerInv
<1> QED
  BY InitController, <1>1, PTL DEF Spec

\* The streams of watch_events, from the invariant.
LEMMA ServedIsCurrent == ControllerInv => StreamCurrent
BY DEF ControllerInv, Served, StreamCurrent

\* The order of the shutdown, from the invariant.
LEMMA EndsLast == ControllerInv => DeviceStopsLast
BY DEF ControllerInv, ClosedIsIdle, EndsInOrder, DeviceStopsLast

-----------------------------------------------------------------------------
\* The clients' programs

MoveOf(d) ==
  \/ \E cmd \in Command, l \in Location \cup {NoLoc} :
       /\ (cmd = "Connect") = (l # NoLoc)
       /\ MakeCall(d, cmd, l) /\ calls' \in 0..MaxCalls
  \/ TakeAnswer(d) \/ ReadEvent(d) \/ StreamEnds(d) \/ HangUp({d})

\* A move of one client leaves the others alone.
LEMMA MoveLeavesOthers ==
  ASSUME TypeOK, NEW d \in Client, MoveOf(d)
  PROVE  /\ \A c \in Client : c # d => call'[c] = call[c] /\ stream'[c] = stream[c]
         /\ status' = status /\ dm' = dm /\ subs' = subs
         /\ grpc' = grpc /\ devUp' = devUp /\ sd' = sd
         /\ ClientMove(d)
<1>1. {d} \in SUBSET Client
  OBVIOUS
<1>2. ClientMove(d)
  BY <1>1 DEF MoveOf, ClientMove
<1>3. \A c \in Client : c # d => call'[c] = call[c] /\ stream'[c] = stream[c]
  BY DEF MoveOf, MakeCall, TakeAnswer, ReadEvent, StreamEnds, HangUp, TypeOK
<1>4. /\ status' = status /\ dm' = dm /\ subs' = subs
      /\ grpc' = grpc /\ devUp' = devUp /\ sd' = sd
  BY DEF MoveOf, MakeCall, TakeAnswer, ReadEvent, StreamEnds, HangUp
<1> QED
  BY <1>2, <1>3, <1>4

\* A process of the CLI moves as a client may, and by itself.
LEMMA CliStepMoves ==
  ASSUME CTypeOK, NEW c \in Cli, CliStep(c)
  PROVE  /\ c \in Client /\ UNCHANGED uiVars
         /\ MoveOf(c) \/ UNCHANGED vars
         /\ \A d \in Cli : d # c => pc'[d] = pc[d]
<1>1. c \in Client
  BY ClientsAssumption
<1>2. UNCHANGED uiVars
  BY DEF CliStep
<1>3. /\ NoLoc \in Location \cup {NoLoc} /\ NoLoc \notin Location
      /\ calls \in 0..MaxCalls
      /\ {"SignIn", "SignOut", "GetVpnStatus", "Disconnect", "GetLocations",
          "WatchEvents", "Connect", "Ask"} \subseteq Command
  BY ControllerAssumption DEF CTypeOK, TypeOK, Command
<1>4. ASSUME NEW from, NEW to, NEW cmd \in Command \ {"Connect"},
             CliCall(c, from, to, cmd)
      PROVE  MoveOf(c)
  BY <1>3, <1>4 DEF CliCall, MoveOf
<1>5. ASSUME NEW l \in Location, CliConnect(c, l)
      PROVE  MoveOf(c)
  BY <1>3, <1>5 DEF CliConnect, MoveOf
<1>6. MoveOf(c) \/ UNCHANGED vars
  <2>1. CASE \/ CliSignIn(c) \/ CliSignOut(c) \/ CliStatus(c) \/ CliDisconnect(c)
             \/ CliLocations(c) \/ CliList(c) \/ CliWatch(c) \/ CliAck(c)
    BY <1>3, <1>4, <2>1 DEF CliSignIn, CliSignOut, CliStatus, CliDisconnect,
       CliLocations, CliList, CliWatch, CliAck
  <2>2. CASE \/ CliAnswered(c) \/ CliListed(c) \/ CliWatching(c)
             \/ CliConnecting(c) \/ CliAcked(c)
    BY <2>2 DEF CliAnswered, CliListed, CliWatching, CliConnecting, CliAcked, MoveOf
  <2>3. CASE CliLoop(c)
    BY <2>3 DEF CliLoop, CliEvent, CliStreamEnded, EndOfStream, MoveOf
  <2>4. CASE CliRefused(c) \/ CliExit(c)
    BY <2>4 DEF CliRefused, CliExit, MoveOf
  <2> QED
    BY <1>5, <2>1, <2>2, <2>3, <2>4 DEF CliStep
<1>7. \A d \in Cli : d # c => pc'[d] = pc[d]
  <2>1. \E to : pc' = [pc EXCEPT ![c] = to]
    BY DEF CliStep, CliSignIn, CliSignOut, CliStatus, CliDisconnect,
       CliLocations, CliList, CliWatch, CliAck, CliAnswered, CliListed, CliWatching,
       CliConnecting, CliAcked, CliLoop, CliEvent, CliStreamEnded, CliRefused, CliExit,
       CliConnect, CliCall, CliAt
  <2> QED
    BY <2>1 DEF CTypeOK
<1> QED
  BY <1>1, <1>2, <1>6, <1>7

\* So do the commands and the forwarders of the UI; they leave together.
LEMMA UiStepMoves ==
  ASSUME CTypeOK, UiStep
  PROVE  /\ pc' = pc
         /\ \/ \E d \in UiCmd \cup Fwd : MoveOf(d)
            \/ HangUp(UiCmd \cup Fwd)
<1>0. calls \in 0..MaxCalls /\ MaxCalls \in Nat
  BY ControllerAssumption DEF CTypeOK, TypeOK
<1>1. ASSUME NEW u \in UiCmd, NEW cmd \in UiCalls, NEW l \in Location \cup {NoLoc},
             (cmd = "Connect") = (l # NoLoc), UiCommand(u, cmd, l)
      PROVE  pc' = pc /\ MoveOf(u)
  <2>1. cmd \in Command /\ calls' \in 0..MaxCalls
    BY <1>0, <1>1, ClientsAssumption DEF UiCommand, Counted
  <2> QED
    BY <1>1, <2>1 DEF UiCommand, MoveOf
<1>2. ASSUME NEW u \in UiCmd, UiAnswer(u)
      PROVE  pc' = pc /\ MoveOf(u)
  BY <1>2 DEF UiAnswer, MoveOf
<1>3. ASSUME NEW f \in Fwd, FwdStep(f)
      PROVE  pc' = pc /\ MoveOf(f)
  <2>1. CASE FwdSubscribe(f)
    <3>1. "WatchEvents" \in Command /\ NoLoc \in Location \cup {NoLoc}
      BY DEF Command
    <3> QED
      BY <1>0, <2>1, <3>1 DEF FwdSubscribe, FwdRuns, MoveOf
  <2>2. CASE FwdSubscribed(f) \/ FwdEvent(f) \/ FwdStreamEnded(f) \/ FwdAborted(f)
    BY <2>2 DEF FwdSubscribed, FwdEvent, FwdStreamEnded, FwdAborted, FwdRuns,
                EndOfStream, MoveOf
  <2> QED
    BY <1>3, <2>1, <2>2 DEF FwdStep
<1>4. CASE UiExit
  BY <1>4 DEF UiExit
<1> QED
  BY <1>1, <1>2, <1>3, <1>4 DEF UiStep

\* The programs take steps of the controller.
LEMMA CNextIsControllerStep ==
  ASSUME CTypeOK, [CNext]_cvars
  PROVE  ControllerStep \/ UNCHANGED vars
<1>0. TypeOK
  BY DEF CTypeOK
<1>1. ASSUME NEW c \in Cli, CliStep(c)
      PROVE  ControllerStep \/ UNCHANGED vars
  BY <1>0, <1>1, CliStepMoves, MoveLeavesOthers DEF ControllerStep
<1>2. CASE UiStep
  <2>1. UiCmd \cup Fwd \in SUBSET Client
    BY ClientsAssumption
  <2>2. ASSUME NEW d \in UiCmd \cup Fwd, MoveOf(d)
        PROVE  ControllerStep
    BY <1>0, <2>1, <2>2, MoveLeavesOthers DEF ControllerStep
  <2>3. CASE HangUp(UiCmd \cup Fwd)
    <3>1. \E c \in UiCmd \cup Fwd : c \in Client
      BY <2>1, <2>3 DEF HangUp
    <3> QED
      BY <2>1, <2>3, <3>1 DEF ControllerStep, ClientMove
  <2> QED
    BY <1>2, <2>2, <2>3, UiStepMoves
<1> QED
  BY <1>1, <1>2 DEF CNext, ControllerStep, cvars

\* Every step of the clients keeps their types.
LEMMA ClientsType ==
  ASSUME CTypeOK, StatusAnswers, TypeOK', [CNext]_cvars
  PROVE  CTypeOK'
<1>1. CASE (DaemonNext \/ Signal) /\ UNCHANGED <<pc, uiVars>>
  BY <1>1 DEF CTypeOK, uiVars
<1>2. ASSUME NEW c \in Cli, CliStep(c)
      PROVE  CTypeOK'
  <2>1. UNCHANGED uiVars
    BY <1>2 DEF CliStep
  <2>2. pc' \in [Cli -> {"start", "other", "list", "choose", "watch", "watching",
                         "connect", "loop", "ack", "acking", "done"}]
    BY <1>2 DEF CTypeOK, CliStep, CliSignIn, CliSignOut, CliStatus, CliDisconnect,
       CliLocations, CliList, CliWatch, CliAck, CliAnswered, CliListed, CliWatching,
       CliConnecting, CliAcked, CliLoop, CliEvent, CliStreamEnded, CliRefused, CliExit,
       CliConnect, CliCall, CliAt, AfterAnswer
  <2> QED
    BY <2>1, <2>2 DEF CTypeOK, uiVars
<1>3. CASE UiStep
  <2>0. pc' = pc
    BY <1>3, UiStepMoves
  <2>1. ASSUME UNCHANGED uiVars PROVE CTypeOK'
    BY <2>0, <2>1 DEF CTypeOK, uiVars
  <2>2. CASE StartEventForwarder
    BY <2>0, <2>2 DEF StartEventForwarder, CTypeOK
  <2>3. CASE StopEventForwarder
    BY <2>0, <2>3 DEF StopEventForwarder, CTypeOK
  <2>4. ASSUME NEW c \in Client, NEW s \in VpnStatus, UpdateAppState(c, s),
               UNCHANGED <<fwd, handler>>
        PROVE  CTypeOK'
    BY <2>0, <2>4 DEF UpdateAppState, CTypeOK
  <2>5. ASSUME NEW u \in UiCmd, UiAnswer(u)
        PROVE  CTypeOK'
    <3>1. u \in Client
      BY ClientsAssumption
    <3>2. CASE UNCHANGED uiVars \/ StartEventForwarder \/ StopEventForwarder
      BY <2>1, <2>2, <2>3, <3>2
    <3>3. CASE locs' \in BOOLEAN /\ UNCHANGED <<fwd, handler, app, setBy>>
      BY <2>0, <3>3 DEF CTypeOK
    <3>4. CASE /\ call[u].cmd = "GetVpnStatus" /\ call[u].ans # Plain("Error")
               /\ UpdateAppState(u, call[u].ans) /\ UNCHANGED <<fwd, handler>>
      <4>1. call[u].ans \in VpnStatus
        BY <2>5, <3>1, <3>4 DEF UiAnswer, TakeAnswer, StatusAnswers
      <4> QED
        BY <2>4, <3>1, <3>4, <4>1
    <3>5. \A cmd, a : UiEffect(u, cmd, a) =>
            \/ UNCHANGED uiVars \/ StartEventForwarder \/ StopEventForwarder
            \/ locs' \in BOOLEAN /\ UNCHANGED <<fwd, handler, app, setBy>>
            \/ /\ cmd = "GetVpnStatus" /\ a # Plain("Error")
               /\ UpdateAppState(u, a) /\ UNCHANGED <<fwd, handler>>
      BY DEF UiEffect
    <3> QED
      BY <2>5, <3>2, <3>3, <3>4, <3>5 DEF UiAnswer
  <2>6. ASSUME NEW f \in Fwd, FwdStep(f)
        PROVE  CTypeOK'
    <3>1. CASE FwdSubscribe(f) \/ FwdSubscribed(f) \/ FwdStreamEnded(f)
      BY <2>1, <3>1 DEF FwdSubscribe, FwdSubscribed, FwdStreamEnded
    <3>2. CASE FwdEvent(f)
      <4>1. f \in Client /\ stream[f].q \in Seq(VpnStatus \cup {Note})
            /\ stream[f].q # <<>>
        BY <3>2, ClientsAssumption, CallParts DEF FwdEvent, ReadEvent, CTypeOK
      <4>2. Head(stream[f].q) \in VpnStatus \cup {Note}
        BY <4>1
      <4>3. CASE Head(stream[f].q) = Note
        BY <2>1, <3>2, <4>3 DEF FwdEvent, uiVars
      <4>4. CASE Head(stream[f].q) # Note
        BY <2>4, <3>2, <4>1, <4>2, <4>4 DEF FwdEvent
      <4> QED
        BY <4>3, <4>4
    <3>3. CASE FwdAborted(f)
      BY <2>0, <3>3 DEF FwdAborted, CTypeOK
    <3> QED
      BY <2>6, <3>1, <3>2, <3>3 DEF FwdStep
  <2> QED
    BY <1>3, <2>1, <2>5, <2>6 DEF UiStep, UiCommand, UiExit
<1>4. CASE UNCHANGED cvars
  BY <1>4 DEF CTypeOK, cvars, cliVars, uiVars
<1> QED
  BY <1>1, <1>2, <1>3, <1>4 DEF CNext
-----------------------------------------------------------------------------
\* What the daemon does to its clients

\* A call in the hands of its client is left alone, and one that waits keeps
\* its command; Connect is never left to a task, and gets another answer
\* than an error only with a new session or a notification.
LEMMA DaemonCalls ==
  ASSUME TypeOK, QueueInv, DaemonNext \/ Signal, NEW d \in Client
  PROVE  /\ call'[d].cmd = call[d].cmd
         /\ call[d].ph \in {"idle", "answered", "gone"} => call'[d] = call[d]
         /\ call[d].ph # "gone" => call'[d].ph # "gone"
         /\ call[d].cmd = "Connect" /\ call[d].ph \in {"auth", "sent"} =>
              /\ call'[d].ph \in {"auth", "sent", "answered"}
              /\ \/ call'[d].ph # "answered" \/ call'[d].ans = Plain("Error")
                 \/ status'.st = "Accepted" \/ Notify(<<Note>>)
<1> DEFINE Goal ==
         /\ call'[d].cmd = call[d].cmd
         /\ call[d].ph \in {"idle", "answered", "gone"} => call'[d] = call[d]
         /\ call[d].ph # "gone" => call'[d].ph # "gone"
         /\ call[d].cmd = "Connect" /\ call[d].ph \in {"auth", "sent"} =>
              /\ call'[d].ph \in {"auth", "sent", "answered"}
              /\ \/ call'[d].ph # "answered" \/ call'[d].ans = Plain("Error")
                 \/ status'.st = "Accepted" \/ Notify(<<Note>>)
<1> SUFFICES Goal
  OBVIOUS
<1>0. ASSUME call'[d] = call[d] PROVE Goal
  BY <1>0
<1>1. ASSUME NEW c \in Client, CallStep(c) PROVE Goal
  <2>1. CASE Authorized(c)
    <3>1. CASE call[c].cmd = "WatchEvents"
      BY <2>1, <3>1 DEF Authorized, TypeOK, CallState
    <3>2. CASE call[c].cmd # "WatchEvents"
      BY <2>1, <3>2 DEF Authorized, TypeOK, CallState
    <3> QED
      BY <3>1, <3>2
  <2>2. CASE Unauthenticated(c)
    BY <2>2 DEF Unauthenticated, TypeOK, CallState
  <2>3. CASE TaskAnswers(c)
    <3>1. PICK a : call' = Answered(c, a) /\ call[c].ph = "task"
      BY <2>3 DEF TaskAnswers
    <3> QED
      BY <1>0, <3>1, AnsweredParts
  <2> QED
    BY <1>1, <2>1, <2>2, <2>3 DEF CallStep
<1>2. ASSUME NEW c \in Client, OnCommand(c) PROVE Goal
  <2>0. ASSUME call[c].ph = "gone", NEW a, call' = Answered(c, a)
        PROVE  Goal
    BY <1>0, <2>0 DEF Answered
  <2>1. ASSUME call[c].ph = "sent", NEW a, call' = Answered(c, a),
               \/ call[c].cmd # "Connect" \/ a = Plain("Error")
               \/ status'.st = "Accepted" \/ Notify(<<Note>>)
        PROVE  Goal
    BY <1>0, <2>1, AnsweredParts
  <2>2. CASE OnConnectRefused(c)
    BY <2>0, <2>1, <2>2, TakesParts DEF OnConnectRefused
  <2>3. CASE OnConnect(c)
    BY <1>0, <2>3 DEF OnConnect
  <2>4. CASE ConnectAccepted(c)
    <3>1. Head(queue).c = c /\ dm = "connect" /\ status'.st = "Accepted"
          /\ call' = Answered(c, status')
      BY <2>4 DEF ConnectAccepted
    <3> QED
      BY <2>0, <2>1, <3>1, ConnectParts
  <2>5. CASE ConnectFailed(c)
    <3>1. Head(queue).c = c /\ dm = "connect" /\ Notify(<<Note>>)
          /\ call' = Answered(c, Disconnected)
      BY <2>5 DEF ConnectFailed
    <3> QED
      BY <2>0, <2>1, <3>1, ConnectParts
  <2>6. CASE OnDisconnect(c)
    <3>1. Takes("Disconnect", c) /\ call' = Answered(c, status')
      BY <2>6 DEF OnDisconnect
    <3> QED
      BY <2>0, <2>1, <3>1, TakesParts
  <2>7. CASE OnGetVpnStatus(c) \/ OnOther(c)
    <3>1. PICK k : Takes(k, c) /\ k # "Connect"
      BY <2>7 DEF OnGetVpnStatus, OnOther
    <3>2. \/ call[c].ph = "sent" /\ call[c].cmd # "Connect"
          \/ call[c].ph = "gone"
      BY <3>1, TakesParts
    <3>3. call[c].ph = "gone" => call' = call
      BY <2>7 DEF OnGetVpnStatus, OnOther, Answered
    <3> QED
      BY <1>0, <2>7, <3>2, <3>3, TaskParts
  <2> QED
    BY <1>2, <2>2, <2>3, <2>4, <2>5, <2>6, <2>7 DEF OnCommand
<1>3. CASE \/ Run \/ HandleEvent \/ HandleShutdown \/ TunnelJoined
           \/ SubscribersCleared \/ ServerJoined \/ DeviceStopped
  BY <1>0, <1>3 DEF Run, HandleEvent, HandleShutdown, TunnelJoined,
     SubscribersCleared, ServerJoined, DeviceStopped
<1>4. CASE QueueEvent \/ QueueShutdown \/ Signal \/ ServerDrains \/ ServerCloses
  BY <1>0, <1>4 DEF QueueEvent, QueueShutdown, Signal, ServerDrains, ServerCloses
<1> HIDE DEF Goal
<1> QED
  BY <1>1, <1>2, <1>3, <1>4 DEF DaemonNext, DaemonStep

\* Something is sent to every subscriber, last of all the status, if it is
\* new.
Broadcast ==
  \E es \in {<<status'>>, <<Note, status'>>, <<Note>>} :
    Notify(es) /\ (es = <<Note>> => status' = status)

\* A stream is opened for client c.
Subscribes(c) ==
  /\ call[c].cmd = "WatchEvents" /\ call[c].ph = "auth"
  /\ stream' = [stream EXCEPT ![c] = [open |-> TRUE, q |-> <<>>]]
  /\ status' = status /\ subs' = subs \cup {c}

\* The daemon changes its status and its subscribers by a subscription, an
\* accepted Connect or a broadcast, and none of them once it stops.
LEMMA DaemonEffect ==
  ASSUME TypeOK, QueueInv, DaemonNext \/ Signal
  PROVE  /\ \/ status' = status /\ stream' = stream /\ subs' \subseteq subs
            \/ \E c \in Client : Subscribes(c)
            \/ status'.st = "Accepted" /\ stream' = stream /\ subs' = subs /\ ~Stopping
            \/ Broadcast /\ ~Stopping
         /\ Stopping => Stopping'
<1>0. Stopping => Stopping'
  <2>1. ASSUME NEW c \in Client, OnCommand(c) PROVE Stopping => Stopping'
    BY <2>1 DEF OnCommand, OnConnectRefused, OnConnect, ConnectAccepted, ConnectFailed,
       OnDisconnect, OnGetVpnStatus, OnOther, Stopping
  <2>2. ASSUME NEW c \in Client, CallStep(c) PROVE Stopping => Stopping'
    BY <2>2 DEF CallStep, Authorized, Unauthenticated, TaskAnswers, Stopping
  <2>3. CASE \/ Run \/ HandleEvent \/ HandleShutdown \/ TunnelJoined
             \/ SubscribersCleared \/ ServerJoined \/ DeviceStopped
    BY <2>3 DEF Run, HandleEvent, HandleShutdown, TunnelJoined, Takes,
       SubscribersCleared, ServerJoined, DeviceStopped, Stopping
  <2>4. CASE QueueEvent \/ QueueShutdown \/ Signal \/ ServerDrains \/ ServerCloses
    BY <2>4 DEF QueueEvent, QueueShutdown, Signal, ServerDrains, ServerCloses, Stopping
  <2> QED
    BY <2>1, <2>2, <2>3, <2>4 DEF DaemonNext, DaemonStep
<1>1. ASSUME NEW c \in Client, CallStep(c)
      PROVE  \/ status' = status /\ stream' = stream /\ subs' \subseteq subs
             \/ Subscribes(c)
  BY <1>1 DEF CallStep, Authorized, Unauthenticated, TaskAnswers, Subscribes
<1>2. ASSUME NEW c \in Client, OnCommand(c)
      PROVE  \/ status' = status /\ stream' = stream /\ subs' \subseteq subs
             \/ status'.st = "Accepted" /\ stream' = stream /\ subs' = subs /\ ~Stopping
             \/ Broadcast /\ ~Stopping
  <2>1. CASE OnConnectRefused(c) \/ OnConnect(c) \/ OnGetVpnStatus(c) \/ OnOther(c)
    BY <2>1 DEF OnConnectRefused, OnConnect, OnGetVpnStatus, OnOther
  <2>2. CASE ConnectAccepted(c)
    BY <2>2 DEF ConnectAccepted, Stopping
  <2>3. CASE ConnectFailed(c)
    BY <2>3 DEF ConnectFailed, Broadcast, Stopping
  <2>4. CASE OnDisconnect(c)
    <3>1. Notify(<<status'>>) /\ ~Stopping
      BY <2>4 DEF OnDisconnect, OnDisconnectInner, Takes, Stopping
    <3>2. <<status'>> # <<Note>> \/ status' = Note
      OBVIOUS
    <3>3. status' # Note
      BY <2>4, StatusValues DEF TypeOK, OnDisconnect, OnDisconnectInner
    <3> QED
      BY <3>1, <3>2, <3>3 DEF Broadcast
  <2> QED
    BY <1>2, <2>1, <2>2, <2>3, <2>4 DEF OnCommand
<1>3. CASE HandleEvent
  <2>1. ~Stopping
    BY <1>3 DEF HandleEvent, Takes, Stopping
  <2>2. ASSUME NEW s \in EventStatus, status' = s, Notify(<<s>>) PROVE Broadcast
    <3>1. s # Note /\ <<s>>[1] = s /\ <<Note>>[1] = Note
      BY StatusValues
    <3> QED
      BY <2>2, <3>1 DEF Broadcast
  <2>3. ASSUME status' = Disconnected, Notify(<<Note, Disconnected>>) PROVE Broadcast
    <3>1. Len(<<Note, Disconnected>>) = 2 /\ Len(<<Note>>) = 1
      OBVIOUS
    <3> QED
      BY <2>3, <3>1 DEF Broadcast
  <2> QED
    BY <1>3, <2>1, <2>2, <2>3 DEF HandleEvent
<1>4. CASE HandleShutdown
  <2>1. Notify(<<status'>>) /\ ~Stopping
    BY <1>4 DEF HandleShutdown, OnDisconnectInner, Takes, Stopping
  <2>2. status' # Note /\ <<status'>>[1] = status' /\ <<Note>>[1] = Note
    BY <1>4, StatusValues DEF TypeOK, HandleShutdown, OnDisconnectInner
  <2> QED
    BY <2>1, <2>2 DEF Broadcast
<1>5. CASE Run \/ TunnelJoined \/ SubscribersCleared \/ ServerJoined \/ DeviceStopped
  BY <1>0, <1>5 DEF Run, TunnelJoined, SubscribersCleared, ServerJoined, DeviceStopped
<1>6. CASE QueueEvent \/ QueueShutdown \/ Signal \/ ServerDrains \/ ServerCloses
  BY <1>0, <1>6 DEF QueueEvent, QueueShutdown, Signal, ServerDrains, ServerCloses
<1> QED
  BY <1>0, <1>1, <1>2, <1>3, <1>4, <1>5, <1>6 DEF DaemonNext, DaemonStep

\* What is sent cannot be overlooked.
LEMMA BroadcastHeard ==
  ASSUME TypeOK, TypeOK', Broadcast, NEW c \in Client
  PROVE  /\ stream'[c].open = stream[c].open
         /\ c \in subs' => c \in subs /\ stream[c].open /\ stream'[c].q # <<>>
<1>1. PICK es \in {<<status'>>, <<Note, status'>>, <<Note>>} : Notify(es)
  BY DEF Broadcast
<1>2. /\ <<status'>> \in Seq(VpnStatus \cup {Note})
      /\ <<Note, status'>> \in Seq(VpnStatus \cup {Note})
      /\ <<Note>> \in Seq(VpnStatus \cup {Note})
      /\ <<status'>> # <<>> /\ <<Note, status'>> # <<>> /\ <<Note>> # <<>>
  BY DEF TypeOK
<1>3. es \in Seq(VpnStatus \cup {Note}) /\ es # <<>>
  BY <1>1, <1>2
<1>4. stream[c].q \in Seq(VpnStatus \cup {Note})
  BY CallParts
<1>5. stream[c].q \o es # <<>>
  BY <1>3, <1>4, ConcatEqualIffEmpty
<1> QED
  BY <1>1, <1>3, <1>5, NotifyType DEF Notify

-----------------------------------------------------------------------------
\* The connect command

\* Where the command is says what its call is doing.
CliPhases ==
  \A c \in Cli :
    /\ pc[c] = "connect" =>
         call[c].ph \in {"auth", "sent", "answered"} /\ call[c].cmd = "Connect"
    /\ pc[c] = "loop" => call[c].ph = "idle"

\* It waits for events, or will when it takes its answer.
CliAwaits(c) ==
  \/ pc[c] = "loop"
  \/ pc[c] = "connect" /\ call[c].ph = "answered" /\ call[c].ans # Plain("Error")

\* CliWaitsForSession, from the answer to Connect on.
CliHears ==
  \A c \in Cli :
    CliAwaits(c) /\ c \in subs /\ stream[c].q = <<>> => VpnSessionInProgress(status)

\* Of the streams in the list of subscribers.
SubsCurrent ==
  \A c \in Client :
    stream[c].open /\ c \in subs => LastIs(stream[c].q, status) \/ status.st = "Accepted"

\* The daemon's steps, as the connect command sees them.
LEMMA DaemonKeepsCli ==
  ASSUME TypeOK, TypeOK', QueueInv, CliPhases, CliHears,
         DaemonNext \/ Signal, pc' = pc
  PROVE  CliPhases' /\ CliHears'
<1> SUFFICES ASSUME NEW c \in Cli
             PROVE  /\ pc[c] = "connect" => /\ call'[c].ph \in {"auth", "sent", "answered"}
                                            /\ call'[c].cmd = "Connect"
                    /\ pc[c] = "loop" => call'[c].ph = "idle"
                    /\ CliAwaits(c)' /\ c \in subs' /\ stream'[c].q = <<>> =>
                         VpnSessionInProgress(status')
  BY DEF CliPhases, CliHears
<1>0. c \in Client
  BY ClientsAssumption
<1>1. /\ pc[c] = "connect" => /\ call'[c].ph \in {"auth", "sent", "answered"}
                              /\ call'[c].cmd = "Connect"
      /\ pc[c] = "loop" => call'[c].ph = "idle"
  BY <1>0, DaemonCalls DEF CliPhases
<1>2. ASSUME CliAwaits(c)', c \in subs', stream'[c].q = <<>>
      PROVE  VpnSessionInProgress(status')
  <2>1. CASE Broadcast
    BY <1>0, <1>2, <2>1, BroadcastHeard
  <2>2. CASE status'.st = "Accepted"
    BY <2>2 DEF VpnSessionInProgress
  <2>3. CASE ~Broadcast /\ status'.st # "Accepted"
    <3>1. Notify(<<Note>>) => ~(status' = status)
      BY <2>3 DEF Broadcast
    <3>2. \/ status' = status /\ stream' = stream /\ subs' \subseteq subs
          \/ \E d \in Client : Subscribes(d)
      BY <2>3, DaemonEffect
    <3>3. status' = status /\ ~Notify(<<Note>>)
      BY <3>1, <3>2 DEF Subscribes
    <3>4. CliAwaits(c)
      BY <1>0, <1>2, <2>3, <3>3, DaemonCalls DEF CliAwaits, CliPhases
    <3>5. call[c].ph # "auth"
      BY <3>4 DEF CliAwaits, CliPhases
    <3>6. c \in subs /\ stream'[c] = stream[c]
      <4>1. CASE stream' = stream /\ subs' \subseteq subs
        BY <1>2, <4>1
      <4>2. ASSUME NEW d \in Client, Subscribes(d)
            PROVE  c \in subs /\ stream'[c] = stream[c]
        BY <1>0, <1>2, <3>5, <4>2 DEF Subscribes, TypeOK
      <4> QED
        BY <3>2, <4>1, <4>2
    <3> QED
      BY <1>2, <3>3, <3>4, <3>6 DEF CliHears
  <2> QED
    BY <2>1, <2>2, <2>3
<1> QED
  BY <1>1, <1>2

\* The steps of the connect command itself.
LEMMA CliKeepsCli ==
  ASSUME CTypeOK, CliPhases, CliHears, SubsCurrent, NEW c \in Cli, CliStep(c)
  PROVE  CliPhases' /\ CliHears'
<1>0. c \in Client /\ TypeOK /\ Cli \subseteq Client
  BY ClientsAssumption DEF CTypeOK
<1>1. /\ \A d \in Cli : d # c =>
           pc'[d] = pc[d] /\ call'[d] = call[d] /\ stream'[d] = stream[d]
      /\ status' = status /\ subs' = subs
  BY <1>0, CliStepMoves, MoveLeavesOthers DEF vars
<1>2. ASSUME NEW d \in Cli, d # c
      PROVE  /\ pc'[d] = "connect" => /\ call'[d].ph \in {"auth", "sent", "answered"}
                                      /\ call'[d].cmd = "Connect"
             /\ pc'[d] = "loop" => call'[d].ph = "idle"
             /\ CliAwaits(d)' /\ d \in subs' /\ stream'[d].q = <<>> =>
                  VpnSessionInProgress(status')
  BY <1>1, <1>2 DEF CliPhases, CliHears, CliAwaits
<1> DEFINE Goal ==
             /\ pc'[c] = "connect" => /\ call'[c].ph \in {"auth", "sent", "answered"}
                                      /\ call'[c].cmd = "Connect"
             /\ pc'[c] = "loop" => call'[c].ph = "idle"
             /\ CliAwaits(c)' /\ c \in subs' /\ stream'[c].q = <<>> =>
                  VpnSessionInProgress(status')
<1> SUFFICES Goal
  BY <1>2 DEF CliPhases, CliHears
<1>3. ASSUME NEW from, NEW to, CliAt(c, from, to), to \notin {"connect", "loop"}
      PROVE  Goal
  BY <1>3 DEF CliAwaits, CliAt, CTypeOK
<1>4. CASE \/ CliSignIn(c) \/ CliSignOut(c) \/ CliStatus(c) \/ CliDisconnect(c)
           \/ CliLocations(c) \/ CliList(c) \/ CliWatch(c) \/ CliAck(c)
           \/ CliAnswered(c) \/ CliAcked(c) \/ CliStreamEnded(c)
  BY <1>3, <1>4 DEF CliSignIn, CliSignOut, CliStatus, CliDisconnect, CliLocations,
     CliList, CliWatch, CliAck, CliCall, CliAnswered, CliAcked, CliStreamEnded
<1>5. CASE CliListed(c) \/ CliWatching(c)
  BY <1>3, <1>5 DEF CliListed, CliWatching, AfterAnswer
<1>6. CASE CliRefused(c) \/ CliExit(c)
  BY <1>6 DEF CliRefused, CliExit, CliAt, CliAwaits, CTypeOK
<1>7. ASSUME NEW l \in Location, CliConnect(c, l) PROVE Goal
  <2>1. pc'[c] = "connect"
    BY <1>7 DEF CliConnect, CliAt, CTypeOK
  <2>2. call'[c].ph = "auth" /\ call'[c].cmd = "Connect"
    BY <1>0, <1>7 DEF CliConnect, MakeCall, AllowedUnauthorized, TypeOK
  <2> QED
    BY <2>1, <2>2 DEF CliAwaits
<1>8. CASE CliConnecting(c)
  <2>1. CASE call[c].ans = Plain("Error")
    BY <1>3, <1>8, <2>1 DEF CliConnecting, AfterAnswer
  <2>2. CASE call[c].ans # Plain("Error")
    <3>1. /\ pc[c] = "connect" /\ pc'[c] = "loop" /\ call[c].ph = "answered"
          /\ stream' = stream
      BY <1>8, <2>2 DEF CliConnecting, AfterAnswer, CliAt, TakeAnswer, CTypeOK
    <3>2. call'[c].ph = "idle"
      BY <1>0, <1>8, NoCallType DEF CliConnecting, TakeAnswer, TypeOK
    <3>3. CliAwaits(c)
      BY <2>2, <3>1 DEF CliAwaits
    <3> QED
      BY <1>1, <3>1, <3>2, <3>3 DEF CliHears
  <2> QED
    BY <2>1, <2>2
<1>9. CASE CliEvent(c)
  <2> DEFINE q == stream[c].q
  <2>0. /\ q \in Seq(VpnStatus \cup {Note}) /\ q # <<>> /\ stream[c].open
        /\ stream'[c].q = Tail(q) /\ call' = call
    BY <1>0, <1>9, CallParts DEF CliEvent, ReadEvent, TypeOK, Stream
  <2>1. pc[c] = "loop" /\ call[c].ph = "idle"
    BY <1>9 DEF CliEvent, CliAt, CliPhases
  <2>2. CASE Head(q) = Note \/ Head(q).st \in {"Connected", "Disconnected"}
    BY <1>9, <2>2, <1>3 DEF CliEvent
  <2>3. CASE Head(q) # Note /\ Head(q).st \notin {"Connected", "Disconnected"}
    <3>1. pc'[c] = "loop"
      BY <1>9, <2>3 DEF CliEvent, CliAt, CTypeOK
    <3>2. ASSUME c \in subs, Tail(q) = <<>> PROVE VpnSessionInProgress(status)
      <4>1. LastIs(q, status) \/ status.st = "Accepted"
        BY <1>0, <2>0, <3>2 DEF SubsCurrent
      <4>2. LastIs(q, status) => Head(q) = status
        <5>1. status \in VpnStatus
          BY <1>0 DEF TypeOK
        <5> HIDE DEF q
        <5> QED
          BY <2>0, <2>3, <3>2, <5>1, LastSent
      <4> QED
        BY <2>3, <4>1, <4>2 DEF VpnSessionInProgress
    <3> QED
      BY <1>1, <2>0, <2>1, <3>1, <3>2
  <2> QED
    BY <2>2, <2>3
<1> HIDE DEF Goal
<1> QED
  BY <1>4, <1>5, <1>6, <1>7, <1>8, <1>9 DEF CliStep, CliLoop

\* The UI does not touch the CLI's calls and streams.
LEMMA UiKeepsCli ==
  ASSUME CTypeOK, CliPhases, CliHears, UiStep
  PROVE  CliPhases' /\ CliHears'
<1>0. TypeOK /\ Cli \subseteq Client /\ Cli \cap (UiCmd \cup Fwd) = {}
      /\ UiCmd \cup Fwd \subseteq Client
  BY ClientsAssumption DEF CTypeOK
<1>1. pc' = pc /\ status' = status /\ subs' = subs
      /\ \A c \in Cli : call'[c] = call[c] /\ stream'[c] = stream[c]
  <2>1. CASE HangUp(UiCmd \cup Fwd)
    BY <1>0, <2>1, UiStepMoves DEF HangUp
  <2>2. ASSUME NEW d \in UiCmd \cup Fwd, MoveOf(d)
        PROVE  status' = status /\ subs' = subs
               /\ \A c \in Cli : call'[c] = call[c] /\ stream'[c] = stream[c]
    BY <1>0, <2>2, MoveLeavesOthers
  <2> QED
    BY <2>1, <2>2, UiStepMoves
<1> QED
  BY <1>1 DEF CliPhases, CliHears, CliAwaits

-----------------------------------------------------------------------------
\* What the application shows

AllNotes(q) == \A i \in DOMAIN q : q[i] = Note

\* AppShowsStatus, also of a forwarder whose stream has ended.
FwdHeard ==
  setBy \in Fwd /\ call[setBy].ph # "gone" =>
    /\ stream[setBy].open \/ Stopping
    /\ AllNotes(stream[setBy].q) => app = status \/ status.st = "Accepted"

\* Notifications left when something is sent or read.
LEMMA NotesLeft ==
  ASSUME NEW q \in Seq(VpnStatus \cup {Note}), NEW s \in VpnStatus
  PROVE  /\ ~AllNotes(q \o <<s>>) /\ ~AllNotes(q \o <<Note, s>>)
         /\ AllNotes(q \o <<Note>>) => AllNotes(q)
         /\ q # <<>> /\ Head(q) = Note /\ AllNotes(Tail(q)) => AllNotes(q)
         /\ q # <<>> /\ Head(q) # Note /\ AllNotes(Tail(q)) /\ LastIs(q, s) => Head(q) = s
<1> DEFINE n == Len(q)
<1>0. n \in Nat /\ DOMAIN q = 1..n /\ s # Note
  BY StatusValues
<1>1. ~AllNotes(q \o <<s>>)
  <2>1. n + 1 \in DOMAIN (q \o <<s>>) /\ (q \o <<s>>)[n + 1] = s
    BY <1>0
  <2> QED
    BY <1>0, <2>1 DEF AllNotes
<1>2. ~AllNotes(q \o <<Note, s>>)
  <2>1. n + 2 \in DOMAIN (q \o <<Note, s>>) /\ (q \o <<Note, s>>)[n + 2] = s
    BY <1>0
  <2> QED
    BY <1>0, <2>1 DEF AllNotes
<1>3. AllNotes(q \o <<Note>>) => AllNotes(q)
  <2>1. \A i \in 1..n : i \in DOMAIN (q \o <<Note>>) /\ (q \o <<Note>>)[i] = q[i]
    BY <1>0
  <2> QED
    BY <1>0, <2>1 DEF AllNotes
<1>4. ASSUME q # <<>>, AllNotes(Tail(q)) PROVE \A i \in 1..n : i > 1 => q[i] = Note
  <2>1. /\ n > 0 /\ DOMAIN Tail(q) = 1..(n - 1)
        /\ \A i \in 1..(n - 1) : Tail(q)[i] = q[i + 1]
    BY <1>0, <1>4
  <2> SUFFICES ASSUME NEW i \in 1..n, i > 1 PROVE q[i] = Note
    OBVIOUS
  <2>2. i - 1 \in 1..(n - 1) /\ (i - 1) + 1 = i
    BY <1>0
  <2> QED
    BY <1>4, <2>1, <2>2 DEF AllNotes
<1>5. q # <<>> => Head(q) = q[1] /\ 1 \in 1..n
  BY <1>0
<1> HIDE DEF n
<1>6. ASSUME q # <<>>, Head(q) = Note, AllNotes(Tail(q)) PROVE AllNotes(q)
  BY <1>0, <1>4, <1>5, <1>6 DEF AllNotes
<1>7. ASSUME q # <<>>, Head(q) # Note, AllNotes(Tail(q)), LastIs(q, s)
      PROVE  Head(q) = s
  BY <1>0, <1>4, <1>5, <1>7 DEF LastIs
<1> QED
  BY <1>1, <1>2, <1>3, <1>6, <1>7

\* The daemon's steps, as the forwarder that set the application's status
\* sees them.
LEMMA DaemonKeepsApp ==
  ASSUME TypeOK, TypeOK', QueueInv, StreamsKept, Served, FwdHeard,
         DaemonNext \/ Signal, UNCHANGED uiVars
  PROVE  FwdHeard'
<1>0. app' = app /\ setBy' = setBy /\ Fwd \subseteq Client
  BY ClientsAssumption DEF uiVars
<1> SUFFICES ASSUME setBy \in Fwd, call'[setBy].ph # "gone"
             PROVE  /\ stream'[setBy].open \/ Stopping'
                    /\ AllNotes(stream'[setBy].q) =>
                         app = status' \/ status'.st = "Accepted"
  BY <1>0 DEF FwdHeard
<1> DEFINE f == setBy
           q == stream[f].q
<1>1. f \in Client /\ q \in Seq(VpnStatus \cup {Note}) /\ status' \in VpnStatus
  BY <1>0, CallParts DEF TypeOK
<1>2. call[f].ph # "gone" /\ (Stopping => Stopping')
  BY <1>1, DaemonCalls, DaemonEffect
<1>3. /\ stream[f].open \/ Stopping
      /\ AllNotes(q) => app = status \/ status.st = "Accepted"
  BY <1>2 DEF FwdHeard
<1>4. CASE status' = status /\ stream' = stream
  BY <1>2, <1>3, <1>4
<1>5. ASSUME NEW c \in Client, Subscribes(c)
      PROVE  /\ stream'[f].open \/ Stopping'
             /\ AllNotes(stream'[f].q) => app = status' \/ status'.st = "Accepted"
  <2>1. CASE c = f
    <3>1. ~stream[f].open /\ q = <<>>
      BY <1>1, <1>5, <2>1 DEF Subscribes, StreamsKept
    <3>2. AllNotes(q)
      BY <3>1 DEF AllNotes
    <3> QED
      BY <1>2, <1>3, <1>5, <3>1, <3>2 DEF Subscribes
  <2>2. CASE c # f
    BY <1>1, <1>2, <1>3, <1>5, <2>2 DEF Subscribes, TypeOK
  <2> QED
    BY <2>1, <2>2
<1>6. CASE status'.st = "Accepted" /\ stream' = stream
  BY <1>2, <1>3, <1>6
<1>7. CASE Broadcast /\ ~Stopping
  <2>1. stream[f].open /\ f \in subs
    BY <1>1, <1>3, <1>7 DEF Served
  <2>2. PICK es \in {<<status'>>, <<Note, status'>>, <<Note>>} :
          Notify(es) /\ (es = <<Note>> => status' = status)
    BY <1>7 DEF Broadcast
  <2>3. /\ <<status'>> \in Seq(VpnStatus \cup {Note})
        /\ <<Note, status'>> \in Seq(VpnStatus \cup {Note})
        /\ <<Note>> \in Seq(VpnStatus \cup {Note})
    BY <1>1
  <2>4. es \in Seq(VpnStatus \cup {Note})
    BY <2>2, <2>3
  <2>5. stream'[f].open /\ stream'[f].q = q \o es
    BY <1>1, <2>1, <2>2, <2>4, NotifyType
  <2>6. /\ ~AllNotes(q \o <<status'>>) /\ ~AllNotes(q \o <<Note, status'>>)
        /\ AllNotes(q \o <<Note>>) => AllNotes(q)
    BY <1>1, NotesLeft
  <2> HIDE DEF q
  <2> QED
    BY <1>3, <2>2, <2>5, <2>6
<1> QED
  BY <1>4, <1>5, <1>6, <1>7, DaemonEffect

\* The steps of the programs, of forwarders above all.
LEMMA ClientsKeepApp ==
  ASSUME CTypeOK, StreamsKept, Served, FwdHeard,
         UiStep \/ \E c \in Cli : CliStep(c)
  PROVE  FwdHeard'
<1>0. /\ TypeOK /\ Cli \subseteq Client /\ UiCmd \subseteq Client /\ Fwd \subseteq Client
      /\ Cli \cap Fwd = {} /\ UiCmd \cap Fwd = {}
  BY ClientsAssumption DEF CTypeOK
<1>1. status' = status /\ dm' = dm /\ subs' = subs
  <2>1. ASSUME NEW c \in Cli, CliStep(c) PROVE status' = status /\ dm' = dm /\ subs' = subs
    BY <1>0, <2>1, CliStepMoves, MoveLeavesOthers DEF vars
  <2>2. ASSUME UiStep PROVE status' = status /\ dm' = dm /\ subs' = subs
    BY <1>0, <2>2, UiStepMoves, MoveLeavesOthers DEF HangUp
  <2> QED
    BY <2>1, <2>2
<1>2. ASSUME UNCHANGED <<app, setBy>>,
             setBy \in Fwd /\ call'[setBy].ph # "gone" =>
               call[setBy].ph # "gone" /\ stream'[setBy] = stream[setBy]
      PROVE  FwdHeard'
  BY <1>1, <1>2 DEF FwdHeard, Stopping
<1>3. ASSUME NEW c \in Cli, CliStep(c) PROVE FwdHeard'
  <2>1. \A f \in Fwd : call'[f] = call[f] /\ stream'[f] = stream[f]
    BY <1>0, <1>3, CliStepMoves, MoveLeavesOthers DEF vars
  <2> QED
    BY <1>2, <1>3, <2>1 DEF CliStep, uiVars
<1>4. ASSUME NEW u \in UiCmd, NEW cmd, NEW l, UiCommand(u, cmd, l) PROVE FwdHeard'
  <2>1. \A f \in Fwd : call'[f] = call[f] /\ stream'[f] = stream[f]
    BY <1>0, <1>4 DEF UiCommand, MakeCall, TypeOK
  <2> QED
    BY <1>2, <1>4, <2>1 DEF UiCommand, uiVars
<1>5. ASSUME NEW u \in UiCmd, UiAnswer(u) PROVE FwdHeard'
  <2>1. \A f \in Fwd : call'[f] = call[f] /\ stream'[f] = stream[f]
    BY <1>0, <1>5 DEF UiAnswer, TakeAnswer, TypeOK
  <2>2. setBy' = u \/ UNCHANGED <<app, setBy>>
    BY <1>5 DEF UiAnswer, UiEffect, UpdateAppState, StartEventForwarder,
                StopEventForwarder, uiVars
  <2>3. CASE setBy' = u
    BY <1>0, <2>3 DEF FwdHeard
  <2> QED
    BY <1>2, <2>1, <2>2, <2>3
<1>6. CASE UiExit
  BY <1>0, <1>2, <1>6 DEF UiExit, HangUp, uiVars, NoCall
<1>7. ASSUME NEW f \in Fwd, FwdStep(f) PROVE FwdHeard'
  <2>0. f \in Client /\ \A g \in Fwd : g # f => call'[g] = call[g] /\ stream'[g] = stream[g]
    <3>1. MoveOf(f) \/ FwdSubscribe(f)
      BY <1>7 DEF FwdStep, FwdSubscribed, FwdEvent, FwdStreamEnded, FwdAborted, EndOfStream,
                  MoveOf
    <3>2. CASE MoveOf(f)
      BY <1>0, <3>2, MoveLeavesOthers
    <3>3. CASE FwdSubscribe(f)
      BY <1>0, <3>3 DEF FwdSubscribe, MakeCall, TypeOK
    <3> QED
      BY <3>1, <3>2, <3>3
  <2>1. CASE setBy # f /\ UNCHANGED <<app, setBy>>
    BY <1>2, <2>0, <2>1
  <2>2. CASE FwdSubscribe(f) \/ FwdSubscribed(f)
    <3>1. stream' = stream /\ UNCHANGED <<app, setBy>> /\ call[f].ph # "gone"
      BY <2>2 DEF FwdSubscribe, FwdSubscribed, MakeCall, TakeAnswer, uiVars
    <3> QED
      BY <1>2, <2>0, <2>1, <3>1
  <2>3. CASE FwdStreamEnded(f) /\ setBy = f
    <3>1. /\ f \notin subs /\ stream[f].q = <<>> /\ stream[f].open
          /\ call' = call /\ stream'[f].q = <<>> /\ UNCHANGED <<app, setBy>>
      BY <2>0, <1>0, <2>3, NoStreamType
         DEF FwdStreamEnded, EndOfStream, StreamEnds, uiVars, TypeOK
    <3>2. Stopping
      BY <2>0, <3>1 DEF Served
    <3> QED
      BY <1>1, <2>3, <3>1, <3>2 DEF FwdHeard, Stopping
  <2>4. CASE FwdAborted(f) /\ setBy = f
    <3>1. call'[f].ph = "gone" /\ UNCHANGED <<app, setBy>>
      BY <2>0, <2>4 DEF FwdAborted, HangUp, NoCall
    <3> QED
      BY <2>4, <3>1 DEF FwdHeard
  <2>5. CASE FwdEvent(f)
    <3> DEFINE q == stream[f].q
    <3>0. status \in VpnStatus
      BY <1>0 DEF TypeOK
    <3>1. /\ q \in Seq(VpnStatus \cup {Note}) /\ q # <<>> /\ stream[f].open
          /\ stream'[f].q = Tail(q) /\ stream'[f].open /\ call' = call
      BY <1>0, <2>0, <2>5, CallParts DEF FwdEvent, ReadEvent, TypeOK, Stream
    <3>2. /\ Head(q) = Note => UNCHANGED <<app, setBy>>
          /\ Head(q) # Note => app' = Head(q) /\ setBy' = f
      BY <2>5 DEF FwdEvent, UpdateAppState
    <3> HIDE DEF q
    <3>3. CASE Head(q) = Note /\ setBy = f
      <4>1. AllNotes(Tail(q)) => AllNotes(q)
        BY <3>0, <3>1, <3>3, NotesLeft
      <4> QED
        BY <1>1, <3>1, <3>2, <3>3, <4>1 DEF FwdHeard, q
    <3>4. CASE Head(q) # Note
      <4>1. LastIs(q, status) \/ status.st = "Accepted"
        BY <2>0, <3>1 DEF Served, q
      <4>2. AllNotes(Tail(q)) /\ LastIs(q, status) => Head(q) = status
        BY <3>0, <3>1, <3>4, NotesLeft
      <4> QED
        BY <1>1, <3>1, <3>2, <3>4, <4>1, <4>2 DEF FwdHeard
    <3> QED
      BY <2>1, <3>2, <3>3, <3>4
  <2> QED
    BY <1>7, <2>1, <2>2, <2>3, <2>4, <2>5
       DEF FwdStep, FwdStreamEnded, FwdAborted, uiVars
<1> QED
  BY <1>3, <1>4, <1>5, <1>6, <1>7 DEF UiStep

-----------------------------------------------------------------------------
\* The controller with its clients

ClientsInv == ControllerInv /\ CTypeOK /\ CliPhases /\ CliHears /\ FwdHeard

\* The clients' programs keep ClientsInv, from which their properties follow.
LEMMA ClientsInvStep ==
  ASSUME ClientsInv, [CNext]_cvars
  PROVE  ClientsInv'
<1> USE DEF ClientsInv
<1>1. ControllerInv'
  BY CNextIsControllerStep, ControllerInvStep
<1>2. TypeOK /\ TypeOK' /\ QueueInv /\ StreamsKept /\ Served /\ StatusAnswers
  BY <1>1 DEF ControllerInv
<1>3. CTypeOK'
  BY <1>2, ClientsType
<1>4. SubsCurrent
  BY <1>2 DEF Served, SubsCurrent
<1>5. CASE (DaemonNext \/ Signal) /\ UNCHANGED <<pc, uiVars>>
  BY <1>1, <1>2, <1>3, <1>5, DaemonKeepsCli, DaemonKeepsApp
<1>6. CASE UiStep \/ \E c \in Cli : CliStep(c)
  BY <1>1, <1>2, <1>3, <1>4, <1>6, CliKeepsCli, UiKeepsCli, ClientsKeepApp
<1>7. CASE UNCHANGED cvars
  BY <1>1, <1>3, <1>7 DEF CliPhases, CliHears, CliAwaits, FwdHeard, Stopping,
     cvars, vars, cliVars, uiVars
<1> QED
  BY <1>5, <1>6, <1>7 DEF CNext

\* The invariant of the clients holds initially.
LEMMA InitClients == CInit => ClientsInv
<1> SUFFICES ASSUME CInit PROVE ClientsInv
  OBVIOUS
<1>1. ControllerInv /\ TypeOK
  BY InitController DEF CInit, ControllerInv
<1>2. CTypeOK
  BY <1>1 DEF CInit, CTypeOK
<1>3. setBy \notin Fwd
  BY ClientsAssumption, ControllerAssumption DEF CInit
<1> QED
  BY <1>1, <1>2, <1>3 DEF CInit, ClientsInv, CliPhases, CliHears, CliAwaits, FwdHeard

\* The invariant of the controller with the programs of the CLI and the UI.
THEOREM ClientsInvHolds == CSpec => []ClientsInv
BY InitClients, ClientsInvStep, PTL DEF CSpec

\* What the last status of every open stream is, with any number of CLI
\* processes, UI commands and forwarders.
THEOREM StreamsAreCurrent == CSpec => []StreamCurrent
<1>1. ClientsInv => StreamCurrent
  BY ServedIsCurrent DEF ClientsInv
<1> QED
  BY <1>1, ClientsInvHolds, PTL

\* The application shows the daemon's status once its forwarder has read
\* what it was sent.
THEOREM ApplicationIsCurrent == CSpec => []AppShowsStatus
<1>1. ASSUME ClientsInv PROVE AppShowsStatus
  <2> SUFFICES ASSUME setBy \in Fwd, stream[setBy].open, stream[setBy].q = <<>>
               PROVE  app = status \/ status.st = "Accepted"
    BY DEF AppShowsStatus
  <2>1. setBy \in Client
    BY ClientsAssumption
  <2>2. call[setBy].ph # "gone"
    BY <1>1, <2>1 DEF ClientsInv, ControllerInv, StreamsKept
  <2>3. AllNotes(stream[setBy].q)
    BY DEF AllNotes
  <2> QED
    BY <1>1, <2>2, <2>3 DEF ClientsInv, FwdHeard
<1> QED
  BY <1>1, ClientsInvHolds, PTL

-----------------------------------------------------------------------------
\* The Windows service

\* The daemon was not created, and what clients had of it is gone.
Abandoned ==
  /\ main = "returned" /\ grpc = "closed" /\ subs = {} /\ dm = "new" /\ devUp
  /\ controls = 0 /\ monitor = "idle" /\ reported # "Running"

\* What the threads of the service know of each other and of the daemon.
ServiceOrder ==
  /\ main = "start" => \A c \in Client : call[c].ph = "idle"
  /\ main \in {"start", "creating", "failed"} =>
       /\ dm = "new" /\ sd = "none" /\ controls = 0 /\ monitor = "idle" /\ ~asked
       /\ reported \in {"none", "StartPending"}
  /\ main = "leaving" =>
       \/ dm = "ended" /\ grpc = "closed"
       \/ /\ dm = "new" /\ controls = 0 /\ monitor = "idle" /\ ~asked
          /\ reported = "Stopped"
  /\ reported = "Running" => main = "running" /\ monitor = "idle" /\ ~asked /\ sd = "none"
  /\ reported = "Stopped" =>
       /\ main \in {"leaving", "returned"} /\ dm \in {"new", "ended"}
       /\ dm = "ended" \/ main = "returned" => grpc = "closed"

ServiceInv ==
  /\ STypeOK /\ StatusAnswers /\ CliPhases /\ CliHears /\ ServiceOrder
  /\ ControllerInv \/ Abandoned

\* The threads of the service, while the rest stands still.
LEMMA ThreadsKeepService ==
  ASSUME ServiceInv, UNCHANGED cvars,
         \/ ServiceStarts \/ SetRunning \/ SetStopped \/ StopControl \/ Monitor
         \/ UNCHANGED serviceVars
  PROVE  ServiceInv'
<1>0. UNCHANGED vars /\ UNCHANGED <<pc, uiVars>>
  BY DEF cvars, cliVars
<1>1. StatusAnswers' /\ CliPhases' /\ CliHears' /\ CTypeOK'
  BY <1>0 DEF ServiceInv, STypeOK, StatusAnswers, CliPhases, CliHears, CliAwaits,
     CTypeOK, TypeOK, vars, uiVars
<1>2. ControllerInv => ControllerInv'
  BY <1>0, ControllerInvStep
<1>3. Abandoned => Abandoned'
  BY <1>0 DEF Abandoned, ServiceStarts, SetRunning, SetStopped, StopControl, AcceptsStop,
     Monitor, MonitorReports, MonitorSends, serviceVars, vars, ServiceInv
<1>4. STypeOK'
  <2>1. controls \in 0..MaxControls /\ MaxControls \in Nat
    BY ServiceControlAssumption DEF ServiceInv, STypeOK
  <2>2. CASE StopControl
    <3>1. controls' \in 0..MaxControls
      BY <2>1, <2>2 DEF StopControl
    <3> QED
      BY <1>1, <2>2, <3>1 DEF StopControl, ServiceInv, STypeOK
  <2>3. CASE MonitorReports
    <3>1. controls' \in 0..MaxControls
      BY <2>1, <2>3 DEF MonitorReports
    <3> QED
      BY <1>1, <2>3, <3>1 DEF MonitorReports, ServiceInv, STypeOK
  <2>4. CASE ServiceStarts \/ SetRunning \/ SetStopped \/ MonitorSends
    BY <1>1, <2>4
       DEF ServiceStarts, SetRunning, SetStopped, MonitorSends, ServiceInv, STypeOK
  <2>5. CASE UNCHANGED serviceVars
    BY <1>1, <2>5 DEF serviceVars, ServiceInv, STypeOK
  <2> QED
    BY <2>2, <2>3, <2>4, <2>5 DEF Monitor
<1>5. ServiceOrder'
  <2>0. ServiceOrder /\ dm' = dm /\ sd' = sd /\ call' = call /\ grpc' = grpc
    BY <1>0 DEF ServiceInv, vars
  <2>1. CASE ServiceStarts \/ SetRunning
    BY <2>0, <2>1 DEF ServiceStarts, SetRunning, ServiceOrder
  <2>2. CASE SetStopped
    <3>1. main = "failed" \/ (dm = "ended" /\ grpc = "closed")
      BY <2>2 DEF SetStopped, ServiceInv, Abandoned, ControllerInv, EndsInOrder
    <3> QED
      BY <2>0, <2>2, <3>1 DEF SetStopped, ServiceOrder
  <2>3. CASE StopControl
    BY <2>0, <2>3 DEF StopControl, AcceptsStop, ServiceOrder
  <2>4. CASE MonitorReports
    <3>1. controls # 0 /\ reported' = "StopPending" /\ main' = main
      BY <2>4 DEF MonitorReports, ServiceInv, STypeOK
    <3> QED
      BY <2>0, <2>4, <3>1 DEF ServiceOrder
  <2>5. CASE MonitorSends
    BY <2>0, <2>5 DEF MonitorSends, ServiceOrder
  <2>6. CASE UNCHANGED serviceVars
    BY <2>0, <2>6 DEF serviceVars, ServiceOrder
  <2> QED
    BY <2>1, <2>2, <2>3, <2>4, <2>5, <2>6 DEF Monitor
<1> QED
  BY <1>1, <1>2, <1>3, <1>4, <1>5 DEF ServiceInv

\* A service that cannot register has never had a client.
LEMMA RegistrationKeepsService ==
  ASSUME ServiceInv, RegistrationFails
  PROVE  ServiceInv'
<1>0. /\ main = "start" /\ main' = "returned" /\ grpc' = "closed"
      /\ UNCHANGED <<dm, status, queue, call, stream, subs, sd, devUp, calls, evs>>
      /\ UNCHANGED <<pc, uiVars, reported, controls, monitor, asked>>
  BY DEF RegistrationFails
<1>1. CTypeOK' /\ StatusAnswers' /\ CliPhases' /\ CliHears' /\ STypeOK'
  BY <1>0 DEF ServiceInv, STypeOK, StatusAnswers, CliPhases, CliHears, CliAwaits,
     CTypeOK, TypeOK, uiVars
<1>2. ServiceOrder'
  BY <1>0 DEF ServiceInv, ServiceOrder
<1>3. ControllerInv
  BY <1>0 DEF ServiceInv, Abandoned
<1>4. ClosedIsIdle'
  BY <1>0 DEF ServiceInv, ServiceOrder, ClosedIsIdle
<1>5. ControllerInv'
  BY <1>0, <1>1, <1>3, <1>4
     DEF ControllerInv, TypeOK, QueueInv, QueuedCalls, ConnectAtHead, ConnectHasLocation,
         EndsInOrder, StreamsKept, Served, Stopping
<1> QED
  BY <1>1, <1>2, <1>5 DEF ServiceInv

\* A call cut off with an error.
LEMMA CutOff ==
  ASSUME TypeOK, NEW P \in SUBSET {"auth", "sent", "task"},
         call' = [c \in Client |->
           IF call[c].ph \in P
             THEN [call[c] EXCEPT !.ph = "answered", !.ans = Plain("Error")]
             ELSE call[c]]
  PROVE  call' \in [Client -> CallState] /\ \A c \in Client :
           /\ call'[c].cmd = call[c].cmd
           /\ call[c].ph \notin P => call'[c] = call[c]
           /\ call[c].ph \in P =>
                call'[c].ph = "answered" /\ call'[c].ans = Plain("Error")
BY AnswerValues DEF TypeOK, CallState, CallPhase

\* The commands queued for a daemon that cannot be created are answered, and
\* the calls the server has besides go on.
LEMMA CreationKeepsService ==
  ASSUME ServiceInv, CreationFails
  PROVE  ServiceInv'
<1>0. /\ main = "creating" /\ main' = "failed" /\ queue' = <<>>
      /\ UNCHANGED <<dm, status, stream, subs, grpc, sd, devUp, calls, evs>>
      /\ UNCHANGED <<pc, uiVars, reported, controls, monitor, asked>>
  BY DEF CreationFails
<1>1. TypeOK /\ CTypeOK
  BY DEF ServiceInv, STypeOK, CTypeOK
<1>2. call' \in [Client -> CallState] /\ \A c \in Client :
        /\ call'[c].cmd = call[c].cmd
        /\ call[c].ph # "sent" => call'[c] = call[c]
        /\ call[c].ph = "sent" =>
             call'[c].ph = "answered" /\ call'[c].ans = Plain("Error")
  <2>1. \A c \in Client : call[c].ph \in {"sent"} <=> call[c].ph = "sent"
    OBVIOUS
  <2>2. call' = [c \in Client |->
          IF call[c].ph \in {"sent"}
            THEN [call[c] EXCEPT !.ph = "answered", !.ans = Plain("Error")]
            ELSE call[c]]
    BY <2>1 DEF CreationFails
  <2>3. {"sent"} \in SUBSET {"auth", "sent", "task"}
    OBVIOUS
  <2> QED
    BY <1>1, <2>2, <2>3, CutOff
<1>3. TypeOK' /\ CTypeOK'
  BY <1>0, <1>1, <1>2 DEF TypeOK, CTypeOK, uiVars
<1>4. StatusAnswers'
  BY <1>2 DEF ServiceInv, StatusAnswers
<1>5. CliPhases' /\ CliHears'
  BY <1>0, <1>2, ClientsAssumption DEF ServiceInv, CliPhases, CliHears, CliAwaits
<1>6. ControllerInv
  BY <1>0 DEF ServiceInv, Abandoned
<1>7. QueueInv'
  BY <1>0, <1>2, <1>6
     DEF ServiceInv, ServiceOrder, ControllerInv, QueueInv, QueuedCalls, ConnectAtHead,
         ConnectHasLocation
<1>8. ClosedIsIdle' /\ EndsInOrder'
  BY <1>0, <1>2, <1>6 DEF ControllerInv, ClosedIsIdle, EndsInOrder
<1>9. StreamsKept' /\ Served'
  BY <1>0, <1>2, <1>6 DEF ControllerInv, StreamsKept, Served, Stopping
<1>10. ServiceOrder'
  BY <1>0 DEF ServiceInv, ServiceOrder
<1>11. STypeOK'
  BY <1>0, <1>3 DEF ServiceInv, STypeOK
<1> QED
  BY <1>3, <1>4, <1>5, <1>7, <1>8, <1>9, <1>10, <1>11 DEF ServiceInv, ControllerInv

\* So are those the server fails to send.
LEMMA NotSentKeepsService ==
  ASSUME ServiceInv, NEW c \in Client, CommandNotSent(c)
  PROVE  ServiceInv'
<1>0. /\ main \in {"failed", "leaving"} /\ queue # <<>> /\ Head(queue).c = c
      /\ queue' = Tail(queue) /\ call' = Answered(c, Plain("Error"))
      /\ UNCHANGED <<dm, status, stream, subs, grpc, sd, devUp, calls, evs>>
      /\ UNCHANGED <<pc, uiVars>> /\ UNCHANGED serviceVars
  BY DEF CommandNotSent
<1>1. TypeOK /\ CTypeOK
  BY DEF ServiceInv, STypeOK, CTypeOK
<1>2. ControllerInv
  BY <1>0 DEF ServiceInv, Abandoned
<1>3. call[c].ph \in {"sent", "gone"}
  BY <1>0, <1>1, <1>2, HeadParts DEF ControllerInv, QueueInv, QueuedCalls
<1>4. /\ \A d \in Client : d # c => call'[d] = call[d]
      /\ call'[c].ph = IF call[c].ph = "gone" THEN "gone" ELSE "answered"
      /\ call[c].ph # "gone" => call'[c].ans = Plain("Error")
      /\ call'[c].cmd = call[c].cmd /\ call'[c].loc = call[c].loc
  BY <1>0, <1>1, AnsweredParts
<1>5. TypeOK' /\ CTypeOK'
  <2>1. call' \in [Client -> CallState]
    BY <1>0, <1>1, AnsweredType, AnswerValues
  <2>2. queue' \in Seq(QueueItem)
    BY <1>0, <1>1, HeadParts
  <2> QED
    BY <1>0, <1>1, <2>1, <2>2 DEF TypeOK, CTypeOK, uiVars
<1>6. StatusAnswers'
  BY <1>3, <1>4 DEF ServiceInv, StatusAnswers
<1>7. CliPhases' /\ CliHears'
  BY <1>0, <1>3, <1>4, ClientsAssumption DEF ServiceInv, CliPhases, CliHears, CliAwaits
<1>8. dm \in {"new", "ended"}
  BY <1>0 DEF ServiceInv, ServiceOrder
<1>9. QueueInv'
  BY <1>0, <1>1, <1>2, <1>4, <1>8, HandledQueue DEF ControllerInv
<1>10. ClosedIsIdle' /\ EndsInOrder'
  BY <1>0, <1>2, <1>4 DEF ControllerInv, ClosedIsIdle, EndsInOrder
<1>11. StreamsKept' /\ Served'
  BY <1>0, <1>2, <1>4 DEF ControllerInv, StreamsKept, Served, Stopping
<1>12. ServiceOrder' /\ STypeOK'
  BY <1>0, <1>5 DEF ServiceInv, ServiceOrder, STypeOK, serviceVars
<1> QED
  BY <1>5, <1>6, <1>7, <1>9, <1>10, <1>11, <1>12 DEF ServiceInv, ControllerInv

\* What is left of the server ends with the runtime, and no call is
\* unanswered then.
LEMMA RuntimeKeepsService ==
  ASSUME ServiceInv, RuntimeDropped
  PROVE  ServiceInv'
<1>0. /\ main = "leaving" /\ main' = "returned"
      /\ grpc' = "closed" /\ subs' = {}
      /\ UNCHANGED <<dm, status, queue, stream, sd, devUp, calls, evs>>
      /\ UNCHANGED <<pc, uiVars, reported, controls, monitor, asked>>
  BY DEF RuntimeDropped
<1>1. TypeOK /\ CTypeOK
  BY DEF ServiceInv, STypeOK, CTypeOK
<1>2. call' \in [Client -> CallState] /\ \A c \in Client :
        /\ call'[c].cmd = call[c].cmd
        /\ call[c].ph \notin {"auth", "sent", "task"} => call'[c] = call[c]
        /\ call[c].ph \in {"auth", "sent", "task"} =>
             call'[c].ph = "answered" /\ call'[c].ans = Plain("Error")
  BY <1>1, CutOff DEF RuntimeDropped
<1>3. TypeOK' /\ CTypeOK'
  BY <1>0, <1>1, <1>2 DEF TypeOK, CTypeOK, uiVars
<1>4. StatusAnswers'
  BY <1>2 DEF ServiceInv, StatusAnswers
<1>5. CliPhases'
  BY <1>0, <1>2, ClientsAssumption DEF ServiceInv, CliPhases
<1>6. CliHears'
  BY <1>0 DEF CliHears
<1>7. ControllerInv /\ ((dm = "ended" /\ grpc = "closed") \/ dm = "new")
  BY <1>0 DEF ServiceInv, ServiceOrder, Abandoned
<1>8. ControllerInv' \/ Abandoned'
  <2>1. CASE dm = "new"
    <3>1. devUp /\ controls = 0 /\ monitor = "idle" /\ reported = "Stopped"
      BY <1>0, <1>7, <2>1 DEF ServiceInv, ServiceOrder, ControllerInv, EndsInOrder
    <3> QED
      BY <1>0, <2>1, <3>1 DEF Abandoned
  <2>2. CASE dm = "ended" /\ grpc = "closed"
    <3>1. \A c \in Client : call'[c] = call[c]
      BY <1>2, <1>7, <2>2 DEF ControllerInv, ClosedIsIdle
    <3>2. QueueInv' /\ ClosedIsIdle' /\ EndsInOrder'
      BY <1>0, <1>7, <2>2, <3>1
         DEF ControllerInv, QueueInv, QueuedCalls, ConnectAtHead, ConnectHasLocation,
             ClosedIsIdle, EndsInOrder
    <3>3. StreamsKept' /\ Served'
      BY <1>0, <1>7, <2>2, <3>1 DEF ControllerInv, StreamsKept, Served, Stopping
    <3> QED
      BY <1>3, <1>4, <3>2, <3>3 DEF ControllerInv
  <2> QED
    BY <1>7, <2>1, <2>2
<1>9. ServiceOrder'
  BY <1>0, <1>7 DEF ServiceInv, ServiceOrder
<1>10. STypeOK'
  BY <1>0, <1>3 DEF ServiceInv, STypeOK
<1> QED
  BY <1>3, <1>4, <1>5, <1>6, <1>8, <1>9, <1>10 DEF ServiceInv

\* A daemon that has ended does nothing more.
LEMMA EndedStays ==
  ASSUME DaemonNext \/ Signal, dm = "ended", grpc = "closed"
  PROVE  dm' = "ended" /\ grpc' = "closed"
<1>1. ASSUME NEW c \in Client, OnCommand(c) PROVE FALSE
  BY <1>1 DEF OnCommand, OnConnectRefused, OnConnect, ConnectAccepted, ConnectFailed,
     OnDisconnect, OnGetVpnStatus, OnOther, Takes
<1>2. ASSUME NEW c \in Client, CallStep(c) PROVE dm' = dm /\ grpc' = grpc
  BY <1>2 DEF CallStep, Authorized, Unauthenticated, TaskAnswers
<1>3. CASE DaemonStep
  BY <1>1, <1>3 DEF DaemonStep, Run, HandleEvent, HandleShutdown, TunnelJoined,
     SubscribersCleared, ServerJoined, DeviceStopped, Takes
<1>4. CASE QueueEvent \/ QueueShutdown \/ ServerDrains \/ ServerCloses \/ Signal
  BY <1>4 DEF QueueEvent, QueueShutdown, ServerDrains, ServerCloses, Signal
<1> QED
  BY <1>2, <1>3, <1>4 DEF DaemonNext

\* The tasks of the daemon run while the main thread does.
LEMMA ProcessKeepsService ==
  ASSUME ServiceInv, ServiceSignal \/ ProcessStep(DaemonNext)
  PROVE  ServiceInv'
<1>0. /\ main # "returned" /\ UNCHANGED <<pc, uiVars, serviceVars>>
      /\ DaemonNext \/ Signal
  BY DEF ServiceSignal, ProcessStep
<1>1. ControllerInv
  BY <1>0 DEF ServiceInv, Abandoned
<1>2. ControllerInv' /\ TypeOK /\ TypeOK' /\ QueueInv /\ StatusAnswers'
  BY <1>0, <1>1, ControllerInvStep DEF ControllerStep, ControllerInv
<1>3. CliPhases' /\ CliHears'
  BY <1>0, <1>2, DaemonKeepsCli DEF ServiceInv
<1>4. STypeOK'
  BY <1>0, <1>2 DEF ServiceInv, STypeOK, CTypeOK, uiVars, serviceVars
<1>5. main # "start"
  BY DEF ServiceSignal, ProcessStep, ServiceInv, ServiceOrder
<1>6. sd = "none" /\ ~asked => sd' = "none"
  <2>1. CASE ServiceSignal
    BY <2>1 DEF ServiceSignal
  <2>2. CASE DaemonNext
    <3>1. ASSUME NEW c \in Client, OnCommand(c) PROVE sd' = sd
      BY <3>1 DEF OnCommand, OnConnectRefused, OnConnect, ConnectAccepted, ConnectFailed,
         OnDisconnect, OnGetVpnStatus, OnOther
    <3>2. ASSUME NEW c \in Client, CallStep(c) PROVE sd' = sd
      BY <3>2 DEF CallStep, Authorized, Unauthenticated, TaskAnswers
    <3>3. CASE \/ Run \/ HandleEvent \/ HandleShutdown \/ TunnelJoined
               \/ SubscribersCleared \/ ServerJoined \/ DeviceStopped
      BY <3>3 DEF Run, HandleEvent, HandleShutdown, TunnelJoined,
         SubscribersCleared, ServerJoined, DeviceStopped
    <3>4. CASE QueueEvent \/ QueueShutdown \/ ServerDrains \/ ServerCloses
      BY <3>4 DEF QueueEvent, QueueShutdown, ServerDrains, ServerCloses
    <3> QED
      BY <2>2, <3>1, <3>2, <3>3, <3>4 DEF DaemonNext, DaemonStep
  <2> QED
    BY <2>1, <2>2 DEF ProcessStep
<1>7. main # "running" /\ dm = "new" => dm' = "new"
  BY DEF ServiceSignal, Signal, ProcessStep
<1>8. dm = "ended" /\ grpc = "closed" => dm' = "ended" /\ grpc' = "closed"
  BY <1>0, <1>1, EndedStays
<1>9. ServiceOrder'
  BY <1>0, <1>5, <1>6, <1>7, <1>8 DEF ServiceInv, ServiceOrder, serviceVars
<1> QED
  BY <1>2, <1>3, <1>4, <1>9 DEF ServiceInv

\* Clients go on when the service has ended.
LEMMA ClientsKeepService ==
  ASSUME ServiceInv, ClientsStep
  PROVE  ServiceInv'
<1>0. /\ main # "start" /\ UNCHANGED serviceVars
      /\ UiStep \/ \E c \in Cli : CliStep(c)
  BY DEF ClientsStep
<1>1. CTypeOK /\ TypeOK /\ StatusAnswers /\ CNext
  BY <1>0 DEF ServiceInv, STypeOK, CTypeOK, CNext
<1>2. (\E c \in Client : ClientMove(c)) \/ UNCHANGED vars
  <2>1. ASSUME NEW c \in Cli, CliStep(c)
        PROVE  (\E d \in Client : ClientMove(d)) \/ UNCHANGED vars
    BY <1>1, <2>1, CliStepMoves, MoveLeavesOthers
  <2>2. CASE UiStep
    <3>1. UiCmd \cup Fwd \in SUBSET Client
      BY ClientsAssumption
    <3>2. ASSUME NEW d \in UiCmd \cup Fwd, MoveOf(d)
          PROVE  \E c \in Client : ClientMove(c)
      BY <1>1, <3>1, <3>2, MoveLeavesOthers
    <3>3. CASE HangUp(UiCmd \cup Fwd)
      <4>1. \E c \in UiCmd \cup Fwd : c \in Client
        BY <3>1, <3>3 DEF HangUp
      <4> QED
        BY <3>1, <3>3, <4>1 DEF ClientMove
    <3> QED
      BY <1>1, <2>2, <3>2, <3>3, UiStepMoves
  <2> QED
    BY <1>0, <2>1, <2>2
<1>3. /\ dm' = dm /\ status' = status /\ subs' = subs /\ grpc' = grpc
      /\ sd' = sd /\ devUp' = devUp
  BY <1>2 DEF ClientMove, MakeCall, TakeAnswer, ReadEvent, StreamEnds, HangUp, vars
<1>4. TypeOK' /\ StatusAnswers'
  <2>1. CASE UNCHANGED vars
    BY <1>1, <2>1 DEF vars, TypeOK, StatusAnswers
  <2> QED
    BY <1>1, <1>2, <2>1, ClientMoveType, ClientMoveAnswers
<1>5. CTypeOK' /\ STypeOK'
  <2>1. CTypeOK'
    BY <1>1, <1>4, ClientsType
  <2> QED
    BY <1>0, <2>1 DEF ServiceInv, STypeOK, serviceVars
<1>6. SubsCurrent
  BY DEF ServiceInv, ControllerInv, Abandoned, Served, SubsCurrent
<1>7. CliPhases' /\ CliHears'
  BY <1>0, <1>1, <1>6, CliKeepsCli, UiKeepsCli DEF ServiceInv
<1>8. ControllerInv => ControllerInv'
  BY <1>2, ControllerInvStep DEF ControllerStep
<1>9. Abandoned => Abandoned'
  BY <1>0, <1>3 DEF Abandoned, serviceVars
<1>10. ServiceOrder'
  BY <1>0, <1>3 DEF ServiceInv, ServiceOrder, serviceVars
<1> QED
  BY <1>4, <1>5, <1>7, <1>8, <1>9, <1>10 DEF ServiceInv

\* The invariant of the service holds initially.
LEMMA InitService == SInit => ServiceInv
<1> SUFFICES ASSUME SInit PROVE ServiceInv
  OBVIOUS
<1>1. ClientsInv
  BY InitClients DEF SInit
<1>2. STypeOK
  <2>1. asked \in BOOLEAN
    BY Zenon DEF SInit
  <2>2. controls \in 0..MaxControls
    BY ServiceControlAssumption DEF SInit
  <2> QED
    BY <1>1, <2>1, <2>2 DEF SInit, ClientsInv, STypeOK
<1>3. ServiceOrder
  BY NoCallType DEF SInit, CInit, Init, ServiceOrder
<1> QED
  BY <1>1, <1>2, <1>3 DEF ServiceInv, ClientsInv, ControllerInv

\* The invariant of the daemon run as a service.
THEOREM ServiceInvHolds == SSpec => []ServiceInv
<1>1. ASSUME ServiceInv, [SNext]_svars PROVE ServiceInv'
  <2>1. CASE ServiceStarts \/ SetRunning \/ SetStopped \/ StopControl \/ Monitor
    <3>1. UNCHANGED cvars
      BY <2>1 DEF ServiceStarts, SetRunning, SetStopped, StopControl, Monitor,
                  MonitorReports, MonitorSends
    <3> QED
      BY <1>1, <2>1, <3>1, ThreadsKeepService
  <2>2. CASE UNCHANGED svars
    BY <1>1, <2>2, ThreadsKeepService DEF svars
  <2> QED
    BY <1>1, <2>1, <2>2, RegistrationKeepsService, CreationKeepsService,
       NotSentKeepsService, RuntimeKeepsService, ProcessKeepsService, ClientsKeepService DEF SNext
<1> QED
  BY InitService, <1>1, PTL DEF SSpec

\* Types of the whole state: the daemon as clients see it, the clients and
\* the threads of the service.
THEOREM ServiceTypeCorrect == SSpec => []STypeOK
<1>1. ServiceInv => STypeOK
  BY DEF ServiceInv
<1> QED
  BY <1>1, ServiceInvHolds, PTL

\* While the service control manager reads Running the daemon has not been
\* told to stop.
THEOREM RunningIsTrue == SSpec => []RunningMeansNotStopping
<1>1. ServiceInv => RunningMeansNotStopping
  BY DEF ServiceInv, ServiceOrder, RunningMeansNotStopping
<1> QED
  BY <1>1, ServiceInvHolds, PTL

\* When it reads Stopped the daemon has let go of its socket, or could not
\* be created and lets go of it when the main thread returns.
THEOREM StoppedIsTrue == SSpec => []StoppedMeansEnded
<1>1. ServiceInv => StoppedMeansEnded
  BY DEF ServiceInv, ServiceOrder, StoppedMeansEnded
<1> QED
  BY <1>1, ServiceInvHolds, PTL

\* The connect command of the CLI waits only while a session is in progress.
THEOREM CliDoesNotHang == SSpec => []CliWaitsForSession
<1>1. ServiceInv => CliWaitsForSession
  BY DEF ServiceInv, CliHears, CliAwaits, CliWaitsForSession
<1> QED
  BY <1>1, ServiceInvHolds, PTL

\* No call needs the device service once it has ended.
THEOREM DeviceEndsLast == SSpec => []DeviceStopsLast
<1>1. ServiceInv => DeviceStopsLast
  BY EndsLast DEF ServiceInv, Abandoned, DeviceStopsLast
<1> QED
  BY <1>1, ServiceInvHolds, PTL
=============================================================================
