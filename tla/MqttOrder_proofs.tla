-------------------------- MODULE MqttOrder_proofs --------------------------
(***************************************************************************)
(* Theorems about the MQTT application that rest on the order of messages: *)
(* the queues are first in first out, and a dispatcher that publishes does *)
(* not receive.  With the priorities of the tasks, that a stop leaves      *)
(* nothing behind.  At the end, that the services and the agent implement  *)
(* ClientLife: whatever is delayed, refused or dropped, a client goes from *)
(* stage to stage as the agent means it.                                   *)
(***************************************************************************)
EXTENDS MqttSystem_proofs

-----------------------------------------------------------------------------
(* Where a message can be *)

\* The messages that a task publishes.
Sends(t, m) ==
  /\ m.topic = "IPNET_EXECUTE_CMD" /\ m.cmd = "TCP_CONNECT" => t \in {"timer", "cli"}
  /\ m.topic = "IPNET_CMD_STATUS" => t = "ipnet"
  /\ m.topic \in {"IPNET_SOCKET_DISCONNECTED", "IPNET_SOCKET_RXTX_ACTIVITY"} => t = "iptask"
  /\ m.topic = "MQTT_CMD_STATUS" => t = "mqtt"
  /\ m.topic = "MQTT_EXECUTE_CMD" =>
       /\ m.cmd = "CONNECT" => t = "ipnet"
       /\ m.cmd = "SUBSCRIBE" => t = "mqtt"
       /\ m.cmd = "DISCONNECT" => t \in {"ipnet", "mqtt", "cli"}

\* A message is with the task that publishes it or with the dispatcher it is for.
Rightly(m, p) == m # NoMsg => IF p[2] = Last THEN Sends(p[1], m) ELSE p[1] = Target(m)
WhereInv == \A p \in Places : Rightly(At(p), p)

\* A request for a session is what the status of a connection turns into, for a
\* registered client.
IsLogin(m)   == m.topic = "MQTT_EXECUTE_CMD" /\ m.cmd = "CONNECT"
Continues(m) ==
  IsLogin(m) => SocketMsg(cur["ipnet"]) /\ cur["ipnet"].ctx = m.ctx /\ m.ctx \in registered'

\* What the MQTT dispatcher publishes is about the client of the message it
\* handles, and the end of a session is requested by this dispatcher, by
\* mqtt_socket_monitor_io or for a client that is being stopped.  A registered
\* client is dialled.
IsQuit(m) == m.topic = "MQTT_EXECUTE_CMD" /\ m.cmd = "DISCONNECT"
IsDial(m) == m.topic = "IPNET_EXECUTE_CMD" /\ m.cmd = "TCP_CONNECT"
Answers(d, m) ==
  /\ d = "mqtt" => (MqttHandler /\ m.ctx = MqttUser) \/ (AgentStep /\ MqttStatusHandler /\ m.ctx = Subject)
  /\ d = "ipnet" /\ IsQuit(m) => MqttStep /\ MonitorDisconnected
Spares(m) ==
  /\ IsQuit(m) => m.ctx \notin registered'
  /\ IsDial(m) => m.ctx \in registered'

\* What a step does to the messages.
BusStep ==
  \/ UNCHANGED <<queue, cur, out>>
  \/ \E d \in Dispatcher : Receive(d) \/ ReturnSilently(d)
  \/ \E t \in Task : PutDone(t) \/ PutTimeout(t)
  \/ \E d \in Dispatcher : \E m :
       Free(d) /\ ReturnPublishing(d, m) /\ Sends(d, m) /\ Continues(m) /\ Answers(d, m)
  \/ \E t \in Task \ Dispatcher : \E m : CallPublish(t, m) /\ Sends(t, m) /\ Spares(m)

LEMMA WhoSends ==
  ASSUME NEW u, NEW s, NEW ok, NEW cmd, NEW t
  PROVE  /\ Sends("cli", IpnetCmd(cmd, u)) /\ Sends("timer", IpnetCmd(cmd, u))
         /\ Sends("mqtt", IpnetCmd("TCP_SHUTDOWN", u))
         /\ Sends("ipnet", IpnetStatus(cmd, u, ok, s))
         /\ Sends("iptask", RxTx(s)) /\ Sends("iptask", Disconnected(s))
         /\ Sends("ipnet", MqttConnect(u, s))
         /\ cmd \in {"PROCESS_LOOP", "DISCONNECT"} => Sends("ipnet", MqttCmd(cmd, u))
         /\ cmd \in {"SUBSCRIBE", "DISCONNECT"} => Sends("mqtt", MqttCmd(cmd, u))
         /\ Sends("timer", MqttCmd("BROKER_PING", u)) /\ Sends("cli", MqttCmd("DISCONNECT", u))
         /\ Sends("mqtt", MqttStatus(cmd, u, ok))
  BY DEF Sends, IpnetCmd, IpnetStatus, RxTx, Disconnected, MqttConnect, MqttCmd, MqttStatus

LEMMA WhatContinues ==
  ASSUME NEW u, NEW s, NEW ok, NEW cmd
  PROVE  /\ Continues(IpnetCmd(cmd, u)) /\ Continues(IpnetStatus(cmd, u, ok, s)) /\ Continues(MqttStatus(cmd, u, ok))
         /\ cmd # "CONNECT" => Continues(MqttCmd(cmd, u))
         /\ SocketMsg(cur["ipnet"]) /\ cur["ipnet"].ctx \in registered' => Continues(MqttConnect(cur["ipnet"].ctx, s))
  BY DEF Continues, IsLogin, IpnetCmd, IpnetStatus, MqttConnect, MqttCmd, MqttStatus

LEMMA WhatAnswers ==
  ASSUME NEW u, NEW s, NEW ok, NEW cmd
  PROVE  /\ cmd = "TCP_SHUTDOWN" \/ u \in registered' => Spares(IpnetCmd(cmd, u))
         /\ Spares(RxTx(s)) /\ Spares(Disconnected(s)) /\ Spares(MqttCmd("BROKER_PING", u))
         /\ u \notin registered' => Spares(MqttCmd(cmd, u))
         /\ Answers("ipnet", IpnetStatus(cmd, u, ok, s)) /\ Answers("ipnet", MqttConnect(u, s))
         /\ Answers("ipnet", MqttCmd("PROCESS_LOOP", u))
         /\ MqttStep /\ MonitorDisconnected => Answers("ipnet", MqttCmd("DISCONNECT", u))
         /\ MqttHandler => Answers("mqtt", MqttStatus(cmd, MqttUser, ok))
         /\ AgentStep /\ MqttStatusHandler =>
              Answers("mqtt", MqttCmd(cmd, Subject)) /\ Answers("mqtt", IpnetCmd(cmd, Subject))
  BY DEF Spares, Answers, IsQuit, IsDial, IpnetCmd, RxTx, Disconnected, MqttCmd, IpnetStatus, MqttConnect, MqttStatus

LEMMA NextIsBusStep ==
  ASSUME [Next]_vars
  PROVE  BusStep
<1>1. {"ipnet", "mqtt"} \subseteq Dispatcher /\ {"timer", "iptask", "cli"} \subseteq Task \ Dispatcher
  BY DEF Dispatcher, Task
<1>2. CASE Messaging
  BY <1>2 DEF Messaging, Put, BusStep
<1>3. CASE IpnetStep
  <2>1. \/ UNCHANGED busVars
        \/ Free("ipnet") /\ \E cmd, ok, s : ReturnPublishing("ipnet", IpnetStatus(cmd, User, ok, s))
        \/ \E s : CallPublish("iptask", RxTx(s)) \/ CallPublish("iptask", Disconnected(s))
    BY <1>3
    DEF IpnetStep, IpnetHandler, TcpConnect, TcpConnectNoSocket, TcpConnectFails, TcpConnectReturns, TcpShutdown,
        Executing, Handling, IpTaskStep, Established, PeerCloses, Traffic, WakeUp, CloseDone
  <2> QED
    BY <1>1, <2>1, WhoSends, WhatContinues, WhatAnswers DEF BusStep, busVars
<1>4. CASE MqttStep
  <2>1. CASE MqttHandler
    <3>1. \/ UNCHANGED <<queue, cur, out>>
          \/ ReturnSilently("mqtt")
          \/ Free("mqtt") /\ \E cmd, ok : ReturnPublishing("mqtt", MqttStatus(cmd, MqttUser, ok))
      BY <2>1
      DEF MqttHandler, SessionAlloc, SessionSetup, BrokerAccepts, BrokerConnectFails, Subscribe, SubscribeFails,
          ProcessLoop, BrokerPing, Disconnect, MqttHandling, Requested, Handling, busVars
    <3> QED
      BY <1>1, <2>1, <3>1, WhoSends, WhatContinues, WhatAnswers DEF BusStep
  <2>2. CASE MonitorHandler
    <3>1. \/ ReturnSilently("ipnet")
          \/ Free("ipnet") /\ \E u : ReturnPublishing("ipnet", MqttCmd("PROCESS_LOOP", u))
          \/ Free("ipnet") /\ MonitorDisconnected /\ \E u : ReturnPublishing("ipnet", MqttCmd("DISCONNECT", u))
      BY <2>2 DEF MonitorHandler, MonitorDisconnected, MonitorActivity, Monitor
    <3> QED
      BY <1>1, <1>4, <3>1, WhoSends, WhatContinues, WhatAnswers DEF BusStep
  <2>3. CASE Tick \/ TickContinues \/ \E c \in Client : SubackArrives(c)
    <3>1. \/ UNCHANGED <<queue, cur, out>>
          \/ \E u : CallPublish("timer", MqttCmd("BROKER_PING", u))
      BY <2>3 DEF Tick, TickContinues, SubackArrives, busVars
    <3> QED
      BY <1>1, <3>1, WhoSends, WhatContinues, WhatAnswers DEF BusStep
  <2> QED
    BY <1>4, <2>1, <2>2, <2>3 DEF MqttStep
<1>5. CASE AgentStep
  <2>1. \/ UNCHANGED <<queue, cur, out>>
        \/ \E d \in {"ipnet", "mqtt"} : ReturnSilently(d)
        \/ /\ Free("ipnet") /\ SocketMsg(cur["ipnet"]) /\ cur["ipnet"].ctx \in registered'
           /\ \E s : ReturnPublishing("ipnet", MqttConnect(cur["ipnet"].ctx, s))
        \/ /\ Free("mqtt") /\ MqttStatusHandler
           /\ \E cmd \in {"SUBSCRIBE", "DISCONNECT"} : ReturnPublishing("mqtt", MqttCmd(cmd, Subject))
        \/ Free("mqtt") /\ MqttStatusHandler /\ ReturnPublishing("mqtt", IpnetCmd("TCP_SHUTDOWN", Subject))
        \/ \E u : CallPublish("cli", IpnetCmd("TCP_SHUTDOWN", u))
        \/ \E t \in {"timer", "cli"} : \E u : u \in registered' /\ CallPublish(t, IpnetCmd("TCP_CONNECT", u))
        \/ \E u : u \notin registered' /\ CallPublish("cli", MqttCmd("DISCONNECT", u))
    BY <1>5
    DEF AgentStep, IpnetStatusHandler, NotOurs, OnTcpConnected, OnTcpDown, RaiseTimer, TimerRefused, Completed,
        MqttStatusHandler, OnConnected, OnConnectFailed, OnSubscribed, OnSubscribeFailed, OnDisconnected,
        OnStatus, Handling, Request, AgentStopShutdown, BackoffEnds, BackoffFires, AgentStart, AgentStop, SocketMsg,
        busVars, agentVars
  <2>2. ASSUME NEW t \in {"timer", "cli"}, NEW m, CallPublish(t, m),
               \/ t = "cli" /\ \E u : m = IpnetCmd("TCP_SHUTDOWN", u)
               \/ \E u : u \in registered' /\ m = IpnetCmd("TCP_CONNECT", u)
               \/ t = "cli" /\ \E u : u \notin registered' /\ m = MqttCmd("DISCONNECT", u)
        PROVE  BusStep
    <3>1. Sends(t, m) /\ Spares(m)
      BY <2>2, WhoSends, WhatAnswers
    <3> QED
      BY <1>1, <2>2, <3>1 DEF BusStep
  <2>3. ASSUME NEW d \in {"ipnet", "mqtt"}, NEW m, Free(d), ReturnPublishing(d, m),
               \/ /\ d = "ipnet" /\ SocketMsg(cur["ipnet"]) /\ cur["ipnet"].ctx \in registered'
                  /\ \E s : m = MqttConnect(cur["ipnet"].ctx, s)
               \/ /\ d = "mqtt" /\ MqttStatusHandler
                  /\ \/ \E cmd \in {"SUBSCRIBE", "DISCONNECT"} : m = MqttCmd(cmd, Subject)
                     \/ m = IpnetCmd("TCP_SHUTDOWN", Subject)
        PROVE  BusStep
    <3>1. Sends(d, m) /\ Continues(m) /\ Answers(d, m)
      BY <1>5, <2>3, WhoSends, WhatContinues, WhatAnswers
    <3> QED
      BY <1>1, <2>3, <3>1 DEF BusStep
  <2>4. CASE UNCHANGED <<queue, cur, out>> \/ \E d \in {"ipnet", "mqtt"} : ReturnSilently(d)
    BY <1>1, <2>4 DEF BusStep
  <2> QED
    BY <2>1, <2>2, <2>3, <2>4
<1>6. CASE Ended \/ UNCHANGED vars
  BY <1>6 DEF Ended, vars, busVars, BusStep
<1> QED
  BY <1>2, <1>3, <1>4, <1>5, <1>6 DEF Next

\* What the steps of a dispatcher and of a publish call do to the messages.
LEMMA StepAt ==
  ASSUME BusTypeOK
  PROVE  /\ \A d \in Dispatcher : ReturnSilently(d) =>
              /\ <<d, 0>> \in Places /\ At(<<d, 0>>) = cur[d] /\ At(<<d, 0>>)' = NoMsg
              /\ \A p \in Places : p # <<d, 0>> => At(p)' = At(p)
         /\ \A d \in Dispatcher : \A m : Free(d) /\ ReturnPublishing(d, m) =>
              /\ <<d, 0>> \in Places /\ At(<<d, 0>>) = cur[d] /\ At(<<d, 0>>)' = NoMsg
              /\ <<d, Last>> \in Places /\ At(<<d, Last>>) = NoMsg /\ At(<<d, Last>>)' = m
              /\ \A p \in Places : p # <<d, 0>> /\ p # <<d, Last>> => At(p)' = At(p)
         /\ \A t \in Task : \A m : CallPublish(t, m) =>
              /\ <<t, Last>> \in Places /\ At(<<t, Last>>) = NoMsg /\ At(<<t, Last>>)' = m
              /\ \A p \in Places : p # <<t, Last>> => At(p)' = At(p)
         /\ \A t \in Task : PutTimeout(t) =>
              /\ <<t, Last>> \in Places /\ At(<<t, Last>>)' = NoMsg
              /\ \A p \in Places : p # <<t, Last>> => At(p)' = At(p)
<1>1. ASSUME NEW t \in Task, NEW m, CallPublish(t, m)
      PROVE  /\ <<t, Last>> \in Places /\ At(<<t, Last>>) = NoMsg /\ At(<<t, Last>>)' = m
             /\ \A p \in Places : p # <<t, Last>> => At(p)' = At(p)
  <2>1. out' = [out EXCEPT ![t] = m] /\ UNCHANGED <<queue, cur>> /\ out[t] = NoMsg
    BY <1>1 DEF CallPublish, Publish, Free, Publishing
  <2> QED
    BY <2>1, AtOut DEF Last
<1>2. ASSUME NEW t \in Task, PutTimeout(t)
      PROVE  /\ <<t, Last>> \in Places /\ At(<<t, Last>>)' = NoMsg
             /\ \A p \in Places : p # <<t, Last>> => At(p)' = At(p)
  <2>1. out' = [out EXCEPT ![t] = NoMsg] /\ UNCHANGED <<queue, cur>>
    BY <1>2 DEF PutTimeout
  <2> QED
    BY <2>1, AtOut DEF Last
<1> QED
  BY <1>1, <1>2, AtReturnSilently, AtReturnPublishing DEF Last

\* Where a message comes from when a dispatcher receives one.
LEMMA ReceiveFrom ==
  ASSUME BusTypeOK, NEW d \in Dispatcher, Receive(d), NEW p \in Places
  PROVE  \/ At(p)' = NoMsg
         \/ p[1] # d /\ At(p)' = At(p)
         \/ /\ p[1] = d /\ p[2] \in 0..(QueueLength - 1)
            /\ \E q \in Places : q = <<d, p[2] + 1>> /\ At(p)' = At(q)
<1>1. QueueLength \in Nat \ {0}
  BY BusAssumption
<1>2. p[1] # d \/ (\E i \in 0..(QueueLength - 1) : p = <<d, i>>) \/ p = <<d, QueueLength>> \/ p = <<d, Last>>
  BY <1>1 DEF Places, Last
<1>3. ASSUME NEW i \in 0..(QueueLength - 1), p = <<d, i>>
      PROVE  /\ p[1] = d /\ p[2] = i
             /\ \E q \in Places : q = <<d, i + 1>> /\ At(p)' = At(q)
  <2>1. i + 1 \in 1..QueueLength
    BY <1>1
  <2>2. PICK q \in Places : q = <<d, i + 1>>
    BY <2>1, PlaceKinds
  <2> QED
    BY <1>3, <2>2, ReceiveAt
<1> QED
  BY <1>2, <1>3, ReceiveAt

LEMMA NextKeepsWhere ==
  ASSUME BusTypeOK, WhereInv, [Next]_vars
  PROVE  WhereInv'
<1>1. QueueLength \in Nat \ {0} /\ (\A t \in Task : <<t, Last>> \in Places) /\ \A m : Rightly(NoMsg, m)
  BY BusAssumption, PlaceKinds DEF Last, Rightly
<1> SUFFICES \A p \in Places : Rightly(At(p)', p)
  BY DEF WhereInv, Rightly, Sends, Target
<1>2. CASE UNCHANGED <<queue, cur, out>>
  BY <1>2, AtFrame DEF WhereInv
<1>3. ASSUME NEW d \in Dispatcher, Receive(d) PROVE \A p \in Places : Rightly(At(p)', p)
  <2> SUFFICES ASSUME NEW p \in Places PROVE Rightly(At(p)', p)
    OBVIOUS
  <2>1. CASE p[1] # d /\ At(p)' = At(p)
    BY <2>1 DEF WhereInv
  <2>2. ASSUME p[1] = d, p[2] \in 0..(QueueLength - 1), NEW q \in Places, q = <<d, p[2] + 1>>, At(p)' = At(q)
        PROVE  Rightly(At(p)', p)
    <3>1. q[1] = p[1] /\ q[2] # Last /\ p[2] # Last
      BY <1>1, <2>2 DEF Last
    <3> QED
      BY <2>2, <3>1 DEF WhereInv, Rightly
  <2> QED
    BY <1>1, <1>3, <2>1, <2>2, ReceiveFrom
<1>4. ASSUME NEW d \in Dispatcher, ReturnSilently(d) PROVE \A p \in Places : Rightly(At(p)', p)
  BY <1>1, <1>4, StepAt DEF WhereInv
<1>5. ASSUME NEW t \in Task, PutDone(t) PROVE \A p \in Places : Rightly(At(p)', p)
  <2>1. PICK d \in Dispatcher, n \in 1..QueueLength :
          /\ d = Target(out[t]) /\ At(<<t, Last>>)' = NoMsg /\ At(<<d, n>>)' = out[t]
          /\ \A p \in Places : p # <<t, Last>> /\ p # <<d, n>> => At(p)' = At(p)
    BY <1>5, PutAt
  <2>2. PICK m : m = out[t]
    OBVIOUS
  <2>3. Rightly(m, <<d, n>>)
    BY <1>1, <2>1, <2>2 DEF Rightly, Last
  <2> QED
    BY <1>1, <2>1, <2>2, <2>3 DEF WhereInv
<1>6. ASSUME NEW t \in Task, PutTimeout(t) PROVE \A p \in Places : Rightly(At(p)', p)
  BY <1>1, <1>6, StepAt DEF WhereInv
<1>7. ASSUME NEW d \in Dispatcher, NEW m, Free(d), ReturnPublishing(d, m), Sends(d, m)
      PROVE  \A p \in Places : Rightly(At(p)', p)
  <2>1. Rightly(m, <<d, Last>>)
    BY <1>7 DEF Rightly
  <2> QED
    BY <1>1, <1>7, <2>1, StepAt DEF WhereInv
<1>8. ASSUME NEW t \in Task \ Dispatcher, NEW m, CallPublish(t, m), Sends(t, m)
      PROVE  \A p \in Places : Rightly(At(p)', p)
  <2>1. Rightly(m, <<t, Last>>)
    BY <1>8 DEF Rightly
  <2> QED
    BY <1>1, <1>8, <2>1, StepAt DEF WhereInv
<1> QED
  BY <1>2, <1>3, <1>4, <1>5, <1>6, <1>7, <1>8, NextIsBusStep DEF BusStep

LEMMA InitWhere ==
  ASSUME Init
  PROVE  WhereInv
<1>1. \A p \in Places : At(p) = NoMsg
  <2>1. /\ cur = [d \in Dispatcher |-> NoMsg] /\ out = [t \in Task |-> NoMsg]
        /\ queue = [d \in Dispatcher |-> <<>>]
    BY DEF Init, BusInit
  <2>2. \A d \in Dispatcher, i \in 1..QueueLength : ~(i <= Len(queue[d]))
    BY <2>1
  <2> QED
    BY <2>1, <2>2, PlaceKinds, AtPlaces
<1> QED
  BY <1>1 DEF WhereInv, Rightly

-----------------------------------------------------------------------------
(* Notices that a socket is closed *)

Down(s) == tcp[s] \in {"dead", "closing"}

\* A notice is published for a socket that is down.
WatchInv ==
  /\ \A s \in watched : tcp[s] \in {"established", "dead"}
  /\ \A s \in Socket : out["iptask"] = Disconnected(s) => Down(s)

NoNotice(s) == \A i \in 0..QueueLength : At(<<"ipnet", i>>) # Disconnected(s)

\* What is to set up the session of c comes behind the notice in place i.
ComesBehind(c, i) ==
  \A p \in Places : SocketMsg(At(p)) /\ At(p).ctx = c => p[1] = "ipnet" /\ p[2] > i /\ ~IsLogin(At(p))

AllBehind(c, s) == \A i \in 0..QueueLength : At(<<"ipnet", i>>) = Disconnected(s) => ComesBehind(c, i)

\* When the socket of a client is up, a notice with its handle is about an
\* earlier socket, and what is to set up a session comes behind it.
NoticeInv ==
  \A c \in registered : \A s \in Socket : socketDb[c] = s /\ ~Down(s) =>
    /\ AllBehind(c, s)
    /\ session[c] # NoSession => NoNotice(s)

LEMMA OthersLeaveSockets ==
  ASSUME BusTypeOK, [Next]_vars, ~IpnetStep
  PROVE  UNCHANGED <<tcp, watched>> /\ (out'["iptask"] = out["iptask"] \/ out'["iptask"] = NoMsg)
<1>1. /\ \A d \in Dispatcher : \A m : ReturnPublishing(d, m) => out'["iptask"] = out["iptask"]
      /\ \A t \in {"timer", "cli"} : \A m : CallPublish(t, m) => out'["iptask"] = out["iptask"]
  BY DEF BusTypeOK, Task, Dispatcher, ReturnPublishing, CallPublish, Publish
<1>2. {"ipnet", "mqtt"} \subseteq Dispatcher
  BY DEF Dispatcher
<1>3. CASE Messaging
  BY <1>3 DEF Messaging, Put, PutDone, PutTimeout, Receive, BusTypeOK, Task, ipnetVars
<1>4. CASE MqttStep
  <2>1. CASE MqttHandler
    BY <1>1, <1>2, <2>1
    DEF MqttHandler, SessionAlloc, SessionSetup, BrokerAccepts, BrokerConnectFails, Subscribe, SubscribeFails,
        ProcessLoop, BrokerPing, Disconnect, ReturnSilently, busVars, ipnetVars
  <2>2. CASE MonitorHandler
    BY <1>1, <1>2, <2>2
    DEF MonitorHandler, MonitorDisconnected, MonitorActivity, Monitor, ReturnSilently, ipnetVars
  <2>3. CASE Tick \/ TickContinues \/ \E c \in Client : SubackArrives(c)
    BY <1>1, <2>3 DEF Tick, TickContinues, SubackArrives, busVars, ipnetVars
  <2> QED
    BY <1>4, <2>1, <2>2, <2>3 DEF MqttStep
<1>5. CASE AgentStep
  BY <1>1, <1>2, <1>5
  DEF AgentStep, IpnetStatusHandler, NotOurs, OnTcpConnected, OnTcpDown, RaiseTimer, TimerRefused,
      MqttStatusHandler, OnConnected, OnConnectFailed, OnSubscribed, OnSubscribeFailed, OnDisconnected,
      Request, AgentStopShutdown, BackoffEnds, BackoffFires, AgentStart, AgentStop, ReturnSilently, busVars, ipnetVars
<1> QED
  BY <1>3, <1>4, <1>5 DEF Next, Ended, vars, busVars, ipnetVars

LEMMA NextKeepsWatch ==
  ASSUME TypeOK, WatchInv, [Next]_vars
  PROVE  WatchInv'
<1>1. CASE IpnetStep
  <2>1. Free("iptask") => out["iptask"] = NoMsg
    BY DEF Free, Publishing
  <2>2. \A s : Disconnected(s) # NoMsg /\ \A cmd, u, ok, r : IpnetStatus(cmd, u, ok, r) # Disconnected(s) /\ RxTx(r) # Disconnected(s)
    BY DEF Disconnected, NoMsg, IpnetStatus, RxTx
  <2>3. CASE IpnetHandler
    <3>1. UNCHANGED busVars \/ \E m : ReturnPublishing("ipnet", m)
      BY <2>3 DEF IpnetHandler, TcpConnect, TcpConnectNoSocket, TcpConnectFails, TcpConnectReturns, TcpShutdown
    <3>2. out'["iptask"] = out["iptask"]
      BY <3>1 DEF TypeOK, BusTypeOK, ReturnPublishing, Publish, busVars, Dispatcher, Task
    <3>3. \A s \in watched' : tcp'[s] \in {"established", "dead"}
      BY <2>3
      DEF TypeOK, IpnetTypeOK, WatchInv, IpnetHandler, TcpConnect, TcpConnectNoSocket, TcpConnectFails,
          TcpConnectReturns, TcpShutdown, SocketFree, ipnetVars
    <3>4. \A s \in Socket : Down(s) => Down(s)'
      BY <2>3
      DEF TypeOK, IpnetTypeOK, Down, IpnetHandler, TcpConnect, TcpConnectNoSocket, TcpConnectFails,
          TcpConnectReturns, TcpShutdown, SocketFree, ipnetVars
    <3> QED
      BY <3>2, <3>3, <3>4 DEF WatchInv
  <2>4. CASE IpTaskStep
    <3>1. out["iptask"] = NoMsg
      BY <2>1, <2>4 DEF IpTaskStep, Established, PeerCloses, Traffic, WakeUp, CloseDone
    <3>2. \A s \in watched' : tcp'[s] \in {"established", "dead"}
      BY <2>4
      DEF TypeOK, IpnetTypeOK, WatchInv, IpTaskStep, Established, PeerCloses, Traffic, WakeUp, CloseDone
    <3>3. \/ out'["iptask"] = NoMsg
          \/ \E r \in Socket : out'["iptask"] = RxTx(r)
          \/ \E r \in watched : out'["iptask"] = Disconnected(r) /\ tcp[r] # "established" /\ UNCHANGED tcp
      BY <2>4, <3>1
      DEF TypeOK, BusTypeOK, IpTaskStep, Established, PeerCloses, Traffic, WakeUp, CloseDone, CallPublish, Publish,
          Task, busVars
    <3>4. \A s, r : Disconnected(s) = Disconnected(r) => s = r
      BY DEF Disconnected
    <3> QED
      BY <2>2, <3>2, <3>3, <3>4 DEF WatchInv, Down
  <2> QED
    BY <1>1, <2>3, <2>4 DEF IpnetStep
<1>2. CASE ~IpnetStep
  <2>1. UNCHANGED <<tcp, watched>> /\ (out'["iptask"] = out["iptask"] \/ out'["iptask"] = NoMsg)
    BY <1>2, OthersLeaveSockets DEF TypeOK
  <2>2. \A s : Disconnected(s) # NoMsg
    BY DEF Disconnected, NoMsg
  <2> QED
    BY <2>1, <2>2 DEF WatchInv, Down
<1> QED
  BY <1>1, <1>2

\* A socket comes up again only after it was closed.
LEMMA UpAfterClosing ==
  ASSUME TypeOK, [Next]_vars, NEW s \in Socket, Down(s), ~Down(s)'
  PROVE  tcp[s] = "closing"
<1>1. CASE IpnetStep
  BY <1>1
  DEF TypeOK, IpnetTypeOK, Down, IpnetStep, IpnetHandler, TcpConnect, TcpConnectNoSocket, TcpConnectFails,
      TcpConnectReturns, TcpShutdown, SocketFree, IpTaskStep, Established, PeerCloses, Traffic, WakeUp, CloseDone,
      ipnetVars
<1>2. CASE ~IpnetStep
  <2>1. UNCHANGED tcp
    BY <1>2, OthersLeaveSockets DEF TypeOK
  <2> QED
    BY <2>1 DEF Down
<1> QED
  BY <1>1, <1>2

LEMMA NoNoticeStays ==
  ASSUME BusTypeOK, WhereInv, BusStep, NEW s, out["iptask"] # Disconnected(s), NoNotice(s)
  PROVE  NoNotice(s)'
<1>1. QueueLength \in Nat \ {0} /\ Disconnected(s) # NoMsg
  BY BusAssumption DEF Disconnected, NoMsg
<1> SUFFICES ASSUME NEW i \in 0..QueueLength, At(<<"ipnet", i>>)' = Disconnected(s)
             PROVE  FALSE
  BY DEF NoNotice
<1>2. /\ <<"ipnet", i>> \in Places /\ i # Last
      /\ At(<<"ipnet", i>>) # Disconnected(s)
  BY <1>1 DEF NoNotice, Places, Dispatcher, Last
<1>3. CASE UNCHANGED <<queue, cur, out>>
  BY <1>2, <1>3, AtFrame
<1>4. ASSUME NEW d \in Dispatcher, Receive(d) PROVE FALSE
  <2>1. PICK p \in Places : p = <<"ipnet", i>>
    BY <1>2
  <2>2. PICK q \in Places : q = <<d, i + 1>> /\ At(p)' = At(q) /\ d = "ipnet" /\ i \in 0..(QueueLength - 1)
    BY <1>1, <1>2, <1>4, <2>1, ReceiveFrom
  <2> QED
    BY <1>1, <2>1, <2>2 DEF NoNotice
<1>5. ASSUME NEW d \in Dispatcher, ReturnSilently(d) PROVE FALSE
  BY <1>1, <1>2, <1>5, StepAt
<1>6. ASSUME NEW t \in Task, PutDone(t) PROVE FALSE
  <2>1. PICK d \in Dispatcher, n \in 1..QueueLength :
          /\ At(<<t, Last>>) = out[t] /\ At(<<t, Last>>)' = NoMsg /\ At(<<d, n>>)' = out[t]
          /\ \A p \in Places : p # <<t, Last>> /\ p # <<d, n>> => At(p)' = At(p)
    BY <1>6, PutAt
  <2>2. out[t] = Disconnected(s)
    BY <1>1, <1>2, <2>1
  <2>3. Sends(t, Disconnected(s))
    BY <1>1, <2>1, <2>2, PlaceKinds DEF WhereInv, Rightly, Last
  <2> QED
    BY <2>2, <2>3 DEF Sends, Disconnected
<1>7. ASSUME NEW t \in Task, PutTimeout(t) PROVE FALSE
  BY <1>1, <1>2, <1>7, StepAt
<1>8. ASSUME NEW d \in Dispatcher, NEW m, Free(d), ReturnPublishing(d, m) PROVE FALSE
  BY <1>1, <1>2, <1>8, StepAt
<1>9. ASSUME NEW t \in Task, NEW m, CallPublish(t, m) PROVE FALSE
  BY <1>1, <1>2, <1>9, StepAt
<1> QED
  BY <1>3, <1>4, <1>5, <1>6, <1>7, <1>8, <1>9 DEF BusStep

LEMMA AllBehindStays ==
  ASSUME BusTypeOK, WhereInv, BusStep, NEW c, NEW s, out["iptask"] # Disconnected(s), AllBehind(c, s)
  PROVE  AllBehind(c, s)'
<1>1. QueueLength \in Nat \ {0} /\ Disconnected(s) # NoMsg /\ ~SocketMsg(NoMsg)
  BY BusAssumption, MadeHandsOver DEF Disconnected, NoMsg
<1> SUFFICES ASSUME NEW i \in 0..QueueLength, At(<<"ipnet", i>>)' = Disconnected(s),
                    NEW p \in Places, SocketMsg(At(p)'), At(p)'.ctx = c
             PROVE  p[1] = "ipnet" /\ p[2] > i /\ ~IsLogin(At(p)')
  BY DEF AllBehind, ComesBehind, SocketMsg, IsLogin
<1>2. <<"ipnet", i>> \in Places /\ i # Last
  BY <1>1 DEF Places, Dispatcher, Last
<1>a. ASSUME At(<<"ipnet", i>>) = Disconnected(s), NEW q \in Places, At(p)' = At(q)
      PROVE  q[1] = "ipnet" /\ q[2] > i /\ ~IsLogin(At(q))
  BY <1>a DEF AllBehind, ComesBehind
<1>3. CASE UNCHANGED <<queue, cur, out>>
  BY <1>2, <1>3, <1>a, AtFrame
<1>4. ASSUME NEW d \in Dispatcher, Receive(d) PROVE p[1] = "ipnet" /\ p[2] > i /\ ~IsLogin(At(p)')
  <2>1. PICK r \in Places : r = <<"ipnet", i>>
    BY <1>2
  <2>2. CASE d # "ipnet"
    <3>1. At(r)' = At(r)
      BY <1>4, <2>1, <2>2, ReceiveAt
    <3>2. PICK q \in Places : At(p)' = At(q) /\ q[1] = p[1] /\ (q = p \/ p[1] = d)
      BY <1>1, <1>4, ReceiveFrom
    <3> QED
      BY <1>a, <2>1, <2>2, <3>1, <3>2
  <2>3. CASE d = "ipnet"
    <3>1. PICK q \in Places : q = <<d, i + 1>> /\ At(r)' = At(q) /\ i \in 0..(QueueLength - 1)
      BY <1>1, <1>2, <1>4, <2>1, <2>3, ReceiveFrom
    <3>2. i + 1 \in 0..QueueLength /\ At(<<"ipnet", i + 1>>) = Disconnected(s)
      BY <1>1, <2>1, <2>3, <3>1
    <3>3. ComesBehind(c, i + 1)
      BY <3>2 DEF AllBehind
    <3>4. \/ p[1] # d /\ At(p)' = At(p)
          \/ p[1] = d /\ p[2] \in 0..(QueueLength - 1) /\ \E u \in Places : u = <<d, p[2] + 1>> /\ At(p)' = At(u)
      BY <1>1, <1>4, ReceiveFrom
    <3> QED
      BY <2>3, <3>3, <3>4 DEF ComesBehind
  <2> QED
    BY <2>2, <2>3
<1>5. ASSUME NEW d \in Dispatcher, ReturnSilently(d) PROVE p[1] = "ipnet" /\ p[2] > i /\ ~IsLogin(At(p)')
  BY <1>1, <1>2, <1>5, <1>a, StepAt
<1>6. ASSUME NEW t \in Task, PutDone(t) PROVE p[1] = "ipnet" /\ p[2] > i /\ ~IsLogin(At(p)')
  <2>1. PICK d \in Dispatcher, n \in 1..QueueLength :
          /\ d = Target(out[t])
          /\ At(<<t, Last>>) = out[t] /\ At(<<t, Last>>)' = NoMsg /\ At(<<d, n>>)' = out[t]
          /\ \A q \in Places : q # <<t, Last>> /\ q # <<d, n>> => At(q)' = At(q)
          /\ \A j \in n..QueueLength : At(<<d, j>>) = NoMsg
    BY <1>6, PutAt
  <2>2. <<t, Last>> \in Places /\ (out[t] # NoMsg => Sends(t, out[t]))
    BY <2>1, PlaceKinds DEF WhereInv, Rightly, Last
  <2>3. out[t] # Disconnected(s)
    BY <1>1, <2>2 DEF Sends, Disconnected
  <2>4. At(<<"ipnet", i>>) = Disconnected(s)
    BY <1>1, <1>2, <2>1, <2>3
  <2>5. CASE p = <<d, n>>
    <3>1. SocketMsg(out[t]) /\ ~IsLogin(out[t]) /\ At(p)' = out[t]
      BY <1>a, <2>1, <2>2, <2>4, <2>5
    <3>2. d = "ipnet"
      BY <2>1, <3>1 DEF SocketMsg, IsLogin, Target
    <3>3. ~(i \in n..QueueLength)
      BY <1>1, <2>1, <2>4, <3>2
    <3> QED
      BY <2>5, <3>1, <3>2, <3>3
  <2>6. CASE p # <<d, n>>
    BY <1>1, <1>a, <2>1, <2>4, <2>6
  <2> QED
    BY <2>5, <2>6
<1>7. ASSUME NEW t \in Task, PutTimeout(t) PROVE p[1] = "ipnet" /\ p[2] > i /\ ~IsLogin(At(p)')
  BY <1>1, <1>2, <1>7, <1>a, StepAt
<1>8. ASSUME NEW d \in Dispatcher, NEW m, Free(d), ReturnPublishing(d, m), Sends(d, m), Continues(m)
      PROVE  p[1] = "ipnet" /\ p[2] > i /\ ~IsLogin(At(p)')
  <2>1. At(<<"ipnet", i>>) = Disconnected(s)
    BY <1>1, <1>2, <1>8, StepAt
  <2>2. CASE p = <<d, Last>>
    <3>1. At(p)' = m /\ SocketMsg(m) /\ m.ctx = c
      BY <1>8, <2>2, StepAt
    <3>2. ~IsLogin(m)
      <4>1. PICK q \in Places : q = <<"ipnet", 0>> /\ At(q) = cur["ipnet"]
        BY PlaceKinds, AtPlaces DEF Dispatcher
      <4>2. ~(SocketMsg(At(q)) /\ At(q).ctx = c)
        BY <2>1, <4>1 DEF AllBehind, ComesBehind
      <4> QED
        BY <1>8, <3>1, <4>1, <4>2 DEF Continues
    <3>3. d = "ipnet" /\ Last > i
      BY <1>1, <1>8, <3>1, <3>2 DEF SocketMsg, IsLogin, Sends, Last
    <3> QED
      BY <2>2, <3>1, <3>2, <3>3
  <2>3. CASE p # <<d, Last>>
    BY <1>1, <1>8, <1>a, <2>1, <2>3, StepAt
  <2> QED
    BY <2>2, <2>3
<1>9. ASSUME NEW t \in Task \ Dispatcher, NEW m, CallPublish(t, m), Sends(t, m)
      PROVE  p[1] = "ipnet" /\ p[2] > i /\ ~IsLogin(At(p)')
  <2>1. ~SocketMsg(m)
    BY <1>9 DEF SocketMsg, Sends, Dispatcher
  <2> QED
    BY <1>1, <1>2, <1>9, <1>a, <2>1, StepAt, ZenonT(40)
<1> QED
  BY <1>3, <1>4, <1>5, <1>6, <1>7, <1>8, <1>9 DEF BusStep

LEMMA NewSession ==
  ASSUME TypeOK, [Next]_vars, NEW c \in Client, session[c] = NoSession, session'[c] # NoSession
  PROVE  /\ UNCHANGED <<queue, cur, out>>
         /\ IsLogin(cur["mqtt"]) /\ cur["mqtt"].ctx = c
<1>1. CASE MqttHandler
  <2>1. MqttUser \in Client
    BY <1>1, MqttUserType
  <2>2. \A p : SetPhase(MqttUser, p) /\ session[MqttUser] # NoSession => session'[c] = session[c]
    BY <2>1 DEF SetPhase, TypeOK, MqttTypeOK
  <2>3. Delete(MqttUser) => session'[c] = session[c]
    BY <2>1 DEF Delete, TypeOK, MqttTypeOK
  <2>4. SessionAlloc
    BY <1>1, <2>1, <2>2, <2>3, NoSessionPhase
    DEF MqttHandler, SessionSetup, BrokerAccepts, BrokerConnectFails, Subscribe, SubscribeFails, ProcessLoop,
        BrokerPing, Disconnect, Sessions, mqttVars
  <2> QED
    BY <2>1, <2>4 DEF SessionAlloc, MqttHandling, Requested, Handling, MqttUser, IsLogin, busVars, TypeOK, MqttTypeOK
<1>2. CASE \E e \in Client : SubackArrives(e)
  BY <1>2, NoSessionPhase DEF SubackArrives, SetPhase, TypeOK, MqttTypeOK
<1>3. CASE ~MqttHandler /\ ~\E e \in Client : SubackArrives(e)
  BY <1>3
  DEF Next, Messaging, IpnetStep, MqttStep, MonitorHandler, MonitorDisconnected, MonitorActivity, Monitor, Tick,
      TickContinues, AgentStep, Ended, vars, mqttVars
<1> QED
  BY <1>1, <1>2, <1>3

\* A socket is registered for a client by the command to connect it.
LEMMA NewSocket ==
  ASSUME TypeOK, [Next]_vars, NEW c \in Client, socketDb'[c] # socketDb[c], socketDb'[c] # NULL
  PROVE  /\ cur["ipnet"].topic = "IPNET_EXECUTE_CMD" /\ cur["ipnet"].cmd = "TCP_CONNECT" /\ cur["ipnet"].ctx = c
         /\ UNCHANGED <<session, registered, tcp>>
<1>1. CASE IpnetStep
  <2>1. TcpConnectReturns /\ User \in Client
    BY <1>1, Handled
    DEF IpnetStep, IpnetHandler, TcpConnect, TcpConnectNoSocket, TcpConnectFails, TcpConnectReturns, TcpShutdown,
        Executing, Handling, User, IpTaskStep, Established, PeerCloses, Traffic, WakeUp, CloseDone, Dispatcher,
        ipnetVars, TypeOK, IpnetTypeOK
  <2> QED
    BY <1>1, <2>1
    DEF IpnetStep, TcpConnectReturns, Executing, Handling, User, TypeOK, IpnetTypeOK, mqttVars, agentVars
<1>2. CASE ~IpnetStep
  BY <1>2
  DEF Next, Messaging, MqttStep, MqttHandler, SessionAlloc, SessionSetup, BrokerAccepts, BrokerConnectFails, Subscribe,
      SubscribeFails, ProcessLoop, BrokerPing, Disconnect, MonitorHandler, MonitorDisconnected, MonitorActivity,
      Monitor, Tick, TickContinues, SubackArrives, AgentStep, Ended, vars, ipnetVars
<1> QED
  BY <1>1, <1>2

LEMMA NewClient ==
  ASSUME [Next]_vars, NEW c, c \in registered', c \notin registered
  PROVE  AgentStart(c) /\ UNCHANGED <<session, tcp, socketDb>>
<1>1. AgentStep
  BY DEF Next, Messaging, IpnetStep, MqttStep, Ended, vars, agentVars
<1>2. AgentStart(c)
  BY <1>1
  DEF AgentStep, IpnetStatusHandler, NotOurs, OnTcpConnected, OnTcpDown, RaiseTimer, TimerRefused,
      MqttStatusHandler, OnConnected, OnConnectFailed, OnSubscribed, OnSubscribeFailed, OnDisconnected,
      OnStatus, AgentStopShutdown, BackoffEnds, BackoffFires, AgentStart, AgentStop, agentVars
<1> QED
  BY <1>1, <1>2 DEF AgentStep, ipnetVars, mqttVars

LEMMA NextKeepsNotices ==
  ASSUME TypeOK, SocketInv, ConnectInv, StartedInv, OneInv, WhereInv, WatchInv, NoticeInv, [Next]_vars
  PROVE  NoticeInv'
<1> SUFFICES ASSUME NEW c \in Client, c \in registered', NEW s \in Socket, socketDb'[c] = s, ~Down(s)'
             PROVE  AllBehind(c, s)' /\ (session'[c] # NoSession => NoNotice(s)')
  BY NextType DEF NoticeInv, TypeOK, AgentTypeOK
<1>1. BusTypeOK /\ BusStep
  BY NextIsBusStep DEF TypeOK
<1>2. CASE socketDb[c] = s /\ c \in registered
  <2>1. tcp[s] # "closing"
    BY <1>2 DEF SocketInv, Custody
  <2>2. ~Down(s)
    BY <2>1, UpAfterClosing
  <2>3. out["iptask"] # Disconnected(s) /\ AllBehind(c, s) /\ (session[c] # NoSession => NoNotice(s))
    BY <1>2, <2>2 DEF WatchInv, NoticeInv
  <2>4. session'[c] # NoSession => NoNotice(s)
    <3> SUFFICES ASSUME session[c] = NoSession, session'[c] # NoSession PROVE NoNotice(s)
      BY <2>3
    <3>1. SocketMsg(cur["mqtt"]) /\ cur["mqtt"].ctx = c
      BY NewSession DEF SocketMsg, IsLogin
    <3>2. PICK p \in Places : p = <<"mqtt", 0>> /\ At(p) = cur["mqtt"]
      BY PlaceKinds, AtPlaces DEF Dispatcher
    <3> QED
      BY <2>3, <3>1, <3>2 DEF AllBehind, ComesBehind, NoNotice
  <2> QED
    BY <1>1, <2>3, <2>4, NoNoticeStays, AllBehindStays
<1>3. CASE ~(socketDb[c] = s /\ c \in registered)
  <2>1. /\ session'[c] = NoSession
        /\ \A p \in Places : ~(SocketMsg(At(p)) /\ At(p).ctx = c)
        /\ ~Down(s)
    <3>1. CASE c \notin registered
      <4>1. AgentStart(c) /\ UNCHANGED <<session, tcp>>
        BY <3>1, NewClient
      <4>2. c \notin started
        BY <4>1 DEF AgentStart
      <4> QED
        BY <4>1, <4>2 DEF StartedInv, MessagesStarted, SocketMsg, HasClient, Down
    <3>2. CASE c \in registered /\ socketDb[c] # s
      <4>1. /\ cur["ipnet"].topic = "IPNET_EXECUTE_CMD" /\ cur["ipnet"].ctx = c
            /\ UNCHANGED <<session, registered, tcp>>
        BY <3>2, NewSocket, BusAssumption
      <4> QED
        BY <3>2, <4>1, CommandIsAlone DEF OneInv, Down
    <3> QED
      BY <1>3, <3>1, <3>2
  <2>2. out["iptask"] # Disconnected(s) /\ AllBehind(c, s)
    BY <2>1 DEF WatchInv, AllBehind, ComesBehind
  <2> QED
    BY <1>1, <2>1, <2>2, AllBehindStays
<1> QED
  BY <1>2, <1>3

LEMMA OrderHolds ==
  Spec => [](TypeOK /\ SocketInv /\ OneInv /\ OnSocketInv /\ WhereInv /\ WatchInv /\ NoticeInv)
<1>1. Init => WhereInv /\ WatchInv /\ NoticeInv
  <2>1. \A s : Disconnected(s) # NoMsg
    BY DEF Disconnected, NoMsg
  <2> QED
    BY <2>1, InitWhere DEF Init, BusInit, IpnetInit, AgentInit, WatchInv, NoticeInv, Task
<1>2. TypeOK /\ ConnectInv /\ StartedInv /\ OneInv /\ SocketInv /\ WhereInv /\ WatchInv /\ NoticeInv /\ [Next]_vars
        => WhereInv' /\ WatchInv' /\ NoticeInv'
  BY NextKeepsWhere, NextKeepsWatch, NextKeepsNotices DEF TypeOK
<1> QED
  BY <1>1, <1>2, OneHolds, SocketHolds, PTL DEF Spec

\* A session of a registered client whose socket is connected never meets the
\* notice that this socket is closed: mqtt_socket_monitor_io, which knows a
\* session by its handle alone, does not end the session on a later socket.
THEOREM NoStaleNotice == Spec => []NoticesAreCurrent
<1>1. TypeOK /\ OnSocketInv /\ WhereInv /\ WatchInv /\ NoticeInv => NoticesAreCurrent
  <2> SUFFICES ASSUME TypeOK, OnSocketInv, WhereInv, WatchInv, NoticeInv,
                      NEW c \in registered \cap Sessions, Disconnected(session[c].socket) \in InFlight,
                      tcp[session[c].socket] = "established"
               PROVE  FALSE
    BY DEF NoticesAreCurrent
  <2>1. PICK s \in Socket : s = session[c].socket /\ socketDb[c] = s /\ ~Down(s)
    BY DEF OnSocketInv, OnSocket, Sessions, Down, TypeOK, MqttTypeOK
  <2>2. NoNotice(s) /\ out["iptask"] # Disconnected(s)
    BY <2>1 DEF NoticeInv, WatchInv, Sessions
  <2>3. PICK p \in Places : At(p) = Disconnected(s)
    BY <2>1, InFlightPlaces DEF TypeOK
  <2>4. Disconnected(s) # NoMsg /\ Target(Disconnected(s)) = "ipnet" /\ \A t : Sends(t, Disconnected(s)) => t = "iptask"
    BY DEF Disconnected, NoMsg, Target, Sends
  <2>5. CASE p[2] = Last
    <3>1. p = <<"iptask", QueueLength + 1>>
      BY <2>3, <2>4, <2>5 DEF WhereInv, Rightly, Places, Last
    <3> QED
      BY <2>2, <2>3, <3>1, AtPlaces DEF Task
  <2>6. CASE p[2] # Last
    <3>1. \E i \in 0..QueueLength : p = <<"ipnet", i>>
      BY <2>3, <2>4, <2>6 DEF WhereInv, Rightly, Places, Last
    <3> QED
      BY <2>2, <2>3, <3>1 DEF NoNotice
  <2> QED
    BY <2>5, <2>6
<1> QED
  BY <1>1, OrderHolds, PTL

-----------------------------------------------------------------------------
(* Stopped clients *)

\* What begins the use of a service by a client, what ends it and what is left of
\* it in between: the commands go to one dispatcher.
IsHangUp(m)       == m.topic = "IPNET_EXECUTE_CMD" /\ m.cmd = "TCP_SHUTDOWN"
Begins(d, c, m)   == (IF d = "mqtt" THEN IsLogin(m) ELSE IsDial(m)) /\ m.ctx = c
Finishes(d, c, m) == (IF d = "mqtt" THEN IsQuit(m) ELSE IsHangUp(m)) /\ m.ctx = c
Uses(d, c)        == IF d = "mqtt" THEN session[c] # NoSession ELSE socketDb[c] # NULL

\* The message in q is handled after the one in p: it is behind it in the queue,
\* or still with the dispatcher of the console, which runs when the task that
\* publishes the other one cannot.
HandledAfter(q, p) ==
  IF p[2] = Last THEN p[1] \in {"ipnet", "timer"} /\ q = <<"cli", Last>> ELSE q[2] > p[2]

FinishBehind(d, c, p) == \E q \in Places : Finishes(d, c, At(q)) /\ HandledAfter(q, p)

\* Whatever a stopped client has or is about to get is ended by a command that is
\* under way.
Cleared(d, c) ==
  /\ Uses(d, c) => \E q \in Places : Finishes(d, c, At(q))
  /\ \A p \in Places : Begins(d, c, At(p)) => FinishBehind(d, c, p)

StopInv ==
  \A c \in started \ (registered \cup lost) : ~crashed =>
    /\ Cleared("mqtt", c)
    /\ stopping # c => Cleared("ipnet", c)

LEMMA UseKinds ==
  ASSUME NEW d \in Dispatcher, NEW c, NEW m, NEW u
  PROVE  /\ ~Begins(d, c, NoMsg) /\ ~Finishes(d, c, NoMsg)
         /\ ~(Begins(d, c, m) /\ Finishes(d, c, m))
         /\ Begins(d, c, m) \/ Finishes(d, c, m) => Target(m) = d /\ MovesClient(m) /\ m.ctx = c
         /\ Begins(d, c, m) /\ Sends(u, m) => u \in {"ipnet", "timer", "cli"}
         /\ Begins(d, c, m) /\ Sends(u, m) /\ u \in Dispatcher => d = "mqtt" /\ u = "ipnet"
  BY DEF Begins, Finishes, IsLogin, IsDial, IsQuit, IsHangUp, NoMsg, Target, MovesClient, Sends, Dispatcher

LEMMA PlaceNumbers ==
  ASSUME NEW p \in Places
  PROVE  /\ p = <<p[1], p[2]>> /\ p[2] \in 0..Last /\ p[1] \in Task
         /\ p[2] # Last => p[1] \in Dispatcher /\ p[2] \in 0..QueueLength /\ p[2] < Last
  BY BusAssumption DEF Places, Last, Task

\* A client gets a session or a socket by the command that begins the use, and
\* has none when the command that ends it has been handled.
LEMMA UseBegins ==
  ASSUME TypeOK, [Next]_vars, NEW d \in Dispatcher, NEW c \in Client, ~Uses(d, c), Uses(d, c)'
  PROVE  Begins(d, c, cur[d])
<1>1. CASE d = "mqtt"
  BY <1>1, NewSession DEF Uses, Begins
<1>2. CASE d = "ipnet"
  BY <1>2, NewSocket DEF Uses, Begins, IsDial
<1> QED
  BY <1>1, <1>2 DEF Dispatcher

LEMMA UseFinishes ==
  ASSUME TypeOK, [Next]_vars, NEW d \in Dispatcher, NEW c \in Client, Finishes(d, c, cur[d]), Uses(d, c)'
  PROVE  cur'[d] = cur[d]
<1>1. BusTypeOK /\ {"ipnet", "mqtt"} \subseteq Dispatcher /\ "ipnet" # "mqtt"
      /\ cur \in [Dispatcher -> Msg \cup {NoMsg}]
  BY DEF TypeOK, BusTypeOK, Dispatcher, Msg
<1>2. cur[d] # NoMsg /\ cur[d].topic \in {"IPNET_EXECUTE_CMD", "MQTT_EXECUTE_CMD"}
  BY UseKinds DEF Finishes, IsQuit, IsHangUp
<1>3. \A e \in Dispatcher : e # d =>
        /\ \A m : ReturnPublishing(e, m) => cur'[d] = cur[d]
        /\ ReturnSilently(e) => cur'[d] = cur[d]
        /\ Receive(e) => cur'[d] = cur[d]
  BY <1>1 DEF ReturnPublishing, ReturnSilently, Receive
<1>4. ~Receive(d)
  BY <1>2 DEF Receive
<1>5. CASE Messaging
  BY <1>3, <1>4, <1>5 DEF Messaging, Put, PutDone, PutTimeout
<1>6. CASE IpnetStep
  <2>1. CASE d = "mqtt"
    BY <1>1, <1>3, <1>6, <2>1
    DEF IpnetStep, IpnetHandler, TcpConnect, TcpConnectNoSocket, TcpConnectFails, TcpConnectReturns, TcpShutdown,
        IpTaskStep, Established, PeerCloses, Traffic, WakeUp, CloseDone, CallPublish, busVars
  <2>2. CASE d = "ipnet"
    <3>1. cur["ipnet"].topic = "IPNET_EXECUTE_CMD" /\ cur["ipnet"].cmd = "TCP_SHUTDOWN" /\ cur["ipnet"].ctx = c
      BY <2>2 DEF Finishes, IsHangUp
    <3>2. CASE IpnetHandler
      <4>1. TcpShutdown
        BY <3>1, <3>2
        DEF IpnetHandler, TcpConnect, TcpConnectNoSocket, TcpConnectFails, TcpConnectReturns, Executing, Handling
      <4> QED
        BY <2>2, <3>1, <4>1 DEF TcpShutdown, User, Uses, TypeOK, IpnetTypeOK
    <3>3. CASE IpTaskStep
      BY <2>2, <3>3 DEF IpTaskStep, Established, PeerCloses, Traffic, WakeUp, CloseDone, CallPublish, busVars
    <3> QED
      BY <1>6, <3>2, <3>3 DEF IpnetStep
  <2> QED
    BY <2>1, <2>2 DEF Dispatcher
<1>7. CASE MqttStep
  <2>1. CASE MqttHandler
    <3>1. CASE d = "ipnet"
      BY <1>1, <1>3, <2>1, <3>1
      DEF MqttHandler, SessionAlloc, SessionSetup, BrokerAccepts, BrokerConnectFails, Subscribe, SubscribeFails,
          ProcessLoop, BrokerPing, Disconnect, busVars
    <3>2. CASE d = "mqtt"
      <4>1. cur["mqtt"].topic = "MQTT_EXECUTE_CMD" /\ cur["mqtt"].cmd = "DISCONNECT" /\ cur["mqtt"].ctx = c
        BY <3>2 DEF Finishes, IsQuit
      <4>2. Disconnect
        BY <2>1, <4>1
        DEF MqttHandler, SessionAlloc, SessionSetup, BrokerAccepts, BrokerConnectFails, Subscribe, SubscribeFails,
            ProcessLoop, BrokerPing, MqttHandling, Requested, Handling
      <4> QED
        BY <3>2, <4>1, <4>2 DEF Disconnect, Delete, MqttUser, Sessions, Uses, TypeOK, MqttTypeOK
    <3> QED
      BY <3>1, <3>2 DEF Dispatcher
  <2>2. CASE MonitorHandler
    <3>1. cur["ipnet"].topic \in {"IPNET_SOCKET_DISCONNECTED", "IPNET_SOCKET_RXTX_ACTIVITY"}
      BY <2>2 DEF MonitorHandler, MonitorDisconnected, MonitorActivity, Monitor
    <3>2. d # "ipnet"
      BY <1>2, <3>1
    <3> QED
      BY <1>1, <1>3, <2>2, <3>2 DEF MonitorHandler, MonitorDisconnected, MonitorActivity, Monitor
  <2>3. CASE Tick \/ TickContinues \/ \E e \in Client : SubackArrives(e)
    BY <2>3 DEF Tick, TickContinues, SubackArrives, CallPublish, busVars
  <2> QED
    BY <1>7, <2>1, <2>2, <2>3 DEF MqttStep
<1>8. CASE AgentStep
  <2>1. CASE IpnetStatusHandler
    <3>1. cur["ipnet"].topic = "IPNET_CMD_STATUS"
      BY <2>1 DEF IpnetStatusHandler, NotOurs, OnTcpConnected, OnTcpDown, Completed, Handling
    <3>2. d # "ipnet"
      BY <1>2, <3>1
    <3> QED
      BY <1>1, <1>3, <2>1, <3>2 DEF IpnetStatusHandler, NotOurs, OnTcpConnected, OnTcpDown, RaiseTimer, TimerRefused
  <2>2. CASE MqttStatusHandler
    <3>1. cur["mqtt"].topic = "MQTT_CMD_STATUS"
      BY <2>2 DEF MqttStatusHandler, OnConnected, OnConnectFailed, OnSubscribed, OnSubscribeFailed, OnDisconnected,
                  OnStatus, Handling
    <3>2. d # "mqtt"
      BY <1>2, <3>1
    <3> QED
      BY <1>1, <1>3, <2>2, <3>2
      DEF MqttStatusHandler, OnConnected, OnConnectFailed, OnSubscribed, OnSubscribeFailed, OnDisconnected, Request
  <2>3. CASE AgentStopShutdown \/ \E e \in Client : BackoffEnds(e) \/ AgentStart(e) \/ AgentStop(e)
    BY <2>3 DEF AgentStopShutdown, BackoffEnds, BackoffFires, AgentStart, AgentStop, CallPublish, busVars
  <2> QED
    BY <1>8, <2>1, <2>2, <2>3 DEF AgentStep
<1>9. CASE Ended \/ UNCHANGED vars
  BY <1>9 DEF Ended, vars, busVars
<1> QED
  BY <1>5, <1>6, <1>7, <1>8, <1>9 DEF Next

LEMMA PlacesInFlight ==
  ASSUME BusTypeOK, NEW p \in Places
  PROVE  At(p) \in InFlight \/ At(p) = NoMsg
<1>1. CASE \E d \in Dispatcher : p = <<d, 0>>
  BY <1>1, AtPlaces DEF InFlight
<1>2. CASE \E t \in Task : p = <<t, QueueLength + 1>>
  BY <1>2, AtPlaces DEF InFlight
<1>3. ASSUME NEW d \in Dispatcher, NEW i \in 1..QueueLength, p = <<d, i>>, At(p) # NoMsg PROVE At(p) \in InFlight
  <2>1. i <= Len(queue[d]) /\ At(p) = queue[d][i]
    BY <1>3, AtPlaces
  <2>2. i \in 1..Len(queue[d])
    BY <2>1 DEF BusTypeOK
  <2> QED
    BY <2>1, <2>2 DEF InFlight
<1> QED
  BY <1>1, <1>2, <1>3, PlaceKinds

\* How a step must treat the messages for the use of the service to stay cleared.
Finished(d, c) ==
  \A q \in Places : Finishes(d, c, At(q)) =>
    \/ q = <<d, 0>> /\ At(q)' # At(q)
    \/ \E r \in Places : Finishes(d, c, At(r)')

StillBehind(d, c) ==
  \A p \in Places : Begins(d, c, At(p)') =>
    \E q \in Places : Finishes(d, c, At(q)') /\ HandledAfter(q, p)

\* A step that moves no message, begins nothing for c and takes away at most the
\* command that ends the use when it has been handled.
LEMMA OthersStay ==
  ASSUME NEW d \in Dispatcher, NEW c, Cleared(d, c),
         \A p \in Places :
           \/ At(p)' = At(p)
           \/ ~Begins(d, c, At(p)') /\ (Finishes(d, c, At(p)) => p = <<d, 0>>)
  PROVE  Finished(d, c) /\ StillBehind(d, c)
<1>1. Finished(d, c)
  BY DEF Finished
<1>2. ASSUME NEW p \in Places, Begins(d, c, At(p)')
      PROVE  \E q \in Places : Finishes(d, c, At(q)') /\ HandledAfter(q, p)
  <2>1. Begins(d, c, At(p))
    BY <1>2
  <2>2. PICK q \in Places : Finishes(d, c, At(q)) /\ HandledAfter(q, p)
    BY <2>1 DEF Cleared, FinishBehind
  <2>3. q # <<d, 0>>
    <3>1. p[2] \in 0..Last /\ Last \in Nat \ {0}
      BY PlaceNumbers, BusAssumption DEF Last
    <3> QED
      BY <2>2, <3>1 DEF HandledAfter
  <2> QED
    BY <2>2, <2>3
<1> QED
  BY <1>1, <1>2 DEF StillBehind

LEMMA ReceiveKeepsBehind ==
  ASSUME BusTypeOK, WhereInv, NEW d \in Dispatcher, NEW c, Cleared(d, c), NEW e \in Dispatcher, Receive(e)
  PROVE  Finished(d, c) /\ StillBehind(d, c)
<1>1. QueueLength \in Nat \ {0} /\ Last = QueueLength + 1
  BY BusAssumption DEF Last
<1>2. ASSUME NEW q \in Places, Finishes(d, c, At(q)) \/ Begins(d, c, At(q))
      PROVE  q[2] = Last \/ q[1] = d
  BY <1>2, UseKinds DEF WhereInv, Rightly
<1>3. ASSUME NEW q \in Places, Finishes(d, c, At(q))
      PROVE  \E r \in Places : /\ At(r)' = At(q)
                               /\ \/ r = q
                                  \/ e = d /\ q[1] = d /\ q[2] \in 1..QueueLength /\ r = <<d, q[2] - 1>>
  <2>1. CASE q[1] # e
    BY <2>1, ReceiveAt
  <2>2. CASE q[1] = e
    <3>1. q = <<e, q[2]>> /\ At(q) # NoMsg /\ q[2] \in 0..Last
      BY <1>3, <2>2, UseKinds, PlaceNumbers
    <3>2. q[2] \in 1..QueueLength /\ e = d
      <4>1. At(<<e, 0>>) = NoMsg /\ At(<<e, Last>>) = NoMsg
        BY ReceiveAt
      <4>2. q[2] # 0 /\ q[2] # Last
        BY <3>1, <4>1
      <4>3. q[1] = d
        BY <1>2, <1>3, <4>2
      <4> QED
        BY <1>1, <2>2, <3>1, <4>2, <4>3
    <3>3. PICK i \in 0..(QueueLength - 1) : q[2] = i + 1
      BY <1>1, <3>2
    <3>4. <<e, i>> \in Places
      BY <1>1, PlaceKinds
    <3>5. At(<<e, i>>)' = At(q)
      BY <3>1, <3>3, ReceiveAt
    <3>6. i = q[2] - 1
      BY <1>1, <3>3
    <3> QED
      BY <2>2, <3>2, <3>4, <3>5, <3>6
  <2> QED
    BY <2>1, <2>2
<1>4. Finished(d, c)
  BY <1>3 DEF Finished
<1>5. ASSUME NEW p \in Places, Begins(d, c, At(p)')
      PROVE  \E q \in Places : Finishes(d, c, At(q)') /\ HandledAfter(q, p)
  <2>1. CASE At(p)' = At(p) /\ p[1] # e
    <3>1. PICK q \in Places : Finishes(d, c, At(q)) /\ HandledAfter(q, p)
      BY <1>5, <2>1 DEF Cleared, FinishBehind
    <3>2. PICK r \in Places : /\ At(r)' = At(q)
                              /\ \/ r = q
                                 \/ e = d /\ q[1] = d /\ q[2] \in 1..QueueLength /\ r = <<d, q[2] - 1>>
      BY <1>3, <3>1
    <3>3. r = q
      <4>1. p[2] = Last \/ p[1] = d
        BY <1>2, <1>5, <2>1
      <4>2. p[2] = Last => q = <<"cli", Last>>
        BY <3>1 DEF HandledAfter
      <4> QED
        BY <1>1, <2>1, <3>2, <4>1, <4>2
    <3> QED
      BY <3>1, <3>2, <3>3
  <2>2. CASE p[1] = e /\ p[2] \in 0..(QueueLength - 1) /\ \E u \in Places : u = <<e, p[2] + 1>> /\ At(p)' = At(u)
    <3>1. PICK u \in Places : u = <<e, p[2] + 1>> /\ At(p)' = At(u)
      BY <2>2
    <3>2. u[2] # Last /\ u[2] = p[2] + 1 /\ u[1] = e /\ e = d
      <4>1. u[2] # Last /\ u[2] = p[2] + 1 /\ u[1] = e
        BY <1>1, <2>2, <3>1
      <4> QED
        BY <1>2, <1>5, <3>1, <4>1
    <3>3. PICK q \in Places : Finishes(d, c, At(q)) /\ q[2] > u[2]
      BY <1>5, <3>1, <3>2 DEF Cleared, FinishBehind, HandledAfter
    <3>4. PICK r \in Places : /\ At(r)' = At(q)
                              /\ \/ r = q
                                 \/ e = d /\ q[1] = d /\ q[2] \in 1..QueueLength /\ r = <<d, q[2] - 1>>
      BY <1>3, <3>3
    <3>5. q[2] \in 0..Last
      BY PlaceNumbers
    <3>6. r[2] > p[2] /\ p[2] # Last
      BY <1>1, <2>2, <3>2, <3>3, <3>4, <3>5
    <3> QED
      BY <3>3, <3>4, <3>6 DEF HandledAfter
  <2>3. At(p)' # NoMsg
    BY <1>5, UseKinds
  <2> QED
    BY <2>1, <2>2, <2>3, ReceiveFrom
<1> QED
  BY <1>4, <1>5 DEF StillBehind

\* The console does not put its message before a task above it has put its own.
LEMMA PutKeepsBehind ==
  ASSUME ConsoleBelow, BusTypeOK, WhereInv, NEW d \in Dispatcher, NEW c, Cleared(d, c), NEW t \in Task, PutDone(t)
  PROVE  Finished(d, c) /\ StillBehind(d, c)
<1>1. QueueLength \in Nat \ {0} /\ Last = QueueLength + 1
  BY BusAssumption DEF Last
<1>2. PICK e \in Dispatcher, n \in 1..QueueLength :
        /\ e = Target(out[t])
        /\ At(<<t, Last>>) = out[t] /\ out[t] # NoMsg /\ At(<<t, Last>>)' = NoMsg
        /\ At(<<e, n>>)' = out[t]
        /\ \A p \in Places : p # <<t, Last>> /\ p # <<e, n>> => At(p)' = At(p)
        /\ \A i \in n..QueueLength : At(<<e, i>>) = NoMsg
  BY PutAt
<1>3. PICK m : m = out[t]
  OBVIOUS
<1>4. PICK from \in Places : from = <<t, Last>> /\ At(from) = m /\ At(from)' = NoMsg
  BY <1>1, <1>2, <1>3, PlaceKinds
<1>5. PICK to \in Places : to = <<e, n>> /\ At(to) = NoMsg /\ At(to)' = m
  BY <1>1, <1>2, <1>3, PlaceKinds
<1>6. \A p \in Places : p # from /\ p # to => At(p)' = At(p)
  BY <1>2, <1>4, <1>5
<1>7. ASSUME NEW q \in Places, Finishes(d, c, At(q))
      PROVE  \E r \in Places : At(r)' = At(q) /\ (r = q \/ (q = from /\ r = to /\ e = d))
  <2>1. CASE q = from
    BY <1>2, <1>3, <1>4, <1>5, <1>7, <2>1, UseKinds
  <2>2. CASE q # from
    <3>1. q # to
      BY <1>5, <1>7, UseKinds
    <3> QED
      BY <1>6, <2>2, <3>1
  <2> QED
    BY <2>1, <2>2
<1>8. Finished(d, c)
  BY <1>7 DEF Finished
<1>9. ASSUME NEW p \in Places, Begins(d, c, At(p)')
      PROVE  \E q \in Places : Finishes(d, c, At(q)') /\ HandledAfter(q, p)
  <2>1. CASE p = to
    <3>1. Begins(d, c, At(from))
      BY <1>4, <1>5, <1>9, <2>1
    <3>2. PICK q \in Places : Finishes(d, c, At(q)) /\ HandledAfter(q, from)
      BY <3>1 DEF Cleared, FinishBehind
    <3>3. q = <<"cli", Last>> /\ q # from
      BY <1>4, <3>2 DEF HandledAfter
    <3>4. At(q)' = At(q)
      BY <1>7, <3>2, <3>3
    <3>5. p[2] = n /\ n # Last /\ q[2] > n
      BY <1>1, <1>5, <2>1, <3>3
    <3> QED
      BY <3>2, <3>4, <3>5 DEF HandledAfter
  <2>2. CASE p # to
    <3>1. Begins(d, c, At(p)) /\ p # from
      BY <1>4, <1>6, <1>9, <2>2, UseKinds
    <3>2. PICK q \in Places : Finishes(d, c, At(q)) /\ HandledAfter(q, p)
      BY <3>1 DEF Cleared, FinishBehind
    <3>3. PICK r \in Places : At(r)' = At(q) /\ (r = q \/ (q = from /\ r = to /\ e = d))
      BY <1>7, <3>2
    <3>4. CASE r = q
      BY <3>2, <3>3, <3>4
    <3>5. CASE q = from /\ r = to /\ e = d
      <4>1. CASE p[2] = Last
        <5>1. t = "cli" /\ p[1] \in {"ipnet", "timer"}
          BY <1>4, <3>2, <3>5, <4>1 DEF HandledAfter
        <5>2. out[p[1]] = At(p) /\ p[1] \in Task
          BY <4>1, <1>1, PlaceNumbers, AtPlaces
        <5>3. out[p[1]] # NoMsg /\ Target(out[p[1]]) = d
          BY <3>1, <5>2, UseKinds
        <5>4. Ready(p[1])
          BY <1>2, <3>5, <5>3 DEF PutDone, Ready, Publishing
        <5>5. Prio[p[1]] > Prio["cli"]
          BY <5>1, <5>2, BusAssumption DEF ConsoleBelow, Task
        <5> QED
          BY <5>1, <5>2, <5>4, <5>5 DEF PutDone, MayRun
      <4>2. CASE p[2] # Last
        <5>1. p[1] = d /\ p = <<d, p[2]>> /\ p[2] \in 0..QueueLength
          BY <3>1, <4>2, UseKinds, PlaceNumbers DEF WhereInv, Rightly
        <5>2. At(p) # NoMsg
          BY <3>1, UseKinds
        <5>3. ~(p[2] \in n..QueueLength)
          BY <1>2, <3>5, <5>1, <5>2
        <5>4. r[2] > p[2]
          BY <1>1, <1>5, <3>5, <5>1, <5>3
        <5> QED
          BY <3>2, <3>3, <4>2, <5>4 DEF HandledAfter
      <4> QED
        BY <4>1, <4>2
    <3> QED
      BY <3>3, <3>4, <3>5
  <2> QED
    BY <2>1, <2>2
<1> QED
  BY <1>8, <1>9 DEF StillBehind

LEMMA ClearedStays ==
  ASSUME ConsoleBelow, TypeOK, WhereInv, [Next]_vars, NEW d \in Dispatcher, NEW c \in Client, Cleared(d, c),
         c \notin registered', c \notin lost'
  PROVE  Cleared(d, c)'
<1>1. BusTypeOK /\ BusStep /\ QueueLength \in Nat \ {0}
  BY NextIsBusStep, BusAssumption DEF TypeOK
<1>2. Finished(d, c) /\ StillBehind(d, c)
  <2> DEFINE Kept(p) == \/ At(p)' = At(p)
                        \/ ~Begins(d, c, At(p)') /\ (Finishes(d, c, At(p)) => p = <<d, 0>>)
  <2>1. (\A p \in Places : Kept(p)) => Finished(d, c) /\ StillBehind(d, c)
    BY OthersStay
  <2>2. ~Begins(d, c, NoMsg) /\ ~Finishes(d, c, NoMsg)
    BY UseKinds
  <2>3. ASSUME NEW e \in Dispatcher, Finishes(d, c, At(<<e, 0>>)) PROVE e = d
    <3>1. PICK p \in Places : p = <<e, 0>>
      BY PlaceKinds
    <3>2. Last # 0 /\ At(p) # NoMsg /\ Target(At(p)) = d
      BY <1>1, <2>3, <3>1, UseKinds DEF Last
    <3> QED
      BY <3>1, <3>2 DEF WhereInv, Rightly
  <2>4. CASE UNCHANGED <<queue, cur, out>>
    BY <2>1, <2>4, AtFrame
  <2>5. ASSUME NEW e \in Dispatcher, Receive(e) PROVE Finished(d, c) /\ StillBehind(d, c)
    BY <1>1, <2>5, ReceiveKeepsBehind
  <2>6. ASSUME NEW e \in Dispatcher, ReturnSilently(e) PROVE \A p \in Places : Kept(p)
    BY <1>1, <2>2, <2>3, <2>6, StepAt
  <2>7. ASSUME NEW t \in Task, PutDone(t) PROVE Finished(d, c) /\ StillBehind(d, c)
    BY <1>1, <2>7, PutKeepsBehind
  <2>8. ASSUME NEW t \in Task, PutTimeout(t) PROVE \A p \in Places : Kept(p)
    <3>1. /\ <<t, Last>> \in Places /\ At(<<t, Last>>)' = NoMsg /\ At(<<t, Last>>) = out[t]
          /\ \A p \in Places : p # <<t, Last>> => At(p)' = At(p)
      BY <1>1, <2>8, StepAt, AtPlaces DEF Last
    <3>2. ~Finishes(d, c, out[t])
      BY <2>8, UseKinds DEF PutTimeout
    <3> QED
      BY <2>2, <3>1, <3>2
  <2>9. ASSUME NEW e \in Dispatcher, NEW m, Free(e), ReturnPublishing(e, m), Sends(e, m), Continues(m)
        PROVE  \A p \in Places : Kept(p)
    <3>1. ~Begins(d, c, m)
      <4> SUFFICES ASSUME Begins(d, c, m) PROVE FALSE
        OBVIOUS
      <4>1. d = "mqtt"
        BY <2>9, UseKinds
      <4> QED
        BY <2>9, <4>1 DEF Continues, Begins
    <3>2. /\ At(<<e, 0>>)' = NoMsg /\ At(<<e, Last>>) = NoMsg /\ At(<<e, Last>>)' = m
          /\ \A p \in Places : p # <<e, 0>> /\ p # <<e, Last>> => At(p)' = At(p)
      BY <1>1, <2>9, StepAt
    <3> QED
      BY <2>2, <2>3, <3>1, <3>2
  <2>10. ASSUME NEW t \in Task \ Dispatcher, NEW m, CallPublish(t, m), Sends(t, m), Spares(m)
         PROVE  \A p \in Places : Kept(p)
    <3>1. ~Begins(d, c, m)
      BY <2>10 DEF Begins, Sends, Spares, IsLogin, IsDial, Dispatcher
    <3>2. /\ At(<<t, Last>>) = NoMsg /\ At(<<t, Last>>)' = m
          /\ \A p \in Places : p # <<t, Last>> => At(p)' = At(p)
      BY <1>1, <2>10, StepAt
    <3> QED
      BY <2>2, <3>1, <3>2
  <2> HIDE DEF Kept
  <2> QED
    BY <1>1, <2>1, <2>4, <2>5, <2>6, <2>7, <2>8, <2>9, <2>10 DEF BusStep
<1>3. ASSUME Uses(d, c)' PROVE \E q \in Places : Finishes(d, c, At(q)')
  <2>1. <<d, 0>> \in Places /\ At(<<d, 0>>) = cur[d] /\ At(<<d, 0>>)' = cur'[d]
    BY PlaceKinds, AtPlaces
  <2>2. PICK q \in Places : Finishes(d, c, At(q)) /\ (q = <<d, 0>> => At(q)' = At(q))
    <3>1. CASE Uses(d, c)
      <4>1. PICK q \in Places : Finishes(d, c, At(q))
        BY <3>1 DEF Cleared
      <4> QED
        BY <1>3, <2>1, <4>1, UseFinishes
    <3>2. CASE ~Uses(d, c)
      <4>1. PICK p \in Places : p = <<d, 0>> /\ Begins(d, c, At(p))
        BY <1>3, <2>1, <3>2, UseBegins
      <4>2. PICK q \in Places : Finishes(d, c, At(q)) /\ HandledAfter(q, p)
        BY <4>1 DEF Cleared, FinishBehind
      <4>3. q # p
        BY <4>1, <4>2, UseKinds
      <4> QED
        BY <4>1, <4>2, <4>3
    <3> QED
      BY <3>1, <3>2
  <2> QED
    BY <1>2, <2>2 DEF Finished
<1> QED
  BY <1>2, <1>3
  DEF Cleared, FinishBehind, StillBehind, Finishes, Begins, IsQuit, IsHangUp, IsLogin, IsDial, HandledAfter, Last

\* adp_mqtt_agent_stop requests the end behind everything under way.
LEMMA FinishRequested ==
  ASSUME TypeOK, WhereInv, NEW d \in Dispatcher, NEW c, NEW m, Finishes(d, c, m), CallPublish("cli", m)
  PROVE  Cleared(d, c)'
<1>1. /\ BusTypeOK /\ "cli" \in Task /\ "cli" \notin Dispatcher
  BY DEF TypeOK, Task, Dispatcher
<1>2. PICK q \in Places : /\ q = <<"cli", Last>> /\ At(q)' = m
                          /\ \A p \in Places : p # q => At(p)' = At(p)
  BY <1>1, StepAt
<1>3. ASSUME NEW p \in Places, Begins(d, c, At(p)') PROVE HandledAfter(q, p)
  <2>1. p # q /\ Begins(d, c, At(p))
    BY <1>2, <1>3, UseKinds
  <2>2. CASE p[2] = Last
    <3>1. Sends(p[1], At(p))
      BY <2>1, <2>2, UseKinds DEF WhereInv, Rightly
    <3>2. p[1] \in {"ipnet", "timer", "cli"}
      BY <2>1, <3>1, UseKinds
    <3>3. p[1] # "cli"
      BY <1>2, <2>1, <2>2, PlaceNumbers
    <3> QED
      BY <1>2, <2>2, <3>2, <3>3 DEF HandledAfter
  <2>3. CASE p[2] # Last
    BY <1>2, <2>3, PlaceNumbers DEF HandledAfter
  <2> QED
    BY <2>2, <2>3
<1> QED
  BY <1>2, <1>3 DEF Cleared, FinishBehind, Finishes, Begins, IsQuit, IsHangUp, IsLogin, IsDial, HandledAfter, Last

\* The list shrinks when a client is stopped, and the shutdown of its socket is
\* what the stop goes on to.
LEMMA StopSteps ==
  ASSUME TypeOK, [Next]_vars, NEW c \in Client
  PROVE  /\ crashed => crashed'
         /\ c \in started' => c \in started \/ c \in registered'
         /\ c \in registered /\ c \notin registered' => AgentStop(c)
         /\ stopping = c /\ stopping' # c => AgentStopShutdown
<1>1. NULL \notin Client
  BY BusAssumption
<1>2. CASE AgentStep
  <2>1. CASE IpnetStatusHandler \/ MqttStatusHandler
    BY <2>1
    DEF IpnetStatusHandler, NotOurs, OnTcpConnected, OnTcpDown, RaiseTimer, TimerRefused,
        MqttStatusHandler, OnConnected, OnConnectFailed, OnSubscribed, OnSubscribeFailed, OnDisconnected, OnStatus,
        Request, ReturnPublishing, ReturnSilently, agentVars
  <2>2. CASE AgentStopShutdown \/ \E e \in Client : BackoffEnds(e) \/ AgentStart(e) \/ AgentStop(e)
    BY <1>1, <2>2
    DEF AgentStopShutdown, BackoffEnds, BackoffFires, AgentStart, AgentStop, CallPublish, busVars
  <2> QED
    BY <1>2, <2>1, <2>2 DEF AgentStep
<1>3. CASE ~AgentStep
  <2>1. UNCHANGED agentVars
    BY <1>3 DEF Next, Messaging, IpnetStep, MqttStep, Ended, vars
  <2>2. crashed => crashed'
    BY <1>3
    DEF Next, Messaging, Receive, Put, PutDone, PutTimeout,
        IpnetStep, IpnetHandler, TcpConnect, TcpConnectNoSocket, TcpConnectFails, TcpConnectReturns, TcpShutdown,
        IpTaskStep, Established, PeerCloses, Traffic, WakeUp, CloseDone,
        MqttStep, MqttHandler, SessionAlloc, SessionSetup, BrokerAccepts, BrokerConnectFails, Subscribe,
        SubscribeFails, ProcessLoop, BrokerPing, Disconnect, MonitorHandler, MonitorDisconnected, MonitorActivity,
        Monitor, Tick, TickContinues, SubackArrives, ReturnPublishing, ReturnSilently, CallPublish, Ended, vars, busVars
  <2> QED
    BY <2>1, <2>2 DEF agentVars
<1> QED
  BY <1>2, <1>3

LEMMA NextKeepsStopped ==
  ASSUME ConsoleBelow, TypeOK, WhereInv, StopInv, [Next]_vars
  PROVE  StopInv'
<1> SUFFICES ASSUME NEW c, c \in started', c \notin registered', c \notin lost', ~crashed'
             PROVE  Cleared("mqtt", c)' /\ (stopping' # c => Cleared("ipnet", c)')
  BY DEF StopInv
<1>1. c \in Client /\ c # NULL /\ {"ipnet", "mqtt"} \subseteq Dispatcher
  BY NextType, BusAssumption DEF TypeOK, AgentTypeOK, Dispatcher
<1>2. c \in started /\ c \notin lost /\ ~crashed
  BY <1>1, StopSteps, ListAndLosses
<1>3. CASE c \in registered
  <2>1. AgentStop(c)
    BY <1>1, <1>3, StopSteps
  <2>2. CallPublish("cli", MqttCmd("DISCONNECT", c)) /\ stopping' = c
    BY <2>1 DEF AgentStop
  <2>3. Finishes("mqtt", c, MqttCmd("DISCONNECT", c))
    BY DEF Finishes, IsQuit, MqttCmd
  <2> QED
    BY <1>1, <2>2, <2>3, FinishRequested
<1>4. CASE c \notin registered
  <2>1. Cleared("mqtt", c) /\ (stopping # c => Cleared("ipnet", c))
    BY <1>2, <1>4 DEF StopInv
  <2>2. ASSUME stopping = c, stopping' # c PROVE Cleared("ipnet", c)'
    <3>1. CallPublish("cli", IpnetCmd("TCP_SHUTDOWN", c))
      BY <1>1, <2>2, StopSteps DEF AgentStopShutdown
    <3>2. Finishes("ipnet", c, IpnetCmd("TCP_SHUTDOWN", c))
      BY DEF Finishes, IsHangUp, IpnetCmd
    <3> QED
      BY <1>1, <3>1, <3>2, FinishRequested
  <2> QED
    BY <1>1, <2>1, <2>2, ClearedStays
<1> QED
  BY <1>3, <1>4

\* With the dispatcher of the console below the tasks that look up the
\* registration, adp_mqtt_agent_stop leaves nothing behind: once its commands
\* have been carried out and nothing is under way for a stopped client, the client
\* has neither a session nor a socket, however much of a connect was under way.
THEOREM StoppedClientsAreGone ==
  ASSUME ConsoleBelow
  PROVE  Spec => []StoppedIsGone
<1>1. Init => StopInv
  BY DEF Init, AgentInit, StopInv
<1>2. TypeOK /\ WhereInv /\ StopInv /\ [Next]_vars => StopInv'
  BY NextKeepsStopped
<1>3. TypeOK /\ StopInv => StoppedIsGone
  <2> SUFFICES ASSUME TypeOK, StopInv, NEW c \in started \ (registered \cup lost), ~crashed, Settled(c)
               PROVE  Gone(c)
    BY DEF StoppedIsGone
  <2>1. c \in Client /\ {"ipnet", "mqtt"} \subseteq Dispatcher /\ BusTypeOK
    BY DEF TypeOK, AgentTypeOK, Dispatcher
  <2>2. ASSUME NEW d \in Dispatcher, NEW q \in Places PROVE ~Finishes(d, c, At(q))
    <3>1. At(q) \in InFlight \/ At(q) = NoMsg
      BY <2>1, PlacesInFlight
    <3> QED
      BY <3>1, UseKinds DEF Settled
  <2>3. Cleared("mqtt", c) /\ Cleared("ipnet", c)
    BY DEF StopInv, Settled
  <2> QED
    BY <2>1, <2>2, <2>3 DEF Cleared, Uses, Gone, Sessions
<1> QED
  BY <1>1, <1>2, <1>3, OrderHolds, PTL DEF Spec

-----------------------------------------------------------------------------
(* The line of messages for the MQTT service *)

\* The messages about c that start, use or end a session.
Kinds == {"login", "accepted", "sub", "refused", "quit", "ended"}
Kind(m, c) ==
  IF m.topic = "MQTT_EXECUTE_CMD" /\ m.ctx = c
  THEN IF m.cmd = "CONNECT" THEN "login"
       ELSE IF m.cmd = "SUBSCRIBE" THEN "sub"
       ELSE IF m.cmd = "DISCONNECT" THEN "quit" ELSE "none"
  ELSE IF m.topic = "MQTT_CMD_STATUS" /\ m.ctx = c
  THEN IF m.cmd = "CONNECT" /\ m.ok THEN "accepted"
       ELSE IF m.cmd = "SUBSCRIBE" /\ ~m.ok THEN "refused"
       ELSE IF m.cmd = "DISCONNECT" THEN "ended" ELSE "none"
  ELSE "none"

\* The message at position i of the line: handled, queued, or to be queued last.
InLine(i, c) == Kind(At(<<"mqtt", i>>), c)
Has(c, a)     == \E i \in 0..Last : InLine(i, c) = a
Pair(c, a, b) == \E i, j \in 0..Last : i < j /\ InLine(i, c) = a /\ InLine(j, c) = b

Subscr(c) == session[c].phase \in {"subscribing", "acked", "subscribed"}
Lost(c)   == \E s \in Socket : socketDb[c] = s /\ tcp[s] = "dead"

\* Nothing carries c on but its session or the status that the session ended.
UpOrEnding(c) ==
  backoff[c] = 0 /\ \A p \in Places : Carries(At(p), c) => Kind(At(p), c) = "ended"

\* One SUBSCRIBE or status that leads to one, before the end of its session and
\* before the request for the next one.
LineOrder(c) ==
  /\ \A a, b \in {"accepted", "sub"} : ~Pair(c, a, b)
  /\ ~Pair(c, "ended", "accepted")
  /\ ~Pair(c, "login", "sub")
  /\ ~Pair(c, "sub", "refused") /\ ~Pair(c, "refused", "sub") /\ ~Pair(c, "accepted", "refused")

\* What is in the line agrees with the session.
LineState(c) ==
  /\ \A a \in {"accepted", "sub", "refused"} : Has(c, a) => ~Subscr(c)
  /\ Has(c, "accepted") \/ InLine(Last, c) = "sub" => UpOrEnding(c)
  /\ InLine(Last, c) = "quit" => ~Subscr(c) /\ ~Has(c, "sub")

\* A request to end a session finds a dead socket, a session that is not yet
\* subscribed, or none.
QuitIsRight(c) ==
  Has(c, "quit") =>
    \/ Lost(c)
    \/ ~Subscr(c) /\ ~Pair(c, "sub", "quit")
    \/ session[c] = NoSession /\ ~Pair(c, "login", "quit")

\* The monitor requests the end of a session whose socket is dead.
QuitsOutside(c) ==
  /\ Kind(out["ipnet"], c) = "quit" => Lost(c)
  /\ Kind(out["cli"], c) # "quit"

LineInv == \A c \in registered : LineOrder(c) /\ LineState(c) /\ QuitIsRight(c) /\ QuitsOutside(c)

LEMMA KindFacts ==
  ASSUME NEW m, NEW c
  PROVE  /\ Kind(m, c) \in Kinds \cup {"none"} /\ "none" \notin Kinds
         /\ Kind(NoMsg, c) = "none"
         /\ Kind(m, c) # "none" => m.ctx = c /\ HasClient(m)
         /\ Kind(m, c) = "login" => SocketMsg(m) /\ Carries(m, c)
         /\ Kind(m, c) = "ended" => Carries(m, c)
         /\ Kind(m, c) \in {"accepted", "refused", "ended", "sub"} /\ (\E t : Sends(t, m)) => Sends("mqtt", m)
  BY DEF Kind, Kinds, NoMsg, HasClient, SocketMsg, Carries, MovesClient, Sends

LEMMA MadeKinds ==
  ASSUME NEW c
  PROVE  /\ \A cmd, u : Kind(IpnetCmd(cmd, u), c) = "none"
         /\ \A cmd, u, ok, s : Kind(IpnetStatus(cmd, u, ok, s), c) = "none"
         /\ \A s : Kind(RxTx(s), c) = "none" /\ Kind(Disconnected(s), c) = "none"
         /\ \A u, s : Kind(MqttConnect(u, s), c) = IF u = c THEN "login" ELSE "none"
         /\ \A u : /\ Kind(MqttCmd("SUBSCRIBE", u), c) = IF u = c THEN "sub" ELSE "none"
                   /\ Kind(MqttCmd("DISCONNECT", u), c) = IF u = c THEN "quit" ELSE "none"
                   /\ Kind(MqttCmd("PROCESS_LOOP", u), c) = "none"
                   /\ Kind(MqttCmd("BROKER_PING", u), c) = "none"
         /\ \A u, ok : /\ Kind(MqttStatus("CONNECT", u, ok), c) = IF u = c /\ ok THEN "accepted" ELSE "none"
                       /\ Kind(MqttStatus("SUBSCRIBE", u, ok), c) = IF u = c /\ ~ok THEN "refused" ELSE "none"
                       /\ Kind(MqttStatus("DISCONNECT", u, ok), c) = IF u = c THEN "ended" ELSE "none"
  BY DEF Kind, IpnetCmd, IpnetStatus, RxTx, Disconnected, MqttConnect, MqttCmd, MqttStatus

\* The line of c only loses messages; their order stays.
LineKeeps(c) ==
  /\ \A a \in Kinds : Has(c, a)' => Has(c, a)
  /\ \A a, b \in Kinds : Pair(c, a, b)' => Pair(c, a, b)
  /\ InLine(Last, c)' \in {InLine(Last, c), "none"}

\* The handled message of kind h is done, and one of kind k is to be queued last.
LineReturns(c, h, k) ==
  /\ \A a \in Kinds : Has(c, a)' => a = k \/ Pair(c, h, a)
  /\ \A a, b \in Kinds : Pair(c, a, b)' => Pair(c, a, b) \/ (b = k /\ Pair(c, h, a))
  /\ InLine(Last, c)' = k

\* Another task puts a message of kind k into the queue.
LineGets(c, k) ==
  /\ \A a \in Kinds : Has(c, a)' => a = k \/ Has(c, a)
  /\ \A a, b \in Kinds : Pair(c, a, b)' =>
       Pair(c, a, b) \/ (b = k /\ Has(c, a)) \/ (a = k /\ InLine(Last, c) = b)
  /\ InLine(Last, c)' = InLine(Last, c)

LEMMA Embedded ==
  ASSUME NEW c, NEW f \in [0..Last -> 0..Last],
         \A i \in 0..Last : InLine(i, c)' = "none" \/ InLine(i, c)' = InLine(f[i], c),
         \A i, j \in 0..Last : i < j /\ InLine(i, c)' # "none" /\ InLine(j, c)' # "none" => f[i] < f[j],
         InLine(Last, c)' \in {InLine(Last, c), "none"}
  PROVE  LineKeeps(c)
<1>1. "none" \notin Kinds
  BY KindFacts
<1>2. ASSUME NEW a \in Kinds, Has(c, a)' PROVE Has(c, a)
  <2>1. PICK i \in 0..Last : InLine(i, c)' = a
    BY <1>2 DEF Has
  <2> QED
    BY <1>1, <2>1 DEF Has
<1>3. ASSUME NEW a \in Kinds, NEW b \in Kinds, Pair(c, a, b)' PROVE Pair(c, a, b)
  <2>1. PICK i \in 0..Last, j \in 0..Last : i < j /\ InLine(i, c)' = a /\ InLine(j, c)' = b
    BY <1>3 DEF Pair
  <2> QED
    BY <1>1, <2>1 DEF Pair
<1> QED
  BY <1>2, <1>3 DEF LineKeeps

LEMMA LineFrame ==
  ASSUME NEW c, \A i \in 0..Last : InLine(i, c)' \in {InLine(i, c), "none"}
  PROVE  LineKeeps(c)
<1>1. QueueLength \in Nat /\ Last \in 0..Last
  BY BusAssumption DEF Last
<1>2. PICK f \in [0..Last -> 0..Last] : \A i \in 0..Last : f[i] = i
  <2>1. [i \in 0..Last |-> i] \in [0..Last -> 0..Last]
    OBVIOUS
  <2> QED
    BY <2>1
<1> QED
  BY <1>1, <1>2, Embedded

\* The places of the line.
LEMMA LinePlaces ==
  /\ QueueLength \in Nat \ {0} /\ Last = QueueLength + 1 /\ 0 \in 0..Last /\ Last \in 0..Last
  /\ \A i \in 0..Last : <<"mqtt", i>> \in Places
  /\ \A i \in 0..Last : i = 0 \/ i = Last \/ i \in 1..QueueLength
  BY BusAssumption, PlaceKinds DEF Last, Dispatcher, Task

LEMMA LineOld ==
  ASSUME NEW c, \A p \in Places : p[1] = "mqtt" => At(p)' = At(p) \/ At(p)' = NoMsg
  PROVE  LineKeeps(c)
<1>1. ASSUME NEW i \in 0..Last PROVE InLine(i, c)' \in {InLine(i, c), "none"}
  <2>1. PICK p \in Places : p = <<"mqtt", i>>
    BY LinePlaces
  <2>2. InLine(i, c) = Kind(At(p), c) /\ InLine(i, c)' = Kind(At(p)', c)
    BY <2>1 DEF InLine
  <2> QED
    BY <2>1, <2>2, KindFacts
<1> QED
  BY <1>1, LineFrame

LEMMA LineOfReceive ==
  ASSUME BusTypeOK, NEW c, Receive("mqtt")
  PROVE  LineKeeps(c)
<1>1. PICK f \in [0..Last -> 0..Last] : \A i \in 0..Last : f[i] = IF i < QueueLength THEN i + 1 ELSE i
  <2>1. [i \in 0..Last |-> IF i < QueueLength THEN i + 1 ELSE i] \in [0..Last -> 0..Last]
    BY LinePlaces
  <2> QED
    BY <2>1
<1>2. ASSUME NEW i \in 0..Last
      PROVE  IF i < QueueLength THEN InLine(i, c)' = InLine(i + 1, c) ELSE InLine(i, c)' = "none"
  <2>1. CASE i < QueueLength
    <3>1. i \in 0..(QueueLength - 1) /\ "mqtt" \in Dispatcher
      BY <2>1, LinePlaces DEF Dispatcher
    <3>2. At(<<"mqtt", i>>)' = At(<<"mqtt", i + 1>>)
      BY <3>1, ReceiveAt
    <3> QED
      BY <2>1, <3>2 DEF InLine
  <2>2. CASE ~(i < QueueLength)
    <3>1. (i = QueueLength \/ i = Last) /\ "mqtt" \in Dispatcher
      BY <2>2, LinePlaces DEF Dispatcher
    <3>2. At(<<"mqtt", i>>)' = NoMsg
      BY <3>1, ReceiveAt
    <3> QED
      BY <2>2, <3>2, KindFacts DEF InLine
  <2> QED
    BY <2>1, <2>2
<1>3. \A i \in 0..Last : InLine(i, c)' = "none" \/ InLine(i, c)' = InLine(f[i], c)
  BY <1>1, <1>2
<1>4. \A i, j \in 0..Last : i < j /\ InLine(i, c)' # "none" /\ InLine(j, c)' # "none" => f[i] < f[j]
  BY <1>1, <1>2, LinePlaces
<1>5. InLine(Last, c)' = "none"
  BY <1>2, LinePlaces
<1> QED
  BY <1>3, <1>4, <1>5, Embedded

LEMMA LineOfOthers ==
  ASSUME BusTypeOK, NEW c
  PROVE  /\ UNCHANGED <<queue, cur, out>> => LineKeeps(c)
         /\ \A d \in Dispatcher : ReturnSilently(d) => LineKeeps(c)
         /\ \A t \in Task : PutTimeout(t) => LineKeeps(c)
         /\ \A t \in Task \ Dispatcher : \A m : CallPublish(t, m) => LineKeeps(c)
         /\ \A m : Free("ipnet") /\ ReturnPublishing("ipnet", m) => LineKeeps(c)
         /\ \A d \in Dispatcher : Receive(d) => LineKeeps(c)
<1>1. ASSUME NEW d \in Dispatcher, Receive(d) PROVE LineKeeps(c)
  <2>1. d # "mqtt" => \A p \in Places : p[1] = "mqtt" => At(p)' = At(p)
    BY <1>1, ReceiveAt
  <2> QED
    BY <1>1, <2>1, LineOfReceive, LineOld
<1>2. UNCHANGED <<queue, cur, out>> => LineKeeps(c)
  BY AtFrame, LineOld
<1>3. ASSUME NEW d \in Dispatcher, ReturnSilently(d) PROVE LineKeeps(c)
  BY <1>3, StepAt, LineOld
<1>4. ASSUME NEW t \in Task, PutTimeout(t) PROVE LineKeeps(c)
  BY <1>4, StepAt, LineOld
<1>5. ASSUME NEW t \in Task \ Dispatcher, NEW m, CallPublish(t, m) PROVE LineKeeps(c)
  <2>1. \A p \in Places : p[1] = "mqtt" => p # <<t, Last>>
    BY DEF Dispatcher
  <2> QED
    BY <1>5, <2>1, StepAt, LineOld
<1>6. ASSUME NEW m, Free("ipnet"), ReturnPublishing("ipnet", m) PROVE LineKeeps(c)
  <2>1. \A p \in Places : p[1] = "mqtt" => \A j : p # <<"ipnet", j>>
    OBVIOUS
  <2> QED
    BY <1>6, <2>1, StepAt, LineOld DEF Dispatcher
<1> QED
  BY <1>1, <1>2, <1>3, <1>4, <1>5, <1>6

LEMMA LineOfPut ==
  ASSUME BusTypeOK, NEW c, NEW t \in Task, PutDone(t)
  PROVE  /\ t = "mqtt" => LineKeeps(c)
         /\ t # "mqtt" => LineGets(c, Kind(out[t], c))
<1>1. PICK d \in Dispatcher, n \in 1..QueueLength :
        /\ At(<<t, Last>>) = out[t] /\ At(<<t, Last>>)' = NoMsg /\ At(<<d, n>>)' = out[t]
        /\ \A p \in Places : p # <<t, Last>> /\ p # <<d, n>> => At(p)' = At(p)
        /\ \A i \in n..QueueLength : At(<<d, i>>) = NoMsg
  BY PutAt
<1>2. PICK k : k = Kind(out[t], c)
  OBVIOUS
<1>3. n \in 0..Last /\ n < Last
  BY LinePlaces
<1>4. ASSUME NEW i \in 0..Last, ~(d = "mqtt" /\ i = n), ~(t = "mqtt" /\ i = Last)
      PROVE  InLine(i, c)' = InLine(i, c)
  <2>1. PICK p \in Places : p = <<"mqtt", i>>
    BY LinePlaces
  <2>2. p # <<t, Last>> /\ p # <<d, n>>
    BY <1>4, <2>1
  <2>3. At(p)' = At(p)
    BY <1>1, <2>2
  <2> QED
    BY <2>1, <2>3 DEF InLine
<1>5. d = "mqtt" => /\ InLine(n, c)' = k
                    /\ \A j \in 0..Last : n <= j /\ j # Last => InLine(j, c) = "none"
  <2>1. d = "mqtt" => InLine(n, c)' = k
    BY <1>1, <1>2 DEF InLine
  <2>2. ASSUME d = "mqtt", NEW j \in 0..Last, n <= j, j # Last PROVE InLine(j, c) = "none"
    <3>1. j \in n..QueueLength
      BY <2>2, LinePlaces
    <3> QED
      BY <1>1, <2>2, <3>1, KindFacts DEF InLine
  <2> QED
    BY <2>1, <2>2
<1>6. t = "mqtt" => InLine(Last, c) = k /\ InLine(Last, c)' = "none"
  BY <1>1, <1>2, KindFacts DEF InLine
<1>7. "none" \notin Kinds
  BY KindFacts
<1>8. CASE t = "mqtt"
  <2>1. CASE d = "mqtt"
    <3>1. PICK f \in [0..Last -> 0..Last] : \A i \in 0..Last : f[i] = IF i = n THEN Last ELSE i
      <4>1. [i \in 0..Last |-> IF i = n THEN Last ELSE i] \in [0..Last -> 0..Last]
        BY LinePlaces
      <4> QED
        BY <4>1
    <3>2. \A i \in 0..Last : InLine(i, c)' = "none" \/ InLine(i, c)' = InLine(f[i], c)
      BY <1>3, <1>4, <1>5, <1>6, <1>8, <2>1, <3>1
    <3>3. ASSUME NEW i \in 0..Last, NEW j \in 0..Last, i < j, InLine(i, c)' # "none", InLine(j, c)' # "none"
          PROVE  f[i] < f[j]
      <4>1. j # Last /\ i # Last
        BY <1>6, <1>8, <3>3, LinePlaces
      <4>2. i # n
        <5> SUFFICES ASSUME i = n PROVE FALSE
          OBVIOUS
        <5>1. InLine(j, c)' = InLine(j, c) /\ n <= j
          BY <1>4, <3>3, <4>1, LinePlaces
        <5> QED
          BY <1>5, <2>1, <3>3, <4>1, <5>1
      <4> QED
        BY <3>1, <3>3, <4>1, <4>2, LinePlaces
    <3> QED
      BY <1>6, <1>8, <3>2, <3>3, Embedded
  <2>2. CASE d # "mqtt"
    BY <1>4, <1>6, <1>8, <2>2, LineFrame, LinePlaces
  <2> QED
    BY <2>1, <2>2
<1>9. CASE t # "mqtt"
  <2>1. CASE d # "mqtt"
    <3>1. \A i \in 0..Last : InLine(i, c)' = InLine(i, c)
      BY <1>4, <1>9, <2>1
    <3>2. LineKeeps(c) /\ InLine(Last, c)' = InLine(Last, c)
      BY <3>1, LineFrame, LinePlaces
    <3> QED
      BY <1>9, <3>2 DEF LineKeeps, LineGets
  <2>2. CASE d = "mqtt"
    <3>1. \A i \in 0..Last : i # n => InLine(i, c)' = InLine(i, c)
      BY <1>4, <1>9
    <3>2. \A a \in Kinds : Has(c, a)' => a = k \/ Has(c, a)
      BY <1>5, <2>2, <3>1 DEF Has
    <3>3. ASSUME NEW a \in Kinds, NEW b \in Kinds, Pair(c, a, b)'
          PROVE  Pair(c, a, b) \/ (b = k /\ Has(c, a)) \/ (a = k /\ InLine(Last, c) = b)
      <4>1. PICK i \in 0..Last, j \in 0..Last : i < j /\ InLine(i, c)' = a /\ InLine(j, c)' = b
        BY <3>3 DEF Pair
      <4>2. CASE i # n /\ j # n
        BY <3>1, <4>1, <4>2 DEF Pair
      <4>3. CASE j = n
        <5>1. InLine(i, c) = a /\ b = k
          BY <1>5, <2>2, <3>1, <4>1, <4>3, LinePlaces
        <5> QED
          BY <5>1 DEF Has
      <4>4. CASE i = n
        <5>1. InLine(j, c) = b /\ a = k /\ n <= j
          BY <1>5, <2>2, <3>1, <4>1, <4>4, LinePlaces
        <5>2. j = Last
          BY <1>5, <1>7, <2>2, <5>1
        <5> QED
          BY <5>1, <5>2
      <4> QED
        BY <4>2, <4>3, <4>4
    <3>4. InLine(Last, c)' = InLine(Last, c)
      BY <1>3, <3>1, LinePlaces
    <3> QED
      BY <1>2, <1>9, <3>2, <3>3, <3>4 DEF LineGets
  <2> QED
    BY <2>1, <2>2
<1> QED
  BY <1>8, <1>9

LEMMA LineOfReturn ==
  ASSUME BusTypeOK, NEW c, Free("mqtt")
  PROVE  /\ ReturnSilently("mqtt") => LineReturns(c, Kind(cur["mqtt"], c), "none")
         /\ \A m : ReturnPublishing("mqtt", m) => LineReturns(c, Kind(cur["mqtt"], c), Kind(m, c))
<1>1. ASSUME NEW h, h = Kind(cur["mqtt"], c), NEW k,
             InLine(0, c)' = "none", InLine(Last, c) = "none", InLine(Last, c)' = k,
             \A i \in 1..QueueLength : InLine(i, c)' = InLine(i, c)
      PROVE  LineReturns(c, h, k)
  <2>1. InLine(0, c) = h
    BY <1>1, AtPlaces DEF InLine, Dispatcher
  <2>2. "none" \notin Kinds
    BY KindFacts
  <2>3. ASSUME NEW a \in Kinds, NEW i \in 0..Last, InLine(i, c)' = a PROVE i # 0 /\ (i # Last => InLine(i, c) = a)
    BY <1>1, <2>2, <2>3, LinePlaces
  <2>4. ASSUME NEW a \in Kinds, Has(c, a)' PROVE a = k \/ Pair(c, h, a)
    <3>1. PICK i \in 0..Last : InLine(i, c)' = a
      BY <2>4 DEF Has
    <3>2. i # 0 /\ (i # Last => InLine(i, c) = a)
      BY <2>3, <3>1
    <3> QED
      BY <1>1, <2>1, <3>1, <3>2, LinePlaces DEF Pair
  <2>5. ASSUME NEW a \in Kinds, NEW b \in Kinds, Pair(c, a, b)' PROVE Pair(c, a, b) \/ (b = k /\ Pair(c, h, a))
    <3>1. PICK i \in 0..Last, j \in 0..Last : i < j /\ InLine(i, c)' = a /\ InLine(j, c)' = b
      BY <2>5 DEF Pair
    <3>2. i # 0 /\ InLine(i, c) = a
      BY <2>3, <3>1, LinePlaces
    <3>3. CASE j # Last
      BY <2>3, <3>1, <3>2, <3>3 DEF Pair
    <3>4. CASE j = Last
      BY <1>1, <2>1, <3>1, <3>2, <3>4, LinePlaces DEF Pair
    <3> QED
      BY <3>3, <3>4
  <2> QED
    BY <1>1, <2>4, <2>5 DEF LineReturns
<1>2. /\ "mqtt" \in Dispatcher /\ out["mqtt"] = NoMsg
      /\ \A i \in 1..QueueLength : <<"mqtt", i>> \in Places /\ <<"mqtt", i>> # <<"mqtt", 0>> /\ <<"mqtt", i>> # <<"mqtt", Last>>
  BY LinePlaces DEF Dispatcher, Free, Publishing
<1>3. InLine(Last, c) = "none"
  BY <1>2, AtPlaces, KindFacts DEF InLine, Last, Task
<1>4. ASSUME ReturnSilently("mqtt") PROVE LineReturns(c, Kind(cur["mqtt"], c), "none")
  <2>1. /\ At(<<"mqtt", 0>>)' = NoMsg /\ At(<<"mqtt", Last>>)' = At(<<"mqtt", Last>>)
        /\ \A i \in 1..QueueLength : At(<<"mqtt", i>>)' = At(<<"mqtt", i>>)
    <3>1. <<"mqtt", Last>> \in Places /\ <<"mqtt", Last>> # <<"mqtt", 0>>
      BY LinePlaces
    <3> QED
      BY <1>2, <1>4, <3>1, StepAt
  <2>2. /\ InLine(0, c)' = "none" /\ InLine(Last, c)' = "none"
        /\ \A i \in 1..QueueLength : InLine(i, c)' = InLine(i, c)
    BY <1>3, <2>1, KindFacts DEF InLine
  <2> QED
    BY <1>1, <1>3, <2>2
<1>5. ASSUME NEW m, ReturnPublishing("mqtt", m) PROVE LineReturns(c, Kind(cur["mqtt"], c), Kind(m, c))
  <2>1. /\ At(<<"mqtt", 0>>)' = NoMsg /\ At(<<"mqtt", Last>>)' = m
        /\ \A i \in 1..QueueLength : At(<<"mqtt", i>>)' = At(<<"mqtt", i>>)
    BY <1>2, <1>5, StepAt
  <2>2. /\ InLine(0, c)' = "none" /\ InLine(Last, c)' = Kind(m, c)
        /\ \A i \in 1..QueueLength : InLine(i, c)' = InLine(i, c)
    BY <2>1, KindFacts DEF InLine
  <2> QED
    BY <1>1, <1>3, <2>2
<1> QED
  BY <1>4, <1>5

LEMMA ReturnsNothing ==
  ASSUME NEW c, NEW h, LineReturns(c, h, "none")
  PROVE  LineKeeps(c)
<1>1. "none" \notin Kinds /\ \A a : Pair(c, h, a) => Has(c, a)
  BY KindFacts DEF Pair, Has
<1> QED
  BY <1>1 DEF LineReturns, LineKeeps

\* A step that changes nothing else for c.
Calm(c) ==
  /\ Subscr(c)' => Subscr(c)
  /\ Lost(c) => Lost(c)'
  /\ session[c] = NoSession => session'[c] = NoSession
  /\ UpOrEnding(c) => UpOrEnding(c)'

LineGood(c) == LineOrder(c) /\ LineState(c) /\ QuitIsRight(c)

LEMMA CalmKeepsLine ==
  ASSUME NEW c, LineGood(c), LineKeeps(c), Calm(c)
  PROVE  LineGood(c)'
<1>1. /\ \A a \in Kinds : Has(c, a)' => Has(c, a)
      /\ \A a, b \in Kinds : Pair(c, a, b)' => Pair(c, a, b)
      /\ InLine(Last, c)' \in {InLine(Last, c), "none"}
      /\ Kinds = {"login", "accepted", "sub", "refused", "quit", "ended"}
  BY DEF LineKeeps, Kinds
<1>2. LineOrder(c)'
  BY <1>1 DEF LineOrder, LineGood
<1>3. LineState(c)'
  BY <1>1 DEF LineState, LineGood, Calm
<1>4. QuitIsRight(c)'
  BY <1>1 DEF QuitIsRight, LineGood, Calm
<1> QED
  BY <1>2, <1>3, <1>4 DEF LineGood

-----------------------------------------------------------------------------
(* What the handlers do *)

\* The outcomes of a command of the MQTT service for its client u.
Connecting(u) ==
  /\ cur["mqtt"].cmd = "CONNECT"
  /\ \/ UNCHANGED <<queue, cur, out>> /\ session'[u].phase \in {"listed", "connecting"}
     \/ /\ ReturnPublishing("mqtt", MqttStatus("CONNECT", u, FALSE))
        /\ session'[u] \in {session[u], NoSession}
     \/ /\ ReturnPublishing("mqtt", MqttStatus("CONNECT", u, TRUE))
        /\ session[u] # NoSession /\ session'[u].phase = "connected"

Subscribing(u) ==
  /\ cur["mqtt"].cmd = "SUBSCRIBE"
  /\ \/ ReturnSilently("mqtt") /\ session[u] # NoSession /\ Alive(u) /\ session'[u].phase = "subscribing"
     \/ ReturnPublishing("mqtt", MqttStatus("SUBSCRIBE", u, FALSE)) /\ session'[u] = session[u]

Serving(u) ==
  /\ cur["mqtt"].cmd \in {"PROCESS_LOOP", "BROKER_PING"}
  /\ \/ ReturnSilently("mqtt") /\ session'[u] = session[u]
     \/ /\ ReturnPublishing("mqtt", MqttStatus("SUBSCRIBE", u, TRUE))
        /\ session[u].phase = "acked" /\ session[u] # NoSession /\ session'[u].phase = "subscribed"

Ending(u) ==
  /\ cur["mqtt"].cmd = "DISCONNECT"
  /\ \/ ReturnSilently("mqtt") /\ session[u] = NoSession /\ session'[u] = NoSession
     \/ ReturnPublishing("mqtt", MqttStatus("DISCONNECT", u, TRUE)) /\ session'[u] = NoSession

LEMMA MqttOutcomes ==
  ASSUME TypeOK, MqttHandler
  PROVE  /\ MqttUser \in Client /\ Free("mqtt") /\ cur["mqtt"].topic = "MQTT_EXECUTE_CMD"
         /\ UNCHANGED <<socketDb, tcp>>
         /\ \A e \in Client : e # MqttUser => session'[e] = session[e]
         /\ Connecting(MqttUser) \/ Subscribing(MqttUser) \/ Serving(MqttUser) \/ Ending(MqttUser)
<1> DEFINE u == MqttUser
<1>1. /\ u \in Client /\ Free("mqtt") /\ cur["mqtt"].topic = "MQTT_EXECUTE_CMD" /\ MqttTypeOK
  BY MqttUserType DEF TypeOK
<1>2. UNCHANGED <<socketDb, tcp>>
  BY DEF MqttHandler, SessionAlloc, SessionSetup, BrokerAccepts, BrokerConnectFails, Subscribe, SubscribeFails,
         ProcessLoop, BrokerPing, Disconnect, ipnetVars
<1>3. \A e \in Client, p \in Phase : session[e].phase = p => session[e] # NoSession
  BY NoSessionPhase
<1>4. {"listed", "connecting", "connected", "subscribing", "acked", "subscribed"} = Phase
  BY DEF Phase
<1> HIDE DEF u
<1>5. CASE SessionAlloc
  <2>1. PICK r : r = [phase |-> "listed", socket |-> cur["mqtt"].socket]
    OBVIOUS
  <2>2. /\ cur["mqtt"].cmd = "CONNECT" /\ r.phase = "listed"
        /\ \/ session' = [session EXCEPT ![u] = r] /\ UNCHANGED <<queue, cur, out>>
           \/ ReturnPublishing("mqtt", MqttStatus("CONNECT", u, FALSE)) /\ UNCHANGED session
    BY <1>5, <2>1 DEF SessionAlloc, MqttHandling, Requested, Handling, busVars, u
  <2>3. session' = [session EXCEPT ![u] = r] =>
          session'[u] = r /\ \A e \in Client : e # u => session'[e] = session[e]
    BY <1>1 DEF MqttTypeOK
  <2> QED
    BY <1>1, <1>2, <2>2, <2>3 DEF Connecting, u
<1>6. CASE SessionSetup \/ BrokerAccepts
  <2>1. /\ cur["mqtt"].cmd = "CONNECT" /\ session[u] # NoSession
        /\ \/ SetPhase(u, "connecting") /\ UNCHANGED <<queue, cur, out>>
           \/ SetPhase(u, "connected") /\ ReturnPublishing("mqtt", MqttStatus("CONNECT", u, TRUE))
    BY <1>1, <1>3, <1>4, <1>6
    DEF SessionSetup, BrokerAccepts, MqttHandling, Requested, Handling, busVars, u
  <2> QED
    BY <1>1, <1>2, <1>4, <2>1, PhaseSet DEF Connecting, u
<1>7. CASE BrokerConnectFails
  BY <1>1, <1>2, <1>7, SessionDeleted DEF BrokerConnectFails, MqttHandling, Requested, Handling, Connecting, u
<1>8. CASE Subscribe
  <2>1. /\ ReturnSilently("mqtt") /\ cur["mqtt"].cmd = "SUBSCRIBE" /\ SetPhase(u, "subscribing")
        /\ session[u] # NoSession /\ Alive(u)
    BY <1>8 DEF Subscribe, MqttHandling, Requested, Handling, Sessions, u
  <2> QED
    BY <1>1, <1>2, <1>4, <2>1, PhaseSet DEF Subscribing, u
<1>9. CASE SubscribeFails
  BY <1>1, <1>2, <1>9 DEF SubscribeFails, MqttHandling, Requested, Handling, Subscribing, mqttVars, u
<1>10. CASE ProcessLoop
  <2>1. CASE session[u].phase = "acked"
    <3>1. /\ ReturnPublishing("mqtt", MqttStatus("SUBSCRIBE", u, TRUE)) /\ SetPhase(u, "subscribed")
          /\ session[u] # NoSession /\ cur["mqtt"].cmd = "PROCESS_LOOP"
      BY <1>1, <1>3, <1>4, <1>10, <2>1 DEF ProcessLoop, MqttHandling, Requested, Handling, u
    <3> QED
      BY <1>1, <1>2, <1>4, <2>1, <3>1, PhaseSet DEF Serving, u
  <2>2. CASE session[u].phase # "acked"
    BY <1>1, <1>2, <1>10, <2>2 DEF ProcessLoop, MqttHandling, Requested, Handling, Serving, u
  <2> QED
    BY <2>1, <2>2
<1>11. CASE BrokerPing
  BY <1>1, <1>2, <1>11 DEF BrokerPing, MqttHandling, Requested, Handling, Serving, mqttVars, u
<1>12. CASE Disconnect
  <2>1. cur["mqtt"].cmd = "DISCONNECT"
    BY <1>12 DEF Disconnect, MqttHandling, Requested, Handling
  <2>2. \/ Delete(u) /\ ReturnPublishing("mqtt", MqttStatus("DISCONNECT", u, TRUE))
        \/ u \notin Sessions /\ ReturnSilently("mqtt") /\ UNCHANGED session
    BY <1>12 DEF Disconnect, u
  <2> QED
    BY <1>1, <1>2, <2>1, <2>2, SessionDeleted DEF Ending, Sessions, u
<1> QED
  BY <1>5, <1>6, <1>7, <1>8, <1>9, <1>10, <1>11, <1>12 DEF MqttHandler

LEMMA LostStays ==
  ASSUME TypeOK, SocketInv, [Next]_vars, NEW c \in Client, Lost(c), ~(IpnetStep /\ TcpShutdown /\ User = c)
  PROVE  Lost(c)'
<1>1. PICK s \in Socket : socketDb[c] = s /\ tcp[s] = "dead"
  BY DEF Lost
<1>2. s # conn /\ \A d \in Client : socketDb[d] = s <=> d = c
  BY <1>1 DEF SocketInv, Custody
<1>3. NULL \notin Socket /\ IpnetTypeOK
  BY BusAssumption DEF TypeOK
<1>4. CASE IpnetStep
  <2>1. socketDb'[c] = s /\ tcp'[s] = "dead"
    <3>1. CASE IpnetHandler /\ ~TcpShutdown
      <4>1. TcpConnectReturns => User \in Client
        BY Handled DEF TcpConnectReturns, Executing, Handling, User, Dispatcher, TypeOK
      <4> QED
        BY <1>1, <1>2, <1>3, <3>1, <4>1
        DEF IpnetHandler, TcpConnect, TcpConnectNoSocket, TcpConnectFails, TcpConnectReturns, MayAdd, SocketFree,
            IpnetTypeOK, ipnetVars
    <3>2. CASE TcpShutdown
      <4>1. User \in Client /\ User # c
        BY <1>4, <3>2, Handled DEF TcpShutdown, Executing, Handling, User, Dispatcher, TypeOK
      <4>2. socketDb[User] # s
        BY <1>2, <4>1
      <4> QED
        BY <1>1, <1>3, <3>2, <4>1, <4>2 DEF TcpShutdown, SocketFree, IpnetTypeOK
    <3>3. CASE IpTaskStep
      BY <1>1, <1>2, <1>3, <3>3
      DEF IpTaskStep, Established, PeerCloses, Traffic, WakeUp, CloseDone, IpnetTypeOK
    <3> QED
      BY <1>4, <3>1, <3>2, <3>3 DEF IpnetStep
  <2> QED
    BY <2>1 DEF Lost
<1>5. CASE ~IpnetStep
  <2>1. UNCHANGED <<tcp, socketDb>>
    <3>1. UNCHANGED tcp
      BY <1>5, OthersLeaveSockets DEF TypeOK
    <3>2. UNCHANGED socketDb
      BY <1>5
      DEF Next, Messaging, MqttStep, AgentStep, Ended, vars, ipnetVars, MqttHandler, SessionAlloc, SessionSetup,
          BrokerAccepts, BrokerConnectFails, Subscribe, SubscribeFails, ProcessLoop, BrokerPing, Disconnect,
          MonitorHandler, MonitorDisconnected, MonitorActivity, Monitor, Tick, TickContinues, SubackArrives
    <3> QED
      BY <3>1, <3>2
  <2> QED
    BY <1>1, <2>1 DEF Lost
<1> QED
  BY <1>4, <1>5

\* A session of another client than the one whose command is handled only
\* changes in that its SUBSCRIBE is acknowledged.
LEMMA OtherSessions ==
  ASSUME TypeOK, [Next]_vars, NEW c \in Client, ~(MqttHandler /\ MqttUser = c)
  PROVE  /\ Subscr(c)' <=> Subscr(c)
         /\ session'[c] = NoSession <=> session[c] = NoSession
<1>1. CASE MqttHandler
  BY <1>1, MqttOutcomes DEF Subscr
<1>2. CASE \E e \in Client : SubackArrives(e)
  <2>1. PICK e \in Client : SubackArrives(e)
    BY <1>2
  <2>2. SetPhase(e, "acked") /\ session[e].phase = "subscribing" /\ session[e] # NoSession /\ "acked" \in Phase
    BY <2>1, NoSessionPhase DEF SubackArrives, Phase
  <2>3. /\ session'[e].phase = "acked" /\ session'[e] # NoSession
        /\ \A d \in Client : d # e => session'[d] = session[d]
    BY <2>2, PhaseSet, NoSessionPhase DEF TypeOK
  <2> QED
    BY <2>2, <2>3 DEF Subscr
<1>3. CASE ~MqttHandler /\ ~\E e \in Client : SubackArrives(e)
  <2>1. UNCHANGED session
    BY <1>3
    DEF Next, Messaging, IpnetStep, MqttStep, MonitorHandler, MonitorDisconnected, MonitorActivity, Monitor, Tick,
        TickContinues, AgentStep, Ended, vars, mqttVars
  <2> QED
    BY <2>1 DEF Subscr
<1> QED
  BY <1>1, <1>2, <1>3

LEMMA EndingStays ==
  ASSUME NEW c, NEW m, UpOrEnding(c), OldOrNew(m), backoff'[c] = backoff[c],
         Carries(m, c) => Kind(m, c) = "ended"
  PROVE  UpOrEnding(c)'
<1>1. ASSUME NEW p \in Places, Carries(At(p)', c) PROVE Kind(At(p)', c) = "ended"
  BY <1>1, NoMsgCarriesNobody DEF OldOrNew, UpOrEnding
<1> QED
  BY <1>1 DEF UpOrEnding

\* While nothing but a session or its end carries a client on, nothing else
\* comes to carry it on, until the end of the session is handled.
LEMMA UpOrEndingStays ==
  ASSUME TypeOK, StartedInv, [Next]_vars, NEW c \in Client, c \in registered, c \in registered',
         UpOrEnding(c), ~(AgentStep /\ OnDisconnected /\ Subject = c)
  PROVE  UpOrEnding(c)'
<1>1. /\ {"ipnet", "mqtt"} \subseteq Dispatcher /\ {"timer", "iptask", "cli"} \subseteq Task
      /\ BusTypeOK /\ backoff \in [Client -> Nat]
  BY DEF Dispatcher, Task, TypeOK, AgentTypeOK
<1>2. \A d \in Dispatcher : Carries(cur[d], c) => Kind(cur[d], c) = "ended"
  BY PlaceKinds, AtPlaces DEF UpOrEnding
<1>3. /\ cur["ipnet"].topic \in {"IPNET_EXECUTE_CMD", "IPNET_CMD_STATUS"} => cur["ipnet"].ctx # c
      /\ cur["mqtt"].topic = "MQTT_EXECUTE_CMD" /\ cur["mqtt"].cmd = "CONNECT" => cur["mqtt"].ctx # c
      /\ cur["mqtt"].topic = "MQTT_CMD_STATUS" /\ cur["mqtt"].cmd = "CONNECT" /\ ~cur["mqtt"].ok
           => cur["mqtt"].ctx # c
  BY <1>1, <1>2, HandledCarries DEF Kind
<1>4. ~Carries(NoMsg, c)
  BY NoMsgCarriesNobody
<1>5. ASSUME NEW d \in {"ipnet", "mqtt"}, NEW m, Free(d), ReturnPublishing(d, m),
             Carries(m, c) => Kind(m, c) = "ended", backoff'[c] = backoff[c]
      PROVE  UpOrEnding(c)'
  BY <1>1, <1>5, StepsMakeOne, EndingStays
<1>6. ASSUME NEW d \in {"ipnet", "mqtt"}, ReturnSilently(d), backoff'[c] = backoff[c]
      PROVE  UpOrEnding(c)'
  BY <1>1, <1>4, <1>6, StepsMakeOne, EndingStays
<1>7. ASSUME NEW t \in {"timer", "iptask", "cli"}, NEW m, CallPublish(t, m), ~Carries(m, c), backoff'[c] = backoff[c]
      PROVE  UpOrEnding(c)'
  BY <1>1, <1>7, StepsMakeOne, EndingStays
<1>8. ASSUME UNCHANGED <<queue, cur, out>>, backoff'[c] = backoff[c]
      PROVE  UpOrEnding(c)'
  BY <1>1, <1>4, <1>8, StepsMakeOne, EndingStays
<1>9. CASE Messaging
  <2>1. Moved \/ \E t \in Task : PutTimeout(t)
    BY <1>1, <1>9, PutMoves, ReceiveMoves DEF Messaging, Put
  <2> QED
    BY <1>1, <1>4, <1>9, <2>1, StepsMakeOne, EndingStays DEF Messaging, agentVars
<1>10. CASE IpnetStep
  <2>1. \/ UNCHANGED <<queue, cur, out>>
        \/ /\ Free("ipnet") /\ cur["ipnet"].topic = "IPNET_EXECUTE_CMD"
           /\ \E cmd \in {"TCP_CONNECT", "TCP_SHUTDOWN"} : \E ok, s :
                ReturnPublishing("ipnet", IpnetStatus(cmd, cur["ipnet"].ctx, ok, s))
        \/ \E s \in Socket : CallPublish("iptask", RxTx(s)) \/ CallPublish("iptask", Disconnected(s))
    BY <1>10
    DEF IpnetStep, IpnetHandler, TcpConnect, TcpConnectNoSocket, TcpConnectFails, TcpConnectReturns, TcpShutdown,
        Executing, Handling, User, IpTaskStep, Established, PeerCloses, Traffic, WakeUp, CloseDone, busVars
  <2>2. UNCHANGED backoff
    BY <1>10 DEF IpnetStep, agentVars
  <2> QED
    BY <1>3, <1>5, <1>7, <1>8, <2>1, <2>2, MadeCarries
<1>11. CASE MqttStep
  <2>1. UNCHANGED backoff
    BY <1>11 DEF MqttStep, agentVars
  <2>2. CASE MqttHandler
    <3>1. PICK u : u = MqttUser
      OBVIOUS
    <3>2. /\ cur["mqtt"].topic = "MQTT_EXECUTE_CMD" /\ Free("mqtt") /\ cur["mqtt"].ctx = u
          /\ \/ UNCHANGED <<queue, cur, out>>
             \/ ReturnSilently("mqtt")
             \/ cur["mqtt"].cmd = "CONNECT" /\ \E ok : ReturnPublishing("mqtt", MqttStatus("CONNECT", u, ok))
             \/ \E ok : ReturnPublishing("mqtt", MqttStatus("SUBSCRIBE", u, ok))
             \/ ReturnPublishing("mqtt", MqttStatus("DISCONNECT", u, TRUE))
      BY <2>2, <3>1, MqttOutcomes DEF Connecting, Subscribing, Serving, Ending, MqttUser
    <3>3. ASSUME NEW m, ReturnPublishing("mqtt", m),
                 \/ m = MqttStatus("DISCONNECT", u, TRUE)
                 \/ \E ok : m = MqttStatus("SUBSCRIBE", u, ok)
                 \/ cur["mqtt"].cmd = "CONNECT" /\ \E ok : m = MqttStatus("CONNECT", u, ok)
          PROVE  UpOrEnding(c)'
      <4>1. Carries(m, c) => Kind(m, c) = "ended"
        BY <1>3, <3>2, <3>3 DEF Carries, MovesClient, Kind, MqttStatus
      <4> QED
        BY <1>5, <2>1, <3>2, <3>3, <4>1
    <3> QED
      BY <1>6, <1>8, <2>1, <3>2, <3>3
  <2>3. CASE MonitorHandler
    <3>1. \/ ReturnSilently("ipnet")
          \/ /\ Free("ipnet")
             /\ \E u : \E cmd \in {"PROCESS_LOOP", "DISCONNECT"} : ReturnPublishing("ipnet", MqttCmd(cmd, u))
      BY <2>3 DEF MonitorHandler, MonitorDisconnected, MonitorActivity, Monitor
    <3> QED
      BY <1>5, <1>6, <2>1, <3>1, MadeCarries
  <2>4. CASE Tick \/ TickContinues \/ \E e \in Client : SubackArrives(e)
    <3>1. UNCHANGED <<queue, cur, out>> \/ \E u : CallPublish("timer", MqttCmd("BROKER_PING", u))
      BY <2>4 DEF Tick, TickContinues, SubackArrives, busVars
    <3> QED
      BY <1>7, <1>8, <2>1, <3>1, MadeCarries
  <2> QED
    BY <1>11, <2>2, <2>3, <2>4 DEF MqttStep
<1>12. CASE AgentStep
  <2>1. CASE IpnetStatusHandler
    <3>1. cur["ipnet"].topic = "IPNET_CMD_STATUS" /\ Free("ipnet") /\ cur["ipnet"].ctx # c
      BY <1>3, <2>1 DEF IpnetStatusHandler, NotOurs, OnTcpConnected, OnTcpDown, Completed, Handling
    <3>2. backoff'[c] = backoff[c]
      BY <1>1, <2>1, <3>1
      DEF IpnetStatusHandler, NotOurs, OnTcpConnected, OnTcpDown, RaiseTimer, TimerRefused, agentVars
    <3>3. ReturnSilently("ipnet") \/ \E s : ReturnPublishing("ipnet", MqttConnect(cur["ipnet"].ctx, s))
      BY <2>1 DEF IpnetStatusHandler, NotOurs, OnTcpConnected, OnTcpDown, RaiseTimer, TimerRefused
    <3> QED
      BY <1>5, <1>6, <3>1, <3>2, <3>3, MadeCarries
  <2>2. CASE MqttStatusHandler
    <3>1. PICK u : u = Subject
      OBVIOUS
    <3>2. /\ cur["mqtt"].topic = "MQTT_CMD_STATUS" /\ Free("mqtt") /\ UNCHANGED backoff
          /\ \/ ReturnSilently("mqtt")
             \/ \E cmd \in {"SUBSCRIBE", "DISCONNECT"} : ReturnPublishing("mqtt", MqttCmd(cmd, u))
             \/ u # c /\ ReturnPublishing("mqtt", IpnetCmd("TCP_SHUTDOWN", u))
      BY <1>3, <1>12, <2>2, <3>1
      DEF MqttStatusHandler, OnConnected, OnConnectFailed, OnSubscribed, OnSubscribeFailed, OnDisconnected,
          OnStatus, Handling, Request, Subject, agentVars
    <3> QED
      BY <1>5, <1>6, <3>2, MadeCarries
  <2>3. CASE AgentStopShutdown
    <3>1. PICK u : u = stopping
      OBVIOUS
    <3>2. CallPublish("cli", IpnetCmd("TCP_SHUTDOWN", u)) /\ UNCHANGED backoff /\ u # c
      BY <2>3, <3>1 DEF AgentStopShutdown, StartedInv
    <3> QED
      BY <1>7, <3>2, MadeCarries
  <2>4. ASSUME NEW u \in Client, BackoffEnds(u) PROVE UpOrEnding(c)'
    <3>1. /\ backoff[u] > 0 /\ backoff' = [backoff EXCEPT ![u] = @ - 1]
          /\ CallPublish("timer", IpnetCmd("TCP_CONNECT", u)) \/ UNCHANGED <<queue, cur, out>>
      BY <2>4 DEF BackoffEnds, BackoffFires, busVars
    <3>2. u # c /\ backoff'[c] = backoff[c]
      BY <1>1, <3>1 DEF UpOrEnding
    <3> QED
      BY <1>7, <1>8, <3>1, <3>2, MadeCarries
  <2>5. ASSUME NEW u \in Client, AgentStart(u) \/ AgentStop(u) PROVE UpOrEnding(c)'
    <3>1. u # c
      BY <2>5 DEF AgentStart, AgentStop, TypeOK, AgentTypeOK
    <3>2. /\ CallPublish("cli", IpnetCmd("TCP_CONNECT", u)) \/ CallPublish("cli", MqttCmd("DISCONNECT", u))
          /\ UNCHANGED backoff
      BY <2>5 DEF AgentStart, AgentStop
    <3> QED
      BY <1>7, <3>1, <3>2, MadeCarries
  <2> QED
    BY <1>12, <2>1, <2>2, <2>3, <2>4, <2>5 DEF AgentStep
<1>13. CASE Ended \/ UNCHANGED vars
  BY <1>8, <1>13 DEF Ended, vars, busVars, agentVars
<1> QED
  BY <1>9, <1>10, <1>11, <1>12, <1>13 DEF Next

-----------------------------------------------------------------------------
(* The steps of a client's line *)

LEMMA PairHas ==
  ASSUME NEW c
  PROVE  /\ \A a, b : Pair(c, a, b) => Has(c, a) /\ Has(c, b)
         /\ \A b : Has(c, b) /\ b # InLine(0, c) => Pair(c, InLine(0, c), b)
<1>1. \A i \in 0..Last : i = 0 \/ 0 < i
  BY LinePlaces
<1>2. 0 \in 0..Last
  BY LinePlaces
<1>3. ASSUME NEW b, Has(c, b), b # InLine(0, c) PROVE Pair(c, InLine(0, c), b)
  <2>1. PICK i \in 0..Last : InLine(i, c) = b
    BY <1>3 DEF Has
  <2> QED
    BY <1>1, <1>2, <1>3, <2>1 DEF Pair
<1> QED
  BY <1>3 DEF Pair, Has

\* When CONNACK comes, nothing but the session carries the client on.
LEMMA AcceptedAlone ==
  ASSUME TypeOK, [Next]_vars, MqttHandler, NEW c \in Client, AtMostOne(c), MqttUser = c, cur["mqtt"].cmd = "CONNECT"
  PROVE  /\ Kind(cur["mqtt"], c) = "login" /\ backoff[c] = 0 /\ ~UpOrEnding(c) /\ ~Has(c, "ended")
         /\ ReturnPublishing("mqtt", MqttStatus("CONNECT", c, TRUE)) /\ session'[c].phase = "connected" => UpOrEnding(c)'
<1>1. PICK here \in Places : here = <<"mqtt", 0>> /\ At(here) = cur["mqtt"]
  BY PlaceKinds, AtPlaces DEF Dispatcher, TypeOK
<1>2. /\ Free("mqtt") /\ cur["mqtt"].topic = "MQTT_EXECUTE_CMD" /\ "mqtt" \in Dispatcher
      /\ Kind(cur["mqtt"], c) = "login"
  BY MqttOutcomes DEF Kind, MqttUser, Dispatcher
<1>3. Carries(At(here), c)
  BY <1>1, <1>2, KindFacts
<1>4. /\ \A p \in Places : Carries(At(p), c) => p = here
      /\ Other(c) = 0
  BY <1>3 DEF AtMostOne, Carried
<1>5. backoff[c] = 0
  BY <1>4 DEF Other, Weight, TypeOK, AgentTypeOK
<1>6. ~UpOrEnding(c)
  BY <1>1, <1>2, <1>3 DEF UpOrEnding
<1>7. ~Has(c, "ended")
  <2> SUFFICES ASSUME NEW i \in 0..Last, InLine(i, c) = "ended" PROVE FALSE
    BY DEF Has
  <2>1. PICK p \in Places : p = <<"mqtt", i>>
    BY LinePlaces
  <2>2. Kind(At(p), c) = "ended"
    BY <2>1 DEF InLine
  <2>3. p = here
    BY <1>4, <2>2, KindFacts
  <2> QED
    BY <1>1, <1>2, <2>2, <2>3
<1>8. ASSUME ReturnPublishing("mqtt", MqttStatus("CONNECT", c, TRUE)), session'[c].phase = "connected"
      PROVE  UpOrEnding(c)'
  <2>1. PICK m : m = MqttStatus("CONNECT", c, TRUE)
    OBVIOUS
  <2>2. ~Carries(m, c) /\ ~Carries(NoMsg, c)
    BY <2>1, MadeCarries, NoMsgCarriesNobody
  <2>3. \A p \in Places : At(p)' = NoMsg \/ At(p)' = m \/ (At(p)' = At(p) /\ p # here)
    BY <1>1, <1>2, <1>8, <2>1, StepAt DEF TypeOK
  <2>4. \A p \in Places : ~Carries(At(p)', c)
    BY <1>4, <2>2, <2>3
  <2>5. session'[c] # session[c]
    BY <1>4, <1>8, <1>5 DEF Other, Up, Weight, Connected
  <2>6. UNCHANGED backoff
    BY <2>5 DEF Next, Messaging, IpnetStep, MqttStep, AgentStep, Ended, vars, mqttVars, agentVars
  <2> QED
    BY <1>5, <2>4, <2>6 DEF UpOrEnding
<1> QED
  BY <1>2, <1>5, <1>6, <1>7, <1>8

\* The handler of the MQTT service deals with a message of the client.
LEMMA UserKeepsLine ==
  ASSUME TypeOK, StartedInv, [Next]_vars, MqttHandler, NEW c \in Client, c \in registered, c \in registered',
         MqttUser = c, AtMostOne(c), OnSocket(c), LineGood(c)
  PROVE  LineGood(c)'
<1>1. /\ Free("mqtt") /\ cur["mqtt"].topic = "MQTT_EXECUTE_CMD" /\ cur["mqtt"].ctx = c
      /\ UNCHANGED <<socketDb, tcp>> /\ BusTypeOK
      /\ Connecting(c) \/ Subscribing(c) \/ Serving(c) \/ Ending(c)
  BY MqttOutcomes DEF MqttUser, TypeOK
<1>2. Lost(c)' <=> Lost(c)
  BY <1>1 DEF Lost
<1>3. UpOrEnding(c) => UpOrEnding(c)'
  <2>1. ~OnDisconnected
    BY <1>1 DEF OnDisconnected, OnStatus, Handling
  <2> QED
    BY <2>1, UpOrEndingStays
<1>4. PICK h : h = Kind(cur["mqtt"], c) /\ h = InLine(0, c)
  BY AtPlaces DEF InLine, Dispatcher, TypeOK
<1>5. /\ cur["mqtt"].cmd = "CONNECT" => h = "login"
      /\ cur["mqtt"].cmd = "SUBSCRIBE" => h = "sub"
      /\ cur["mqtt"].cmd = "DISCONNECT" => h = "quit"
  BY <1>1, <1>4 DEF Kind
<1>6. /\ \A a, b : Pair(c, a, b) => Has(c, a) /\ Has(c, b)
      /\ \A b : Has(c, b) /\ b # h => Pair(c, h, b)
      /\ 0 \in 0..Last /\ Has(c, h)
  BY <1>4, PairHas, LinePlaces DEF Has
<1>7. LineOrder(c) /\ LineState(c) /\ QuitIsRight(c) /\ Kinds = {"login", "accepted", "sub", "refused", "quit", "ended"}
  BY DEF LineGood, Kinds
<1>8. /\ ReturnSilently("mqtt") => LineReturns(c, h, "none")
      /\ \A m, k : ReturnPublishing("mqtt", m) /\ k = Kind(m, c) => LineReturns(c, h, k)
  BY <1>1, <1>4, LineOfReturn
<1>9. ASSUME NEW k, LineReturns(c, h, k)
      PROVE  /\ \A a \in Kinds : Has(c, a)' => a = k \/ Pair(c, h, a)
             /\ \A a, b \in Kinds : Pair(c, a, b)' => Pair(c, a, b) \/ (b = k /\ Pair(c, h, a))
             /\ InLine(Last, c)' = k
             /\ k = "none" => LineKeeps(c)
  BY <1>9, ReturnsNothing DEF LineReturns
<1>10. ASSUME LineKeeps(c), Subscr(c)' => Subscr(c), session[c] = NoSession => session'[c] = NoSession
       PROVE  LineGood(c)'
  BY <1>2, <1>3, <1>10, CalmKeepsLine DEF Calm
<1>11. CASE Connecting(c)
  <2>1. h = "login" /\ ~UpOrEnding(c) /\ ~Has(c, "ended") /\ cur["mqtt"].cmd = "CONNECT"
    BY <1>4, <1>11, AcceptedAlone DEF Connecting
  <2>2. ~Has(c, "accepted") /\ (session[c] = NoSession /\ Has(c, "quit") => Pair(c, "login", "quit"))
    BY <1>6, <1>7, <2>1 DEF LineState
  <2>3. CASE UNCHANGED <<queue, cur, out>> /\ session'[c].phase \in {"listed", "connecting"}
    <3>1. LineKeeps(c) /\ ~Subscr(c)'
      BY <1>1, <2>3, LineOfOthers DEF Subscr
    <3>2. /\ \A a \in Kinds : Has(c, a)' => Has(c, a)
          /\ \A a, b \in Kinds : Pair(c, a, b)' => Pair(c, a, b)
          /\ InLine(Last, c)' \in {InLine(Last, c), "none"}
      BY <3>1 DEF LineKeeps
    <3>3. LineOrder(c)'
      BY <1>7, <3>2 DEF LineOrder
    <3>4. LineState(c)'
      BY <1>3, <1>7, <3>1, <3>2 DEF LineState
    <3>5. QuitIsRight(c)'
      BY <1>2, <1>7, <2>2, <3>1, <3>2 DEF QuitIsRight
    <3> QED
      BY <3>3, <3>4, <3>5 DEF LineGood
  <2>4. CASE ReturnPublishing("mqtt", MqttStatus("CONNECT", c, FALSE)) /\ session'[c] \in {session[c], NoSession}
    <3>1. Kind(MqttStatus("CONNECT", c, FALSE), c) = "none"
      BY DEF Kind, MqttStatus
    <3>2. LineKeeps(c)
      BY <1>8, <1>9, <2>4, <3>1
    <3> QED
      BY <1>10, <2>4, <3>2, NoSessionPhase DEF Subscr
  <2>5. CASE ReturnPublishing("mqtt", MqttStatus("CONNECT", c, TRUE)) /\ session'[c].phase = "connected"
    <3>1. Kind(MqttStatus("CONNECT", c, TRUE), c) = "accepted"
      BY DEF Kind, MqttStatus
    <3>2. /\ \A a \in Kinds : Has(c, a)' => a = "accepted" \/ Pair(c, "login", a)
          /\ \A a, b \in Kinds : Pair(c, a, b)' => Pair(c, a, b) \/ (b = "accepted" /\ Pair(c, "login", a))
          /\ InLine(Last, c)' = "accepted"
      BY <1>8, <1>9, <2>1, <2>5, <3>1
    <3>3. ~Subscr(c)' /\ UpOrEnding(c)'
      BY <2>1, <2>5, AcceptedAlone DEF Subscr
    <3>4. LineOrder(c)'
      BY <1>6, <1>7, <2>1, <2>2, <3>2 DEF LineOrder
    <3>5. LineState(c)'
      BY <1>6, <1>7, <2>2, <3>2, <3>3 DEF LineState
    <3>6. QuitIsRight(c)'
      BY <1>2, <1>6, <1>7, <2>2, <3>2, <3>3 DEF QuitIsRight
    <3> QED
      BY <3>4, <3>5, <3>6 DEF LineGood
  <2> QED
    BY <1>11, <2>3, <2>4, <2>5 DEF Connecting
<1>12. CASE Subscribing(c)
  <2>1. h = "sub" /\ ~Pair(c, "sub", "sub") /\ ~Pair(c, "sub", "accepted") /\ ~Pair(c, "sub", "refused")
    BY <1>5, <1>7, <1>12 DEF Subscribing, LineOrder
  <2>2. ~Subscr(c)
    BY <1>6, <1>7, <2>1 DEF LineState
  <2>3. CASE ReturnSilently("mqtt") /\ session[c] # NoSession /\ Alive(c)
    <3>1. /\ LineKeeps(c)
          /\ \A a \in Kinds : Has(c, a)' => a = "none" \/ Pair(c, "sub", a)
          /\ \A a, b \in Kinds : Pair(c, a, b)' => Pair(c, a, b) \/ (b = "none" /\ Pair(c, "sub", a))
          /\ InLine(Last, c)' = "none"
      BY <1>8, <1>9, <2>1, <2>3
    <3>2. ~Lost(c)
      BY <2>3 DEF Lost, OnSocket, Alive
    <3>3. LineOrder(c)'
      BY <1>7, <3>1 DEF LineOrder
    <3>4. LineState(c)'
      BY <1>7, <2>1, <3>1 DEF LineState
    <3>5. QuitIsRight(c)'
      BY <1>6, <1>7, <2>3, <3>1, <3>2 DEF QuitIsRight
    <3> QED
      BY <3>3, <3>4, <3>5 DEF LineGood
  <2>4. CASE ReturnPublishing("mqtt", MqttStatus("SUBSCRIBE", c, FALSE)) /\ session'[c] = session[c]
    <3>1. Kind(MqttStatus("SUBSCRIBE", c, FALSE), c) = "refused"
      BY DEF Kind, MqttStatus
    <3>2. /\ \A a \in Kinds : Has(c, a)' => a = "refused" \/ Pair(c, "sub", a)
          /\ \A a, b \in Kinds : Pair(c, a, b)' => Pair(c, a, b) \/ (b = "refused" /\ Pair(c, "sub", a))
          /\ InLine(Last, c)' = "refused"
      BY <1>8, <1>9, <2>1, <2>4, <3>1
    <3>3. ~Subscr(c)'
      BY <2>2, <2>4 DEF Subscr
    <3>4. LineOrder(c)'
      BY <1>7, <2>1, <3>2 DEF LineOrder
    <3>5. LineState(c)'
      BY <1>7, <2>1, <3>2, <3>3 DEF LineState
    <3>6. QuitIsRight(c)'
      BY <1>2, <1>6, <1>7, <2>4, <3>2, <3>3 DEF QuitIsRight
    <3> QED
      BY <3>4, <3>5, <3>6 DEF LineGood
  <2> QED
    BY <1>12, <2>3, <2>4 DEF Subscribing
<1>13. CASE Serving(c)
  <2>1. LineKeeps(c)
    BY <1>8, <1>9, <1>13, MadeKinds DEF Serving
  <2> QED
    BY <1>10, <1>13, <2>1 DEF Serving, Subscr
<1>14. CASE Ending(c)
  <2>1. h = "quit"
    BY <1>5, <1>14 DEF Ending
  <2>2. ~Subscr(c)' /\ session'[c] = NoSession
    BY <1>14, NoSessionPhase DEF Ending, Subscr
  <2>3. CASE ReturnSilently("mqtt")
    BY <1>8, <1>9, <1>10, <2>2, <2>3
  <2>4. CASE ReturnPublishing("mqtt", MqttStatus("DISCONNECT", c, TRUE))
    <3>1. Kind(MqttStatus("DISCONNECT", c, TRUE), c) = "ended"
      BY DEF Kind, MqttStatus
    <3>2. /\ \A a \in Kinds : Has(c, a)' => a = "ended" \/ Pair(c, "quit", a)
          /\ \A a, b \in Kinds : Pair(c, a, b)' => Pair(c, a, b) \/ (b = "ended" /\ Pair(c, "quit", a))
          /\ InLine(Last, c)' = "ended"
      BY <1>8, <1>9, <2>1, <2>4, <3>1
    <3>3. LineOrder(c)'
      BY <1>7, <3>2 DEF LineOrder
    <3>4. LineState(c)'
      BY <1>3, <1>6, <1>7, <2>2, <3>2 DEF LineState
    <3>5. QuitIsRight(c)'
      BY <1>2, <1>6, <1>7, <2>1, <2>2, <3>2 DEF QuitIsRight
    <3> QED
      BY <3>3, <3>4, <3>5 DEF LineGood
  <2> QED
    BY <1>14, <2>3, <2>4 DEF Ending
<1> QED
  BY <1>1, <1>11, <1>12, <1>13, <1>14

\* The agent's handler deals with a status of the client.
LEMMA SubjectKeepsLine ==
  ASSUME TypeOK, StartedInv, [Next]_vars, AgentStep, MqttStatusHandler, NEW c \in Client,
         c \in registered, c \in registered', Subject = c, LineGood(c)
  PROVE  LineGood(c)'
<1>1. /\ Free("mqtt") /\ cur["mqtt"].topic = "MQTT_CMD_STATUS" /\ cur["mqtt"].ctx = c
      /\ UNCHANGED <<socketDb, tcp, session>> /\ BusTypeOK
  BY DEF AgentStep, MqttStatusHandler, OnConnected, OnConnectFailed, OnSubscribed, OnSubscribeFailed, OnDisconnected,
         OnStatus, Handling, Subject, ipnetVars, mqttVars, TypeOK
<1>2. (Lost(c)' <=> Lost(c)) /\ (Subscr(c)' <=> Subscr(c)) /\ session'[c] = session[c]
  BY <1>1 DEF Lost, Subscr
<1>3. UpOrEnding(c) /\ ~OnDisconnected => UpOrEnding(c)'
  BY UpOrEndingStays
<1>4. PICK h : h = Kind(cur["mqtt"], c) /\ h = InLine(0, c)
  BY AtPlaces DEF InLine, Dispatcher, TypeOK
<1>5. /\ \A a, b : Pair(c, a, b) => Has(c, a) /\ Has(c, b)
      /\ Has(c, h)
  BY <1>4, PairHas, LinePlaces DEF Has
<1>6. LineOrder(c) /\ LineState(c) /\ QuitIsRight(c) /\ Kinds = {"login", "accepted", "sub", "refused", "quit", "ended"}
  BY DEF LineGood, Kinds
<1>7. /\ ReturnSilently("mqtt") => LineReturns(c, h, "none")
      /\ \A m, k : ReturnPublishing("mqtt", m) /\ k = Kind(m, c) => LineReturns(c, h, k)
  BY <1>1, <1>4, LineOfReturn
<1>8. ASSUME NEW k, LineReturns(c, h, k)
      PROVE  /\ \A a \in Kinds : Has(c, a)' => a = k \/ Pair(c, h, a)
             /\ \A a, b \in Kinds : Pair(c, a, b)' => Pair(c, a, b) \/ (b = k /\ Pair(c, h, a))
             /\ InLine(Last, c)' = k
             /\ k = "none" => LineKeeps(c)
  BY <1>8, ReturnsNothing DEF LineReturns
<1>9. CASE OnConnected
  <2>1. h = "accepted" /\ Kind(MqttCmd("SUBSCRIBE", c), c) = "sub" /\ ~OnDisconnected
    BY <1>1, <1>4, <1>9 DEF OnConnected, OnDisconnected, OnStatus, Handling, Kind, MqttCmd
  <2>2. /\ \A a \in Kinds : Has(c, a)' => a = "sub" \/ Pair(c, "accepted", a)
        /\ \A a, b \in Kinds : Pair(c, a, b)' => Pair(c, a, b) \/ (b = "sub" /\ Pair(c, "accepted", a))
        /\ InLine(Last, c)' = "sub"
    BY <1>7, <1>8, <1>9, <2>1 DEF OnConnected, Request, Subject
  <2>3. ~Subscr(c) /\ UpOrEnding(c) /\ UpOrEnding(c)'
    BY <1>3, <1>5, <1>6, <2>1 DEF LineState
  <2>4. ~Has(c, "login")
    <3> SUFFICES ASSUME NEW i \in 0..Last, InLine(i, c) = "login" PROVE FALSE
      BY DEF Has
    <3>1. PICK p \in Places : p = <<"mqtt", i>>
      BY LinePlaces
    <3>2. Kind(At(p), c) = "login"
      BY <3>1 DEF InLine
    <3> QED
      BY <2>3, <3>2, KindFacts DEF UpOrEnding
  <2>5. LineOrder(c)'
    BY <1>5, <1>6, <2>1, <2>2, <2>4 DEF LineOrder
  <2>6. LineState(c)'
    BY <1>2, <2>2, <2>3, <1>6 DEF LineState
  <2>7. QuitIsRight(c)'
    BY <1>2, <1>5, <1>6, <2>2, <2>3 DEF QuitIsRight
  <2> QED
    BY <2>5, <2>6, <2>7 DEF LineGood
<1>10. CASE OnConnectFailed \/ OnSubscribed
  <2>1. Kind(IpnetCmd("TCP_SHUTDOWN", c), c) = "none" /\ ~OnDisconnected
    BY <1>10 DEF OnConnectFailed, OnSubscribed, OnDisconnected, OnStatus, Handling, Kind, IpnetCmd
  <2>2. LineKeeps(c)
    BY <1>7, <1>8, <1>10, <2>1 DEF OnConnectFailed, OnSubscribed, Request, Subject
  <2> QED
    BY <1>2, <1>3, <2>1, <2>2, CalmKeepsLine DEF Calm
<1>11. CASE OnSubscribeFailed
  <2>1. h = "refused" /\ Kind(MqttCmd("DISCONNECT", c), c) = "quit" /\ ~OnDisconnected
    BY <1>1, <1>4, <1>11 DEF OnSubscribeFailed, OnDisconnected, OnStatus, Handling, Kind, MqttCmd
  <2>2. /\ \A a \in Kinds : Has(c, a)' => a = "quit" \/ Pair(c, "refused", a)
        /\ \A a, b \in Kinds : Pair(c, a, b)' => Pair(c, a, b) \/ (b = "quit" /\ Pair(c, "refused", a))
        /\ InLine(Last, c)' = "quit"
    BY <1>7, <1>8, <1>11, <2>1 DEF OnSubscribeFailed, Request, Subject
  <2>3. ~Subscr(c)' /\ ~Has(c, "sub")'
    BY <1>2, <1>5, <1>6, <2>1, <2>2 DEF LineState, LineOrder
  <2>4. LineOrder(c)'
    BY <1>6, <2>2 DEF LineOrder
  <2>5. LineState(c)'
    BY <1>2, <1>3, <1>5, <1>6, <2>1, <2>2, <2>3 DEF LineState
  <2>6. QuitIsRight(c)'
    BY <2>3, PairHas DEF QuitIsRight, Pair, Has
  <2> QED
    BY <2>4, <2>5, <2>6 DEF LineGood
<1>12. CASE OnDisconnected
  <2>1. h = "ended" /\ Kind(IpnetCmd("TCP_SHUTDOWN", c), c) = "none"
    BY <1>1, <1>4, <1>12 DEF OnDisconnected, OnStatus, Handling, Kind, IpnetCmd
  <2>2. /\ \A a \in Kinds : Has(c, a)' => a = "none" \/ Pair(c, "ended", a)
        /\ LineKeeps(c) /\ InLine(Last, c)' = "none"
    BY <1>7, <1>8, <1>12, <2>1 DEF OnDisconnected, Request, Subject
  <2>3. /\ \A a \in Kinds : Has(c, a)' => Has(c, a)
        /\ \A a, b \in Kinds : Pair(c, a, b)' => Pair(c, a, b)
    BY <2>2 DEF LineKeeps
  <2>4. LineOrder(c)'
    BY <1>6, <2>3 DEF LineOrder
  <2>5. LineState(c)'
    BY <1>2, <1>6, <2>2, <2>3 DEF LineState, LineOrder
  <2>6. QuitIsRight(c)'
    BY <1>2, <1>6, <2>3 DEF QuitIsRight
  <2> QED
    BY <2>4, <2>5, <2>6 DEF LineGood
<1> QED
  BY <1>9, <1>10, <1>11, <1>12 DEF MqttStatusHandler

\* The TCP/IP service carries out the shutdown of the client's socket.
LEMMA ShutdownKeepsLine ==
  ASSUME TypeOK, ConnectInv, StartedInv, [Next]_vars, IpnetStep, TcpShutdown, NEW c \in Client,
         c \in registered, c \in registered', User = c, AtMostOne(c), LineGood(c)
  PROVE  LineGood(c)'
<1>1. /\ Free("ipnet") /\ cur["ipnet"].topic = "IPNET_EXECUTE_CMD" /\ cur["ipnet"].ctx = c /\ BusTypeOK
      /\ UNCHANGED session /\ \E m : ReturnPublishing("ipnet", m)
  BY DEF TcpShutdown, Executing, Handling, User, IpnetStep, mqttVars, TypeOK
<1>2. LineKeeps(c)
  BY <1>1, LineOfOthers
<1>3. session[c] = NoSession /\ \A p \in Places : ~(SocketMsg(At(p)) /\ At(p).ctx = c)
  BY <1>1, CommandIsAlone
<1>4. ~Has(c, "login")
  <2> SUFFICES ASSUME NEW i \in 0..Last, InLine(i, c) = "login" PROVE FALSE
    BY DEF Has
  <2>1. PICK p \in Places : p = <<"mqtt", i>>
    BY LinePlaces
  <2>2. Kind(At(p), c) = "login"
    BY <2>1 DEF InLine
  <2> QED
    BY <1>3, <2>2, KindFacts
<1>5. session'[c] = NoSession /\ ~Subscr(c)'
  BY <1>1, <1>3, NoSessionPhase DEF Subscr
<1>6. UpOrEnding(c) => UpOrEnding(c)'
  <2>1. ~OnDisconnected
    BY <1>1, NoMsgIsNone
    DEF OnDisconnected, OnStatus, Handling, Request, ReturnPublishing, BusTypeOK, Dispatcher
  <2> QED
    BY <2>1, UpOrEndingStays
<1>7. /\ \A a \in Kinds : Has(c, a)' => Has(c, a)
      /\ \A a, b \in Kinds : Pair(c, a, b)' => Pair(c, a, b)
      /\ InLine(Last, c)' \in {InLine(Last, c), "none"}
      /\ LineOrder(c) /\ LineState(c) /\ Kinds = {"login", "accepted", "sub", "refused", "quit", "ended"}
  BY <1>2 DEF LineKeeps, LineGood, Kinds
<1>8. LineOrder(c)'
  BY <1>7 DEF LineOrder
<1>9. LineState(c)'
  BY <1>5, <1>6, <1>7 DEF LineState
<1>10. QuitIsRight(c)'
  BY <1>4, <1>5, <1>7, PairHas DEF QuitIsRight
<1> QED
  BY <1>8, <1>9, <1>10 DEF LineGood

\* A publish call puts its message into a queue.
LEMMA PutKeepsLine ==
  ASSUME TypeOK, StartedInv, WhereInv, [Next]_vars, NEW t \in Task, PutDone(t), NEW c \in Client,
         c \in registered, c \in registered', LineGood(c), QuitsOutside(c), Calm(c)
  PROVE  LineGood(c)'
<1>1. BusTypeOK
  BY DEF TypeOK
<1>2. CASE t = "mqtt"
  BY <1>1, <1>2, LineOfPut, CalmKeepsLine
<1>3. CASE t # "mqtt"
  <2>1. PICK p \in Places : p = <<t, Last>> /\ p[1] = t /\ p[2] = Last
    BY PlaceKinds DEF Last
  <2>2. PICK m : m = out[t] /\ At(p) = m
    BY <1>1, <2>1, AtPlaces DEF Last
  <2>3. PICK k : k = Kind(m, c)
    OBVIOUS
  <2>4. /\ \A a \in Kinds : Has(c, a)' => a = k \/ Has(c, a)
        /\ \A a, b \in Kinds : Pair(c, a, b)' =>
             Pair(c, a, b) \/ (b = k /\ Has(c, a)) \/ (a = k /\ InLine(Last, c) = b)
        /\ InLine(Last, c)' = InLine(Last, c)
    BY <1>1, <1>3, <2>2, <2>3, LineOfPut DEF LineGets
  <2>5. LineOrder(c) /\ LineState(c) /\ QuitIsRight(c) /\ Kinds = {"login", "accepted", "sub", "refused", "quit", "ended"}
    BY DEF LineGood, Kinds
  <2>6. /\ \A a, b : Pair(c, a, b) => Has(c, a) /\ Has(c, b)
        /\ \A b : InLine(Last, c) = b => Has(c, b)
    BY PairHas, LinePlaces DEF Has
  <2>7. m = NoMsg \/ Sends(t, m)
    BY <2>1, <2>2 DEF WhereInv, Rightly
  <2>8. /\ k \in {"none", "login", "quit"}
        /\ k = "login" => t = "ipnet" /\ ~UpOrEnding(c)
        /\ k = "quit" => t = "ipnet" /\ Lost(c)
    <3>1. k \in Kinds \cup {"none"}
      BY <2>3, KindFacts
    <3>2. k \in {"accepted", "refused", "ended", "sub"} => t = "mqtt"
      BY <2>3, <2>7, KindFacts DEF Kind, Sends, NoMsg
    <3>3. k = "login" => t = "ipnet"
      BY <2>3, <2>7 DEF Kind, Sends, NoMsg
    <3>4. k = "login" => ~UpOrEnding(c)
      BY <2>2, <2>3, KindFacts DEF UpOrEnding
    <3>5. k = "quit" => t \in {"ipnet", "cli"}
      BY <1>3, <2>3, <2>7 DEF Kind, Sends, NoMsg
    <3>6. k = "quit" => t = "ipnet" /\ Lost(c)
      BY <2>2, <2>3, <3>5 DEF QuitsOutside
    <3> QED
      BY <1>3, <2>5, <3>1, <3>2, <3>3, <3>4, <3>6
  <2>9. k = "login" => InLine(Last, c) # "sub" /\ ~Has(c, "accepted")
    BY <2>5, <2>8 DEF LineState
  <2>10. LineOrder(c)'
    BY <2>4, <2>5, <2>6, <2>8, <2>9 DEF LineOrder
  <2>11. LineState(c)'
    BY <2>4, <2>5, <2>8 DEF LineState, Calm
  <2>12. QuitIsRight(c)'
    <3>1. CASE k = "quit"
      BY <2>8, <3>1 DEF QuitIsRight, Calm
    <3>2. CASE k # "quit" /\ Has(c, "quit")'
      <4>1. Has(c, "quit")
        BY <2>4, <2>5, <3>2
      <4>2. CASE Lost(c) \/ (~Subscr(c) /\ ~Pair(c, "sub", "quit"))
        BY <2>4, <2>5, <2>8, <3>2, <4>2 DEF QuitIsRight, Calm
      <4>3. CASE session[c] = NoSession /\ ~Pair(c, "login", "quit")
        <5>1. session'[c] = NoSession /\ ~Subscr(c)'
          BY <4>3, NoSessionPhase DEF Calm, Subscr
        <5>2. CASE k = "login" /\ InLine(Last, c) = "quit"
          <6>1. ~Has(c, "sub")
            BY <2>5, <5>2 DEF LineState
          <6>2. ~Pair(c, "sub", "quit")'
            BY <2>4, <2>5, <2>6, <5>2, <6>1
          <6> QED
            BY <5>1, <6>2 DEF QuitIsRight
        <5>3. CASE ~(k = "login" /\ InLine(Last, c) = "quit")
          <6>1. ~Pair(c, "login", "quit")'
            BY <2>4, <2>5, <3>2, <4>3, <5>3
          <6> QED
            BY <5>1, <6>1 DEF QuitIsRight
        <5> QED
          BY <5>2, <5>3
      <4> QED
        BY <2>5, <4>1, <4>2, <4>3 DEF QuitIsRight
    <3> QED
      BY <3>1, <3>2 DEF QuitIsRight
  <2> QED
    BY <2>10, <2>11, <2>12 DEF LineGood
<1> QED
  BY <1>2, <1>3

LEMMA RestKeepsLine ==
  ASSUME TypeOK, SocketInv, StartedInv, WhereInv, [Next]_vars, NEW c \in Client, c \in registered, c \in registered',
         LineGood(c), QuitsOutside(c),
         ~(MqttHandler /\ MqttUser = c), ~(AgentStep /\ MqttStatusHandler /\ Subject = c),
         ~(IpnetStep /\ TcpShutdown /\ User = c)
  PROVE  LineGood(c)'
<1>1. Calm(c)
  <2>1. UpOrEnding(c) => UpOrEnding(c)'
    BY UpOrEndingStays DEF MqttStatusHandler
  <2> QED
    BY <2>1, OtherSessions, LostStays DEF Calm
<1>2. BusTypeOK /\ BusStep
  BY NextIsBusStep DEF TypeOK
<1>3. LineKeeps(c) => LineGood(c)'
  BY <1>1, CalmKeepsLine
<1>4. ASSUME NEW d \in Dispatcher, NEW m, Free(d), ReturnPublishing(d, m), Answers(d, m)
      PROVE  LineGood(c)'
  <2>1. CASE d = "ipnet"
    BY <1>2, <1>3, <1>4, <2>1, LineOfOthers
  <2>2. CASE d = "mqtt"
    <3>1. m.ctx # c
      BY <1>4, <2>2 DEF Answers
    <3>2. Kind(m, c) = "none"
      BY <3>1, KindFacts
    <3>3. PICK h : h = Kind(cur["mqtt"], c) /\ LineReturns(c, h, "none")
      BY <1>2, <1>4, <2>2, <3>2, LineOfReturn
    <3> QED
      BY <1>3, <3>3, ReturnsNothing
  <2> QED
    BY <2>1, <2>2 DEF Dispatcher
<1>5. ASSUME NEW t \in Task, PutDone(t) PROVE LineGood(c)'
  BY <1>1, <1>5, PutKeepsLine
<1> QED
  BY <1>2, <1>3, <1>4, <1>5, LineOfOthers DEF BusStep

LEMMA NextKeepsOutside ==
  ASSUME TypeOK, SocketInv, NoticeInv, [Next]_vars, NEW c \in Client, c \in registered, c \in registered',
         OnSocket(c), QuitsOutside(c)
  PROVE  QuitsOutside(c)'
<1>1. BusTypeOK /\ BusStep /\ {"ipnet", "cli"} \subseteq Task /\ "ipnet" \in Dispatcher /\ "cli" \notin Dispatcher
  BY NextIsBusStep DEF TypeOK, Task, Dispatcher
<1>2. Kind(NoMsg, c) = "none" /\ \A m : Kind(m, c) = "quit" => IsQuit(m) /\ m.ctx = c
  BY KindFacts DEF Kind, IsQuit
<1>3. ASSUME Kind(out["ipnet"], c) = "quit" PROVE Lost(c)'
  <2>1. ~TcpShutdown
    BY <1>2, <1>3 DEF TcpShutdown, Executing, Handling, Free, Publishing
  <2> QED
    BY <1>3, <2>1, LostStays DEF QuitsOutside
<1>4. ASSUME NEW m, ReturnPublishing("ipnet", m), Answers("ipnet", m), Kind(m, c) = "quit"
      PROVE  Lost(c)'
  <2>1. MqttStep /\ MonitorDisconnected
    BY <1>2, <1>4 DEF Answers
  <2>2. PICK s \in Socket : s = cur["ipnet"].socket /\ cur["ipnet"] = Disconnected(s)
    <3>1. cur["ipnet"] \in Msg /\ cur["ipnet"].topic = "IPNET_SOCKET_DISCONNECTED"
      BY <1>1, <2>1, HandlingType DEF MonitorDisconnected, Monitor
    <3> QED
      BY <3>1 DEF Msg, IpnetMsg, MqttMsg, Disconnected
  <2>3. \/ ReturnSilently("ipnet")
        \/ \E e \in Sessions : session[e].socket = s /\ ReturnPublishing("ipnet", MqttCmd("DISCONNECT", e))
    BY <2>1, <2>2 DEF MonitorDisconnected, Monitor
  <2>4. out'["ipnet"] = m
    BY <1>1, <1>4 DEF ReturnPublishing, Publish, BusTypeOK
  <2>5. ~ReturnSilently("ipnet")
    <3>1. out["ipnet"] = NoMsg
      BY <2>1 DEF MonitorDisconnected, Monitor, Free, Publishing
    <3> QED
      BY <1>2, <1>4, <2>4, <3>1, KindFacts DEF ReturnSilently
  <2>6. PICK e \in Sessions : session[e].socket = s /\ ReturnPublishing("ipnet", MqttCmd("DISCONNECT", e))
    BY <2>3, <2>5
  <2>7. m = MqttCmd("DISCONNECT", e)
    BY <1>1, <2>4, <2>6 DEF ReturnPublishing, Publish, BusTypeOK
  <2>8. e = c
    BY <1>2, <1>4, <2>7 DEF MqttCmd
  <2>9. socketDb[c] = s /\ session[c] # NoSession
    BY <2>6, <2>8 DEF OnSocket, Sessions
  <2>10. Down(s)
    <3>1. PICK p \in Places : p = <<"ipnet", 0>> /\ At(p) = cur["ipnet"]
      BY <1>1, PlaceKinds, AtPlaces
    <3>2. 0 \in 0..QueueLength
      BY BusAssumption
    <3> QED
      BY <2>2, <2>9, <3>1, <3>2 DEF NoticeInv, NoNotice
  <2>11. Lost(c)
    BY <2>9, <2>10 DEF Down, SocketInv, Custody, Lost
  <2> QED
    BY <2>1, <2>11 DEF MonitorDisconnected, Monitor, ipnetVars, Lost
<1>5. out'["ipnet"] = out["ipnet"] \/ out'["ipnet"] = NoMsg \/ Kind(out'["ipnet"], c) # "quit" \/ Lost(c)'
  <2>1. \A t \in Task : PutDone(t) \/ PutTimeout(t) => out'["ipnet"] = out["ipnet"] \/ out'["ipnet"] = NoMsg
    BY <1>1 DEF PutDone, PutTimeout, BusTypeOK
  <2>2. \A t \in Task \ Dispatcher : \A m : CallPublish(t, m) => out'["ipnet"] = out["ipnet"]
    BY <1>1 DEF CallPublish, Publish, BusTypeOK
  <2>3. \A d \in Dispatcher : \A m : ReturnPublishing(d, m) =>
          IF d = "ipnet" THEN out'["ipnet"] = m ELSE out'["ipnet"] = out["ipnet"]
    BY <1>1 DEF ReturnPublishing, Publish, BusTypeOK
  <2> QED
    BY <1>1, <1>4, <2>1, <2>2, <2>3 DEF BusStep, Receive, ReturnSilently
<1>6. Kind(out'["cli"], c) # "quit"
  <2>1. \A t \in Task : PutDone(t) \/ PutTimeout(t) => out'["cli"] = out["cli"] \/ out'["cli"] = NoMsg
    BY <1>1 DEF PutDone, PutTimeout, BusTypeOK
  <2>2. \A t \in Task \ Dispatcher : \A m : CallPublish(t, m) => out'["cli"] = out["cli"] \/ out'["cli"] = m
    BY <1>1 DEF CallPublish, Publish, BusTypeOK
  <2>3. \A d \in Dispatcher : \A m : ReturnPublishing(d, m) => out'["cli"] = out["cli"]
    BY <1>1 DEF ReturnPublishing, Publish, BusTypeOK
  <2>4. \A m : Spares(m) => Kind(m, c) # "quit"
    BY <1>2 DEF Spares
  <2> QED
    BY <1>1, <1>2, <2>1, <2>2, <2>3, <2>4 DEF BusStep, Receive, ReturnSilently, QuitsOutside
<1>7. Kind(out'["ipnet"], c) = "quit" => Lost(c)'
  BY <1>2, <1>3, <1>5
<1> QED
  BY <1>6, <1>7 DEF QuitsOutside

LEMMA StartKeepsLine ==
  ASSUME TypeOK, StartedInv, [Next]_vars, NEW c \in Client, c \notin registered, c \in registered'
  PROVE  LineGood(c)' /\ QuitsOutside(c)'
<1>1. c \notin started /\ CallPublish("cli", IpnetCmd("TCP_CONNECT", c)) /\ BusTypeOK
      /\ "cli" \in Task \ Dispatcher /\ "ipnet" \in Task
  BY NewClient DEF AgentStart, TypeOK, Task, Dispatcher
<1>2. \A p \in Places : Kind(At(p), c) = "none"
  BY <1>1, KindFacts DEF StartedInv, MessagesStarted
<1>3. ASSUME NEW i \in 0..Last PROVE InLine(i, c) = "none"
  <2>1. PICK p \in Places : p = <<"mqtt", i>>
    BY LinePlaces
  <2> QED
    BY <1>2, <2>1 DEF InLine
<1>4. /\ \A a \in Kinds : ~Has(c, a)
      /\ \A a, b \in Kinds : ~Pair(c, a, b)
  BY <1>3, KindFacts DEF Has, Pair
<1>5. LineKeeps(c)
  BY <1>1, LineOfOthers
<1>6. /\ \A a \in Kinds : ~Has(c, a)'
      /\ \A a, b \in Kinds : ~Pair(c, a, b)'
      /\ InLine(Last, c)' = "none"
      /\ Kinds = {"login", "accepted", "sub", "refused", "quit", "ended"}
  BY <1>3, <1>4, <1>5, LinePlaces DEF LineKeeps, Kinds
<1>7. LineGood(c)'
  BY <1>6 DEF LineGood, LineOrder, LineState, QuitIsRight
<1>8. Kind(out["ipnet"], c) = "none"
  <2>1. PICK p \in Places : p = <<"ipnet", Last>>
    BY <1>1, PlaceKinds DEF Last
  <2> QED
    BY <1>1, <1>2, <2>1, AtPlaces DEF Last
<1>9. out'["ipnet"] = out["ipnet"] /\ out'["cli"] = IpnetCmd("TCP_CONNECT", c)
  BY <1>1 DEF CallPublish, Publish, BusTypeOK
<1>10. Kind(IpnetCmd("TCP_CONNECT", c), c) = "none"
  BY MadeKinds
<1>11. QuitsOutside(c)'
  BY <1>8, <1>9, <1>10 DEF QuitsOutside
<1> QED
  BY <1>7, <1>11

LEMMA NextKeepsLine ==
  ASSUME TypeOK, TypeOK', SocketInv, ConnectInv, StartedInv, OneInv, OnSocketInv, WhereInv, NoticeInv, LineInv, [Next]_vars
  PROVE  LineInv'
<1> SUFFICES ASSUME NEW c \in Client, c \in registered' PROVE LineGood(c)' /\ QuitsOutside(c)'
  BY DEF LineInv, LineGood, TypeOK, AgentTypeOK
<1>1. CASE c \notin registered
  BY <1>1, StartKeepsLine
<1>2. CASE c \in registered
  <2>1. AtMostOne(c) /\ OnSocket(c) /\ LineGood(c) /\ QuitsOutside(c)
    BY <1>2 DEF OneInv, OnSocketInv, LineInv, LineGood
  <2>2. LineGood(c)'
    BY <1>2, <2>1, UserKeepsLine, SubjectKeepsLine, ShutdownKeepsLine, RestKeepsLine
  <2> QED
    BY <1>2, <2>1, <2>2, NextKeepsOutside
<1> QED
  BY <1>1, <1>2

LEMMA LineHolds == Spec => [](TypeOK /\ OneInv /\ OnSocketInv /\ LineInv)
<1>1. Init => LineInv
  BY DEF Init, AgentInit, LineInv
<1>2. TypeOK /\ TypeOK' /\ SocketInv /\ ConnectInv /\ StartedInv /\ OneInv /\ OnSocketInv /\ WhereInv
        /\ NoticeInv /\ LineInv /\ [Next]_vars => LineInv'
  BY NextKeepsLine
<1> QED
  BY <1>1, <1>2, OneHolds, OrderHolds, PTL DEF Spec

\* The sessions that have sent SUBSCRIBE over a socket that is connected.
Kept ==
  \A c \in registered :
    session[c].phase \in {"subscribing", "acked", "subscribed"} /\ Alive(c) => session'[c] # NoSession

LEMMA NextKeepsSessions ==
  ASSUME TypeOK, OneInv, OnSocketInv, LineInv, [Next]_vars
  PROVE  Kept
<1> SUFFICES ASSUME NEW c \in Client, c \in registered, Subscr(c), Alive(c), session'[c] = NoSession PROVE FALSE
  BY DEF Subscr, Kept, TypeOK, AgentTypeOK
<1>1. session[c] # NoSession /\ Up(c)
  BY NoSessionPhase DEF Subscr, Up, Connected
<1>2. MqttHandler /\ MqttUser = c
  BY <1>1, OtherSessions
<1>3. /\ cur["mqtt"].topic = "MQTT_EXECUTE_CMD" /\ cur["mqtt"].ctx = c
      /\ Connecting(c) \/ Subscribing(c) \/ Serving(c) \/ Ending(c)
  BY <1>2, MqttOutcomes DEF MqttUser
<1>4. PICK p \in Places : p = <<"mqtt", 0>> /\ At(p) = cur["mqtt"]
  BY PlaceKinds, AtPlaces DEF Dispatcher, TypeOK
<1>5. ~Connecting(c)
  <2> SUFFICES ASSUME Connecting(c) PROVE FALSE
    OBVIOUS
  <2>1. Carries(At(p), c)
    BY <1>3, <1>4, HandledCarries DEF Connecting, TypeOK, Dispatcher
  <2>2. Other(c) = 0
    BY <2>1 DEF OneInv, AtMostOne, Carried
  <2> QED
    BY <1>1, <2>2 DEF Other, Weight, TypeOK, AgentTypeOK
<1>6. ~Ending(c)
  <2> SUFFICES ASSUME Ending(c) PROVE FALSE
    OBVIOUS
  <2>1. InLine(0, c) = "quit"
    BY <1>3, <1>4 DEF Ending, InLine, Kind
  <2>2. Has(c, "quit") /\ QuitIsRight(c)
    BY <2>1, LinePlaces DEF Has, LineInv
  <2>3. ~Lost(c)
    BY <1>1 DEF Lost, Alive, OnSocketInv, OnSocket
  <2> QED
    BY <1>1, <2>2, <2>3 DEF QuitIsRight
<1> QED
  BY <1>1, <1>3, <1>5, <1>6, NoSessionPhase DEF Subscribing, Serving

\* A session that is being subscribed or is subscribed is not ended while its
\* socket is connected: every MQTT_DO_DISCONNECT that mqtt_cmd_handler can meet
\* finds a dead socket, a session without SUBSCRIBE, or none, whatever commands
\* and statuses of earlier sessions are still under way.
THEOREM HealthySessionsStay == Spec => HealthySessionKept
<1>1. TypeOK /\ OneInv /\ OnSocketInv /\ LineInv /\ [Next]_vars => [Kept]_vars
  BY NextKeepsSessions
<1>2. HealthySessionKept <=> [][Kept]_vars
  BY DEF HealthySessionKept, Kept
<1> QED
  BY <1>1, <1>2, LineHolds, PTL DEF Spec

-----------------------------------------------------------------------------
(* The stage of a client is what its one lifeline says *)

\* The stage that a message stands for.
StageOf(m) ==
  CASE m.topic = "IPNET_EXECUTE_CMD" /\ m.cmd = "TCP_CONNECT" -> "dial"
    [] m.topic = "IPNET_EXECUTE_CMD" /\ m.cmd = "TCP_SHUTDOWN" -> "down"
    [] m.topic = "IPNET_CMD_STATUS" -> IF m.cmd = "TCP_CONNECT" /\ m.ok THEN "login" ELSE "wait"
    [] m.topic = "MQTT_EXECUTE_CMD" -> "login"
    [] m.topic = "MQTT_CMD_STATUS" -> "down"

Running(c) == c \in registered \ lost

Line(c) == {m \in InFlight : Carries(m, c)}

LEMMA InFlightAt ==
  ASSUME BusTypeOK, NEW c
  PROVE  Line(c) = {At(p) : p \in {q \in Places : Carries(At(q), c)}}
<1>1. ASSUME NEW p \in Places, Carries(At(p), c) PROVE At(p) \in InFlight
  BY <1>1, PlacesInFlight, NoMsgCarriesNobody
<1> QED
  BY <1>1, InFlightPlaces DEF Line

\* The fields of the messages that carry a client on.
LEMMA CarrierKinds ==
  ASSUME NEW m \in Msg, NEW c, Carries(m, c)
  PROVE  \/ m.topic = "IPNET_EXECUTE_CMD" /\ m.cmd \in {"TCP_CONNECT", "TCP_SHUTDOWN"}
         \/ m.topic = "IPNET_CMD_STATUS" /\ m.cmd \in {"TCP_CONNECT", "TCP_SHUTDOWN"} /\ m.ok \in BOOLEAN
         \/ m.topic = "MQTT_EXECUTE_CMD" /\ m.cmd = "CONNECT"
         \/ m.topic = "MQTT_CMD_STATUS" /\ m.cmd \in {"CONNECT", "DISCONNECT"}
  BY DEF Msg, IpnetMsg, MqttMsg, Carries, MovesClient

\* What the stage is, by what carries the client on.
LEMMA StageByLine ==
  ASSUME TypeOK, NEW c \in Client, Running(c)
  PROVE  /\ Up(c) => Stage(c) = "up"
         /\ \A m \in Msg : ~Up(c) /\ Line(c) = {m} => Stage(c) = StageOf(m)
         /\ ~Up(c) /\ Line(c) = {} => Stage(c) = "wait"
         /\ Stage(c) \notin {"off", "lost"}
<1>1. Up(c) <=> c \in Sessions \ InConnect
  BY UpIsSetUp DEF TypeOK
<1>2. c \in registered /\ c \notin registered \cap lost
  BY DEF Running
<1>3. ASSUME NEW m \in Msg, ~Up(c), Line(c) = {m} PROVE Stage(c) = StageOf(m)
  <2>1. Carries(m, c) /\ {n \in InFlight : Carries(n, c)} = {m}
    BY <1>3 DEF Line
  <2>2. CASE m.topic = "IPNET_EXECUTE_CMD"
    BY <1>1, <1>2, <1>3, <2>1, <2>2, CarrierKinds DEF Stage, StageOf
  <2>3. CASE m.topic = "IPNET_CMD_STATUS"
    BY <1>1, <1>2, <1>3, <2>1, <2>3, CarrierKinds DEF Stage, StageOf
  <2>4. CASE m.topic = "MQTT_EXECUTE_CMD"
    BY <1>1, <1>2, <1>3, <2>1, <2>4, CarrierKinds DEF Stage, StageOf
  <2>5. CASE m.topic = "MQTT_CMD_STATUS"
    BY <1>1, <1>2, <1>3, <2>1, <2>5, CarrierKinds DEF Stage, StageOf
  <2> QED
    BY <2>1, <2>2, <2>3, <2>4, <2>5, CarrierKinds
<1>4. ASSUME ~Up(c), Line(c) = {} PROVE Stage(c) = "wait"
  <2>1. {n \in InFlight : Carries(n, c)} = {}
    BY <1>4 DEF Line
  <2> QED
    BY <1>1, <1>2, <1>4, <2>1 DEF Stage
<1>5. Up(c) => Stage(c) = "up"
  BY <1>1, <1>2 DEF Stage
<1>6. Stage(c) \notin {"off", "lost"}
  BY <1>2 DEF Stage
<1> QED
  BY <1>3, <1>4, <1>5, <1>6

StageInv ==
  \A c \in Client : Running(c) =>
    /\ Stage(c) \notin {"off", "lost"}
    /\ Up(c) => Stage(c) = "up"
    /\ \A p \in Places : Carries(At(p), c) => Stage(c) = StageOf(At(p))
    /\ ~Up(c) /\ ~Carried(c) => Stage(c) = "wait"

LEMMA StageIs == TypeOK /\ OneInv => StageInv
<1> SUFFICES ASSUME TypeOK, OneInv, NEW c \in Client, Running(c)
             PROVE  /\ Stage(c) \notin {"off", "lost"}
                    /\ Up(c) => Stage(c) = "up"
                    /\ \A p \in Places : Carries(At(p), c) => Stage(c) = StageOf(At(p))
                    /\ ~Up(c) /\ ~Carried(c) => Stage(c) = "wait"
  BY DEF StageInv
<1>1. BusTypeOK /\ AtMostOne(c) /\ Other(c) \in Nat
  BY OtherType DEF OneInv, Running, TypeOK
<1>2. ASSUME NEW p \in Places, Carries(At(p), c) PROVE Stage(c) = StageOf(At(p))
  <2>1. PICK m : m = At(p)
    OBVIOUS
  <2>2. m \in Msg
    BY <1>1, <1>2, <2>1, AtType, NoMsgCarriesNobody
  <2>3. ~Up(c)
    BY <1>1, <1>2 DEF AtMostOne, Carried, Other, Weight, TypeOK, AgentTypeOK
  <2>4. Line(c) = {m}
    BY <1>1, <1>2, <2>1, InFlightAt DEF AtMostOne
  <2> QED
    BY <2>1, <2>2, <2>3, <2>4, StageByLine
<1>3. ASSUME ~Up(c), ~Carried(c) PROVE Stage(c) = "wait"
  <2>1. Line(c) = {}
    BY <1>1, <1>3, InFlightAt DEF Carried
  <2> QED
    BY <1>3, <2>1, StageByLine
<1> QED
  BY <1>2, <1>3, StageByLine

LEMMA StageIsNext == TypeOK' /\ OneInv' => StageInv'
  BY StageIs, PTL

-----------------------------------------------------------------------------
(* What the steps of the bus do to the stage *)

\* c is registered and not given up, before the step and after it.
Goes(c) ==
  /\ c \in Client /\ Running(c) /\ Running(c)'
  /\ TypeOK /\ TypeOK' /\ OneInv /\ OneInv'

UpSame(c) == Up(c)' <=> Up(c)

LEMMA StageKept ==
  ASSUME NEW c, Goes(c), UpSame(c),
         \A p \in Places : Carries(At(p), c)' => \E q \in Places : At(q) = At(p)',
         \A q \in Places : Carries(At(q), c) => \E p \in Places : Carries(At(p), c)'
  PROVE  Stage(c)' = Stage(c)
<1>1. StageInv /\ StageInv' /\ c \in Client /\ Running(c) /\ Running(c)'
  BY StageIs, StageIsNext DEF Goes
<1>2. CASE Up(c)
  BY <1>1, <1>2 DEF StageInv, UpSame
<1>3. CASE Carried(c)
  <2>1. PICK p \in Places : Carries(At(p), c)'
    BY <1>3 DEF Carried
  <2>2. PICK q \in Places : At(q) = At(p)'
    BY <2>1
  <2>3. PICK m : m = At(q)
    OBVIOUS
  <2>4. At(p)' = m /\ Carries(At(q), c)
    BY <2>1, <2>2, <2>3 DEF Carries, MovesClient
  <2>5. Stage(c) = StageOf(m)
    BY <1>1, <2>3, <2>4 DEF StageInv
  <2>6. Stage(c)' = StageOf(m)
    BY <1>1, <2>1, <2>4 DEF StageInv, StageOf
  <2> QED
    BY <2>5, <2>6
<1>4. CASE ~Up(c) /\ ~Carried(c)
  <2>1. ~Carried(c)'
    <3> SUFFICES ASSUME NEW p \in Places, Carries(At(p), c)' PROVE FALSE
      BY DEF Carried
    <3>1. PICK q \in Places : At(q) = At(p)'
      OBVIOUS
    <3>2. Carries(At(q), c)
      BY <3>1 DEF Carries, MovesClient
    <3> QED
      BY <1>4, <3>2 DEF Carried
  <2> QED
    BY <1>1, <1>4, <2>1 DEF StageInv, UpSame
<1> QED
  BY <1>2, <1>3, <1>4

LEMMA MovingKeepsStage ==
  ASSUME NEW c, Goes(c), UpSame(c), UNCHANGED <<queue, cur, out>> \/ Moved
  PROVE  Stage(c)' = Stage(c)
<1>1. CASE UNCHANGED <<queue, cur, out>>
  <2>1. \A p \in Places : At(p)' = At(p)
    BY <1>1, AtFrame
  <2> QED
    BY <2>1, StageKept DEF Carries, MovesClient
<1>2. CASE Moved
  <2>1. PICK from \in [Places -> Places] :
          /\ \A p \in Places : At(p)' # NoMsg => At(p)' = At(from[p])
          /\ \A q \in Places : At(q) # NoMsg => \E p \in Places : from[p] = q /\ At(p)' = At(q)
    BY <1>2 DEF Moved
  <2>2. \A p \in Places : Carries(At(p), c)' => At(p)' # NoMsg
    BY NoMsgCarriesNobody DEF Carries, MovesClient
  <2>3. \A p \in Places : Carries(At(p), c)' => \E q \in Places : At(q) = At(p)'
    BY <2>1, <2>2
  <2>4. \A q \in Places : Carries(At(q), c) => \E p \in Places : Carries(At(p), c)'
    BY <2>1, NoMsgCarriesNobody DEF Carries, MovesClient
  <2> QED
    BY <2>3, <2>4, StageKept
<1> QED
  BY <1>1, <1>2

LEMMA PublishedStage ==
  ASSUME NEW c, Goes(c), NEW d \in Dispatcher, NEW m, Free(d), ReturnPublishing(d, m)
  PROVE  /\ UpSame(c) /\ ~Carries(cur[d], c) /\ ~Carries(m, c) => Stage(c)' = Stage(c)
         /\ Carries(cur[d], c) => Stage(c) = StageOf(cur[d])
         /\ Carries(m, c) => Stage(c)' = StageOf(m)
<1>1. StageInv /\ StageInv' /\ c \in Client /\ Running(c) /\ Running(c)'
  BY StageIs, StageIsNext DEF Goes
<1>2. PICK here \in Places : here = <<d, 0>>
  BY PlaceKinds
<1>3. d \in Task
  BY DEF Task
<1>3a. PICK there \in Places : there = <<d, QueueLength + 1>>
  BY <1>3, PlaceKinds
<1>4. /\ At(here) = cur[d] /\ At(here)' = NoMsg
      /\ At(there) = NoMsg /\ At(there)' = m
      /\ \A p \in Places : p # here /\ p # there => At(p)' = At(p)
  BY <1>2, <1>3a, AtReturnPublishing DEF Goes, TypeOK
<1>5. ASSUME UpSame(c), ~Carries(cur[d], c), ~Carries(m, c)
      PROVE  Stage(c)' = Stage(c)
  <2>1. \A p \in Places : Carries(At(p), c) => p # here /\ p # there
    BY <1>4, <1>5, NoMsgCarriesNobody DEF Carries, MovesClient
  <2>2. \A p \in Places : Carries(At(p), c)' => p # here /\ p # there
    BY <1>4, <1>5, NoMsgCarriesNobody DEF Carries, MovesClient
  <2>3. \A p \in Places : Carries(At(p), c)' => \E q \in Places : At(q) = At(p)'
    BY <1>4, <2>2
  <2>4. \A q \in Places : Carries(At(q), c) => \E p \in Places : Carries(At(p), c)'
    BY <1>4, <2>1 DEF Carries, MovesClient
  <2> QED
    BY <1>5, <2>3, <2>4, StageKept
<1>6. Carries(cur[d], c) => Stage(c) = StageOf(cur[d])
  BY <1>1, <1>4 DEF StageInv
<1>7. Carries(m, c) => Stage(c)' = StageOf(m)
  <2>1. Carries(m, c) => Carries(At(there), c)'
    BY <1>4 DEF Carries, MovesClient
  <2>2. Carries(At(there), c)' => Stage(c)' = StageOf(m)
    BY <1>1, <1>4 DEF StageInv, StageOf
  <2> QED
    BY <2>1, <2>2
<1> QED
  BY <1>5, <1>6, <1>7

LEMMA SilentStage ==
  ASSUME NEW c, Goes(c), NEW d \in Dispatcher, ReturnSilently(d), UpSame(c)
  PROVE  /\ ~Carries(cur[d], c) => Stage(c)' = Stage(c)
         /\ Carries(cur[d], c) => Stage(c) = StageOf(cur[d]) /\ Stage(c)' = "wait"
<1>1. StageInv /\ StageInv' /\ c \in Client /\ Running(c) /\ Running(c)' /\ AtMostOne(c)
  BY StageIs, StageIsNext DEF Goes, OneInv, Running
<1>2. PICK here \in Places : here = <<d, 0>>
  BY PlaceKinds
<1>3. /\ At(here) = cur[d] /\ At(here)' = NoMsg
      /\ \A p \in Places : p # here => At(p)' = At(p)
  BY <1>2, AtReturnSilently DEF Goes, TypeOK
<1>4. \A p \in Places : Carries(At(p), c)' => p # here /\ Carries(At(p), c)
  BY <1>3, NoMsgCarriesNobody DEF Carries, MovesClient
<1>5. ASSUME ~Carries(cur[d], c)
      PROVE  Stage(c)' = Stage(c)
  <2>1. \A p \in Places : Carries(At(p), c)' => \E q \in Places : At(q) = At(p)'
    BY <1>3, <1>4
  <2>2. \A q \in Places : Carries(At(q), c) => \E p \in Places : Carries(At(p), c)'
    BY <1>3, <1>5 DEF Carries, MovesClient
  <2> QED
    BY <2>1, <2>2, StageKept
<1>6. ASSUME Carries(cur[d], c)
      PROVE  Stage(c) = StageOf(cur[d]) /\ Stage(c)' = "wait"
  <2>1. Stage(c) = StageOf(cur[d])
    BY <1>1, <1>3, <1>6 DEF StageInv
  <2>2. ~Carried(c)'
    BY <1>1, <1>3, <1>4, <1>6 DEF AtMostOne, Carried
  <2>3. ~Up(c)
    BY <1>1, <1>3, <1>6 DEF AtMostOne, Carried, Other, Weight, Goes, TypeOK, AgentTypeOK
  <2> QED
    BY <1>1, <2>1, <2>2, <2>3 DEF StageInv, UpSame
<1> QED
  BY <1>5, <1>6

LEMMA CalledStage ==
  ASSUME NEW c, Goes(c), NEW t \in Task, NEW m, UpSame(c),
         out' = [out EXCEPT ![t] = m], UNCHANGED <<queue, cur>>, ~Carries(out[t], c)
  PROVE  /\ ~Carries(m, c) => Stage(c)' = Stage(c)
         /\ Carries(m, c) => Stage(c)' = StageOf(m)
<1>1. StageInv /\ StageInv' /\ c \in Client /\ Running(c) /\ Running(c)'
  BY StageIs, StageIsNext DEF Goes
<1>2. PICK there \in Places : there = <<t, QueueLength + 1>>
  BY PlaceKinds
<1>3. /\ At(there) = out[t] /\ At(there)' = m
      /\ \A p \in Places : p # there => At(p)' = At(p)
  BY <1>2, AtOut DEF Goes, TypeOK
<1>4. ASSUME ~Carries(m, c)
      PROVE  Stage(c)' = Stage(c)
  <2>1. \A p \in Places : Carries(At(p), c)' => p # there
    BY <1>3, <1>4 DEF Carries, MovesClient
  <2>2. \A p \in Places : Carries(At(p), c)' => \E q \in Places : At(q) = At(p)'
    BY <1>3, <2>1
  <2>3. \A q \in Places : Carries(At(q), c) => \E p \in Places : Carries(At(p), c)'
    BY <1>3 DEF Carries, MovesClient
  <2> QED
    BY <2>2, <2>3, StageKept
<1>5. Carries(m, c) => Stage(c)' = StageOf(m)
  <2>1. Carries(m, c) => Carries(At(there), c)'
    BY <1>3 DEF Carries, MovesClient
  <2>2. Carries(At(there), c)' => Stage(c)' = StageOf(m)
    BY <1>1, <1>3 DEF StageInv, StageOf
  <2> QED
    BY <2>1, <2>2
<1> QED
  BY <1>4, <1>5


-----------------------------------------------------------------------------
(* Every step leaves a client in its stage or takes it to one that follows *)

Onward ==
  {<<"dial", "login">>, <<"dial", "wait">>, <<"login", "up">>, <<"login", "down">>, <<"up", "down">>,
   <<"down", "wait">>, <<"wait", "dial">>}

Proceeds(c) == Stage(c)' = Stage(c) \/ <<Stage(c), Stage(c)'>> \in Onward

LEMMA SameUp ==
  ASSUME NEW c, session'[c].phase \in Connected <=> session[c].phase \in Connected
  PROVE  UpSame(c)
  BY DEF UpSame, Up

\* The stages of the messages that the handlers make.
LEMMA MadeStages ==
  ASSUME NEW u, NEW s
  PROVE  /\ StageOf(IpnetCmd("TCP_CONNECT", u)) = "dial" /\ StageOf(IpnetCmd("TCP_SHUTDOWN", u)) = "down"
         /\ StageOf(IpnetStatus("TCP_CONNECT", u, TRUE, s)) = "login"
         /\ StageOf(IpnetStatus("TCP_CONNECT", u, FALSE, s)) = "wait"
         /\ \A ok : StageOf(IpnetStatus("TCP_SHUTDOWN", u, ok, s)) = "wait"
         /\ StageOf(MqttConnect(u, s)) = "login"
         /\ \A cmd, ok : StageOf(MqttStatus(cmd, u, ok)) = "down"
<1>1. PICK a : a = IpnetStatus("TCP_CONNECT", u, TRUE, s)
  OBVIOUS
<1>2. a.topic = "IPNET_CMD_STATUS" /\ a.cmd = "TCP_CONNECT" /\ a.ok = TRUE
  BY <1>1 DEF IpnetStatus
<1>3. StageOf(a) = "login"
  BY <1>2 DEF StageOf
<1>4. PICK b : b = IpnetStatus("TCP_CONNECT", u, FALSE, s)
  OBVIOUS
<1>5. b.topic = "IPNET_CMD_STATUS" /\ b.cmd = "TCP_CONNECT" /\ b.ok = FALSE
  BY <1>4 DEF IpnetStatus
<1>6. StageOf(b) = "wait"
  BY <1>5 DEF StageOf
<1>7. ASSUME NEW ok PROVE StageOf(IpnetStatus("TCP_SHUTDOWN", u, ok, s)) = "wait"
  BY DEF StageOf, IpnetStatus
<1>8. ASSUME NEW cmd, NEW ok PROVE StageOf(MqttStatus(cmd, u, ok)) = "down"
  BY DEF StageOf, MqttStatus
<1>9. StageOf(IpnetCmd("TCP_CONNECT", u)) = "dial" /\ StageOf(IpnetCmd("TCP_SHUTDOWN", u)) = "down"
      /\ StageOf(MqttConnect(u, s)) = "login"
  BY DEF StageOf, IpnetCmd, MqttConnect
<1> QED
  BY <1>1, <1>3, <1>4, <1>6, <1>7, <1>8, <1>9

LEMMA MessagingProceeds ==
  ASSUME NEW c, Goes(c), Messaging
  PROVE  Proceeds(c)
<1>1. UpSame(c)
  BY SameUp DEF Messaging, mqttVars
<1>2. CASE Moved
  BY <1>1, <1>2, MovingKeepsStage DEF Proceeds
<1>3. ASSUME NEW t \in Task, PutTimeout(t) PROVE Proceeds(c)
  <2>1. out' = [out EXCEPT ![t] = NoMsg] /\ UNCHANGED <<queue, cur>>
    BY <1>3 DEF PutTimeout
  <2>2. ~Carries(out[t], c)
    BY <1>3 DEF PutTimeout, Carries, Goes, Running
  <2> QED
    BY <1>1, <2>1, <2>2, CalledStage, NoMsgCarriesNobody DEF Proceeds
<1> QED
  BY <1>2, <1>3, PutMoves, ReceiveMoves DEF Messaging, Put, Goes, TypeOK

LEMMA CallOfOthers ==
  ASSUME NEW c, Goes(c), NEW t \in Task, NEW m, CallPublish(t, m), UpSame(c), ~Carries(m, c)
  PROVE  Proceeds(c)
<1>1. out' = [out EXCEPT ![t] = m] /\ UNCHANGED <<queue, cur>> /\ out[t] = NoMsg
  BY DEF CallPublish, Publish, Free, Publishing
<1> QED
  BY <1>1, CalledStage, NoMsgCarriesNobody DEF Proceeds

LEMMA IpnetProceeds ==
  ASSUME NEW c, Goes(c), IpnetStep
  PROVE  Proceeds(c)
<1>1. UpSame(c) /\ "ipnet" \in Dispatcher /\ "iptask" \in Task
  BY SameUp DEF IpnetStep, mqttVars, Dispatcher, Task
<1>2. UNCHANGED busVars => Proceeds(c)
  BY <1>1, MovingKeepsStage DEF Proceeds, busVars
<1>3. CASE IpnetHandler
  <2>1. /\ cur["ipnet"].topic = "IPNET_EXECUTE_CMD" /\ Free("ipnet")
        /\ \/ /\ cur["ipnet"].cmd = "TCP_CONNECT"
              /\ \E ok \in BOOLEAN, s \in Socket \cup {NULL} :
                   ReturnPublishing("ipnet", IpnetStatus("TCP_CONNECT", User, ok, s))
           \/ /\ cur["ipnet"].cmd = "TCP_SHUTDOWN"
              /\ \E ok, s : ReturnPublishing("ipnet", IpnetStatus("TCP_SHUTDOWN", User, ok, s))
           \/ UNCHANGED busVars
    BY <1>3 DEF IpnetHandler, TcpConnect, TcpConnectNoSocket, TcpConnectFails, TcpConnectReturns, TcpShutdown,
                Executing, Handling, Goes, TypeOK, IpnetTypeOK
  <2>2. Carries(cur["ipnet"], c) <=> User = c
    BY <1>1, <2>1, HandledCarries DEF User, Goes, TypeOK
  <2>3. ASSUME NEW ok \in BOOLEAN, NEW s \in Socket \cup {NULL}, cur["ipnet"].cmd = "TCP_CONNECT",
               ReturnPublishing("ipnet", IpnetStatus("TCP_CONNECT", User, ok, s))
        PROVE  Proceeds(c)
    <3>1. PICK m : m = IpnetStatus("TCP_CONNECT", User, ok, s)
      OBVIOUS
    <3>2. (Carries(m, c) <=> User = c) /\ StageOf(m) \in {"login", "wait"}
      <4>1. Carries(m, c) <=> User = c
        BY <3>1, MadeCarries
      <4>2. ok = TRUE => StageOf(m) = "login"
        BY <3>1, MadeStages
      <4>3. ok = FALSE => StageOf(m) = "wait"
        BY <3>1, MadeStages
      <4> QED
        BY <4>1, <4>2, <4>3
    <3>3. StageOf(cur["ipnet"]) = "dial"
      BY <2>1, <2>3 DEF StageOf
    <3>4. User # c => Stage(c)' = Stage(c)
      BY <1>1, <2>1, <2>2, <2>3, <3>1, <3>2, PublishedStage
    <3>5. User = c => Stage(c) = "dial" /\ Stage(c)' = StageOf(m)
      BY <1>1, <2>1, <2>2, <2>3, <3>1, <3>2, <3>3, PublishedStage
    <3> QED
      BY <3>2, <3>4, <3>5 DEF Proceeds, Onward
  <2>4. ASSUME NEW ok, NEW s, cur["ipnet"].cmd = "TCP_SHUTDOWN",
               ReturnPublishing("ipnet", IpnetStatus("TCP_SHUTDOWN", User, ok, s))
        PROVE  Proceeds(c)
    <3>1. PICK m : m = IpnetStatus("TCP_SHUTDOWN", User, ok, s)
      OBVIOUS
    <3>2. (Carries(m, c) <=> User = c) /\ StageOf(m) = "wait"
      <4>1. Carries(m, c) <=> User = c
        BY <3>1, MadeCarries
      <4>2. StageOf(m) = "wait"
        BY <3>1, MadeStages
      <4> QED
        BY <4>1, <4>2
    <3>3. StageOf(cur["ipnet"]) = "down"
      BY <2>1, <2>4 DEF StageOf
    <3>4. User # c => Stage(c)' = Stage(c)
      BY <1>1, <2>1, <2>2, <2>4, <3>1, <3>2, PublishedStage
    <3>5. User = c => Stage(c) = "down" /\ Stage(c)' = StageOf(m)
      BY <1>1, <2>1, <2>2, <2>4, <3>1, <3>2, <3>3, PublishedStage
    <3> QED
      BY <3>2, <3>4, <3>5 DEF Proceeds, Onward
  <2> QED
    BY <1>2, <2>1, <2>3, <2>4
<1>4. CASE IpTaskStep
  <2>1. \/ \E s \in Socket : CallPublish("iptask", RxTx(s)) \/ CallPublish("iptask", Disconnected(s))
        \/ UNCHANGED busVars
    BY <1>4 DEF IpTaskStep, Established, PeerCloses, Traffic, WakeUp, CloseDone
  <2> QED
    BY <1>1, <1>2, <2>1, MadeCarries, CallOfOthers
<1> QED
  BY <1>3, <1>4 DEF IpnetStep


\* A handler publishes for the client whose message it handles, in the stage that
\* follows, and leaves the sessions as they are or sets the stage up itself.
LEMMA ReplyProceeds ==
  ASSUME NEW c, Goes(c), NEW d \in Dispatcher, NEW m, NEW u, Free(d), ReturnPublishing(d, m),
         u # c => UpSame(c),
         Carries(cur[d], c) <=> u = c,
         Carries(m, c) <=> u = c,
         StageOf(m) = StageOf(cur[d]) \/ <<StageOf(cur[d]), StageOf(m)>> \in Onward
  PROVE  Proceeds(c)
<1>1. CASE u = c
  <2>1. Stage(c) = StageOf(cur[d]) /\ Stage(c)' = StageOf(m)
    BY <1>1, PublishedStage
  <2> QED
    BY <2>1 DEF Proceeds
<1>2. CASE u # c
  BY <1>2, PublishedStage DEF Proceeds
<1> QED
  BY <1>1, <1>2

LEMMA MqttHandlerProceeds ==
  ASSUME NEW c, Goes(c), ConnectInv, MqttHandler, UNCHANGED agentVars
  PROVE  Proceeds(c)
<1> DEFINE u == MqttUser
<1>1. /\ u \in Client /\ "mqtt" \in Dispatcher /\ Free("mqtt") /\ MqttTypeOK /\ c \in Client
      /\ cur["mqtt"].topic = "MQTT_EXECUTE_CMD"
  BY MqttUserType DEF Dispatcher, Goes, TypeOK
<1>2. StageOf(cur["mqtt"]) = "login"
  BY <1>1 DEF StageOf
<1>3. Carries(cur["mqtt"], c) <=> u = c /\ cur["mqtt"].cmd = "CONNECT"
  BY <1>1, HandledCarries DEF MqttUser, Goes, TypeOK
<1>4. ASSUME UNCHANGED <<queue, cur, out>>, session'[c].phase \in Connected <=> session[c].phase \in Connected
      PROVE  Proceeds(c)
  BY <1>4, SameUp, MovingKeepsStage DEF Proceeds
<1>5. ASSUME ReturnSilently("mqtt"), cur["mqtt"].cmd # "CONNECT",
             session'[c].phase \in Connected <=> session[c].phase \in Connected
      PROVE  Proceeds(c)
  BY <1>1, <1>3, <1>5, SameUp, SilentStage DEF Proceeds
<1>6. ASSUME NEW m, ReturnPublishing("mqtt", m), cur["mqtt"].cmd # "CONNECT", ~Carries(m, c),
             session'[c].phase \in Connected <=> session[c].phase \in Connected
      PROVE  Proceeds(c)
  BY <1>1, <1>3, <1>6, SameUp, PublishedStage DEF Proceeds
<1>7. \A e \in Client, p \in Phase : session[e].phase = p => session[e] # NoSession
  BY NoSessionPhase
<1>8. cur["mqtt"].cmd # "CONNECT" /\ session[u] # NoSession => session[u].phase \in Connected
  BY <1>1 DEF ConnectInv, MqttTypeOK, Phase, Connected
<1>9. NoSession.phase \notin Connected /\ {"listed", "connecting"} \cap Connected = {} /\ Connected \subseteq Phase
      /\ {"listed", "connecting"} \subseteq Phase /\ {"connected", "subscribing", "acked", "subscribed"} \subseteq Connected
  BY DEF NoSession, Connected, Phase
<1>9a. StageInv /\ StageInv' /\ Running(c) /\ Running(c)'
  BY StageIs, StageIsNext DEF Goes
<1> HIDE DEF u
<1>9b. ASSUME ReturnPublishing("mqtt", MqttStatus("CONNECT", u, FALSE)), cur["mqtt"].cmd = "CONNECT",
              u # c => UpSame(c)
       PROVE  Proceeds(c)
  <2>1. PICK m : m = MqttStatus("CONNECT", u, FALSE)
    OBVIOUS
  <2>2. Carries(m, c) <=> u = c
    BY <2>1, MadeCarries
  <2>3. StageOf(m) = "down"
    BY <2>1, MadeStages
  <2>4. <<StageOf(cur["mqtt"]), StageOf(m)>> \in Onward
    BY <1>2, <2>3 DEF Onward
  <2> QED
    BY <1>1, <1>3, <1>9b, <2>1, <2>2, <2>4, ReplyProceeds
<1>10. CASE SessionAlloc
  <2>1. cur["mqtt"].cmd = "CONNECT"
    BY <1>10 DEF SessionAlloc, MqttHandling, Requested, Handling
  <2>2. CASE MayList(u, cur["mqtt"].socket)
    <3>1. /\ session' = [session EXCEPT ![u] = [phase |-> "listed", socket |-> cur["mqtt"].socket]]
          /\ UNCHANGED <<queue, cur, out>> /\ session[u] = NoSession
      BY <1>1, <1>10, <2>2 DEF SessionAlloc, MayList, Sessions, busVars, u
    <3>2. session'[c].phase \in Connected <=> session[c].phase \in Connected
      BY <1>1, <1>9, <3>1 DEF MqttTypeOK
    <3> QED
      BY <1>4, <3>1, <3>2
  <2>3. CASE ~MayList(u, cur["mqtt"].socket)
    <3>1. ReturnPublishing("mqtt", MqttStatus("CONNECT", u, FALSE)) /\ UNCHANGED session
      BY <1>10, <2>3 DEF SessionAlloc, u
    <3> QED
      BY <1>9b, <2>1, <3>1, SameUp
  <2> QED
    BY <2>2, <2>3
<1>11. CASE SessionSetup
  <2>1. /\ UNCHANGED <<queue, cur, out>> /\ SetPhase(u, "connecting")
        /\ session[u].phase = "listed" /\ session[u] # NoSession
    BY <1>1, <1>7, <1>9, <1>11 DEF SessionSetup, busVars, u
  <2>2. session'[u].phase = "connecting" /\ \A e \in Client : e # u => session'[e] = session[e]
    BY <1>1, <1>9, <2>1, PhaseSet
  <2> QED
    BY <1>1, <1>4, <1>9, <2>1, <2>2
<1>12. CASE BrokerAccepts
  <2>1. PICK m : m = MqttStatus("CONNECT", u, TRUE)
    OBVIOUS
  <2>2. /\ ReturnPublishing("mqtt", m) /\ cur["mqtt"].cmd = "CONNECT" /\ SetPhase(u, "connected")
        /\ session[u].phase = "connecting" /\ session[u] # NoSession
    BY <1>1, <1>7, <1>9, <1>12, <2>1 DEF BrokerAccepts, MqttHandling, Requested, Handling, u
  <2>3. session'[u].phase = "connected" /\ \A e \in Client : e # u => session'[e] = session[e]
    BY <1>1, <1>9, <2>2, PhaseSet
  <2>4. ~Carries(m, c)
    BY <2>1, MadeCarries
  <2>5. CASE u = c
    <3>1. Stage(c) = "login"
      BY <1>1, <1>2, <1>3, <2>2, <2>5, PublishedStage
    <3>2. Stage(c)' = "up"
      BY <1>1, <1>9, <1>9a, <2>3, <2>5 DEF StageInv, Up
    <3> QED
      BY <3>1, <3>2 DEF Proceeds, Onward
  <2>6. CASE u # c
    BY <1>1, <1>3, <2>2, <2>3, <2>4, <2>6, SameUp, PublishedStage DEF Proceeds
  <2> QED
    BY <2>5, <2>6
<1>13. CASE BrokerConnectFails
  <2>1. /\ ReturnPublishing("mqtt", MqttStatus("CONNECT", u, FALSE)) /\ cur["mqtt"].cmd = "CONNECT" /\ Delete(u)
        /\ session[u].phase = "connecting"
    BY <1>1, <1>13 DEF BrokerConnectFails, MqttHandling, Requested, Handling, u
  <2>2. session'[u] = NoSession /\ \A e \in Client : e # u => session'[e] = session[e]
    BY <1>1, <2>1, SessionDeleted
  <2>3. session'[c].phase \in Connected <=> session[c].phase \in Connected
    BY <1>1, <1>9, <2>1, <2>2
  <2> QED
    BY <1>9b, <2>1, <2>3, SameUp
<1>14. CASE Subscribe
  <2>1. /\ ReturnSilently("mqtt") /\ cur["mqtt"].cmd = "SUBSCRIBE" /\ SetPhase(u, "subscribing")
        /\ session[u] # NoSession
    BY <1>1, <1>14 DEF Subscribe, MqttHandling, Requested, Handling, Sessions, u
  <2>2. session'[u].phase = "subscribing" /\ \A e \in Client : e # u => session'[e] = session[e]
    BY <1>1, <1>9, <2>1, PhaseSet
  <2> QED
    BY <1>1, <1>5, <1>8, <1>9, <2>1, <2>2
<1>15. CASE SubscribeFails
  <2>1. PICK m : m = MqttStatus("SUBSCRIBE", u, FALSE)
    OBVIOUS
  <2>2. ReturnPublishing("mqtt", m) /\ cur["mqtt"].cmd = "SUBSCRIBE" /\ UNCHANGED session
    BY <1>15, <2>1 DEF SubscribeFails, MqttHandling, Requested, Handling, mqttVars, u
  <2> QED
    BY <1>6, <2>1, <2>2, MadeCarries
<1>16. CASE ProcessLoop
  <2>1. cur["mqtt"].cmd = "PROCESS_LOOP"
    BY <1>16 DEF ProcessLoop, MqttHandling, Requested, Handling
  <2>2. CASE session[u].phase = "acked"
    <3>1. PICK m : m = MqttStatus("SUBSCRIBE", u, TRUE)
      OBVIOUS
    <3>2. ReturnPublishing("mqtt", m) /\ SetPhase(u, "subscribed") /\ session[u] # NoSession
      BY <1>1, <1>7, <1>9, <1>16, <2>2, <3>1 DEF ProcessLoop, u
    <3>3. session'[u].phase = "subscribed" /\ \A e \in Client : e # u => session'[e] = session[e]
      BY <1>1, <1>9, <3>2, PhaseSet
    <3>4. session'[c].phase \in Connected <=> session[c].phase \in Connected
      BY <1>1, <1>9, <2>2, <3>3
    <3> QED
      <4>1. ~Carries(m, c)
        BY <3>1, MadeCarries
      <4> QED
        BY <1>6, <2>1, <3>2, <3>4, <4>1
  <2>3. CASE session[u].phase # "acked"
    <3>1. ReturnSilently("mqtt") /\ UNCHANGED session
      BY <1>16, <2>3 DEF ProcessLoop, u
    <3> QED
      BY <1>5, <2>1, <3>1
  <2> QED
    BY <2>2, <2>3
<1>17. CASE BrokerPing
  <2>1. ReturnSilently("mqtt") /\ cur["mqtt"].cmd = "BROKER_PING" /\ UNCHANGED session
    BY <1>17 DEF BrokerPing, MqttHandling, Requested, Handling, mqttVars
  <2> QED
    BY <1>5, <2>1
<1>18. CASE Disconnect
  <2>1. cur["mqtt"].cmd = "DISCONNECT"
    BY <1>18 DEF Disconnect, MqttHandling, Requested, Handling
  <2>2. CASE u \in Sessions
    <3>1. PICK m : m = MqttStatus("DISCONNECT", u, TRUE)
      OBVIOUS
    <3>2. ReturnPublishing("mqtt", m) /\ Delete(u) /\ session[u].phase \in Connected
      BY <1>8, <1>18, <2>1, <2>2, <3>1 DEF Disconnect, Sessions, u
    <3>3. session'[u] = NoSession /\ \A e \in Client : e # u => session'[e] = session[e]
      BY <1>1, <3>2, SessionDeleted
    <3>4. Carries(m, c) <=> u = c
      BY <3>1, MadeCarries
    <3>5. CASE u = c
      <4>1. Stage(c) = "up"
        BY <1>1, <1>9a, <3>2, <3>5 DEF StageInv, Up
      <4>2. StageOf(m) = "down"
        BY <3>1, MadeStages
      <4>3. Stage(c)' = "down"
        BY <1>1, <3>2, <3>4, <3>5, <4>2, PublishedStage
      <4> QED
        BY <4>1, <4>3 DEF Proceeds, Onward
    <3>6. CASE u # c
      BY <1>1, <1>6, <2>1, <3>2, <3>3, <3>4, <3>6
    <3> QED
      BY <3>5, <3>6
  <2>3. CASE u \notin Sessions
    <3>1. ReturnSilently("mqtt") /\ UNCHANGED session
      BY <1>18, <2>3 DEF Disconnect, u
    <3> QED
      BY <1>5, <2>1, <3>1
  <2> QED
    BY <2>2, <2>3
<1> QED
  BY <1>10, <1>11, <1>12, <1>13, <1>14, <1>15, <1>16, <1>17, <1>18 DEF MqttHandler

LEMMA MqttProceeds ==
  ASSUME NEW c, Goes(c), ConnectInv, MqttStep
  PROVE  Proceeds(c)
<1>1. UNCHANGED agentVars /\ "ipnet" \in Dispatcher /\ "timer" \in Task /\ MqttTypeOK /\ c \in Client
  BY DEF MqttStep, Dispatcher, Task, Goes, TypeOK
<1>2. CASE MonitorHandler
  <2>1. /\ \/ \E u \in Sessions, cmd \in {"PROCESS_LOOP", "DISCONNECT"} :
                ReturnPublishing("ipnet", MqttCmd(cmd, u))
           \/ ReturnSilently("ipnet")
        /\ Free("ipnet") /\ UNCHANGED session
        /\ cur["ipnet"].topic \in {"IPNET_SOCKET_DISCONNECTED", "IPNET_SOCKET_RXTX_ACTIVITY"}
    BY <1>2 DEF MonitorHandler, MonitorDisconnected, MonitorActivity, Monitor, mqttVars
  <2>2. UpSame(c) /\ ~Carries(cur["ipnet"], c)
    BY <1>1, <2>1, SameUp, HandledCarries DEF Goes, TypeOK
  <2>3. ASSUME NEW m, ReturnPublishing("ipnet", m), ~Carries(m, c) PROVE Proceeds(c)
    BY <1>1, <2>1, <2>2, <2>3, PublishedStage DEF Proceeds
  <2>4. CASE ReturnSilently("ipnet")
    BY <1>1, <2>2, <2>4, SilentStage DEF Proceeds
  <2> QED
    BY <2>1, <2>3, <2>4, MadeCarries
<1>3. CASE Tick \/ TickContinues
  <2>1. /\ \/ \E u : CallPublish("timer", MqttCmd("BROKER_PING", u))
           \/ UNCHANGED <<queue, cur, out>>
        /\ UNCHANGED session
    BY <1>3 DEF Tick, TickContinues
  <2>2. UpSame(c)
    BY <2>1, SameUp
  <2> QED
    BY <1>1, <2>1, <2>2, MovingKeepsStage, CallOfOthers, MadeCarries DEF Proceeds
<1>4. ASSUME NEW u \in Client, SubackArrives(u) PROVE Proceeds(c)
  <2>1. /\ SetPhase(u, "acked") /\ session[u].phase = "subscribing" /\ session[u] # NoSession
        /\ UNCHANGED <<queue, cur, out>> /\ {"acked", "subscribing"} \subseteq Connected \cap Phase
    BY <1>4, NoSessionPhase DEF SubackArrives, busVars, Connected, Phase
  <2>2. session'[u].phase = "acked" /\ \A e \in Client : e # u => session'[e] = session[e]
    BY <1>1, <2>1, PhaseSet
  <2>3. UpSame(c)
    BY <1>1, <2>1, <2>2, SameUp
  <2> QED
    BY <2>1, <2>3, MovingKeepsStage DEF Proceeds
<1> QED
  BY <1>1, <1>2, <1>3, <1>4, MqttHandlerProceeds DEF MqttStep


LEMMA AgentProceeds ==
  ASSUME NEW c, Goes(c), StartedInv, AgentStep
  PROVE  Proceeds(c)
<1>1. /\ {"ipnet", "mqtt"} \subseteq Dispatcher /\ {"timer", "cli"} \subseteq Task
      /\ UNCHANGED session /\ UpSame(c) /\ BusTypeOK /\ AgentTypeOK /\ c \in Client
      /\ c \in registered /\ c \in registered'
  BY SameUp DEF Dispatcher, Task, AgentStep, mqttVars, Goes, TypeOK, Running
<1>2. StageInv /\ StageInv' /\ AtMostOne(c) /\ AtMostOne(c)'
  BY StageIs, StageIsNext DEF Goes, OneInv, Running
<1>3. ASSUME NEW d \in {"ipnet", "mqtt"}, Free(d), NEW m, ReturnPublishing(d, m),
             ~Carries(m, c), ~Carries(cur[d], c)
      PROVE  Proceeds(c)
  BY <1>1, <1>3, PublishedStage DEF Proceeds
<1>4. ASSUME NEW t \in {"timer", "cli"}, NEW m, CallPublish(t, m), ~Carries(m, c)
      PROVE  Proceeds(c)
  BY <1>1, <1>4, CallOfOthers
<1>5. ASSUME NEW d \in {"ipnet", "mqtt"}, ReturnSilently(d),
             Carries(cur[d], c) => StageOf(cur[d]) = "wait"
      PROVE  Proceeds(c)
  BY <1>1, <1>5, SilentStage DEF Proceeds
<1>6. CASE IpnetStatusHandler
  <2>1. cur["ipnet"].topic = "IPNET_CMD_STATUS" /\ Free("ipnet")
    BY <1>6 DEF IpnetStatusHandler, NotOurs, OnTcpConnected, OnTcpDown, Completed, Handling
  <2>2. PICK u \in Client : u = cur["ipnet"].ctx
    BY <1>1, <2>1, Handled
  <2>3. Carries(cur["ipnet"], c) <=> u = c
    BY <1>1, <2>1, <2>2, HandledCarries
  <2>4. CASE NotOurs
    BY <1>1, <1>5, <2>2, <2>3, <2>4 DEF NotOurs
  <2>5. CASE OnTcpConnected
    <3>1. PICK m : m = MqttConnect(u, cur["ipnet"].socket)
      OBVIOUS
    <3>2. /\ ReturnPublishing("ipnet", m) /\ cur["ipnet"].cmd = "TCP_CONNECT" /\ cur["ipnet"].ok
          /\ StageOf(cur["ipnet"]) = "login"
      BY <2>1, <2>2, <2>5, <3>1 DEF OnTcpConnected, Completed, Handling, StageOf
    <3>3. Carries(m, c) <=> u = c
      BY <3>1, MadeCarries
    <3>4. StageOf(m) = "login"
      BY <3>1, MadeStages
    <3> QED
      BY <1>1, <2>1, <2>3, <3>2, <3>3, <3>4, ReplyProceeds
  <2>6. CASE OnTcpDown
    <3>1. ReturnSilently("ipnet")
      BY <2>6 DEF OnTcpDown, RaiseTimer, TimerRefused
    <3>2. StageOf(cur["ipnet"]) = "wait"
      BY <2>1, <2>6 DEF OnTcpDown, Completed, Handling, StageOf
    <3> QED
      BY <1>5, <3>1, <3>2
  <2> QED
    BY <1>6, <2>4, <2>5, <2>6 DEF IpnetStatusHandler
<1>7. CASE MqttStatusHandler
  <2>1. cur["mqtt"].topic = "MQTT_CMD_STATUS" /\ Free("mqtt")
    BY <1>7 DEF MqttStatusHandler, OnConnected, OnConnectFailed, OnSubscribed, OnSubscribeFailed, OnDisconnected,
                OnStatus, Handling
  <2>2. PICK u \in Client : u = Subject
    BY <1>1, <2>1, Handled DEF Subject
  <2>3. Carries(cur["mqtt"], c) <=> u = c /\ (cur["mqtt"].cmd = "DISCONNECT" \/ (cur["mqtt"].cmd = "CONNECT" /\ ~cur["mqtt"].ok))
    BY <1>1, <2>1, <2>2, HandledCarries DEF Subject
  <2>4. ASSUME NEW cmd \in {"SUBSCRIBE", "DISCONNECT"}, Request(MqttCmd(cmd, u)), ~Carries(cur["mqtt"], c)
        PROVE  Proceeds(c)
    <3>1. PICK m : m = MqttCmd(cmd, u)
      OBVIOUS
    <3>2. ~Carries(m, c)
      BY <3>1, MadeCarries
    <3> QED
      BY <1>3, <2>1, <2>4, <3>1, <3>2 DEF Request
  <2>5. ASSUME Request(IpnetCmd("TCP_SHUTDOWN", u)), Carries(cur["mqtt"], c) <=> u = c
        PROVE  Proceeds(c)
    <3>1. PICK m : m = IpnetCmd("TCP_SHUTDOWN", u)
      OBVIOUS
    <3>2. Carries(m, c) <=> u = c
      BY <3>1, MadeCarries
    <3>3. StageOf(m) = "down"
      BY <3>1, MadeStages
    <3>4. StageOf(cur["mqtt"]) = "down"
      BY <2>1 DEF StageOf
    <3> QED
      BY <1>1, <2>1, <2>5, <3>1, <3>2, <3>3, <3>4, ReplyProceeds DEF Request
  <2>6. CASE OnConnected
    BY <2>2, <2>3, <2>4, <2>6 DEF OnConnected, OnStatus, Handling
  <2>7. CASE OnConnectFailed
    BY <2>2, <2>3, <2>5, <2>7 DEF OnConnectFailed, OnStatus, Handling
  <2>8. CASE OnSubscribed
    BY <1>5, <2>1, <2>3, <2>8 DEF OnSubscribed, OnStatus, Handling
  <2>9. CASE OnSubscribeFailed
    BY <2>2, <2>3, <2>4, <2>9 DEF OnSubscribeFailed, OnStatus, Handling
  <2>10. CASE OnDisconnected
    BY <2>2, <2>3, <2>5, <2>10 DEF OnDisconnected, OnStatus, Handling
  <2> QED
    BY <1>7, <2>6, <2>7, <2>8, <2>9, <2>10 DEF MqttStatusHandler
<1>8. CASE AgentStopShutdown
  <2>1. PICK m : m = IpnetCmd("TCP_SHUTDOWN", stopping)
    OBVIOUS
  <2>2. CallPublish("cli", m) /\ stopping # c
    BY <1>1, <1>8, <2>1 DEF AgentStopShutdown, StartedInv
  <2>3. ~Carries(m, c)
    BY <2>1, <2>2, MadeCarries
  <2> QED
    BY <1>4, <2>2, <2>3
<1>9. ASSUME NEW u \in Client, BackoffEnds(u) PROVE Proceeds(c)
  <2>1. PICK m : m = IpnetCmd("TCP_CONNECT", u)
    OBVIOUS
  <2>2. Carries(m, c) <=> u = c
    BY <2>1, MadeCarries
  <2>3. /\ IF u \in registered THEN CallPublish("timer", m) ELSE UNCHANGED <<queue, cur, out>>
        /\ backoff[u] > 0
    BY <1>9, <2>1 DEF BackoffEnds, BackoffFires, busVars
  <2>4. CASE u = c
    <3>1. Other(c) >= 1 /\ ~Carried(c) /\ ~Up(c)
      BY <1>1, <1>2, <2>3, <2>4 DEF AtMostOne, Other, Weight, AgentTypeOK
    <3>2. Stage(c) = "wait"
      BY <1>1, <1>2, <3>1 DEF StageInv, Goes
    <3>3. out' = [out EXCEPT !["timer"] = m] /\ UNCHANGED <<queue, cur>> /\ out["timer"] = NoMsg
      BY <1>1, <2>3, <2>4 DEF CallPublish, Publish, Free, Publishing
    <3>4. Stage(c)' = StageOf(m)
      BY <1>1, <2>2, <2>4, <3>3, CalledStage, NoMsgCarriesNobody
    <3>5. StageOf(m) = "dial"
      BY <2>1, MadeStages
    <3> QED
      BY <3>2, <3>4, <3>5 DEF Proceeds, Onward
  <2>5. CASE u # c
    <3>1. CASE u \in registered
      BY <1>4, <2>2, <2>3, <2>5, <3>1
    <3>2. CASE u \notin registered
      BY <1>1, <2>3, <3>2, MovingKeepsStage DEF Proceeds
    <3> QED
      BY <3>1, <3>2
  <2> QED
    BY <2>4, <2>5
<1>10. ASSUME NEW u \in Client, AgentStart(u) \/ AgentStop(u) PROVE Proceeds(c)
  <2>1. u # c
    BY <1>1, <1>10 DEF AgentStart, AgentStop, AgentTypeOK
  <2>2. CallPublish("cli", IpnetCmd("TCP_CONNECT", u)) \/ CallPublish("cli", MqttCmd("DISCONNECT", u))
    BY <1>10 DEF AgentStart, AgentStop
  <2>3. ASSUME NEW m, m = IpnetCmd("TCP_CONNECT", u) \/ m = MqttCmd("DISCONNECT", u) PROVE ~Carries(m, c)
    BY <2>1, <2>3, MadeCarries
  <2> QED
    BY <1>4, <2>2, <2>3
<1> QED
  BY <1>6, <1>7, <1>8, <1>9, <1>10 DEF AgentStep

\* The first request for a connection puts a client that is started on its way.
LEMMA StartDials ==
  ASSUME TypeOK, TypeOK', OneInv', NEW c \in Client, AgentStart(c), Running(c)'
  PROVE  Stage(c)' = "dial"
<1>1. PICK m : m = IpnetCmd("TCP_CONNECT", c)
  OBVIOUS
<1>2. out' = [out EXCEPT !["cli"] = m] /\ UNCHANGED <<queue, cur>> /\ "cli" \in Task
  BY <1>1 DEF AgentStart, CallPublish, Publish, Task
<1>3. PICK there \in Places : there = <<"cli", QueueLength + 1>>
  BY <1>2, PlaceKinds
<1>4. At(there)' = m
  BY <1>2, <1>3, AtOut DEF TypeOK
<1>5. Carries(m, c)
  BY <1>1, MadeCarries
<1>6. Carries(At(there), c)'
  BY <1>4, <1>5 DEF Carries, MovesClient
<1>7. Stage(c)' = StageOf(m)
  BY <1>4, <1>6, StageIsNext DEF StageInv, StageOf
<1>8. StageOf(m) = "dial"
  BY <1>1, MadeStages
<1> QED
  BY <1>7, <1>8

LEMMA NextProceeds ==
  ASSUME NEW c, Goes(c), ConnectInv, StartedInv, [Next]_vars
  PROVE  Proceeds(c)
<1>1. CASE Ended \/ UNCHANGED vars
  <2>1. UNCHANGED <<queue, cur, out>> /\ UpSame(c)
    BY <1>1, SameUp DEF Ended, vars, busVars, mqttVars
  <2> QED
    BY <2>1, MovingKeepsStage DEF Proceeds
<1> QED
  BY <1>1, MessagingProceeds, IpnetProceeds, MqttProceeds, AgentProceeds DEF Next

-----------------------------------------------------------------------------
(* The refinement *)

\* Who is given up was started: a client that starts is not lost already.
LostInv == lost \subseteq started

LEMMA NextKeepsLost ==
  ASSUME TypeOK, StartedInv, LostInv, [Next]_vars
  PROVE  LostInv'
<1>1. started \subseteq started'
  BY DEF Next, Messaging, IpnetStep, MqttStep, Ended, vars, agentVars,
         AgentStep, IpnetStatusHandler, NotOurs, OnTcpConnected, OnTcpDown, RaiseTimer, TimerRefused,
         MqttStatusHandler, OnConnected, OnConnectFailed, OnSubscribed, OnSubscribeFailed, OnDisconnected, OnStatus,
         AgentStopShutdown, BackoffEnds, BackoffFires, AgentStart, AgentStop
<1>2. lost' = lost \/ \E t \in Task : PutTimeout(t)
  BY DEF Next, Messaging, Receive, Put, PutDone,
         IpnetStep, IpnetHandler, TcpConnect, TcpConnectNoSocket, TcpConnectFails, TcpConnectReturns, TcpShutdown,
         IpTaskStep, Established, PeerCloses, Traffic, WakeUp, CloseDone,
         MqttStep, MqttHandler, SessionAlloc, SessionSetup, BrokerAccepts, BrokerConnectFails, Subscribe,
         SubscribeFails, ProcessLoop, BrokerPing, Disconnect, MonitorHandler, MonitorDisconnected, MonitorActivity,
         Monitor, Tick, TickContinues, SubackArrives,
         AgentStep, IpnetStatusHandler, NotOurs, OnTcpConnected, OnTcpDown, RaiseTimer, TimerRefused,
         MqttStatusHandler, OnConnected, OnConnectFailed, OnSubscribed, OnSubscribeFailed, OnDisconnected,
         AgentStopShutdown, BackoffEnds, BackoffFires, AgentStart, AgentStop, Request,
         ReturnPublishing, ReturnSilently, CallPublish, Ended, vars, busVars
<1>3. ASSUME NEW t \in Task, PutTimeout(t), MovesClient(out[t])
      PROVE  out[t].ctx \in started
  <2>1. PICK m : m = out[t]
    OBVIOUS
  <2>2. PICK p \in Places : p = <<t, QueueLength + 1>>
    BY PlaceKinds
  <2>3. At(p) = m /\ m # NoMsg
    BY <1>3, <2>1, <2>2, AtPlaces DEF PutTimeout, Publishing
  <2>4. m \in Msg /\ MovesClient(m)
    BY <1>3, <2>1, <2>3, AtType DEF TypeOK
  <2>5. HasClient(m)
    BY <2>4 DEF HasClient, MovesClient, Msg, IpnetMsg, MqttMsg
  <2> QED
    BY <2>1, <2>3, <2>5 DEF StartedInv, MessagesStarted
<1>4. ASSUME NEW t \in Task, PutTimeout(t) PROVE lost' \subseteq started
  <2>1. lost' = IF MovesClient(out[t]) THEN lost \cup {out[t].ctx} ELSE lost
    BY <1>4 DEF PutTimeout
  <2> QED
    BY <1>3, <1>4, <2>1 DEF LostInv
<1> QED
  BY <1>1, <1>2, <1>4 DEF LostInv

LifeInv == TypeOK /\ ConnectInv /\ StartedInv /\ OneInv /\ LostInv

LEMMA LifeHolds == Spec => []LifeInv
<1>1. Init => LostInv
  BY DEF Init, BusInit, AgentInit, LostInv
<1>2. TypeOK /\ StartedInv /\ LostInv /\ [Next]_vars => LostInv'
  BY NextKeepsLost
<1> QED
  BY <1>1, <1>2, OneHolds, PTL DEF Spec, LifeInv

\* A client takes a step of its life, or none.
LEMMA LifeStep ==
  ASSUME LifeInv, LifeInv', [Next]_vars, NEW c \in Client
  PROVE  \/ Proceeds(c)
         \/ Stage(c) = "off" /\ Stage(c)' = "dial"
         \/ Stage(c)' = "off"
         \/ Stage(c) # "off" /\ Stage(c)' = "lost"
<1>1. /\ c \notin registered => Stage(c) = "off"
      /\ c \notin registered' => Stage(c)' = "off"
      /\ c \in registered \cap lost => Stage(c) = "lost"
      /\ c \in registered' \cap lost' => Stage(c)' = "lost"
  BY DEF Stage
<1>2. Running(c) => Stage(c) \notin {"off", "lost"}
  BY StageIs DEF LifeInv, StageInv
<1>3. lost \subseteq lost'
  BY ListAndLosses
<1>4. CASE c \in registered /\ c \in registered' /\ c \notin lost'
  <2>1. Goes(c)
    BY <1>3, <1>4 DEF Goes, LifeInv, Running
  <2> QED
    BY <2>1, NextProceeds DEF LifeInv
<1>5. CASE c \notin registered /\ c \in registered'
  <2>1. AgentStart(c)
    BY <1>5, ListAndLosses
  <2>2. UNCHANGED lost /\ c \notin started
    BY <2>1 DEF AgentStart, CallPublish
  <2>3. Running(c)'
    BY <1>5, <2>2 DEF Running, LifeInv, LostInv
  <2>4. Stage(c)' = "dial"
    BY <2>1, <2>3, StartDials DEF LifeInv
  <2> QED
    BY <1>1, <1>5, <2>4
<1>6. CASE c \in registered /\ c \in lost'
  BY <1>1, <1>2, <1>6 DEF Running
<1> QED
  BY <1>1, <1>4, <1>5, <1>6

\* Whatever is delayed, refused or dropped, no message, session or timer of a
\* client is ever left over to make it skip or repeat a stage: it is dialled again
\* only after its last session ended, its socket was shut down and a backoff has
\* passed.  The services and the agent implement ClientLife.
THEOREM ClientsLiveInStages == Spec => RefinesClientLife
<1>1. Init => Life!Init
  BY DEF Init, AgentInit, Life!Init, Stage
<1>2. LifeInv /\ LifeInv' /\ [Next]_vars => [Life!Next]_([c \in Client |-> Stage(c)])
  <2> SUFFICES ASSUME LifeInv, LifeInv', [Next]_vars PROVE Life!Next
    OBVIOUS
  <2> SUFFICES ASSUME NEW c \in Client PROVE Life!Stay(c) \/ Life!Advance(c) \/ Life!Stop(c) \/ Life!Lose(c)
    BY DEF Life!Next
  <2>1. [e \in Client |-> Stage(e)][c] = Stage(c) /\ [e \in Client |-> Stage(e)]'[c] = Stage(c)'
    OBVIOUS
  <2>2. CASE Stage(c)' = Stage(c)
    BY <2>1, <2>2 DEF Life!Stay
  <2>3. CASE <<Stage(c), Stage(c)'>> \in Onward
    BY <2>1, <2>3 DEF Life!Advance, Life!After, Onward
  <2>4. CASE Stage(c) = "off" /\ Stage(c)' = "dial"
    BY <2>1, <2>4 DEF Life!Advance, Life!After
  <2>5. CASE Stage(c)' = "off"
    BY <2>1, <2>5 DEF Life!Stop
  <2>6. CASE Stage(c) # "off" /\ Stage(c)' = "lost"
    BY <2>1, <2>6 DEF Life!Lose
  <2> QED
    BY <2>2, <2>3, <2>4, <2>5, <2>6, LifeStep DEF Proceeds
<1> QED
  BY <1>1, <1>2, LifeHolds, PTL DEF Spec, RefinesClientLife, Life!Spec

=============================================================================
