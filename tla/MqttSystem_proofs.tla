-------------------------- MODULE MqttSystem_proofs --------------------------
(***************************************************************************)
(* Theorems about the MQTT application, for any number of clients and      *)
(* sockets, queues of any length and any scheduling of the tasks.          *)
(***************************************************************************)
EXTENDS MqttSystem, FiniteSetTheorems, TLAPS

-----------------------------------------------------------------------------
(* Messages and types *)

Msg == IpnetMsg \cup MqttMsg

LEMMA NoMsgIsNone == NoMsg \notin Msg /\ NoMsg.topic = "NONE"
  BY DEF NoMsg, Msg, IpnetMsg, MqttMsg

LEMMA MessageFields ==
  ASSUME NEW m \in Msg
  PROVE  /\ m.topic \in {"IPNET_EXECUTE_CMD", "IPNET_CMD_STATUS", "MQTT_EXECUTE_CMD", "MQTT_CMD_STATUS"}
              => m.ctx \in Client
         /\ m.topic = "IPNET_EXECUTE_CMD" => m.cmd \in {"TCP_CONNECT", "TCP_SHUTDOWN"}
         /\ m.topic = "IPNET_CMD_STATUS" =>
              /\ m.cmd \in {"TCP_CONNECT", "TCP_SHUTDOWN"}
              /\ m.ok \in BOOLEAN
              /\ IF m.ok THEN m.socket \in Socket ELSE m.socket = NULL
         /\ m.topic \in {"IPNET_SOCKET_DISCONNECTED", "IPNET_SOCKET_RXTX_ACTIVITY"} => m.socket \in Socket
         /\ m.topic = "MQTT_EXECUTE_CMD" =>
              /\ m.cmd \in {"CONNECT", "SUBSCRIBE", "PROCESS_LOOP", "BROKER_PING", "DISCONNECT"}
              /\ m.cmd = "CONNECT" => m.socket \in Socket
         /\ m.topic = "MQTT_CMD_STATUS" =>
              m.cmd \in {"CONNECT", "SUBSCRIBE", "DISCONNECT"} /\ m.ok \in BOOLEAN
         /\ m.topic \in {"IPNET_EXECUTE_CMD", "IPNET_CMD_STATUS", "MQTT_EXECUTE_CMD", "MQTT_CMD_STATUS",
                         "IPNET_SOCKET_DISCONNECTED", "IPNET_SOCKET_RXTX_ACTIVITY"}
  BY DEF Msg, IpnetMsg, MqttMsg

LEMMA HandlingType ==
  ASSUME BusTypeOK, NEW d \in Dispatcher, cur[d].topic # "NONE"
  PROVE  cur[d] \in Msg
  BY NoMsgIsNone DEF BusTypeOK, Msg

LEMMA BusInitType == BusInit => BusTypeOK
<1>1. <<>> \in Seq(IpnetMsg \cup MqttMsg) /\ Len(<<>>) <= QueueLength
  BY BusAssumption
<1> QED
  BY <1>1 DEF BusInit, BusTypeOK

\* The steps of which all others are made keep the types of the queues.
LEMMA ReturnPublishingType ==
  ASSUME BusTypeOK, NEW d \in Dispatcher, NEW m \in Msg, ReturnPublishing(d, m)
  PROVE  BusTypeOK'
  BY DEF BusTypeOK, ReturnPublishing, Publish, Msg, Task

LEMMA ReturnSilentlyType ==
  ASSUME BusTypeOK, NEW d \in Dispatcher, ReturnSilently(d)
  PROVE  BusTypeOK'
  BY DEF BusTypeOK, ReturnSilently, Msg

LEMMA CallPublishType ==
  ASSUME BusTypeOK, NEW t \in Task, NEW m \in Msg, CallPublish(t, m)
  PROVE  BusTypeOK'
  BY DEF BusTypeOK, CallPublish, Publish, Msg

LEMMA BusUnchangedType ==
  ASSUME BusTypeOK, UNCHANGED busVars
  PROVE  BusTypeOK'
  BY DEF BusTypeOK, busVars

LEMMA PutType ==
  ASSUME BusTypeOK, NEW t \in Task, Put(t)
  PROVE  BusTypeOK'
<1>1. out[t] \in Msg
  BY DEF Put, PutDone, PutTimeout, Publishing, BusTypeOK, Msg
<1>2. out' \in [Task -> Msg \cup {NoMsg}]
  BY DEF Put, PutDone, PutTimeout, BusTypeOK, Msg
<1>3. CASE PutDone(t)
  <2> DEFINE d == Target(out[t])
  <2>1. d \in Dispatcher
    BY DEF Target, Dispatcher
  <2>2. queue[d] \in Seq(Msg) /\ Len(queue[d]) < QueueLength
    BY <1>3, <2>1 DEF PutDone, Room, BusTypeOK, Msg
  <2>3. /\ Append(queue[d], out[t]) \in Seq(Msg)
        /\ Len(Append(queue[d], out[t])) <= QueueLength
    BY <1>1, <2>2, BusAssumption
  <2>4. queue' = [queue EXCEPT ![d] = Append(queue[d], out[t])]
    BY <1>3 DEF PutDone
  <2> HIDE DEF d
  <2>5. queue' \in [Dispatcher -> Seq(Msg)] /\ \A e \in Dispatcher : Len(queue'[e]) <= QueueLength
    BY <2>1, <2>3, <2>4 DEF BusTypeOK, Msg
  <2> QED
    BY <1>2, <1>3, <2>5 DEF PutDone, BusTypeOK, Msg
<1>4. CASE PutTimeout(t)
  <2>1. lost' \subseteq Client
    BY <1>1, <1>4, MessageFields DEF PutTimeout, MovesClient, BusTypeOK
  <2> QED
    BY <1>2, <1>4, <2>1 DEF PutTimeout, BusTypeOK, Msg
<1> QED
  BY <1>3, <1>4 DEF Put

LEMMA ReceiveType ==
  ASSUME BusTypeOK, NEW d \in Dispatcher, Receive(d)
  PROVE  BusTypeOK'
<1>1. queue[d] \in Seq(Msg) /\ queue[d] # <<>> /\ Len(queue[d]) <= QueueLength
  BY DEF Receive, BusTypeOK, Msg
<1>2. /\ Head(queue[d]) \in Msg /\ Tail(queue[d]) \in Seq(Msg)
      /\ Len(Tail(queue[d])) <= QueueLength
  BY <1>1, BusAssumption
<1> QED
  BY <1>2 DEF Receive, BusTypeOK, Msg

LEMMA FaultType ==
  ASSUME faults \in 0..MaxFaults, Fault
  PROVE  faults' \in 0..MaxFaults
  BY IpnetAssumption DEF Fault

\* What the handlers know of the message they handle.
LEMMA Handled ==
  ASSUME BusTypeOK, NEW d \in Dispatcher
  PROVE  /\ cur[d].topic \in {"IPNET_EXECUTE_CMD", "IPNET_CMD_STATUS", "MQTT_EXECUTE_CMD", "MQTT_CMD_STATUS"}
              => cur[d].ctx \in Client
         /\ cur[d].topic = "MQTT_EXECUTE_CMD" /\ cur[d].cmd = "CONNECT" => cur[d].socket \in Socket
         /\ cur[d].topic = "IPNET_CMD_STATUS" /\ cur[d].ok => cur[d].socket \in Socket
  BY HandlingType, MessageFields

LEMMA IpnetHandlerType ==
  ASSUME TypeOK, IpnetHandler
  PROVE  BusTypeOK' /\ IpnetTypeOK'
<1>1. User \in Client
  BY Handled DEF IpnetHandler, TcpConnect, TcpConnectNoSocket, TcpConnectFails, TcpConnectReturns, TcpShutdown,
                 Executing, Handling, User, Dispatcher, TypeOK
<1>2. IpnetTypeOK /\ BusTypeOK /\ "ipnet" \in Dispatcher
  BY DEF TypeOK, Dispatcher
<1>3. IpnetStatus("TCP_CONNECT", User, FALSE, NULL) \in Msg
  BY <1>1 DEF IpnetStatus, Msg, IpnetMsg
<1>4. CASE TcpConnect
  BY <1>2, <1>4, BusUnchangedType DEF TcpConnect, IpnetTypeOK, TcpState
<1>5. CASE TcpConnectNoSocket
  BY <1>2, <1>3, <1>5, ReturnPublishingType DEF TcpConnectNoSocket, IpnetTypeOK, ipnetVars
<1>6. CASE TcpConnectFails
  <2>1. faults' \in 0..MaxFaults
    BY <1>2, <1>6, FaultType DEF TcpConnectFails, IpnetTypeOK
  <2> QED
    BY <1>2, <1>3, <1>6, <2>1, ReturnPublishingType DEF TcpConnectFails, SocketFree, IpnetTypeOK, TcpState
<1>7. CASE TcpConnectReturns
  <2>1. conn \in Socket
    BY <1>2, <1>7 DEF TcpConnectReturns, IpnetTypeOK
  <2>2. IpnetStatus("TCP_CONNECT", User, TRUE, conn) \in Msg
    BY <1>1, <2>1 DEF IpnetStatus, Msg, IpnetMsg
  <2>3. CASE MayAdd(User, conn)
    BY <1>1, <1>2, <1>7, <2>1, <2>2, <2>3, ReturnPublishingType DEF TcpConnectReturns, IpnetTypeOK
  <2>4. CASE ~MayAdd(User, conn)
    BY <1>2, <1>3, <1>7, <2>1, <2>4, ReturnPublishingType DEF TcpConnectReturns, SocketFree, IpnetTypeOK, TcpState
  <2> QED
    BY <2>3, <2>4
<1>8. CASE TcpShutdown
  <2>1. socketDb[User] \in Socket \cup {NULL}
    BY <1>1, <1>2 DEF IpnetTypeOK
  <2>2. IpnetStatus("TCP_SHUTDOWN", User, socketDb[User] # NULL, socketDb[User]) \in Msg
    BY <1>1, <2>1 DEF IpnetStatus, Msg, IpnetMsg
  <2>3. BusTypeOK'
    BY <1>2, <1>8, <2>2, ReturnPublishingType DEF TcpShutdown
  <2>4. tcp' \in [Socket -> TcpState] /\ watched' \subseteq Socket
    BY <1>2, <1>8, <2>1 DEF TcpShutdown, SocketFree, IpnetTypeOK, TcpState
  <2> QED
    BY <1>2, <1>8, <2>3, <2>4 DEF TcpShutdown, IpnetTypeOK
<1> QED
  BY <1>4, <1>5, <1>6, <1>7, <1>8 DEF IpnetHandler

LEMMA IpTaskType ==
  ASSUME TypeOK, IpTaskStep
  PROVE  BusTypeOK' /\ IpnetTypeOK'
<1>1. IpnetTypeOK /\ BusTypeOK /\ "iptask" \in Task
  BY DEF TypeOK, Task
<1>2. CASE Established
  BY <1>1, <1>2, BusUnchangedType DEF Established, IpnetTypeOK, TcpState
<1>3. ASSUME NEW s \in Socket, PeerCloses(s) PROVE BusTypeOK' /\ IpnetTypeOK'
  BY <1>1, <1>3, BusUnchangedType, FaultType DEF PeerCloses, IpnetTypeOK, TcpState
<1>4. ASSUME NEW s \in Socket, Traffic(s) PROVE BusTypeOK' /\ IpnetTypeOK'
  BY <1>1, <1>4, BusUnchangedType DEF Traffic, IpnetTypeOK
<1>5. ASSUME NEW s \in Socket, WakeUp(s) PROVE BusTypeOK' /\ IpnetTypeOK'
  <2>1. RxTx(s) \in Msg /\ Disconnected(s) \in Msg
    BY DEF RxTx, Disconnected, Msg, IpnetMsg
  <2>2. BusTypeOK'
    BY <1>1, <1>5, <2>1, BusUnchangedType, CallPublishType DEF WakeUp
  <2> QED
    BY <1>1, <1>5, <2>2 DEF WakeUp, IpnetTypeOK
<1>6. ASSUME NEW s \in Socket, CloseDone(s) PROVE BusTypeOK' /\ IpnetTypeOK'
  BY <1>1, <1>6, BusUnchangedType DEF CloseDone, IpnetTypeOK, TcpState
<1> QED
  BY <1>2, <1>3, <1>4, <1>5, <1>6 DEF IpTaskStep

LEMMA PhaseType ==
  ASSUME MqttTypeOK, NEW c \in Client, session[c] # NoSession, NEW p \in Phase, SetPhase(c, p)
  PROVE  session' \in [Client -> [phase : Phase, socket : Socket] \cup {NoSession}]
<1>1. [session[c] EXCEPT !.phase = p] \in [phase : Phase, socket : Socket]
  BY DEF MqttTypeOK
<1> QED
  BY <1>1 DEF MqttTypeOK, SetPhase

LEMMA MqttHandlerType ==
  ASSUME TypeOK, MqttHandler
  PROVE  BusTypeOK' /\ IpnetTypeOK' /\ MqttTypeOK'
<1> DEFINE c == MqttUser
           Good == BusTypeOK' /\ IpnetTypeOK' /\ MqttTypeOK'
<1>1. c \in Client
  BY Handled DEF MqttHandler, SessionAlloc, SessionSetup, BrokerAccepts, BrokerConnectFails, Subscribe,
                 SubscribeFails, ProcessLoop, BrokerPing, Disconnect,
                 MqttHandling, Requested, Handling, MqttUser, Dispatcher, TypeOK
<1>2. IpnetTypeOK /\ BusTypeOK /\ MqttTypeOK /\ "mqtt" \in Dispatcher
  BY DEF TypeOK, Dispatcher
<1>3. \A ok \in BOOLEAN, cmd \in {"CONNECT", "SUBSCRIBE", "DISCONNECT"} : MqttStatus(cmd, c, ok) \in Msg
  BY <1>1 DEF MqttStatus, Msg, MqttMsg
<1>4. UNCHANGED ipnetVars => IpnetTypeOK'
  BY <1>2 DEF ipnetVars, IpnetTypeOK
<1>5. \A p \in Phase : session[c].phase = p => session[c] # NoSession
  BY DEF Phase, NoSession
<1>6. UNCHANGED <<socketDb, conn, tcp, watched, events>> /\ (Fault \/ UNCHANGED faults) => IpnetTypeOK'
  BY <1>2, FaultType DEF IpnetTypeOK
<1>7. Delete(c) => session' \in [Client -> [phase : Phase, socket : Socket] \cup {NoSession}]
  BY <1>2 DEF Delete, MqttTypeOK
<1> HIDE DEF c
<1>8. CASE SessionAlloc
  <2>1. cur["mqtt"].socket \in Socket
    BY <1>2, <1>8, Handled DEF SessionAlloc, MqttHandling, Requested, Handling
  <2>2. CASE MayList(c, cur["mqtt"].socket)
    BY <1>1, <1>2, <1>4, <1>8, <2>1, <2>2, BusUnchangedType DEF SessionAlloc, MqttTypeOK, Phase, c
  <2>3. CASE ~MayList(c, cur["mqtt"].socket)
    BY <1>2, <1>3, <1>4, <1>8, <2>3, ReturnPublishingType DEF SessionAlloc, MqttTypeOK, c
  <2> QED
    BY <2>2, <2>3
<1>9. CASE SessionSetup
  BY <1>1, <1>2, <1>4, <1>5, <1>9, PhaseType, BusUnchangedType DEF SessionSetup, MqttTypeOK, Phase, c
<1>10. CASE BrokerAccepts
  BY <1>1, <1>2, <1>3, <1>4, <1>5, <1>10, PhaseType, ReturnPublishingType DEF BrokerAccepts, MqttTypeOK, Phase, c
<1>11. CASE BrokerConnectFails
  BY <1>1, <1>2, <1>3, <1>6, <1>7, <1>11, ReturnPublishingType DEF BrokerConnectFails, MqttTypeOK, c
<1>12. CASE Subscribe
  BY <1>1, <1>2, <1>4, <1>12, PhaseType, ReturnSilentlyType DEF Subscribe, Sessions, MqttTypeOK, Phase, c
<1>13. CASE SubscribeFails
  BY <1>1, <1>2, <1>3, <1>6, <1>13, ReturnPublishingType DEF SubscribeFails, mqttVars, MqttTypeOK, c
<1>14. CASE ProcessLoop
  <2>1. BusTypeOK'
    BY <1>2, <1>3, <1>14, ReturnSilentlyType, ReturnPublishingType DEF ProcessLoop, c
  <2>2. session' \in [Client -> [phase : Phase, socket : Socket] \cup {NoSession}]
    BY <1>1, <1>2, <1>5, <1>14, PhaseType DEF ProcessLoop, Phase, MqttTypeOK, c
  <2> QED
    BY <1>2, <1>4, <1>14, <2>1, <2>2 DEF ProcessLoop, MqttTypeOK
<1>15. CASE BrokerPing
  BY <1>2, <1>4, <1>15, ReturnSilentlyType DEF BrokerPing, mqttVars, MqttTypeOK
<1>16. CASE Disconnect
  <2>1. BusTypeOK'
    BY <1>2, <1>3, <1>16, ReturnSilentlyType, ReturnPublishingType DEF Disconnect, c
  <2>2. session' \in [Client -> [phase : Phase, socket : Socket] \cup {NoSession}]
    BY <1>2, <1>7, <1>16 DEF Disconnect, MqttTypeOK, c
  <2> QED
    BY <1>2, <1>4, <1>16, <2>1, <2>2 DEF Disconnect, MqttTypeOK
<1> QED
  BY <1>8, <1>9, <1>10, <1>11, <1>12, <1>13, <1>14, <1>15, <1>16 DEF MqttHandler

LEMMA MqttStepType ==
  ASSUME TypeOK, MqttStep
  PROVE  BusTypeOK' /\ IpnetTypeOK' /\ MqttTypeOK'
<1>1. IpnetTypeOK /\ BusTypeOK /\ MqttTypeOK /\ "ipnet" \in Dispatcher /\ "timer" \in Task
  BY DEF TypeOK, Dispatcher, Task
<1>2. UNCHANGED ipnetVars => IpnetTypeOK'
  BY <1>1 DEF ipnetVars, IpnetTypeOK
<1>3. \A c \in Client, cmd \in {"DISCONNECT", "PROCESS_LOOP", "BROKER_PING"} : MqttCmd(cmd, c) \in Msg
  BY DEF MqttCmd, Msg, MqttMsg
<1>4. CASE MonitorHandler
  <2>1. BusTypeOK'
    BY <1>1, <1>3, <1>4, ReturnPublishingType, ReturnSilentlyType
    DEF MonitorHandler, MonitorDisconnected, MonitorActivity, Monitor, Sessions
  <2> QED
    BY <1>1, <1>2, <1>4, <2>1
    DEF MonitorHandler, MonitorDisconnected, MonitorActivity, Monitor, mqttVars, MqttTypeOK
<1>5. CASE Tick
  <2>1. CASE \E c \in Sessions : session[c].phase = "listed"
    BY <1>1, <1>2, <1>5, <2>1 DEF Tick, BusTypeOK, MqttTypeOK
  <2>2. CASE ~\E c \in Sessions : session[c].phase = "listed"
    <3>1. PICK due \in SUBSET Sessions :
            \E c \in due : CallPublish("timer", MqttCmd("BROKER_PING", c)) /\ pinging' = due \ {c}
      BY <1>5, <2>2 DEF Tick
    <3>2. due \subseteq Client
      BY DEF Sessions
    <3>3. BusTypeOK'
      BY <1>1, <1>3, <3>1, <3>2, CallPublishType
    <3> QED
      BY <1>1, <1>2, <1>5, <3>1, <3>2, <3>3 DEF Tick, MqttTypeOK
  <2> QED
    BY <2>1, <2>2
<1>6. CASE TickContinues
  <2>1. PICK c \in pinging : CallPublish("timer", MqttCmd("BROKER_PING", c)) /\ pinging' = pinging \ {c}
                             /\ UNCHANGED <<ipnetVars, session>>
    BY <1>6 DEF TickContinues
  <2>2. BusTypeOK'
    BY <1>1, <1>3, <2>1, CallPublishType DEF MqttTypeOK
  <2> QED
    BY <1>1, <1>2, <2>1, <2>2 DEF MqttTypeOK
<1>7. ASSUME NEW c \in Client, SubackArrives(c) PROVE BusTypeOK' /\ IpnetTypeOK' /\ MqttTypeOK'
  <2>1. session[c] # NoSession
    BY <1>7 DEF SubackArrives, NoSession
  <2>2. session[c].socket \in Socket
    BY <1>1, <2>1 DEF MqttTypeOK
  <2>3. session' \in [Client -> [phase : Phase, socket : Socket] \cup {NoSession}]
    BY <1>1, <1>7, <2>1, PhaseType DEF SubackArrives, Phase
  <2>4. BusTypeOK'
    BY <1>1, <1>7, BusUnchangedType DEF SubackArrives
  <2> QED
    BY <1>1, <1>7, <2>2, <2>3, <2>4 DEF SubackArrives, IpnetTypeOK, MqttTypeOK
<1> QED
  BY <1>4, <1>5, <1>6, <1>7, MqttHandlerType DEF MqttStep

LEMMA AgentStepType ==
  ASSUME TypeOK, AgentStep
  PROVE  BusTypeOK' /\ AgentTypeOK'
<1>1. BusTypeOK /\ AgentTypeOK /\ {"ipnet", "mqtt"} \subseteq Dispatcher /\ {"timer", "cli"} \subseteq Task
  BY DEF TypeOK, Dispatcher, Task
<1>2. CASE IpnetStatusHandler
  <2>1. cur["ipnet"].topic = "IPNET_CMD_STATUS"
    BY <1>2 DEF IpnetStatusHandler, NotOurs, OnTcpConnected, OnTcpDown, Completed, Handling
  <2>2. cur["ipnet"] \in Msg /\ cur["ipnet"].ctx \in Client
    BY <1>1, <2>1, HandlingType, MessageFields
  <2>3. CASE NotOurs
    BY <1>1, <2>3, ReturnSilentlyType DEF NotOurs, agentVars, AgentTypeOK
  <2>4. CASE OnTcpConnected
    <3>1. cur["ipnet"].socket \in Socket
      BY <1>1, <2>1, <2>4, Handled DEF OnTcpConnected
    <3>2. MqttConnect(cur["ipnet"].ctx, cur["ipnet"].socket) \in Msg
      BY <2>2, <3>1 DEF MqttConnect, Msg, MqttMsg
    <3> QED
      BY <1>1, <2>4, <3>2, ReturnPublishingType DEF OnTcpConnected, agentVars, AgentTypeOK
  <2>5. CASE OnTcpDown
    BY <1>1, <2>2, <2>5, ReturnSilentlyType, AgentAssumption DEF OnTcpDown, RaiseTimer, TimerRefused, AgentTypeOK
  <2> QED
    BY <1>2, <2>3, <2>4, <2>5 DEF IpnetStatusHandler
<1>3. CASE MqttStatusHandler
  <2>1. cur["mqtt"].topic = "MQTT_CMD_STATUS"
    BY <1>3 DEF MqttStatusHandler, OnConnected, OnConnectFailed, OnSubscribed, OnSubscribeFailed, OnDisconnected,
                OnStatus, Handling
  <2>2. Subject \in Client
    BY <1>1, <2>1, HandlingType, MessageFields DEF Subject
  <2>3. /\ MqttCmd("SUBSCRIBE", Subject) \in Msg /\ MqttCmd("DISCONNECT", Subject) \in Msg
        /\ IpnetCmd("TCP_SHUTDOWN", Subject) \in Msg
    BY <2>2 DEF MqttCmd, IpnetCmd, Msg, MqttMsg, IpnetMsg
  <2>4. BusTypeOK'
    BY <1>1, <1>3, <2>3, ReturnPublishingType, ReturnSilentlyType
    DEF MqttStatusHandler, OnConnected, OnConnectFailed, OnSubscribed, OnSubscribeFailed, OnDisconnected, Request
  <2> QED
    BY <1>1, <1>3, <2>4
    DEF MqttStatusHandler, OnConnected, OnConnectFailed, OnSubscribed, OnSubscribeFailed, OnDisconnected, OnStatus,
        agentVars, AgentTypeOK
<1>4. \A c \in Client : /\ IpnetCmd("TCP_CONNECT", c) \in Msg /\ IpnetCmd("TCP_SHUTDOWN", c) \in Msg
                        /\ MqttCmd("DISCONNECT", c) \in Msg
  BY DEF MqttCmd, IpnetCmd, Msg, MqttMsg, IpnetMsg
<1>5. CASE AgentStopShutdown
  <2>1. stopping \in Client
    BY <1>1, <1>5 DEF AgentStopShutdown, AgentTypeOK
  <2>2. BusTypeOK'
    BY <1>1, <1>4, <1>5, <2>1, CallPublishType DEF AgentStopShutdown
  <2> QED
    BY <1>1, <1>5, <2>2 DEF AgentStopShutdown, AgentTypeOK
<1>6. ASSUME NEW c \in Client, BackoffEnds(c) PROVE BusTypeOK' /\ AgentTypeOK'
  <2>1. BusTypeOK'
    BY <1>1, <1>4, <1>6, CallPublishType, BusUnchangedType DEF BackoffEnds, BackoffFires
  <2>2. backoff' \in [Client -> Nat]
    BY <1>1, <1>6 DEF BackoffEnds, BackoffFires, AgentTypeOK
  <2> QED
    BY <1>1, <1>6, <2>1, <2>2 DEF BackoffEnds, BackoffFires, AgentTypeOK
<1>7. ASSUME NEW c \in Client, AgentStart(c) PROVE BusTypeOK' /\ AgentTypeOK'
  <2>1. BusTypeOK'
    BY <1>1, <1>4, <1>7, CallPublishType DEF AgentStart
  <2> QED
    BY <1>1, <1>7, <2>1 DEF AgentStart, AgentTypeOK
<1>8. ASSUME NEW c \in Client, AgentStop(c) PROVE BusTypeOK' /\ AgentTypeOK'
  <2>1. BusTypeOK'
    BY <1>1, <1>4, <1>8, CallPublishType DEF AgentStop
  <2> QED
    BY <1>1, <1>8, <2>1 DEF AgentStop, AgentTypeOK
<1> QED
  BY <1>2, <1>3, <1>5, <1>6, <1>7, <1>8 DEF AgentStep

LEMMA FrameTypes ==
  /\ IpnetTypeOK /\ UNCHANGED ipnetVars => IpnetTypeOK'
  /\ MqttTypeOK /\ UNCHANGED mqttVars => MqttTypeOK'
  /\ AgentTypeOK /\ UNCHANGED agentVars => AgentTypeOK'
  BY DEF IpnetTypeOK, ipnetVars, MqttTypeOK, mqttVars, AgentTypeOK, agentVars

LEMMA InitType == Init => TypeOK
<1>1. IpnetInit => IpnetTypeOK
  BY IpnetAssumption DEF IpnetInit, IpnetTypeOK, TcpState
<1>2. MqttInit => MqttTypeOK
  BY DEF MqttInit, MqttTypeOK
<1>3. AgentInit => AgentTypeOK
  <2>1. 0 \in 0..MaxTimerFaults
    BY AgentAssumption
  <2>2. [c \in Client |-> 0] \in [Client -> Nat]
    OBVIOUS
  <2> QED
    BY <2>1, <2>2 DEF AgentInit, AgentTypeOK
<1> QED
  BY BusInitType, <1>1, <1>2, <1>3 DEF Init, TypeOK

LEMMA NextType ==
  ASSUME TypeOK, [Next]_vars
  PROVE  TypeOK'
<1>1. CASE Messaging
  <2>1. BusTypeOK'
    BY <1>1, ReceiveType, PutType DEF Messaging, TypeOK
  <2> QED
    BY <1>1, <2>1, FrameTypes DEF Messaging, TypeOK
<1>2. CASE IpnetStep
  BY <1>2, IpnetHandlerType, IpTaskType, FrameTypes DEF IpnetStep, TypeOK
<1>3. CASE MqttStep
  <2>1. UNCHANGED agentVars
    BY <1>3 DEF MqttStep
  <2> QED
    BY <1>3, <2>1, MqttStepType, FrameTypes DEF TypeOK
<1>4. CASE AgentStep
  <2>1. UNCHANGED <<ipnetVars, mqttVars>>
    BY <1>4 DEF AgentStep
  <2> QED
    BY <1>4, <2>1, AgentStepType, FrameTypes DEF TypeOK
<1>5. CASE Ended \/ UNCHANGED vars
  <2>1. UNCHANGED vars
    BY <1>5 DEF Ended
  <2>2. BusTypeOK'
    BY <2>1, BusUnchangedType DEF vars, TypeOK
  <2> QED
    BY <2>1, <2>2, FrameTypes DEF vars, TypeOK
<1> QED
  BY <1>1, <1>2, <1>3, <1>4, <1>5 DEF Next

\* Messages, queues, sockets, sessions and clients have their types; no queue gets
\* longer than it is, and a status that reports a connected socket has one.
THEOREM TypeCorrect == Spec => []TypeOK
<1>1. TypeOK /\ [Next]_vars => TypeOK'
  BY NextType
<1> QED
  BY InitType, <1>1, PTL DEF Spec

-----------------------------------------------------------------------------
(* Who owns a socket *)

Owners(s) == {c \in Client : socketDb[c] = s}

\* The custody of one socket, and what a socket still being connected is.
Custody(s) ==
  /\ IF tcp[s] \in {"open", "established", "dead"}
     THEN IF s = conn THEN \A c \in Client : socketDb[c] # s
          ELSE \E c \in Client : \A d \in Client : socketDb[d] = s <=> d = c
     ELSE s # conn /\ \A c \in Client : socketDb[c] # s
  /\ tcp[s] = "open" => s = conn

SocketInv == \A s \in Socket : Custody(s)

LEMMA CustodyIsInvariant == SocketInv => SocketCustody
<1> SUFFICES ASSUME SocketInv, NEW s \in Socket
             PROVE  LET owners == Owners(s) IN
                    IF tcp[s] \in {"open", "established", "dead"}
                    THEN IF s = conn THEN owners = {} ELSE \E c \in Client : owners = {c}
                    ELSE s # conn /\ owners = {}
  BY DEF SocketCustody, Owners
<1> QED
  BY DEF SocketInv, Custody, Owners

LEMMA IpnetKeepsCustody ==
  ASSUME TypeOK, SocketInv, IpnetHandler \/ IpTaskStep
  PROVE  SocketInv'
<1>1. IpnetTypeOK /\ NULL \notin Socket
  BY BusAssumption DEF TypeOK
<1> SUFFICES ASSUME NEW s \in Socket PROVE Custody(s)'
  BY DEF SocketInv
<1>2. Custody(s)
  BY DEF SocketInv
<1> USE DEF Custody
<1>3. User \in Client \/ ~IpnetHandler
  BY Handled DEF IpnetHandler, TcpConnect, TcpConnectNoSocket, TcpConnectFails, TcpConnectReturns, TcpShutdown,
                 Executing, Handling, User, Dispatcher, TypeOK
<1>4. CASE TcpConnect
  BY <1>1, <1>2, <1>4 DEF TcpConnect, IpnetTypeOK
<1>5. CASE TcpConnectNoSocket
  BY <1>2, <1>5 DEF TcpConnectNoSocket, ipnetVars
<1>6. CASE TcpConnectFails
  BY <1>1, <1>2, <1>6 DEF TcpConnectFails, SocketFree, IpnetTypeOK
<1>7. CASE TcpConnectReturns
  <2>1. CASE MayAdd(User, conn)
    <3>1. /\ socketDb' = [socketDb EXCEPT ![User] = conn] /\ conn' = NULL /\ UNCHANGED tcp
          /\ socketDb[User] = NULL
          /\ tcp[conn] \in {"established", "dead"} /\ conn \in Socket /\ User \in Client
      BY <1>1, <1>3, <1>7, <2>1 DEF TcpConnectReturns, MayAdd, IpnetTypeOK, IpnetHandler
    <3>2. CASE s = conn
      <4>1. \A d \in Client : socketDb'[d] = s <=> d = User
        BY <1>1, <1>2, <3>1, <3>2 DEF IpnetTypeOK
      <4> QED
        BY <1>1, <3>1, <3>2, <4>1
    <3>3. CASE s # conn
      <4>1. \A d \in Client : socketDb'[d] = s <=> socketDb[d] = s
        BY <1>1, <3>1, <3>3 DEF IpnetTypeOK
      <4> QED
        BY <1>1, <1>2, <3>1, <3>3, <4>1
    <3> QED
      BY <3>2, <3>3
  <2>2. CASE ~MayAdd(User, conn)
    BY <1>1, <1>2, <1>7, <2>2 DEF TcpConnectReturns, SocketFree, IpnetTypeOK
  <2> QED
    BY <2>1, <2>2
<1>8. CASE TcpShutdown
  <2> DEFINE u == socketDb[User]
  <2>1. User \in Client /\ u \in Socket \cup {NULL}
    BY <1>1, <1>3, <1>8 DEF IpnetHandler, IpnetTypeOK
  <2>2. /\ \A d \in Client : socketDb'[d] = IF d = User THEN NULL ELSE socketDb[d]
        /\ UNCHANGED conn
        /\ \A r \in Socket : tcp'[r] = IF r = u THEN "closing" ELSE tcp[r]
    BY <1>1, <1>8, <2>1 DEF TcpShutdown, SocketFree, IpnetTypeOK
  <2> HIDE DEF u
  <2>3. CASE s = u
    <3>1. /\ s # conn
          /\ \A d \in Client : socketDb[d] = s <=> d = User
      BY <1>2, <2>1, <2>3 DEF u
    <3> QED
      BY <1>1, <2>2, <2>3, <3>1
  <2>4. CASE s # u
    <3>1. \A d \in Client : socketDb'[d] = s <=> socketDb[d] = s
      BY <1>1, <2>2, <2>4 DEF u
    <3> QED
      BY <1>2, <2>2, <2>4, <3>1
  <2> QED
    BY <2>3, <2>4
<1>9. CASE IpTaskStep
  BY <1>1, <1>2, <1>9 DEF IpTaskStep, Established, PeerCloses, Traffic, WakeUp, CloseDone, IpnetTypeOK
<1> QED
  BY <1>4, <1>5, <1>6, <1>7, <1>8, <1>9 DEF IpnetHandler

LEMMA NextKeepsCustody ==
  ASSUME TypeOK, SocketInv, [Next]_vars
  PROVE  SocketInv'
<1>1. CASE IpnetStep
  BY <1>1, IpnetKeepsCustody DEF IpnetStep
<1>2. CASE Messaging \/ MqttStep \/ AgentStep \/ Ended \/ UNCHANGED vars
  <2>1. UNCHANGED <<socketDb, conn, tcp>>
    BY <1>2
    DEF Messaging, MqttStep, AgentStep, Ended, vars, ipnetVars, MqttHandler, SessionAlloc, SessionSetup,
        BrokerAccepts, BrokerConnectFails, Subscribe, SubscribeFails, ProcessLoop, BrokerPing, Disconnect,
        MonitorHandler, MonitorDisconnected, MonitorActivity, Monitor, Tick, TickContinues, SubackArrives
  <2> QED
    BY <2>1 DEF SocketInv, Custody
<1> QED
  BY <1>1, <1>2 DEF Next

LEMMA CustodyHolds == Spec => [](TypeOK /\ SocketInv)
<1>1. Init => SocketInv
  BY BusAssumption DEF Init, IpnetInit, SocketInv, Custody
<1>2. TypeOK /\ SocketInv /\ [Next]_vars => (TypeOK /\ SocketInv)'
  BY NextType, NextKeepsCustody
<1> QED
  BY InitType, <1>1, <1>2, PTL DEF Spec

\* Every socket the stack has allocated is being connected or listed for exactly
\* one client, who will free it; no handle of a freed socket is left in the list.
THEOREM SocketsInCustody == Spec => []SocketCustody
  BY CustodyHolds, CustodyIsInvariant, PTL

-----------------------------------------------------------------------------
(* Where messages are, and what the steps of the bus do to them *)

\* The place of a task in a publish call; place 0 of a dispatcher is its handler.
Last == QueueLength + 1

LEMMA PlaceKinds ==
  /\ \A d \in Dispatcher : <<d, 0>> \in Places
  /\ \A t \in Task : <<t, QueueLength + 1>> \in Places
  /\ \A d \in Dispatcher, i \in 1..QueueLength : <<d, i>> \in Places
  /\ \A p \in Places :
       \/ \E d \in Dispatcher : p = <<d, 0>>
       \/ \E t \in Task : p = <<t, QueueLength + 1>>
       \/ \E d \in Dispatcher, i \in 1..QueueLength : p = <<d, i>>
<1>1. QueueLength \in Nat \ {0}
  BY BusAssumption
<1>2. ASSUME NEW p \in Places
      PROVE  \/ \E d \in Dispatcher : p = <<d, 0>>
             \/ \E t \in Task : p = <<t, QueueLength + 1>>
             \/ \E d \in Dispatcher, i \in 1..QueueLength : p = <<d, i>>
  <2>1. CASE p \in Dispatcher \X (0..QueueLength)
    <3>1. PICK d \in Dispatcher, i \in 0..QueueLength : p = <<d, i>>
      BY <2>1
    <3>2. i = 0 \/ i \in 1..QueueLength
      BY <1>1
    <3> QED
      BY <3>1, <3>2
  <2>2. CASE p \in Task \X {QueueLength + 1}
    BY <2>2
  <2> QED
    BY <2>1, <2>2 DEF Places
<1>3. \A d \in Dispatcher : <<d, 0>> \in Places
  BY <1>1 DEF Places
<1>4. \A d \in Dispatcher, i \in 1..QueueLength : <<d, i>> \in Places
  BY <1>1 DEF Places
<1> QED
  BY <1>2, <1>3, <1>4 DEF Places

LEMMA PlacesDiffer ==
  ASSUME NEW d, NEW e, NEW i \in 1..QueueLength, NEW j \in 1..QueueLength
  PROVE  /\ <<d, 0>> # <<e, i>> /\ <<d, 0>> # <<e, QueueLength + 1>> /\ <<d, i>> # <<e, QueueLength + 1>>
         /\ <<d, 0>> = <<e, 0>> <=> d = e
         /\ <<d, QueueLength + 1>> = <<e, QueueLength + 1>> <=> d = e
         /\ <<d, i>> = <<e, j>> <=> d = e /\ i = j
  BY BusAssumption

LEMMA AtPlaces ==
  /\ \A d \in Dispatcher : At(<<d, 0>>) = cur[d] /\ At(<<d, 0>>)' = cur'[d]
  /\ \A t \in Task : At(<<t, QueueLength + 1>>) = out[t] /\ At(<<t, QueueLength + 1>>)' = out'[t]
  /\ \A d \in Dispatcher, i \in 1..QueueLength :
       /\ At(<<d, i>>) = IF i <= Len(queue[d]) THEN queue[d][i] ELSE NoMsg
       /\ At(<<d, i>>)' = IF i <= Len(queue'[d]) THEN queue'[d][i] ELSE NoMsg
<1>1. QueueLength \in Nat \ {0}
  BY BusAssumption
<1>2. ASSUME NEW t \in Task
      PROVE  At(<<t, QueueLength + 1>>) = out[t] /\ At(<<t, QueueLength + 1>>)' = out'[t]
  BY <1>1 DEF At
<1>3. ASSUME NEW d \in Dispatcher, NEW i \in 1..QueueLength
      PROVE  /\ At(<<d, i>>) = IF i <= Len(queue[d]) THEN queue[d][i] ELSE NoMsg
             /\ At(<<d, i>>)' = IF i <= Len(queue'[d]) THEN queue'[d][i] ELSE NoMsg
  BY <1>1 DEF At
<1>4. ASSUME NEW d \in Dispatcher
      PROVE  At(<<d, 0>>) = cur[d] /\ At(<<d, 0>>)' = cur'[d]
  BY <1>1 DEF At
<1> QED
  BY <1>2, <1>3, <1>4

LEMMA AtType ==
  ASSUME BusTypeOK, NEW p \in Places
  PROVE  At(p) \in Msg \cup {NoMsg}
<1>1. ASSUME NEW e \in Dispatcher, p = <<e, 0>> PROVE At(p) \in Msg \cup {NoMsg}
  BY <1>1, AtPlaces DEF BusTypeOK, Msg
<1>2. ASSUME NEW t \in Task, p = <<t, QueueLength + 1>> PROVE At(p) \in Msg \cup {NoMsg}
  BY <1>2, AtPlaces DEF BusTypeOK, Msg
<1>3. ASSUME NEW e \in Dispatcher, NEW i \in 1..QueueLength, p = <<e, i>> PROVE At(p) \in Msg \cup {NoMsg}
  <2>1. queue[e] \in Seq(Msg)
    BY DEF BusTypeOK, Msg
  <2> QED
    BY <1>3, <2>1, AtPlaces
<1> QED
  BY <1>1, <1>2, <1>3, PlaceKinds

\* Only a queue, a handler or a publish call changes what is at a place.
LEMMA AtFrame ==
  ASSUME UNCHANGED <<queue, cur, out>>, NEW p \in Places
  PROVE  At(p)' = At(p)
  BY DEF At

LEMMA AtReturnPublishing ==
  ASSUME BusTypeOK, NEW d \in Dispatcher, NEW m, Free(d), ReturnPublishing(d, m)
  PROVE  /\ <<d, 0>> \in Places /\ At(<<d, 0>>) = cur[d] /\ At(<<d, 0>>)' = NoMsg
         /\ <<d, QueueLength + 1>> \in Places
         /\ At(<<d, QueueLength + 1>>) = NoMsg /\ At(<<d, QueueLength + 1>>)' = m
         /\ \A p \in Places : p # <<d, 0>> /\ p # <<d, QueueLength + 1>> => At(p)' = At(p)
<1>1. d \in Task
  BY DEF Task
<1>2. /\ out[d] = NoMsg /\ out'[d] = m /\ cur'[d] = NoMsg /\ UNCHANGED queue
      /\ \A e \in Dispatcher : e # d => cur'[e] = cur[e]
      /\ \A t \in Task : t # d => out'[t] = out[t]
  BY <1>1 DEF Free, Publishing, ReturnPublishing, Publish, BusTypeOK
<1>3. ASSUME NEW p \in Places, p # <<d, 0>>, p # <<d, QueueLength + 1>>
      PROVE  At(p)' = At(p)
  <2>1. ASSUME NEW e \in Dispatcher, p = <<e, 0>> PROVE At(p)' = At(p)
    BY <1>2, <1>3, <2>1, AtPlaces
  <2>2. ASSUME NEW t \in Task, p = <<t, QueueLength + 1>> PROVE At(p)' = At(p)
    BY <1>2, <1>3, <2>2, AtPlaces
  <2>3. ASSUME NEW e \in Dispatcher, NEW i \in 1..QueueLength, p = <<e, i>> PROVE At(p)' = At(p)
    BY <1>2, <2>3, AtPlaces
  <2> QED
    BY <2>1, <2>2, <2>3, PlaceKinds
<1> QED
  BY <1>1, <1>2, <1>3, AtPlaces, PlaceKinds

LEMMA AtReturnSilently ==
  ASSUME BusTypeOK, NEW d \in Dispatcher, ReturnSilently(d)
  PROVE  /\ <<d, 0>> \in Places /\ At(<<d, 0>>) = cur[d] /\ At(<<d, 0>>)' = NoMsg
         /\ \A p \in Places : p # <<d, 0>> => At(p)' = At(p)
<1>1. /\ cur'[d] = NoMsg /\ UNCHANGED <<queue, out>>
      /\ \A e \in Dispatcher : e # d => cur'[e] = cur[e]
  BY DEF ReturnSilently, BusTypeOK
<1>2. ASSUME NEW p \in Places, p # <<d, 0>>
      PROVE  At(p)' = At(p)
  <2>1. ASSUME NEW e \in Dispatcher, p = <<e, 0>> PROVE At(p)' = At(p)
    BY <1>1, <1>2, <2>1, AtPlaces
  <2>2. ASSUME NEW t \in Task, p = <<t, QueueLength + 1>> PROVE At(p)' = At(p)
    BY <1>1, <2>2, AtPlaces
  <2>3. ASSUME NEW e \in Dispatcher, NEW i \in 1..QueueLength, p = <<e, i>> PROVE At(p)' = At(p)
    BY <1>1, <2>3, AtPlaces
  <2> QED
    BY <2>1, <2>2, <2>3, PlaceKinds
<1> QED
  BY <1>1, <1>2, AtPlaces, PlaceKinds

\* A publish call begins, or is given up.
LEMMA AtOut ==
  ASSUME BusTypeOK, NEW t \in Task, NEW m, out' = [out EXCEPT ![t] = m], UNCHANGED <<queue, cur>>
  PROVE  /\ <<t, QueueLength + 1>> \in Places
         /\ At(<<t, QueueLength + 1>>) = out[t] /\ At(<<t, QueueLength + 1>>)' = m
         /\ \A p \in Places : p # <<t, QueueLength + 1>> => At(p)' = At(p)
<1>1. out'[t] = m /\ \A u \in Task : u # t => out'[u] = out[u]
  BY DEF BusTypeOK
<1>2. ASSUME NEW p \in Places, p # <<t, QueueLength + 1>>
      PROVE  At(p)' = At(p)
  <2>1. ASSUME NEW e \in Dispatcher, p = <<e, 0>> PROVE At(p)' = At(p)
    BY <2>1, AtPlaces
  <2>2. ASSUME NEW u \in Task, p = <<u, QueueLength + 1>> PROVE At(p)' = At(p)
    BY <1>1, <1>2, <2>2, AtPlaces
  <2>3. ASSUME NEW e \in Dispatcher, NEW i \in 1..QueueLength, p = <<e, i>> PROVE At(p)' = At(p)
    BY <2>3, AtPlaces
  <2> QED
    BY <2>1, <2>2, <2>3, PlaceKinds
<1> QED
  BY <1>1, <1>2, AtPlaces, PlaceKinds

\* A step that only moves messages: none is made, none is doubled, none gets lost.
Moved ==
  \E from \in [Places -> Places] :
    /\ \A p \in Places : At(p)' # NoMsg => At(p)' = At(from[p])
    /\ \A p, q \in Places : At(p)' # NoMsg /\ At(q)' # NoMsg /\ from[p] = from[q] => p = q
    /\ \A q \in Places : At(q) # NoMsg => \E p \in Places : from[p] = q /\ At(p)' = At(q)

\* A step of a task leaves at each place a message that was at some place, or the
\* one it publishes.
OldOrNew(m) ==
  \A p \in Places : At(p)' = NoMsg \/ At(p)' = m \/ \E q \in Places : At(p)' = At(q)

LEMMA StepsMakeOne ==
  ASSUME BusTypeOK
  PROVE  /\ UNCHANGED <<queue, cur, out>> => OldOrNew(NoMsg)
         /\ Moved => OldOrNew(NoMsg)
         /\ \A d \in Dispatcher : ReturnSilently(d) => OldOrNew(NoMsg)
         /\ \A d \in Dispatcher : \A m : Free(d) /\ ReturnPublishing(d, m) => OldOrNew(m)
         /\ \A t \in Task : \A m : CallPublish(t, m) => OldOrNew(m)
         /\ \A t \in Task : PutTimeout(t) => OldOrNew(NoMsg)
<1>1. UNCHANGED <<queue, cur, out>> => OldOrNew(NoMsg)
  BY AtFrame DEF OldOrNew
<1>2. Moved => OldOrNew(NoMsg)
  BY DEF Moved, OldOrNew
<1>3. ASSUME NEW d \in Dispatcher, ReturnSilently(d) PROVE OldOrNew(NoMsg)
  BY <1>3, AtReturnSilently DEF OldOrNew
<1>4. ASSUME NEW d \in Dispatcher, NEW m, Free(d), ReturnPublishing(d, m) PROVE OldOrNew(m)
  BY <1>4, AtReturnPublishing DEF OldOrNew
<1>5. ASSUME NEW t \in Task, NEW m, CallPublish(t, m) PROVE OldOrNew(m)
  <2>1. out' = [out EXCEPT ![t] = m] /\ UNCHANGED <<queue, cur>>
    BY <1>5 DEF CallPublish, Publish
  <2> QED
    BY <1>5, <2>1, AtOut DEF OldOrNew
<1>6. ASSUME NEW t \in Task, PutTimeout(t) PROVE OldOrNew(NoMsg)
  <2>1. out' = [out EXCEPT ![t] = NoMsg] /\ UNCHANGED <<queue, cur>>
    BY <1>6 DEF PutTimeout
  <2> QED
    BY <2>1, AtOut DEF OldOrNew
<1> QED
  BY <1>1, <1>2, <1>3, <1>4, <1>5, <1>6

\* A message that is put comes behind every other in the queue.
LEMMA PutAt ==
  ASSUME BusTypeOK, NEW t \in Task, PutDone(t)
  PROVE  \E d \in Dispatcher, n \in 1..QueueLength :
           /\ d = Target(out[t])
           /\ At(<<t, Last>>) = out[t] /\ out[t] # NoMsg /\ At(<<t, Last>>)' = NoMsg
           /\ At(<<d, n>>)' = out[t]
           /\ \A p \in Places : p # <<t, Last>> /\ p # <<d, n>> => At(p)' = At(p)
           /\ \A i \in n..QueueLength : At(<<d, i>>) = NoMsg
<1>0. PICK d \in Dispatcher : d = Target(out[t])
  BY DEF Target, Dispatcher
<1>1. queue[d] \in Seq(Msg) /\ Len(queue[d]) < QueueLength /\ Len(queue[d]) \in Nat /\ QueueLength \in Nat
  BY <1>0, BusAssumption DEF PutDone, Room, BusTypeOK, Msg
<1>2. PICK n \in 1..QueueLength : n = Len(queue[d]) + 1
  BY <1>1
<1>4. /\ out[t] # NoMsg /\ out'[t] = NoMsg /\ UNCHANGED cur
      /\ \A u \in Task : u # t => out'[u] = out[u]
      /\ queue'[d] = Append(queue[d], out[t])
      /\ \A e \in Dispatcher : e # d => queue'[e] = queue[e]
  BY <1>0 DEF PutDone, Publishing, BusTypeOK
<1>5. At(<<t, Last>>) = out[t] /\ At(<<t, Last>>)' = NoMsg
  BY <1>4, AtPlaces DEF Last
<1>6. At(<<d, n>>)' = out[t] /\ \A i \in n..QueueLength : At(<<d, i>>) = NoMsg
  <2>1. n <= Len(queue'[d]) /\ queue'[d][n] = out[t] /\ \A i \in n..QueueLength : ~(i <= Len(queue[d]))
    BY <1>1, <1>2, <1>4
  <2> QED
    BY <1>1, <2>1, AtPlaces
<1>7. ASSUME NEW p \in Places, p # <<t, Last>>, p # <<d, n>>
      PROVE  At(p)' = At(p)
  <2>1. ASSUME NEW e \in Dispatcher, p = <<e, 0>> PROVE At(p)' = At(p)
    BY <1>4, <2>1, AtPlaces
  <2>2. ASSUME NEW u \in Task, p = <<u, QueueLength + 1>> PROVE At(p)' = At(p)
    BY <1>4, <1>7, <2>2, AtPlaces DEF Last
  <2>3. ASSUME NEW e \in Dispatcher, NEW i \in 1..QueueLength, p = <<e, i>> PROVE At(p)' = At(p)
    <3>1. CASE e # d
      BY <1>4, <2>3, <3>1, AtPlaces
    <3>2. CASE e = d
      <4>1. i # n
        BY <1>7, <2>3, <3>2
      <4>2. /\ i <= Len(queue'[d]) <=> i <= Len(queue[d])
            /\ i <= Len(queue[d]) => queue'[d][i] = queue[d][i]
        BY <1>1, <1>2, <1>4, <4>1
      <4> QED
        BY <2>3, <3>2, <4>2, AtPlaces
    <3> QED
      BY <3>1, <3>2
  <2> QED
    BY <2>1, <2>2, <2>3, PlaceKinds
<1> QED
  BY <1>0, <1>4, <1>5, <1>6, <1>7

\* A dispatcher that receives moves its queue up by one.
LEMMA ReceiveAt ==
  ASSUME BusTypeOK, NEW d \in Dispatcher, Receive(d)
  PROVE  /\ At(<<d, 0>>) = NoMsg /\ At(<<d, Last>>) = NoMsg /\ At(<<d, Last>>)' = NoMsg
         /\ At(<<d, QueueLength>>)' = NoMsg
         /\ \A i \in 0..(QueueLength - 1) : At(<<d, i>>)' = At(<<d, i + 1>>)
         /\ \A p \in Places : p[1] # d => At(p)' = At(p)
<1>1. QueueLength \in Nat \ {0} /\ d \in Task
  BY BusAssumption DEF Task
<1>2. /\ queue[d] \in Seq(Msg) /\ queue[d] # <<>> /\ Len(queue[d]) <= QueueLength
      /\ cur[d] = NoMsg /\ cur'[d] = Head(queue[d]) /\ queue'[d] = Tail(queue[d]) /\ UNCHANGED out /\ out[d] = NoMsg
      /\ \A e \in Dispatcher : e # d => queue'[e] = queue[e] /\ cur'[e] = cur[e]
  BY DEF Receive, Free, Publishing, BusTypeOK, Msg
<1>3. At(<<d, 0>>) = NoMsg /\ At(<<d, Last>>) = NoMsg /\ At(<<d, Last>>)' = NoMsg
  BY <1>1, <1>2, AtPlaces DEF Last
<1>4. At(<<d, 0>>)' = At(<<d, 1>>)
  BY <1>1, <1>2, AtPlaces
<1>5. At(<<d, QueueLength>>)' = NoMsg
  <2>1. ~(QueueLength <= Len(queue'[d])) /\ QueueLength \in 1..QueueLength
    BY <1>1, <1>2
  <2> QED
    BY <2>1, AtPlaces
<1>6. ASSUME NEW i \in 1..(QueueLength - 1) PROVE At(<<d, i>>)' = At(<<d, i + 1>>)
  <2>1. i \in 1..QueueLength /\ i + 1 \in 1..QueueLength
    BY <1>1
  <2>2. /\ i <= Len(Tail(queue[d])) <=> i + 1 <= Len(queue[d])
        /\ i <= Len(Tail(queue[d])) => Tail(queue[d])[i] = queue[d][i + 1]
    BY <1>2, <2>1
  <2> QED
    BY <1>2, <2>1, <2>2, AtPlaces
<1>7. \A i \in 0..(QueueLength - 1) : At(<<d, i>>)' = At(<<d, i + 1>>)
  <2> SUFFICES ASSUME NEW i \in 0..(QueueLength - 1) PROVE At(<<d, i>>)' = At(<<d, i + 1>>)
    OBVIOUS
  <2>1. CASE i = 0
    BY <1>4, <2>1
  <2>2. CASE i # 0
    <3>1. i \in 1..(QueueLength - 1)
      BY <1>1, <2>2
    <3> QED
      BY <1>6, <3>1
  <2> QED
    BY <2>1, <2>2
<1>8. ASSUME NEW p \in Places, p[1] # d PROVE At(p)' = At(p)
  <2>1. ASSUME NEW e \in Dispatcher, p = <<e, 0>> PROVE At(p)' = At(p)
    BY <1>2, <1>8, <2>1, AtPlaces
  <2>2. ASSUME NEW u \in Task, p = <<u, QueueLength + 1>> PROVE At(p)' = At(p)
    BY <1>2, <2>2, AtPlaces
  <2>3. ASSUME NEW e \in Dispatcher, NEW i \in 1..QueueLength, p = <<e, i>> PROVE At(p)' = At(p)
    BY <1>2, <1>8, <2>3, AtPlaces
  <2> QED
    BY <2>1, <2>2, <2>3, PlaceKinds
<1> QED
  BY <1>3, <1>5, <1>7, <1>8

LEMMA PutMoves ==
  ASSUME BusTypeOK, NEW t \in Task, PutDone(t)
  PROVE  Moved
<1>1. PICK d \in Dispatcher, n \in 1..QueueLength :
        /\ At(<<t, Last>>) = out[t] /\ out[t] # NoMsg /\ At(<<t, Last>>)' = NoMsg
        /\ At(<<d, n>>)' = out[t] /\ At(<<d, n>>) = NoMsg
        /\ \A p \in Places : p # <<t, Last>> /\ p # <<d, n>> => At(p)' = At(p)
  BY PutAt
<1> DEFINE call == <<t, Last>>
           new  == <<d, n>>
           from == [p \in Places |-> IF p = new THEN call ELSE p]
<1>2. call \in Places /\ new \in Places /\ call # new
  BY PlaceKinds, PlacesDiffer DEF Last
<1>3. /\ At(call) = out[t] /\ At(call)' = NoMsg /\ At(new) = NoMsg /\ At(new)' = out[t] /\ out[t] # NoMsg
      /\ \A p \in Places : p # call /\ p # new => At(p)' = At(p)
  BY <1>1
<1> HIDE DEF call, new
<1>4. from \in [Places -> Places]
  BY <1>2
<1>5. \A p \in Places : At(p)' # NoMsg => At(p)' = At(from[p])
  BY <1>2, <1>3
<1>6. \A p, q \in Places : At(p)' # NoMsg /\ At(q)' # NoMsg /\ from[p] = from[q] => p = q
  BY <1>2, <1>3
<1>7. \A q \in Places : At(q) # NoMsg => \E p \in Places : from[p] = q /\ At(p)' = At(q)
  <2> SUFFICES ASSUME NEW q \in Places, At(q) # NoMsg
               PROVE  \E p \in Places : from[p] = q /\ At(p)' = At(q)
    OBVIOUS
  <2>1. CASE q = call
    BY <1>2, <1>3, <2>1
  <2>2. CASE q # call
    <3>1. q # new
      BY <1>3
    <3> QED
      BY <1>3, <2>2, <3>1
  <2> QED
    BY <2>1, <2>2
<1> QED
  BY <1>4, <1>5, <1>6, <1>7 DEF Moved

LEMMA ReceiveMoves ==
  ASSUME BusTypeOK, NEW d \in Dispatcher, Receive(d)
  PROVE  Moved
<1> DEFINE hand == <<d, 0>>
           Back(i) == IF i = QueueLength THEN i ELSE i + 1
           from == [p \in Places |-> IF p[1] = d /\ p[2] # QueueLength + 1 THEN <<d, Back(p[2])>> ELSE p]
<1>1. QueueLength \in Nat \ {0}
  BY BusAssumption
<1>2. /\ At(hand) = NoMsg /\ At(<<d, QueueLength>>)' = NoMsg
      /\ \A i \in 0..(QueueLength - 1) : At(<<d, i>>)' = At(<<d, i + 1>>)
      /\ \A p \in Places : p[1] # d => At(p)' = At(p)
      /\ At(<<d, Last>>)' = At(<<d, Last>>)
  BY ReceiveAt
<1>3. At(hand) = NoMsg /\ hand \in Places
  BY <1>2, PlaceKinds
<1>4. /\ At(hand)' = At(<<d, 1>>) /\ At(<<d, QueueLength>>)' = NoMsg
      /\ \A i \in 1..(QueueLength - 1) : At(<<d, i>>)' = At(<<d, i + 1>>)
  BY <1>1, <1>2
<1>5. \A e \in Dispatcher : e # d =>
        At(<<e, 0>>)' = At(<<e, 0>>) /\ \A i \in 1..QueueLength : At(<<e, i>>)' = At(<<e, i>>)
  BY <1>2, PlaceKinds
<1>6. \A t \in Task : At(<<t, QueueLength + 1>>)' = At(<<t, QueueLength + 1>>)
  BY <1>2, PlaceKinds DEF Last
<1>7. /\ from[hand] = <<d, 1>> /\ from[<<d, QueueLength>>] = <<d, QueueLength>>
      /\ \A i \in 1..(QueueLength - 1) : from[<<d, i>>] = <<d, i + 1>>
      /\ \A t \in Task : from[<<t, QueueLength + 1>>] = <<t, QueueLength + 1>>
      /\ \A e \in Dispatcher, i \in 0..QueueLength : e # d => from[<<e, i>>] = <<e, i>>
  BY <1>1 DEF Places
<1>8. from \in [Places -> Places]
  BY <1>1, PlaceKinds DEF Places
<1> HIDE DEF from
<1> DEFINE Own(p) == p[1] = d /\ p[2] # QueueLength + 1
<1>9. ASSUME NEW p \in Places, ~Own(p) PROVE At(p)' = At(p) /\ from[p] = p
  <2>1. ASSUME NEW e \in Dispatcher, p = <<e, 0>> PROVE At(p)' = At(p) /\ from[p] = p
    BY <1>1, <1>5, <1>7, <1>9, <2>1
  <2>2. ASSUME NEW t \in Task, p = <<t, QueueLength + 1>> PROVE At(p)' = At(p) /\ from[p] = p
    BY <1>6, <1>7, <2>2
  <2>3. ASSUME NEW e \in Dispatcher, NEW i \in 1..QueueLength, p = <<e, i>> PROVE At(p)' = At(p) /\ from[p] = p
    <3>1. i # QueueLength + 1 /\ i \in 0..QueueLength
      BY <1>1
    <3>2. e # d
      BY <1>9, <2>3, <3>1
    <3> HIDE DEF Own
    <3> QED
      BY <1>5, <1>7, <2>3, <3>1, <3>2
  <2> QED
    BY <2>1, <2>2, <2>3, PlaceKinds
<1>10. ASSUME NEW p \in Places, Own(p)
       PROVE  \/ p = hand
              \/ p = <<d, QueueLength>>
              \/ \E i \in 1..(QueueLength - 1) : p = <<d, i>>
  BY <1>1, <1>10 DEF Places
<1>11. \A p \in Places : At(p)' # NoMsg => At(p)' = At(from[p])
  BY <1>4, <1>7, <1>9, <1>10
<1>12. \A p \in Places : At(p)' # NoMsg /\ Own(p) => from[p] = <<d, p[2] + 1>> /\ p = <<d, p[2]>> /\ p[2] \in 0..(QueueLength - 1)
  BY <1>1, <1>4, <1>7, <1>10
<1>13. \A p, q \in Places : At(p)' # NoMsg /\ At(q)' # NoMsg /\ from[p] = from[q] => p = q
  <2> SUFFICES ASSUME NEW p \in Places, NEW q \in Places,
                      At(p)' # NoMsg, At(q)' # NoMsg, from[p] = from[q]
               PROVE  p = q
    OBVIOUS
  <2>1. CASE Own(p) /\ Own(q)
    BY <1>1, <1>12, <2>1
  <2>2. CASE ~Own(p) /\ ~Own(q)
    BY <1>9, <2>2
  <2>3. CASE Own(p) /\ ~Own(q)
    <3>1. q = <<d, p[2] + 1>> /\ p[2] \in 0..(QueueLength - 1)
      BY <1>9, <1>12, <2>3
    <3> QED
      BY <1>1, <2>3, <3>1
  <2>4. CASE ~Own(p) /\ Own(q)
    <3>1. p = <<d, q[2] + 1>> /\ q[2] \in 0..(QueueLength - 1)
      BY <1>9, <1>12, <2>4
    <3> QED
      BY <1>1, <2>4, <3>1
  <2> QED
    BY <2>1, <2>2, <2>3, <2>4
<1>14. \A q \in Places : At(q) # NoMsg => \E p \in Places : from[p] = q /\ At(p)' = At(q)
  <2> SUFFICES ASSUME NEW q \in Places, At(q) # NoMsg
               PROVE  \E p \in Places : from[p] = q /\ At(p)' = At(q)
    OBVIOUS
  <2>1. CASE ~Own(q)
    BY <1>9, <2>1
  <2>2. CASE Own(q)
    <3>1. PICK i \in 1..QueueLength : q = <<d, i>>
      BY <1>1, <1>3, <1>10, <2>2
    <3>2. CASE i = 1
      BY <1>3, <1>4, <1>7, <3>1, <3>2
    <3>3. CASE i # 1
      <4>1. i - 1 \in 1..(QueueLength - 1) /\ (i - 1) + 1 = i /\ i - 1 \in 1..QueueLength
        BY <1>1, <3>3
      <4>2. <<d, i - 1>> \in Places
        BY <4>1, PlaceKinds
      <4>3. from[<<d, i - 1>>] = q /\ At(<<d, i - 1>>)' = At(q)
        BY <1>4, <1>7, <3>1, <4>1
      <4> QED
        BY <4>2, <4>3
    <3> QED
      BY <3>2, <3>3
  <2> QED
    BY <2>1, <2>2
<1> QED
  BY <1>8, <1>11, <1>13, <1>14 DEF Moved

-----------------------------------------------------------------------------
(* What carries a client on *)

Weight(b) == IF b THEN 1 ELSE 0

\* A session that is set up, and the backoff timer: what can carry c on besides a
\* message.
Up(c)    == session[c].phase \in Connected
Other(c) == backoff[c] + Weight(Up(c))

Carried(c) == \E p \in Places : Carries(At(p), c)

AtMostOne(c) ==
  /\ \A p, q \in Places : Carries(At(p), c) /\ Carries(At(q), c) => p = q
  /\ Carried(c) => Other(c) = 0
  /\ Other(c) <= 1

AtLeastOne(c) == Carried(c) \/ Other(c) >= 1

LEMMA NoMsgCarriesNobody == \A c : ~Carries(NoMsg, c)
  BY DEF Carries, MovesClient, NoMsg

LEMMA OtherType ==
  ASSUME NEW c \in Client
  PROVE  (TypeOK => Other(c) \in Nat) /\ (TypeOK' => Other(c)' \in Nat)
  BY DEF TypeOK, AgentTypeOK, Other, Weight

\* Messages that are moved carry on what they carried.
LEMMA MovedKeepsOne ==
  ASSUME NEW c \in Client, Moved, Other(c)' = Other(c)
  PROVE  /\ AtMostOne(c) => AtMostOne(c)'
         /\ AtLeastOne(c) => AtLeastOne(c)'
<1>1. PICK from \in [Places -> Places] :
        /\ \A p \in Places : At(p)' # NoMsg => At(p)' = At(from[p])
        /\ \A p, q \in Places : At(p)' # NoMsg /\ At(q)' # NoMsg /\ from[p] = from[q] => p = q
        /\ \A q \in Places : At(q) # NoMsg => \E p \in Places : from[p] = q /\ At(p)' = At(q)
  BY DEF Moved
<1>2. \A p \in Places : Carries(At(p), c)' =>
        At(p)' # NoMsg /\ from[p] \in Places /\ Carries(At(from[p]), c)
  BY <1>1, NoMsgCarriesNobody DEF Carries, MovesClient
<1>3. \A q \in Places : Carries(At(q), c) => \E p \in Places : Carries(At(p), c)'
  BY <1>1, NoMsgCarriesNobody DEF Carries, MovesClient
<1>4. Carried(c)' <=> Carried(c)
  BY <1>2, <1>3 DEF Carried
<1> QED
  BY <1>1, <1>2, <1>4 DEF AtMostOne, AtLeastOne

LEMMA FrameKeepsOne ==
  ASSUME NEW c \in Client, UNCHANGED <<queue, cur, out>>, Other(c)' = Other(c)
  PROVE  /\ AtMostOne(c) => AtMostOne(c)'
         /\ AtLeastOne(c) => AtLeastOne(c)'
<1>1. \A p \in Places : Carries(At(p), c)' <=> Carries(At(p), c)
  BY AtFrame DEF Carries, MovesClient
<1>2. Carried(c)' <=> Carried(c)
  BY <1>1 DEF Carried
<1> QED
  BY <1>1, <1>2 DEF AtMostOne, AtLeastOne

\* A handler that returns keeps the number of things that carry c on if what it
\* publishes, and what it changes, makes up for the message it handled.
LEMMA PublishKeepsOne ==
  ASSUME TypeOK, TypeOK', NEW c \in Client, NEW d \in Dispatcher, NEW m, Free(d), ReturnPublishing(d, m)
  PROVE  LET before == Weight(Carries(cur[d], c)) + Other(c)
             after  == Weight(Carries(m, c)) + Other(c)'
         IN  /\ AtMostOne(c) /\ after <= before => AtMostOne(c)'
             /\ AtLeastOne(c) /\ after >= before => AtLeastOne(c)'
<1> DEFINE here == <<d, 0>>
           there == <<d, QueueLength + 1>>
<1>1. /\ here \in Places /\ At(here) = cur[d] /\ At(here)' = NoMsg
      /\ there \in Places /\ At(there) = NoMsg /\ At(there)' = m
      /\ \A p \in Places : p # here /\ p # there => At(p)' = At(p)
  BY AtReturnPublishing DEF TypeOK
<1> HIDE DEF here, there
<1>2. /\ Carries(At(here), c) <=> Carries(cur[d], c)
      /\ ~Carries(At(here), c)' /\ ~Carries(At(there), c)
      /\ Carries(At(there), c)' <=> Carries(m, c)
      /\ \A p \in Places : p # here /\ p # there => (Carries(At(p), c)' <=> Carries(At(p), c))
  BY <1>1, NoMsgCarriesNobody DEF Carries, MovesClient
<1>3. Other(c) \in Nat /\ Other(c)' \in Nat
  BY OtherType
<1>4. here # there
  BY BusAssumption DEF here, there
<1> QED
  BY <1>1, <1>2, <1>3, <1>4 DEF AtMostOne, AtLeastOne, Carried, Weight

LEMMA SilenceKeepsOne ==
  ASSUME TypeOK, TypeOK', NEW c \in Client, NEW d \in Dispatcher, ReturnSilently(d)
  PROVE  LET before == Weight(Carries(cur[d], c)) + Other(c)
         IN  /\ AtMostOne(c) /\ Other(c)' <= before => AtMostOne(c)'
             /\ AtLeastOne(c) /\ Other(c)' >= before => AtLeastOne(c)'
<1> DEFINE here == <<d, 0>>
<1>1. /\ here \in Places /\ At(here) = cur[d] /\ At(here)' = NoMsg
      /\ \A p \in Places : p # here => At(p)' = At(p)
  BY AtReturnSilently DEF TypeOK
<1> HIDE DEF here
<1>2. /\ Carries(At(here), c) <=> Carries(cur[d], c)
      /\ ~Carries(At(here), c)'
      /\ \A p \in Places : p # here => (Carries(At(p), c)' <=> Carries(At(p), c))
  BY <1>1, NoMsgCarriesNobody DEF Carries, MovesClient
<1>3. Other(c) \in Nat /\ Other(c)' \in Nat
  BY OtherType
<1> QED
  BY <1>1, <1>2, <1>3 DEF AtMostOne, AtLeastOne, Carried, Weight

\* A publish call begins, or is given up.
LEMMA OutKeepsOne ==
  ASSUME TypeOK, TypeOK', NEW c \in Client, NEW t \in Task, NEW m,
         out' = [out EXCEPT ![t] = m], UNCHANGED <<queue, cur>>
  PROVE  LET before == Weight(Carries(out[t], c)) + Other(c)
             after  == Weight(Carries(m, c)) + Other(c)'
         IN  /\ AtMostOne(c) /\ after <= before => AtMostOne(c)'
             /\ AtLeastOne(c) /\ after >= before => AtLeastOne(c)'
<1> DEFINE there == <<t, QueueLength + 1>>
<1>1. /\ there \in Places /\ At(there) = out[t] /\ At(there)' = m
      /\ \A p \in Places : p # there => At(p)' = At(p)
  BY AtOut DEF TypeOK
<1> HIDE DEF there
<1>2. /\ Carries(At(there), c) <=> Carries(out[t], c)
      /\ Carries(At(there), c)' <=> Carries(m, c)
      /\ \A p \in Places : p # there => (Carries(At(p), c)' <=> Carries(At(p), c))
  BY <1>1 DEF Carries, MovesClient
<1>3. Other(c) \in Nat /\ Other(c)' \in Nat
  BY OtherType
<1> QED
  BY <1>1, <1>2, <1>3 DEF AtMostOne, AtLeastOne, Carried, Weight

-----------------------------------------------------------------------------
(* The session in MQTT_Connect and the command that sets it up *)

ConnectInv ==
  \A c \in Client : session[c].phase \in {"listed", "connecting"} =>
    /\ cur["mqtt"].topic = "MQTT_EXECUTE_CMD" /\ cur["mqtt"].cmd = "CONNECT"
    /\ cur["mqtt"].ctx = c /\ cur["mqtt"].socket = session[c].socket

LEMMA PhaseSet ==
  ASSUME MqttTypeOK, NEW c \in Client, session[c] # NoSession, NEW p \in Phase, SetPhase(c, p)
  PROVE  /\ session'[c].phase = p /\ session'[c].socket = session[c].socket
         /\ \A e \in Client : e # c => session'[e] = session[e]
<1>1. [session[c] EXCEPT !.phase = p].phase = p /\ [session[c] EXCEPT !.phase = p].socket = session[c].socket
  BY DEF MqttTypeOK
<1> QED
  BY <1>1 DEF MqttTypeOK, SetPhase

LEMMA SessionDeleted ==
  ASSUME MqttTypeOK, NEW c \in Client, Delete(c)
  PROVE  /\ session'[c] = NoSession
         /\ \A e \in Client : e # c => session'[e] = session[e]
  BY DEF MqttTypeOK, Delete

LEMMA NoSessionPhase == NoSession.phase = "none" /\ "none" \notin Phase
  BY DEF NoSession, Phase

LEMMA MqttUserType ==
  ASSUME TypeOK, MqttHandler
  PROVE  MqttUser \in Client /\ cur["mqtt"].topic = "MQTT_EXECUTE_CMD" /\ Free("mqtt")
  BY Handled DEF MqttHandler, SessionAlloc, SessionSetup, BrokerAccepts, BrokerConnectFails, Subscribe,
                 SubscribeFails, ProcessLoop, BrokerPing, Disconnect,
                 MqttHandling, Requested, Handling, MqttUser, Dispatcher, TypeOK

\* A handler of another dispatcher, or a publish call, leaves the command of the
\* MQTT dispatcher alone.
LEMMA OthersKeepCommand ==
  ASSUME BusTypeOK
  PROVE  /\ \A m : ReturnPublishing("ipnet", m) => cur'["mqtt"] = cur["mqtt"]
         /\ ReturnSilently("ipnet") => cur'["mqtt"] = cur["mqtt"]
         /\ \A t, m : CallPublish(t, m) => cur'["mqtt"] = cur["mqtt"]
         /\ UNCHANGED busVars => cur'["mqtt"] = cur["mqtt"]
         /\ \A t \in Task : Put(t) => cur'["mqtt"] = cur["mqtt"]
  BY DEF BusTypeOK, Dispatcher, ReturnPublishing, ReturnSilently, CallPublish, busVars, Put, PutDone, PutTimeout

LEMMA MqttHandlerKeepsConnect ==
  ASSUME TypeOK, ConnectInv, MqttHandler
  PROVE  ConnectInv'
<1> DEFINE c == MqttUser
<1>1. MqttTypeOK /\ c \in Client
  BY MqttUserType DEF TypeOK
<1>2. cur["mqtt"].cmd # "CONNECT" => \A e \in Client : session[e].phase \notin {"listed", "connecting"}
  BY DEF ConnectInv
<1>3. \A e \in Client : e # c => session[e].phase \notin {"listed", "connecting"}
  BY DEF ConnectInv, MqttUser
<1>4. \A e \in Client : session[e] # NoSession => session[e].phase \in Phase
  BY <1>1 DEF MqttTypeOK
<1>5. c \in Sessions => session[c] # NoSession
  BY DEF Sessions
<1>6. CASE SessionAlloc
  <2>1. CASE MayList(c, cur["mqtt"].socket)
    <3>1. /\ session' = [session EXCEPT ![c] = [phase |-> "listed", socket |-> cur["mqtt"].socket]]
          /\ UNCHANGED cur
      BY <1>6, <2>1 DEF SessionAlloc, busVars
    <3>2. cur["mqtt"].topic = "MQTT_EXECUTE_CMD" /\ cur["mqtt"].cmd = "CONNECT" /\ cur["mqtt"].ctx = c
      BY <1>6 DEF SessionAlloc, MqttHandling, Requested, Handling, MqttUser
    <3> QED
      BY <1>1, <1>3, <3>1, <3>2 DEF ConnectInv, MqttTypeOK
  <2>2. CASE ~MayList(c, cur["mqtt"].socket)
    <3>1. \A e \in Client : session'[e].phase \notin {"listed", "connecting"}
      BY <1>4, <1>6, <2>2, NoSessionPhase DEF SessionAlloc, InConnect, Sessions
    <3> QED
      BY <3>1 DEF ConnectInv
  <2> QED
    BY <2>1, <2>2
<1>7. CASE SessionSetup
  <2>1. session[c] # NoSession /\ "connecting" \in Phase
    BY <1>7 DEF SessionSetup, NoSession, Phase
  <2>2. session'[c].socket = session[c].socket /\ \A e \in Client : e # c => session'[e] = session[e]
    BY <1>1, <1>7, <2>1, PhaseSet DEF SessionSetup
  <2>3. UNCHANGED cur /\ session[c].phase = "listed"
    BY <1>7 DEF SessionSetup, busVars
  <2> QED
    BY <1>1, <1>3, <2>2, <2>3 DEF ConnectInv
<1>8. CASE BrokerAccepts
  <2>1. session[c] # NoSession /\ "connected" \in Phase
    BY <1>8 DEF BrokerAccepts, NoSession, Phase
  <2>2. session'[c].phase = "connected" /\ \A e \in Client : e # c => session'[e] = session[e]
    BY <1>1, <1>8, <2>1, PhaseSet DEF BrokerAccepts
  <2> QED
    BY <1>3, <2>2 DEF ConnectInv
<1>9. CASE BrokerConnectFails
  BY <1>1, <1>3, <1>9, SessionDeleted, NoSessionPhase DEF BrokerConnectFails, ConnectInv
<1>10. CASE Subscribe \/ SubscribeFails \/ ProcessLoop \/ BrokerPing \/ Disconnect
  <2>1. \A e \in Client : session[e].phase \notin {"listed", "connecting"}
    BY <1>2, <1>10 DEF Subscribe, SubscribeFails, ProcessLoop, BrokerPing, Disconnect, MqttHandling, Requested, Handling
  <2>2. CASE \E p \in {"subscribing", "subscribed"} : session[c] # NoSession /\ SetPhase(c, p)
    <3>1. PICK p \in {"subscribing", "subscribed"} : session[c] # NoSession /\ SetPhase(c, p)
      BY <2>2
    <3>2. p \in Phase
      BY DEF Phase
    <3>3. session'[c].phase = p /\ \A e \in Client : e # c => session'[e] = session[e]
      BY <1>1, <3>1, <3>2, PhaseSet
    <3> QED
      BY <2>1, <3>3 DEF ConnectInv
  <2>3. CASE Delete(c)
    BY <1>1, <2>1, <2>3, SessionDeleted, NoSessionPhase DEF ConnectInv
  <2>4. CASE UNCHANGED session
    BY <2>1, <2>4 DEF ConnectInv
  <2>5. \/ \E p \in {"subscribing", "subscribed"} : session[c] # NoSession /\ SetPhase(c, p)
        \/ Delete(c)
        \/ UNCHANGED session
    BY <1>5, <1>10, NoSessionPhase DEF Subscribe, SubscribeFails, ProcessLoop, BrokerPing, Disconnect, mqttVars, Phase
  <2> QED
    BY <2>2, <2>3, <2>4, <2>5
<1> QED
  BY <1>6, <1>7, <1>8, <1>9, <1>10 DEF MqttHandler

LEMMA NextKeepsConnect ==
  ASSUME TypeOK, ConnectInv, [Next]_vars
  PROVE  ConnectInv'
<1>1. BusTypeOK /\ MqttTypeOK
  BY DEF TypeOK
<1>2. UNCHANGED session /\ cur'["mqtt"] = cur["mqtt"] => ConnectInv'
  BY DEF ConnectInv
<1>3. UNCHANGED session /\ cur["mqtt"].topic # "MQTT_EXECUTE_CMD" => ConnectInv'
  BY DEF ConnectInv
<1>4. CASE Messaging
  <2>1. UNCHANGED session
    BY <1>4 DEF Messaging, mqttVars
  <2>2. ASSUME NEW d \in Dispatcher, Receive(d) PROVE ConnectInv'
    <3>1. CASE d = "mqtt"
      BY <1>3, <2>1, <2>2, <3>1, NoMsgIsNone DEF Receive
    <3>2. CASE d # "mqtt"
      BY <1>1, <1>2, <2>1, <2>2, <3>2 DEF Receive, BusTypeOK, Dispatcher
    <3> QED
      BY <3>1, <3>2
  <2> QED
    BY <1>1, <1>2, <1>4, <2>1, <2>2, OthersKeepCommand DEF Messaging
<1>5. CASE IpnetStep
  <2>1. UNCHANGED session
    BY <1>5 DEF IpnetStep, mqttVars
  <2>2. cur'["mqtt"] = cur["mqtt"]
    BY <1>1, <1>5, OthersKeepCommand
    DEF IpnetStep, IpnetHandler, TcpConnect, TcpConnectNoSocket, TcpConnectFails, TcpConnectReturns, TcpShutdown,
        IpTaskStep, Established, PeerCloses, Traffic, WakeUp, CloseDone
  <2> QED
    BY <1>2, <2>1, <2>2
<1>6. CASE MqttStep
  <2>1. CASE MqttHandler
    BY <2>1, MqttHandlerKeepsConnect
  <2>2. CASE MonitorHandler \/ Tick \/ TickContinues
    <3>1. cur'["mqtt"] = cur["mqtt"]
      BY <1>1, <2>2, OthersKeepCommand
      DEF MonitorHandler, MonitorDisconnected, MonitorActivity, Monitor, Tick, TickContinues
    <3>2. UNCHANGED session
      BY <2>2 DEF MonitorHandler, MonitorDisconnected, MonitorActivity, Monitor, Tick, TickContinues, mqttVars
    <3> QED
      BY <1>2, <3>1, <3>2
  <2>3. ASSUME NEW c \in Client, SubackArrives(c) PROVE ConnectInv'
    <3>1. session[c] # NoSession /\ "acked" \in Phase
      BY <2>3, NoSessionPhase DEF SubackArrives, Phase
    <3>2. session'[c].phase = "acked" /\ \A e \in Client : e # c => session'[e] = session[e]
      BY <1>1, <2>3, <3>1, PhaseSet DEF SubackArrives
    <3>3. UNCHANGED cur
      BY <2>3 DEF SubackArrives, busVars
    <3> QED
      BY <3>2, <3>3 DEF ConnectInv
  <2> QED
    BY <1>6, <2>1, <2>2, <2>3 DEF MqttStep
<1>7. CASE AgentStep
  <2>1. UNCHANGED session
    BY <1>7 DEF AgentStep, mqttVars
  <2>2. CASE MqttStatusHandler
    <3>1. cur["mqtt"].topic = "MQTT_CMD_STATUS"
      BY <2>2 DEF MqttStatusHandler, OnConnected, OnConnectFailed, OnSubscribed, OnSubscribeFailed, OnDisconnected,
                  OnStatus, Handling
    <3> QED
      BY <1>3, <2>1, <3>1
  <2>3. CASE IpnetStatusHandler \/ AgentStopShutdown
             \/ \E c \in Client : BackoffEnds(c) \/ AgentStart(c) \/ AgentStop(c)
    <3>1. cur'["mqtt"] = cur["mqtt"]
      BY <1>1, <2>3, OthersKeepCommand
      DEF IpnetStatusHandler, NotOurs, OnTcpConnected, OnTcpDown, RaiseTimer, TimerRefused, AgentStopShutdown,
          BackoffEnds, BackoffFires, AgentStart, AgentStop
    <3> QED
      BY <1>2, <2>1, <3>1
  <2> QED
    BY <1>7, <2>2, <2>3 DEF AgentStep
<1>8. CASE Ended \/ UNCHANGED vars
  BY <1>2, <1>8 DEF Ended, vars, mqttVars, busVars
<1> QED
  BY <1>4, <1>5, <1>6, <1>7, <1>8 DEF Next

-----------------------------------------------------------------------------
(* Everything about a client began with its start *)

HasClient(m) ==
  m.topic \in {"IPNET_EXECUTE_CMD", "IPNET_CMD_STATUS", "MQTT_EXECUTE_CMD", "MQTT_CMD_STATUS"}

MessagesStarted == \A p \in Places : HasClient(At(p)) => At(p).ctx \in started

StartedInv ==
  /\ MessagesStarted
  /\ \A c \in Client : session[c] # NoSession \/ backoff[c] # 0 => c \in started
  /\ pinging \subseteq started
  /\ stopping # NULL => stopping \in started /\ stopping \notin registered

LEMMA HandledStarted ==
  ASSUME MessagesStarted, NEW d \in Dispatcher, HasClient(cur[d])
  PROVE  cur[d].ctx \in started
  BY AtPlaces, PlaceKinds DEF MessagesStarted

LEMMA MessagesStayStarted ==
  ASSUME TypeOK, MessagesStarted, started \subseteq started'
  PROVE  /\ UNCHANGED <<queue, cur, out>> => MessagesStarted'
         /\ Moved => MessagesStarted'
         /\ \A d \in Dispatcher : ReturnSilently(d) => MessagesStarted'
         /\ \A d \in Dispatcher : \A m : Free(d) /\ ReturnPublishing(d, m) /\ (HasClient(m) => m.ctx \in started')
              => MessagesStarted'
         /\ \A t \in Task : \A m : CallPublish(t, m) /\ (HasClient(m) => m.ctx \in started') => MessagesStarted'
         /\ \A t \in Task : PutTimeout(t) => MessagesStarted'
<1>1. ~HasClient(NoMsg)
  BY NoMsgIsNone DEF HasClient
<1>2. ASSUME NEW m, HasClient(m) => m.ctx \in started', OldOrNew(m)
      PROVE  MessagesStarted'
  <2> SUFFICES ASSUME NEW p \in Places, HasClient(At(p))' PROVE At(p)'.ctx \in started'
    BY DEF MessagesStarted, HasClient
  <2>1. HasClient(At(p)')
    BY DEF HasClient
  <2>2. CASE At(p)' = NoMsg
    BY <1>1, <2>1, <2>2
  <2>3. CASE At(p)' = m
    BY <1>2, <2>1, <2>3
  <2>4. ASSUME NEW q \in Places, At(p)' = At(q) PROVE At(p)'.ctx \in started'
    BY <2>1, <2>4 DEF MessagesStarted, HasClient
  <2> QED
    BY <1>2, <2>2, <2>3, <2>4 DEF OldOrNew
<1> QED
  BY <1>1, <1>2, StepsMakeOne DEF TypeOK

LEMMA IpnetKeepsStarted ==
  ASSUME TypeOK, MessagesStarted, IpnetHandler \/ IpTaskStep, UNCHANGED started
  PROVE  MessagesStarted'
<1>1. "ipnet" \in Dispatcher /\ "iptask" \in Task
  BY DEF Dispatcher, Task
<1>2. CASE IpnetHandler
  <2>1. /\ cur["ipnet"].topic = "IPNET_EXECUTE_CMD" /\ Free("ipnet")
        /\ \/ \E cmd, ok, s : ReturnPublishing("ipnet", IpnetStatus(cmd, User, ok, s))
           \/ UNCHANGED busVars
    BY <1>2 DEF IpnetHandler, TcpConnect, TcpConnectNoSocket, TcpConnectFails, TcpConnectReturns, TcpShutdown,
                Executing, Handling
  <2>2. User \in started
    BY <1>1, <2>1, HandledStarted DEF User, HasClient
  <2>3. ASSUME NEW cmd, NEW ok, NEW s, ReturnPublishing("ipnet", IpnetStatus(cmd, User, ok, s))
        PROVE  MessagesStarted'
    <3>1. PICK m : m = IpnetStatus(cmd, User, ok, s)
      OBVIOUS
    <3>2. m.ctx \in started
      BY <2>2, <3>1 DEF IpnetStatus
    <3> QED
      BY <1>1, <2>1, <2>3, <3>1, <3>2, MessagesStayStarted
  <2> QED
    BY <2>1, <2>3, MessagesStayStarted DEF busVars
<1>3. CASE IpTaskStep
  <2>1. \/ \E s \in Socket : CallPublish("iptask", RxTx(s)) \/ CallPublish("iptask", Disconnected(s))
        \/ UNCHANGED busVars
    BY <1>3 DEF IpTaskStep, Established, PeerCloses, Traffic, WakeUp, CloseDone
  <2>2. \A s : ~HasClient(RxTx(s)) /\ ~HasClient(Disconnected(s))
    BY DEF HasClient, RxTx, Disconnected
  <2> QED
    BY <1>1, <2>1, <2>2, MessagesStayStarted DEF busVars
<1> QED
  BY <1>2, <1>3

LEMMA MqttKeepsStarted ==
  ASSUME TypeOK, StartedInv, MqttStep
  PROVE  StartedInv'
<1>1. /\ "ipnet" \in Dispatcher /\ "mqtt" \in Dispatcher /\ "timer" \in Task
      /\ MessagesStarted /\ MqttTypeOK /\ UNCHANGED agentVars
  BY DEF Dispatcher, Task, StartedInv, TypeOK, MqttStep
<1>2. UNCHANGED <<started, registered, stopping, backoff>>
  BY <1>1 DEF agentVars
<1>3. CASE MqttHandler
  <2>1. cur["mqtt"].topic = "MQTT_EXECUTE_CMD" /\ Free("mqtt") /\ MqttUser \in Client
    BY <1>3, MqttUserType
  <2>2. MqttUser \in started
    BY <1>1, <2>1, HandledStarted DEF MqttUser, HasClient
  <2>3. /\ \/ \E cmd, ok : ReturnPublishing("mqtt", MqttStatus(cmd, MqttUser, ok))
           \/ ReturnSilently("mqtt")
           \/ UNCHANGED busVars
        /\ UNCHANGED pinging
        /\ \E v : session' = [session EXCEPT ![MqttUser] = v]
    <3>1. UNCHANGED session => session' = [session EXCEPT ![MqttUser] = session[MqttUser]]
      BY <1>1, <2>1 DEF MqttTypeOK
    <3> QED
      BY <1>3, <3>1
      DEF MqttHandler, SessionAlloc, SessionSetup, BrokerAccepts, BrokerConnectFails, Subscribe,
          SubscribeFails, ProcessLoop, BrokerPing, Disconnect, SetPhase, Delete, mqttVars
  <2>4. ASSUME NEW cmd, NEW ok, ReturnPublishing("mqtt", MqttStatus(cmd, MqttUser, ok))
        PROVE  MessagesStarted'
    <3>1. PICK m : m = MqttStatus(cmd, MqttUser, ok)
      OBVIOUS
    <3>2. m.ctx \in started
      BY <2>2, <3>1 DEF MqttStatus
    <3> QED
      BY <1>1, <1>2, <2>1, <2>4, <3>1, <3>2, MessagesStayStarted
  <2>5. MessagesStarted'
    BY <1>1, <1>2, <2>3, <2>4, MessagesStayStarted DEF busVars
  <2>6. \A e \in Client : session'[e] # NoSession => e \in started
    BY <1>1, <2>2, <2>3 DEF StartedInv, MqttTypeOK
  <2> QED
    BY <1>2, <2>3, <2>5, <2>6 DEF StartedInv
<1>4. ASSUME NEW d \in {"timer", "ipnet"}, NEW c \in started, NEW cmd, 
             \/ d = "timer" /\ CallPublish("timer", MqttCmd(cmd, c))
             \/ d = "ipnet" /\ Free("ipnet") /\ ReturnPublishing("ipnet", MqttCmd(cmd, c))
      PROVE  MessagesStarted'
  <2>1. PICK m : m = MqttCmd(cmd, c)
    OBVIOUS
  <2>2. m.ctx \in started
    BY <2>1 DEF MqttCmd
  <2> QED
    BY <1>1, <1>2, <1>4, <2>1, <2>2, MessagesStayStarted
<1>5. Sessions \subseteq started
  BY DEF Sessions, StartedInv
<1>6. CASE MonitorHandler
  <2>1. /\ \/ \E c \in Sessions : \E cmd : ReturnPublishing("ipnet", MqttCmd(cmd, c))
           \/ ReturnSilently("ipnet")
        /\ Free("ipnet") /\ UNCHANGED <<session, pinging>>
    BY <1>6 DEF MonitorHandler, MonitorDisconnected, MonitorActivity, Monitor, mqttVars
  <2>2. MessagesStarted'
    BY <1>1, <1>2, <1>4, <1>5, <2>1, MessagesStayStarted
  <2> QED
    BY <1>2, <2>1, <2>2 DEF StartedInv
<1>7. CASE Tick
  <2>1. CASE \E c \in Sessions : session[c].phase = "listed"
    <3>1. UNCHANGED <<queue, cur, out, session, pinging>>
      BY <1>7, <2>1 DEF Tick
    <3> QED
      BY <1>1, <1>2, <3>1, MessagesStayStarted DEF StartedInv
  <2>2. CASE ~\E c \in Sessions : session[c].phase = "listed"
    <3>1. PICK due \in SUBSET Sessions :
            \E c \in due : CallPublish("timer", MqttCmd("BROKER_PING", c)) /\ pinging' = due \ {c}
      BY <1>7, <2>2 DEF Tick
    <3>2. MessagesStarted'
      BY <1>4, <1>5, <3>1
    <3>3. pinging' \subseteq started /\ UNCHANGED session
      BY <1>5, <1>7, <3>1 DEF Tick
    <3> QED
      BY <1>2, <3>2, <3>3 DEF StartedInv
  <2> QED
    BY <2>1, <2>2
<1>8. CASE TickContinues
  <2>1. PICK c \in pinging : CallPublish("timer", MqttCmd("BROKER_PING", c)) /\ pinging' = pinging \ {c}
                             /\ UNCHANGED session
    BY <1>8 DEF TickContinues
  <2>2. c \in started
    BY DEF StartedInv
  <2>3. MessagesStarted'
    BY <1>4, <2>1, <2>2
  <2> QED
    BY <1>2, <2>1, <2>3 DEF StartedInv
<1>9. ASSUME NEW c \in Client, SubackArrives(c) PROVE StartedInv'
  <2>1. session[c] # NoSession /\ UNCHANGED <<queue, cur, out, pinging>>
    BY <1>9, NoSessionPhase DEF SubackArrives, Phase, busVars
  <2>2. \A e \in Client : e # c => session'[e] = session[e]
    BY <1>1, <1>9 DEF SubackArrives, SetPhase, MqttTypeOK
  <2>3. MessagesStarted'
    BY <1>1, <1>2, <2>1, MessagesStayStarted
  <2> QED
    BY <1>2, <2>1, <2>2, <2>3 DEF StartedInv
<1> QED
  BY <1>3, <1>6, <1>7, <1>8, <1>9 DEF MqttStep

LEMMA AgentKeepsStarted ==
  ASSUME TypeOK, StartedInv, AgentStep
  PROVE  StartedInv'
<1>1. /\ "ipnet" \in Dispatcher /\ "mqtt" \in Dispatcher /\ "timer" \in Task /\ "cli" \in Task
      /\ MessagesStarted /\ AgentTypeOK /\ UNCHANGED <<session, pinging>>
  BY DEF Dispatcher, Task, StartedInv, TypeOK, AgentStep, mqttVars
<1>2. ASSUME NEW c \in started', started \subseteq started',
             \E m : /\ m.ctx = c
                    /\ \/ \E d \in Dispatcher : Free(d) /\ ReturnPublishing(d, m)
                       \/ \E t \in Task : CallPublish(t, m)
      PROVE  MessagesStarted'
  BY <1>1, <1>2, MessagesStayStarted
<1>3. CASE IpnetStatusHandler
  <2>1. cur["ipnet"].topic = "IPNET_CMD_STATUS" /\ Free("ipnet")
    BY <1>3 DEF IpnetStatusHandler, NotOurs, OnTcpConnected, OnTcpDown, Completed, Handling
  <2>2. cur["ipnet"].ctx \in started /\ cur["ipnet"].ctx \in Client
    BY <1>1, <2>1, HandledStarted, Handled DEF HasClient, TypeOK
  <2>3. CASE NotOurs
    <3>1. ReturnSilently("ipnet") /\ UNCHANGED agentVars
      BY <2>3 DEF NotOurs
    <3>2. MessagesStarted'
      BY <1>1, <3>1, MessagesStayStarted DEF agentVars
    <3> QED
      BY <1>1, <3>1, <3>2 DEF agentVars, StartedInv
  <2>4. CASE OnTcpConnected
    <3>1. PICK m : m = MqttConnect(cur["ipnet"].ctx, cur["ipnet"].socket)
      OBVIOUS
    <3>2. ReturnPublishing("ipnet", m) /\ UNCHANGED agentVars
      BY <2>4, <3>1 DEF OnTcpConnected
    <3>3. m.ctx \in started
      BY <2>2, <3>1 DEF MqttConnect
    <3>4. MessagesStarted'
      BY <1>1, <2>1, <3>2, <3>3, MessagesStayStarted DEF agentVars
    <3> QED
      BY <1>1, <3>2, <3>4 DEF agentVars, StartedInv
  <2>5. CASE OnTcpDown
    <3>1. /\ ReturnSilently("ipnet") /\ UNCHANGED <<registered, started, stopping>>
          /\ backoff' = [backoff EXCEPT ![cur["ipnet"].ctx] = @ + 1] \/ UNCHANGED backoff
      BY <2>5 DEF OnTcpDown, RaiseTimer, TimerRefused
    <3>2. MessagesStarted'
      BY <1>1, <3>1, MessagesStayStarted
    <3>3. \A c \in Client : backoff'[c] # 0 => c \in started
      BY <1>1, <2>2, <3>1 DEF StartedInv, AgentTypeOK
    <3> QED
      BY <1>1, <3>1, <3>2, <3>3 DEF StartedInv
  <2> QED
    BY <1>3, <2>3, <2>4, <2>5 DEF IpnetStatusHandler
<1>4. CASE MqttStatusHandler
  <2>1. cur["mqtt"].topic = "MQTT_CMD_STATUS" /\ Free("mqtt") /\ UNCHANGED agentVars
    BY <1>4 DEF MqttStatusHandler, OnConnected, OnConnectFailed, OnSubscribed, OnSubscribeFailed, OnDisconnected,
                OnStatus, Handling
  <2>2. Subject \in started
    BY <1>1, <2>1, HandledStarted DEF HasClient, Subject
  <2>3. \/ ReturnSilently("mqtt")
        \/ \E m : m.ctx = Subject /\ ReturnPublishing("mqtt", m)
    <3>1. \A cmd : MqttCmd(cmd, Subject).ctx = Subject /\ IpnetCmd(cmd, Subject).ctx = Subject
      BY DEF MqttCmd, IpnetCmd
    <3> QED
      BY <1>4, <3>1 DEF MqttStatusHandler, OnConnected, OnConnectFailed, OnSubscribed, OnSubscribeFailed,
                        OnDisconnected, Request
  <2>4. MessagesStarted'
    <3>1. CASE ReturnSilently("mqtt")
      BY <1>1, <2>1, <3>1, MessagesStayStarted DEF agentVars
    <3>2. ASSUME NEW m, m.ctx = Subject, ReturnPublishing("mqtt", m)
          PROVE  MessagesStarted'
      BY <1>1, <2>1, <2>2, <3>2, MessagesStayStarted DEF agentVars
    <3> QED
      BY <2>3, <3>1, <3>2
  <2> QED
    BY <1>1, <2>1, <2>4 DEF agentVars, StartedInv
<1>5. CASE AgentStopShutdown
  <2>1. PICK m : m = IpnetCmd("TCP_SHUTDOWN", stopping)
    OBVIOUS
  <2>2. /\ CallPublish("cli", m) /\ stopping' = NULL /\ m.ctx \in started
        /\ UNCHANGED <<registered, started, backoff>>
    BY <1>5, <2>1 DEF AgentStopShutdown, IpnetCmd, StartedInv
  <2>3. MessagesStarted'
    BY <1>1, <2>2, MessagesStayStarted
  <2> QED
    BY <1>1, <2>2, <2>3 DEF StartedInv
<1>6. ASSUME NEW c \in Client, BackoffEnds(c) PROVE StartedInv'
  <2>1. /\ c \in started /\ UNCHANGED <<registered, started, stopping>>
        /\ \A e \in Client : e # c => backoff'[e] = backoff[e]
        /\ CallPublish("timer", IpnetCmd("TCP_CONNECT", c)) \/ UNCHANGED busVars
    BY <1>1, <1>6 DEF BackoffEnds, BackoffFires, StartedInv, AgentTypeOK
  <2>2. CASE UNCHANGED busVars
    <3>1. MessagesStarted'
      BY <1>1, <2>1, <2>2, MessagesStayStarted DEF busVars
    <3> QED
      BY <1>1, <2>1, <3>1 DEF StartedInv
  <2>3. CASE CallPublish("timer", IpnetCmd("TCP_CONNECT", c))
    <3>1. IpnetCmd("TCP_CONNECT", c).ctx = c
      BY DEF IpnetCmd
    <3>2. MessagesStarted'
      BY <1>1, <2>1, <2>3, <3>1, MessagesStayStarted
    <3> QED
      BY <1>1, <2>1, <3>2 DEF StartedInv
  <2> QED
    BY <2>1, <2>2, <2>3
<1>7. ASSUME NEW c \in Client, AgentStart(c) PROVE StartedInv'
  <2>1. /\ started' = started \cup {c} /\ registered' = registered \cup {c} /\ c \notin started
        /\ CallPublish("cli", IpnetCmd("TCP_CONNECT", c)) /\ UNCHANGED <<backoff, stopping>>
    BY <1>7 DEF AgentStart
  <2>2. IpnetCmd("TCP_CONNECT", c).ctx = c
    BY DEF IpnetCmd
  <2>3. MessagesStarted'
    BY <1>1, <2>1, <2>2, MessagesStayStarted
  <2> QED
    BY <1>1, <2>1, <2>3 DEF StartedInv
<1>8. ASSUME NEW c \in Client, AgentStop(c) PROVE StartedInv'
  <2>1. /\ c \in registered /\ registered' = registered \ {c} /\ stopping' = c
        /\ CallPublish("cli", MqttCmd("DISCONNECT", c)) /\ UNCHANGED <<started, backoff>>
    BY <1>8 DEF AgentStop
  <2>2. MqttCmd("DISCONNECT", c).ctx = c /\ c \in started
    BY <1>1, <2>1 DEF MqttCmd, AgentTypeOK
  <2>3. MessagesStarted'
    BY <1>1, <2>1, <2>2, MessagesStayStarted
  <2> QED
    BY <1>1, <2>1, <2>2, <2>3 DEF StartedInv
<1> QED
  BY <1>3, <1>4, <1>5, <1>6, <1>7, <1>8 DEF AgentStep

LEMMA NextKeepsStarted ==
  ASSUME TypeOK, StartedInv, [Next]_vars
  PROVE  StartedInv'
<1>1. UNCHANGED <<mqttVars, agentVars>> /\ MessagesStarted' => StartedInv'
  BY DEF StartedInv, mqttVars, agentVars
<1>2. CASE Messaging
  <2>1. \/ Moved
        \/ \E t \in Task : PutTimeout(t)
    BY <1>2, PutMoves, ReceiveMoves DEF Messaging, Put, TypeOK
  <2> QED
    BY <1>1, <1>2, <2>1, MessagesStayStarted DEF Messaging, StartedInv, agentVars
<1>3. CASE IpnetStep
  BY <1>1, <1>3, IpnetKeepsStarted DEF IpnetStep, StartedInv, agentVars
<1>4. CASE Ended \/ UNCHANGED vars
  BY <1>1, <1>4, MessagesStayStarted DEF Ended, vars, busVars, StartedInv, agentVars
<1> QED
  BY <1>2, <1>3, <1>4, MqttKeepsStarted, AgentKeepsStarted DEF Next

-----------------------------------------------------------------------------
(* Every step leaves a registered client exactly one thing that carries it on *)

\* Which messages carry c on.
LEMMA MadeCarries ==
  ASSUME NEW c, NEW u, NEW s, NEW ok
  PROVE  /\ \A cmd \in {"TCP_CONNECT", "TCP_SHUTDOWN"} :
              /\ Carries(IpnetCmd(cmd, u), c) <=> u = c
              /\ Carries(IpnetStatus(cmd, u, ok, s), c) <=> u = c
         /\ ~Carries(RxTx(s), c) /\ ~Carries(Disconnected(s), c)
         /\ Carries(MqttConnect(u, s), c) <=> u = c
         /\ \A cmd \in {"SUBSCRIBE", "PROCESS_LOOP", "BROKER_PING", "DISCONNECT"} : ~Carries(MqttCmd(cmd, u), c)
         /\ Carries(MqttStatus("CONNECT", u, ok), c) <=> u = c /\ ~ok
         /\ ~Carries(MqttStatus("SUBSCRIBE", u, ok), c)
         /\ Carries(MqttStatus("DISCONNECT", u, ok), c) <=> u = c
  BY DEF Carries, MovesClient, IpnetCmd, IpnetStatus, RxTx, Disconnected, MqttConnect, MqttCmd, MqttStatus

LEMMA HandledCarries ==
  ASSUME BusTypeOK, NEW d \in Dispatcher, NEW c
  PROVE  /\ cur[d].topic \in {"IPNET_EXECUTE_CMD", "IPNET_CMD_STATUS"}
              => (Carries(cur[d], c) <=> cur[d].ctx = c)
         /\ cur[d].topic = "MQTT_EXECUTE_CMD"
              => (Carries(cur[d], c) <=> cur[d].ctx = c /\ cur[d].cmd = "CONNECT")
         /\ cur[d].topic = "MQTT_CMD_STATUS"
              => (Carries(cur[d], c) <=> /\ cur[d].ctx = c
                                         /\ cur[d].cmd = "DISCONNECT" \/ (cur[d].cmd = "CONNECT" /\ ~cur[d].ok))
         /\ cur[d].topic \in {"IPNET_SOCKET_DISCONNECTED", "IPNET_SOCKET_RXTX_ACTIVITY"} => ~Carries(cur[d], c)
<1>1. CASE cur[d].topic = "NONE"
  BY <1>1
<1>2. CASE cur[d].topic # "NONE"
  BY <1>2, HandlingType, MessageFields DEF Carries, MovesClient
<1> QED
  BY <1>1, <1>2

Keeps(c) ==
  /\ AtMostOne(c) => AtMostOne(c)'
  /\ MaxTimerFaults = 0 /\ c \notin lost' /\ AtLeastOne(c) => AtLeastOne(c)'

LEMMA OtherSame ==
  ASSUME NEW c \in Client, backoff'[c] = backoff[c],
         session'[c].phase \in Connected <=> session[c].phase \in Connected
  PROVE  Other(c)' = Other(c)
  BY DEF Other, Up

LEMMA PublishKeeps ==
  ASSUME TypeOK, TypeOK', NEW c \in Client, NEW d \in Dispatcher, NEW m, Free(d), ReturnPublishing(d, m),
         Weight(Carries(m, c)) + Other(c)' = Weight(Carries(cur[d], c)) + Other(c)
  PROVE  Keeps(c)
<1>1. /\ Weight(Carries(m, c)) \in Nat /\ Weight(Carries(cur[d], c)) \in Nat
      /\ Other(c) \in Nat /\ Other(c)' \in Nat
  BY OtherType DEF Weight
<1>2. /\ Weight(Carries(m, c)) + Other(c)' <= Weight(Carries(cur[d], c)) + Other(c)
      /\ Weight(Carries(m, c)) + Other(c)' >= Weight(Carries(cur[d], c)) + Other(c)
  BY <1>1
<1> QED
  BY <1>2, PublishKeepsOne DEF Keeps

LEMMA CallKeeps ==
  ASSUME TypeOK, TypeOK', NEW c \in Client, NEW t \in Task, NEW m, CallPublish(t, m),
         Weight(Carries(m, c)) + Other(c)' = Other(c)
  PROVE  Keeps(c)
<1>1. out' = [out EXCEPT ![t] = m] /\ UNCHANGED <<queue, cur>> /\ out[t] = NoMsg
  BY DEF CallPublish, Publish, Free, Publishing
<1>2. /\ Weight(Carries(m, c)) \in Nat /\ Weight(Carries(out[t], c)) = 0
      /\ Other(c) \in Nat /\ Other(c)' \in Nat
  BY <1>1, OtherType, NoMsgCarriesNobody DEF Weight
<1>3. /\ Weight(Carries(m, c)) + Other(c)' <= Weight(Carries(out[t], c)) + Other(c)
      /\ Weight(Carries(m, c)) + Other(c)' >= Weight(Carries(out[t], c)) + Other(c)
  BY <1>2
<1> QED
  BY <1>1, <1>3, OutKeepsOne DEF Keeps

LEMMA MessagingKeepsOne ==
  ASSUME TypeOK, TypeOK', Messaging, NEW c \in Client
  PROVE  Keeps(c)
<1>1. Other(c)' = Other(c)
  BY OtherSame DEF Messaging, mqttVars, agentVars
<1>2. CASE Moved
  BY <1>1, <1>2, MovedKeepsOne DEF Keeps
<1>3. ASSUME NEW t \in Task, PutTimeout(t) PROVE Keeps(c)
  <2>1. out' = [out EXCEPT ![t] = NoMsg] /\ UNCHANGED <<queue, cur>>
    BY <1>3 DEF PutTimeout
  <2>2. c \notin lost' => ~Carries(out[t], c)
    BY <1>3 DEF PutTimeout, Carries
  <2>3. /\ Weight(Carries(NoMsg, c)) = 0 /\ Weight(Carries(out[t], c)) \in {0, 1}
        /\ c \notin lost' => Weight(Carries(out[t], c)) = 0
    BY <2>2, NoMsgCarriesNobody DEF Weight
  <2>4. Other(c) \in Nat
    BY OtherType
  <2>5. /\ Weight(Carries(NoMsg, c)) + Other(c)' <= Weight(Carries(out[t], c)) + Other(c)
        /\ c \notin lost' => Weight(Carries(NoMsg, c)) + Other(c)' >= Weight(Carries(out[t], c)) + Other(c)
    BY <1>1, <2>3, <2>4
  <2> QED
    BY <2>1, <2>5, OutKeepsOne DEF Keeps
<1> QED
  BY <1>2, <1>3, PutMoves, ReceiveMoves DEF Messaging, Put, TypeOK

LEMMA IpnetKeepsOne ==
  ASSUME TypeOK, TypeOK', IpnetStep, NEW c \in Client
  PROVE  Keeps(c)
<1>1. Other(c)' = Other(c) /\ Other(c) \in Nat
  BY OtherSame, OtherType DEF IpnetStep, mqttVars, agentVars
<1>2. UNCHANGED busVars => Keeps(c)
  BY <1>1, FrameKeepsOne DEF Keeps, busVars
<1>3. "ipnet" \in Dispatcher /\ "iptask" \in Task
  BY DEF Dispatcher, Task
<1>4. CASE IpnetHandler
  <2>1. /\ cur["ipnet"].topic = "IPNET_EXECUTE_CMD" /\ Free("ipnet")
        /\ \/ \E cmd \in {"TCP_CONNECT", "TCP_SHUTDOWN"} : \E ok, s :
                ReturnPublishing("ipnet", IpnetStatus(cmd, User, ok, s))
           \/ UNCHANGED busVars
    BY <1>4 DEF IpnetHandler, TcpConnect, TcpConnectNoSocket, TcpConnectFails, TcpConnectReturns, TcpShutdown,
                Executing, Handling
  <2>2. ASSUME NEW cmd \in {"TCP_CONNECT", "TCP_SHUTDOWN"}, NEW ok, NEW s,
               ReturnPublishing("ipnet", IpnetStatus(cmd, User, ok, s))
        PROVE  Keeps(c)
    <3>1. PICK m : m = IpnetStatus(cmd, User, ok, s)
      OBVIOUS
    <3>2. (Carries(m, c) <=> User = c) /\ (Carries(cur["ipnet"], c) <=> User = c)
      BY <1>3, <2>1, <3>1, MadeCarries, HandledCarries DEF User, TypeOK
    <3> QED
      BY <1>1, <1>3, <2>1, <2>2, <3>1, <3>2, PublishKeepsOne DEF Keeps, Weight
  <2> QED
    BY <1>2, <2>1, <2>2
<1>5. CASE IpTaskStep
  <2>1. \/ \E s \in Socket : CallPublish("iptask", RxTx(s)) \/ CallPublish("iptask", Disconnected(s))
        \/ UNCHANGED busVars
    BY <1>5 DEF IpTaskStep, Established, PeerCloses, Traffic, WakeUp, CloseDone
  <2>2. ASSUME NEW m, ~Carries(m, c), CallPublish("iptask", m)
        PROVE  Keeps(c)
    <3>1. Weight(Carries(m, c)) + Other(c)' = Other(c)
      BY <1>1, <2>2 DEF Weight
    <3> QED
      BY <1>3, <2>2, <3>1, CallKeeps
  <2> QED
    BY <1>2, <2>1, <2>2, MadeCarries
<1> QED
  BY <1>4, <1>5 DEF IpnetStep

LEMMA MqttHandlerKeepsOne ==
  ASSUME TypeOK, TypeOK', ConnectInv, MqttHandler, UNCHANGED agentVars, NEW c \in Client
  PROVE  Keeps(c)
<1> DEFINE u == MqttUser
<1>1. /\ u \in Client /\ "mqtt" \in Dispatcher /\ Free("mqtt") /\ MqttTypeOK
      /\ cur["mqtt"].topic = "MQTT_EXECUTE_CMD"
  BY MqttUserType DEF Dispatcher, TypeOK
<1>2. backoff'[c] = backoff[c] /\ Other(c) \in Nat /\ Other(c)' \in Nat /\ backoff[c] \in Nat
  BY OtherType DEF agentVars, TypeOK, AgentTypeOK
<1>3. Carries(cur["mqtt"], c) <=> u = c /\ cur["mqtt"].cmd = "CONNECT"
  BY <1>1, HandledCarries DEF MqttUser, TypeOK
<1>4. ASSUME UNCHANGED <<queue, cur, out>>, session'[c].phase \in Connected <=> session[c].phase \in Connected
      PROVE  Keeps(c)
  BY <1>2, <1>4, OtherSame, FrameKeepsOne DEF Keeps
<1>5. ASSUME ReturnSilently("mqtt"), cur["mqtt"].cmd # "CONNECT",
             session'[c].phase \in Connected <=> session[c].phase \in Connected
      PROVE  Keeps(c)
  BY <1>1, <1>2, <1>3, <1>5, OtherSame, SilenceKeepsOne DEF Keeps, Weight
<1>6. ASSUME NEW m, ReturnPublishing("mqtt", m),
             Weight(Carries(m, c)) + Other(c)' = Weight(Carries(cur["mqtt"], c)) + Other(c)
      PROVE  Keeps(c)
  BY <1>1, <1>6, PublishKeeps
<1>6a. ASSUME NEW m, ReturnPublishing("mqtt", m), Carries(m, c) <=> Carries(cur["mqtt"], c),
              Other(c)' = Other(c)
       PROVE  Keeps(c)
  <2>1. Weight(Carries(m, c)) = Weight(Carries(cur["mqtt"], c))
    BY <1>6a DEF Weight
  <2> QED
    BY <1>6, <1>6a, <2>1
<1>7. \A e \in Client, p \in Phase : session[e].phase = p => session[e] # NoSession
  BY NoSessionPhase
<1>8. cur["mqtt"].cmd # "CONNECT" /\ session[u] # NoSession => session[u].phase \in Connected
  BY <1>1 DEF ConnectInv, MqttTypeOK, Phase, Connected
<1>9. NoSession.phase \notin Connected /\ {"listed", "connecting"} \cap Connected = {} /\ Connected \subseteq Phase
      /\ {"listed", "connecting"} \subseteq Phase /\ {"connected", "subscribing", "acked", "subscribed"} \subseteq Connected
  BY DEF NoSession, Connected, Phase
<1> HIDE DEF u
<1>10. CASE SessionAlloc
  <2>1. cur["mqtt"].cmd = "CONNECT"
    BY <1>10 DEF SessionAlloc, MqttHandling, Requested, Handling
  <2>2. CASE MayList(u, cur["mqtt"].socket)
    <3>1. /\ session' = [session EXCEPT ![u] = [phase |-> "listed", socket |-> cur["mqtt"].socket]]
          /\ UNCHANGED <<queue, cur, out>> /\ session[u] = NoSession
      BY <1>1, <1>10, <2>2 DEF SessionAlloc, MayList, Sessions, busVars, u
    <3>2. session'[c].phase \in Connected <=> session[c].phase \in Connected
      BY <1>1, <1>9, <3>1 DEF MqttTypeOK
    <3> QED
      BY <1>4, <3>1, <3>2
  <2>3. CASE ~MayList(u, cur["mqtt"].socket)
    <3>1. PICK m : m = MqttStatus("CONNECT", u, FALSE)
      OBVIOUS
    <3>2. ReturnPublishing("mqtt", m) /\ UNCHANGED session
      BY <1>10, <2>3, <3>1 DEF SessionAlloc, u
    <3>3. Carries(m, c) <=> u = c
      BY <3>1, MadeCarries
    <3> QED
      BY <1>2, <1>3, <1>6, <2>1, <3>2, <3>3, OtherSame DEF Weight
  <2> QED
    BY <2>2, <2>3
<1>11. CASE SessionSetup
  <2>1. /\ UNCHANGED <<queue, cur, out>> /\ SetPhase(u, "connecting")
        /\ session[u].phase = "listed" /\ session[u] # NoSession
    BY <1>1, <1>7, <1>9, <1>11 DEF SessionSetup, busVars, u
  <2>2. session'[u].phase = "connecting" /\ \A e \in Client : e # u => session'[e] = session[e]
    BY <1>1, <1>9, <2>1, PhaseSet
  <2> QED
    BY <1>4, <1>9, <2>1, <2>2
<1>12. CASE BrokerAccepts
  <2>1. PICK m : m = MqttStatus("CONNECT", u, TRUE)
    OBVIOUS
  <2>2. /\ ReturnPublishing("mqtt", m) /\ cur["mqtt"].cmd = "CONNECT" /\ SetPhase(u, "connected")
        /\ session[u].phase = "connecting" /\ session[u] # NoSession
    BY <1>1, <1>7, <1>9, <1>12, <2>1 DEF BrokerAccepts, MqttHandling, Requested, Handling, u
  <2>3. session'[u].phase = "connected" /\ \A e \in Client : e # u => session'[e] = session[e]
    BY <1>1, <1>9, <2>2, PhaseSet
  <2>4. ~Carries(m, c)
    BY <2>1, MadeCarries
  <2>5. CASE c = u
    <3>1. Other(c)' = backoff[c] + 1 /\ Other(c) = backoff[c]
      BY <1>2, <1>9, <2>2, <2>3, <2>5 DEF Other, Up, Weight
    <3> QED
      BY <1>2, <1>3, <1>6, <2>2, <2>4, <2>5, <3>1 DEF Weight
  <2>6. CASE c # u
    BY <1>2, <1>3, <1>6, <2>2, <2>3, <2>4, <2>6, OtherSame DEF Weight
  <2> QED
    BY <2>5, <2>6
<1>13. CASE BrokerConnectFails
  <2>1. PICK m : m = MqttStatus("CONNECT", u, FALSE)
    OBVIOUS
  <2>2. /\ ReturnPublishing("mqtt", m) /\ cur["mqtt"].cmd = "CONNECT" /\ Delete(u)
        /\ session[u].phase = "connecting"
    BY <1>1, <1>13, <2>1 DEF BrokerConnectFails, MqttHandling, Requested, Handling, u
  <2>3. session'[u] = NoSession /\ \A e \in Client : e # u => session'[e] = session[e]
    BY <1>1, <2>2, SessionDeleted
  <2>4. Carries(m, c) <=> u = c
    BY <2>1, MadeCarries
  <2>5. Other(c)' = Other(c)
    BY <1>2, <1>9, <2>2, <2>3, OtherSame
  <2> QED
    BY <1>3, <1>6a, <2>2, <2>4, <2>5
<1>14. CASE Subscribe
  <2>1. /\ ReturnSilently("mqtt") /\ cur["mqtt"].cmd = "SUBSCRIBE" /\ SetPhase(u, "subscribing")
        /\ session[u] # NoSession
    BY <1>1, <1>14 DEF Subscribe, MqttHandling, Requested, Handling, Sessions, u
  <2>2. session'[u].phase = "subscribing" /\ \A e \in Client : e # u => session'[e] = session[e]
    BY <1>1, <1>9, <2>1, PhaseSet
  <2> QED
    BY <1>5, <1>8, <1>9, <2>1, <2>2
<1>15. CASE SubscribeFails
  <2>1. PICK m : m = MqttStatus("SUBSCRIBE", u, FALSE)
    OBVIOUS
  <2>2. ReturnPublishing("mqtt", m) /\ cur["mqtt"].cmd = "SUBSCRIBE" /\ UNCHANGED session
    BY <1>15, <2>1 DEF SubscribeFails, MqttHandling, Requested, Handling, mqttVars, u
  <2> QED
    BY <1>2, <1>3, <1>6, <2>1, <2>2, OtherSame, MadeCarries DEF Weight
<1>16. CASE ProcessLoop
  <2>1. cur["mqtt"].cmd = "PROCESS_LOOP"
    BY <1>16 DEF ProcessLoop, MqttHandling, Requested, Handling
  <2>2. CASE session[u].phase = "acked"
    <3>1. PICK m : m = MqttStatus("SUBSCRIBE", u, TRUE)
      OBVIOUS
    <3>2. ReturnPublishing("mqtt", m) /\ SetPhase(u, "subscribed") /\ session[u] # NoSession
      BY <1>1, <1>7, <1>9, <1>16, <2>2, <3>1 DEF ProcessLoop, u
    <3>3. session'[u].phase = "subscribed" /\ \A e \in Client : e # u => session'[e] = session[e]
      BY <1>1, <1>9, <3>2, PhaseSet
    <3>4. Other(c)' = Other(c)
      BY <1>2, <1>9, <2>2, <3>3, OtherSame
    <3> QED
      BY <1>3, <1>6a, <2>1, <3>1, <3>2, <3>4, MadeCarries
  <2>3. CASE session[u].phase # "acked"
    <3>1. ReturnSilently("mqtt") /\ UNCHANGED session
      BY <1>16, <2>3 DEF ProcessLoop, u
    <3> QED
      BY <1>5, <2>1, <3>1
  <2> QED
    BY <2>2, <2>3
<1>17. CASE BrokerPing
  <2>1. ReturnSilently("mqtt") /\ cur["mqtt"].cmd = "BROKER_PING" /\ UNCHANGED session
    BY <1>17 DEF BrokerPing, MqttHandling, Requested, Handling, mqttVars
  <2> QED
    BY <1>5, <2>1
<1>18. CASE Disconnect
  <2>1. cur["mqtt"].cmd = "DISCONNECT"
    BY <1>18 DEF Disconnect, MqttHandling, Requested, Handling
  <2>2. CASE u \in Sessions
    <3>1. PICK m : m = MqttStatus("DISCONNECT", u, TRUE)
      OBVIOUS
    <3>2. ReturnPublishing("mqtt", m) /\ Delete(u) /\ session[u].phase \in Connected
      BY <1>8, <1>18, <2>1, <2>2, <3>1 DEF Disconnect, Sessions, u
    <3>3. session'[u] = NoSession /\ \A e \in Client : e # u => session'[e] = session[e]
      BY <1>1, <3>2, SessionDeleted
    <3>4. Carries(m, c) <=> u = c
      BY <3>1, MadeCarries
    <3>5. CASE c = u
      <4>1. Other(c)' = backoff[c] /\ Other(c) = backoff[c] + 1
        BY <1>2, <1>9, <3>2, <3>3, <3>5 DEF Other, Up, Weight
      <4> QED
        BY <1>2, <1>3, <1>6, <2>1, <3>2, <3>4, <3>5, <4>1 DEF Weight
    <3>6. CASE c # u
      BY <1>2, <1>3, <1>6, <3>2, <3>3, <3>4, <3>6, OtherSame DEF Weight
    <3> QED
      BY <3>5, <3>6
  <2>3. CASE u \notin Sessions
    <3>1. ReturnSilently("mqtt") /\ UNCHANGED session
      BY <1>18, <2>3 DEF Disconnect, u
    <3> QED
      BY <1>5, <2>1, <3>1
  <2> QED
    BY <2>2, <2>3
<1> QED
  BY <1>10, <1>11, <1>12, <1>13, <1>14, <1>15, <1>16, <1>17, <1>18 DEF MqttHandler

LEMMA MqttKeepsOne ==
  ASSUME TypeOK, TypeOK', ConnectInv, MqttStep, NEW c \in Client
  PROVE  Keeps(c)
<1>1. /\ UNCHANGED agentVars /\ UNCHANGED backoff /\ "ipnet" \in Dispatcher /\ "timer" \in Task
      /\ MqttTypeOK /\ Other(c) \in Nat
  BY OtherType DEF MqttStep, agentVars, Dispatcher, Task, TypeOK
<1>2. CASE MonitorHandler
  <2>1. /\ \/ \E u \in Sessions, cmd \in {"PROCESS_LOOP", "DISCONNECT"} :
                ReturnPublishing("ipnet", MqttCmd(cmd, u))
           \/ ReturnSilently("ipnet")
        /\ Free("ipnet") /\ UNCHANGED session
        /\ cur["ipnet"].topic \in {"IPNET_SOCKET_DISCONNECTED", "IPNET_SOCKET_RXTX_ACTIVITY"}
    BY <1>2 DEF MonitorHandler, MonitorDisconnected, MonitorActivity, Monitor, mqttVars
  <2>2. Other(c)' = Other(c) /\ ~Carries(cur["ipnet"], c)
    BY <1>1, <2>1, OtherSame, HandledCarries DEF TypeOK
  <2>3. ASSUME NEW m, ReturnPublishing("ipnet", m), ~Carries(m, c) PROVE Keeps(c)
    <3>1. Weight(Carries(m, c)) = Weight(Carries(cur["ipnet"], c))
      BY <2>2, <2>3 DEF Weight
    <3> QED
      BY <1>1, <2>1, <2>2, <2>3, <3>1, PublishKeeps
  <2>4. CASE ReturnSilently("ipnet")
    BY <1>1, <2>2, <2>4, SilenceKeepsOne DEF Keeps, Weight
  <2> QED
    BY <2>1, <2>3, <2>4, MadeCarries
<1>3. CASE Tick \/ TickContinues
  <2>1. /\ \/ \E u : CallPublish("timer", MqttCmd("BROKER_PING", u))
           \/ UNCHANGED <<queue, cur, out>>
        /\ UNCHANGED session
    BY <1>3 DEF Tick, TickContinues
  <2>2. Other(c)' = Other(c)
    BY <1>1, <2>1, OtherSame
  <2>3. ASSUME NEW m, CallPublish("timer", m), ~Carries(m, c) PROVE Keeps(c)
    <3>1. Weight(Carries(m, c)) + Other(c)' = Other(c)
      BY <1>1, <2>2, <2>3 DEF Weight
    <3> QED
      BY <1>1, <2>3, <3>1, CallKeeps
  <2>4. CASE UNCHANGED <<queue, cur, out>>
    BY <2>2, <2>4, FrameKeepsOne DEF Keeps
  <2> QED
    BY <2>1, <2>3, <2>4, MadeCarries
<1>4. ASSUME NEW u \in Client, SubackArrives(u) PROVE Keeps(c)
  <2>1. /\ SetPhase(u, "acked") /\ session[u].phase = "subscribing" /\ session[u] # NoSession
        /\ UNCHANGED <<queue, cur, out>> /\ {"acked", "subscribing"} \subseteq Connected \cap Phase
    BY <1>4, NoSessionPhase DEF SubackArrives, busVars, Connected, Phase
  <2>2. session'[u].phase = "acked" /\ \A e \in Client : e # u => session'[e] = session[e]
    BY <1>1, <2>1, PhaseSet
  <2>3. Other(c)' = Other(c)
    BY <1>1, <2>1, <2>2, OtherSame
  <2> QED
    BY <2>1, <2>3, FrameKeepsOne DEF Keeps
<1> QED
  BY <1>1, <1>2, <1>3, <1>4, MqttHandlerKeepsOne DEF MqttStep

\* The agent answers for the clients in its list, before the step and after it.
LEMMA AgentKeepsOne ==
  ASSUME TypeOK, TypeOK', StartedInv, AgentStep, NEW c \in Client, c \in registered, c \in registered'
  PROVE  Keeps(c)
<1>1. /\ {"ipnet", "mqtt"} \subseteq Dispatcher /\ {"timer", "cli"} \subseteq Task
      /\ UNCHANGED session /\ BusTypeOK /\ backoff \in [Client -> Nat] /\ Other(c) \in Nat /\ Other(c)' \in Nat
  BY OtherType DEF Dispatcher, Task, AgentStep, mqttVars, TypeOK, AgentTypeOK
<1>2. /\ backoff'[c] = backoff[c] => Other(c)' = Other(c)
      /\ backoff'[c] = backoff[c] + 1 => Other(c)' = Other(c) + 1
      /\ backoff'[c] = backoff[c] - 1 => Other(c)' = Other(c) - 1
  BY <1>1 DEF Other, Up, Weight
<1>3. ASSUME NEW d \in {"ipnet", "mqtt"}, Free(d), NEW m, ReturnPublishing(d, m),
             Carries(m, c) <=> Carries(cur[d], c), UNCHANGED agentVars
      PROVE  Keeps(c)
  <2>1. Weight(Carries(m, c)) = Weight(Carries(cur[d], c)) /\ Other(c)' = Other(c)
    BY <1>2, <1>3 DEF Weight, agentVars
  <2> QED
    BY <1>1, <1>3, <2>1, PublishKeeps
<1>4. ASSUME NEW d \in {"ipnet", "mqtt"}, ReturnSilently(d), ~Carries(cur[d], c), backoff'[c] = backoff[c]
      PROVE  Keeps(c)
  <2>1. Weight(Carries(cur[d], c)) = 0 /\ Other(c)' = Other(c)
    BY <1>2, <1>4 DEF Weight
  <2> QED
    BY <1>1, <1>4, <2>1, SilenceKeepsOne DEF Keeps
<1>5. ASSUME NEW t \in {"timer", "cli"}, NEW m, CallPublish(t, m), ~Carries(m, c), backoff'[c] = backoff[c]
      PROVE  Keeps(c)
  <2>1. Weight(Carries(m, c)) + Other(c)' = Other(c)
    BY <1>1, <1>2, <1>5 DEF Weight
  <2> QED
    BY <1>1, <1>5, <2>1, CallKeeps
<1>6. CASE IpnetStatusHandler
  <2>1. cur["ipnet"].topic = "IPNET_CMD_STATUS" /\ Free("ipnet")
    BY <1>6 DEF IpnetStatusHandler, NotOurs, OnTcpConnected, OnTcpDown, Completed, Handling
  <2>2. PICK u \in Client : u = cur["ipnet"].ctx
    BY <1>1, <2>1, Handled
  <2>3. Carries(cur["ipnet"], c) <=> u = c
    BY <1>1, <2>1, <2>2, HandledCarries
  <2>4. CASE NotOurs
    BY <1>4, <2>2, <2>3, <2>4 DEF NotOurs, agentVars
  <2>5. CASE OnTcpConnected
    <3>1. PICK m : m = MqttConnect(u, cur["ipnet"].socket)
      OBVIOUS
    <3>2. ReturnPublishing("ipnet", m) /\ UNCHANGED agentVars
      BY <2>2, <2>5, <3>1 DEF OnTcpConnected
    <3> QED
      BY <1>3, <2>1, <2>3, <3>1, <3>2, MadeCarries
  <2>6. CASE OnTcpDown
    <3>1. CASE u # c
      <4>1. ReturnSilently("ipnet") /\ backoff'[c] = backoff[c]
        BY <1>1, <2>2, <2>6, <3>1 DEF OnTcpDown, RaiseTimer, TimerRefused
      <4> QED
        BY <1>4, <2>3, <3>1, <4>1
    <3>2. CASE u = c /\ RaiseTimer(c)
      <4>1. ReturnSilently("ipnet") /\ backoff'[c] = backoff[c] + 1
        BY <1>1, <3>2 DEF RaiseTimer
      <4>2. Weight(Carries(cur["ipnet"], c)) = 1 /\ Other(c)' = Other(c) + 1
        BY <1>2, <2>3, <3>2, <4>1 DEF Weight
      <4> QED
        BY <1>1, <4>1, <4>2, SilenceKeepsOne DEF Keeps
    <3>3. CASE u = c /\ TimerRefused(c)
      <4>1. ReturnSilently("ipnet") /\ backoff'[c] = backoff[c] /\ MaxTimerFaults # 0
        BY <3>3 DEF TimerRefused, TypeOK, AgentTypeOK
      <4>2. Weight(Carries(cur["ipnet"], c)) = 1 /\ Other(c)' = Other(c)
        BY <1>2, <2>3, <3>3, <4>1 DEF Weight
      <4> QED
        BY <1>1, <4>1, <4>2, SilenceKeepsOne DEF Keeps
    <3> QED
      BY <2>2, <2>6, <3>1, <3>2, <3>3 DEF OnTcpDown
  <2> QED
    BY <1>6, <2>4, <2>5, <2>6 DEF IpnetStatusHandler
<1>7. CASE MqttStatusHandler
  <2>1. cur["mqtt"].topic = "MQTT_CMD_STATUS" /\ Free("mqtt") /\ UNCHANGED agentVars
    BY <1>7 DEF MqttStatusHandler, OnConnected, OnConnectFailed, OnSubscribed, OnSubscribeFailed, OnDisconnected,
                OnStatus, Handling
  <2>2. PICK u \in Client : u = Subject
    BY <1>1, <2>1, Handled DEF Subject
  <2>3. Carries(cur["mqtt"], c) <=> u = c /\ (cur["mqtt"].cmd = "DISCONNECT" \/ (cur["mqtt"].cmd = "CONNECT" /\ ~cur["mqtt"].ok))
    BY <1>1, <2>1, <2>2, HandledCarries DEF Subject
  <2>4. ASSUME NEW cmd \in {"SUBSCRIBE", "DISCONNECT"}, Request(MqttCmd(cmd, u)), ~Carries(cur["mqtt"], c)
        PROVE  Keeps(c)
    <3>1. PICK m : m = MqttCmd(cmd, u)
      OBVIOUS
    <3>2. ~Carries(m, c)
      BY <3>1, MadeCarries
    <3> QED
      BY <1>3, <2>1, <2>4, <3>1, <3>2 DEF Request
  <2>5. ASSUME Request(IpnetCmd("TCP_SHUTDOWN", u)), Carries(cur["mqtt"], c) <=> u = c
        PROVE  Keeps(c)
    <3>1. PICK m : m = IpnetCmd("TCP_SHUTDOWN", u)
      OBVIOUS
    <3>2. Carries(m, c) <=> u = c
      BY <3>1, MadeCarries
    <3> QED
      BY <1>3, <2>1, <2>5, <3>1, <3>2 DEF Request
  <2>6. CASE OnConnected
    BY <2>2, <2>3, <2>4, <2>6 DEF OnConnected, OnStatus, Handling
  <2>7. CASE OnConnectFailed
    BY <2>2, <2>3, <2>5, <2>7 DEF OnConnectFailed, OnStatus, Handling
  <2>8. CASE OnSubscribed
    BY <1>4, <2>1, <2>3, <2>8 DEF OnSubscribed, OnStatus, Handling, agentVars
  <2>9. CASE OnSubscribeFailed
    BY <2>2, <2>3, <2>4, <2>9 DEF OnSubscribeFailed, OnStatus, Handling
  <2>10. CASE OnDisconnected
    BY <2>2, <2>3, <2>5, <2>10 DEF OnDisconnected, OnStatus, Handling
  <2> QED
    BY <1>7, <2>6, <2>7, <2>8, <2>9, <2>10 DEF MqttStatusHandler
<1>8. CASE AgentStopShutdown
  <2>1. PICK m : m = IpnetCmd("TCP_SHUTDOWN", stopping)
    OBVIOUS
  <2>2. CallPublish("cli", m) /\ UNCHANGED backoff /\ stopping # c
    BY <1>8, <2>1 DEF AgentStopShutdown, StartedInv
  <2> QED
    BY <1>5, <2>1, <2>2, MadeCarries
<1>9. ASSUME NEW u \in Client, BackoffEnds(u) PROVE Keeps(c)
  <2>1. PICK m : m = IpnetCmd("TCP_CONNECT", u)
    OBVIOUS
  <2>2. Carries(m, c) <=> u = c
    BY <2>1, MadeCarries
  <2>3. /\ backoff' = [backoff EXCEPT ![u] = @ - 1]
        /\ IF u \in registered THEN CallPublish("timer", m) ELSE UNCHANGED <<queue, cur, out>>
    BY <1>9, <2>1 DEF BackoffEnds, BackoffFires, busVars
  <2>4. CASE u = c
    <3>1. CallPublish("timer", m) /\ backoff'[c] = backoff[c] - 1
      BY <1>1, <2>3, <2>4
    <3>2. Weight(Carries(m, c)) = 1
      BY <2>2, <2>4 DEF Weight
    <3>3. Weight(Carries(m, c)) + Other(c)' = Other(c)
      BY <1>1, <1>2, <3>1, <3>2
    <3> QED
      BY <1>1, <3>1, <3>3, CallKeeps
  <2>5. CASE u # c
    <3>1. backoff'[c] = backoff[c]
      BY <1>1, <2>3, <2>5
    <3>2. CASE u \in registered
      BY <1>5, <2>2, <2>3, <2>5, <3>1, <3>2
    <3>3. CASE u \notin registered
      BY <1>2, <2>3, <3>1, <3>3, FrameKeepsOne DEF Keeps
    <3> QED
      BY <3>2, <3>3
  <2> QED
    BY <2>4, <2>5
<1>10. ASSUME NEW u \in Client, AgentStart(u) \/ AgentStop(u) PROVE Keeps(c)
  <2>1. u # c
    BY <1>10 DEF AgentStart, AgentStop, TypeOK, AgentTypeOK
  <2>2. /\ CallPublish("cli", IpnetCmd("TCP_CONNECT", u)) \/ CallPublish("cli", MqttCmd("DISCONNECT", u))
        /\ UNCHANGED backoff
    BY <1>10 DEF AgentStart, AgentStop
  <2> QED
    BY <1>5, <2>1, <2>2, MadeCarries
<1> QED
  BY <1>6, <1>7, <1>8, <1>9, <1>10 DEF AgentStep

\* A client that is started has the request for its connection and nothing else.
LEMMA StartMakesOne ==
  ASSUME TypeOK, TypeOK', StartedInv, NEW c \in Client, AgentStart(c), UNCHANGED session
  PROVE  AtMostOne(c)' /\ AtLeastOne(c)'
<1>1. PICK m : m = IpnetCmd("TCP_CONNECT", c)
  OBVIOUS
<1>2. /\ out' = [out EXCEPT !["cli"] = m] /\ UNCHANGED <<queue, cur, backoff, session>> /\ c \notin started
      /\ "cli" \in Task
  BY <1>1 DEF AgentStart, CallPublish, Publish, Task
<1>3. PICK there : there = <<"cli", QueueLength + 1>>
  OBVIOUS
<1>4. there \in Places /\ At(there)' = m /\ \A p \in Places : p # there => At(p)' = At(p)
  BY <1>2, <1>3, AtOut DEF TypeOK
<1>5. \A p \in Places : ~Carries(At(p), c)
  <2> SUFFICES ASSUME NEW p \in Places, Carries(At(p), c) PROVE FALSE
    OBVIOUS
  <2>1. PICK v : v = At(p)
    OBVIOUS
  <2>2. v \in Msg \cup {NoMsg}
    BY <2>1, AtType DEF TypeOK
  <2>3. v.ctx = c /\ HasClient(v)
    BY <2>1, <2>2, MessageFields DEF Carries, MovesClient, HasClient, NoMsg
  <2> QED
    BY <1>2, <2>1, <2>3 DEF StartedInv, MessagesStarted
<1>6. \A p \in Places : Carries(At(p), c)' <=> p = there
  <2>1. Carries(m, c)
    BY <1>1, MadeCarries
  <2> QED
    BY <1>4, <1>5, <2>1 DEF Carries, MovesClient
<1>7. Other(c)' = 0
  <2>1. session[c] = NoSession /\ backoff[c] = 0
    BY <1>2 DEF StartedInv
  <2>2. ~Up(c)'
    BY <1>2, <2>1 DEF Up, NoSession, Connected
  <2> QED
    BY <1>2, <2>1, <2>2 DEF Other, Weight
<1> QED
  BY <1>4, <1>6, <1>7 DEF AtMostOne, AtLeastOne, Carried

OneInv ==
  \A c \in registered :
    /\ AtMostOne(c)
    /\ MaxTimerFaults = 0 /\ c \notin lost => AtLeastOne(c)

\* A client is only ever added to the list by its start, and a loss is not forgotten.
LEMMA ListAndLosses ==
  ASSUME [Next]_vars
  PROVE  /\ lost \subseteq lost'
         /\ registered' \subseteq registered \/ \E c \in Client : AgentStart(c) /\ registered' = registered \cup {c}
<1>1. lost \subseteq lost'
  BY DEF Next, Messaging, Receive, Put, PutDone, PutTimeout,
         IpnetStep, IpnetHandler, TcpConnect, TcpConnectNoSocket, TcpConnectFails, TcpConnectReturns, TcpShutdown,
         IpTaskStep, Established, PeerCloses, Traffic, WakeUp, CloseDone,
         MqttStep, MqttHandler, SessionAlloc, SessionSetup, BrokerAccepts, BrokerConnectFails, Subscribe,
         SubscribeFails, ProcessLoop, BrokerPing, Disconnect, MonitorHandler, MonitorDisconnected, MonitorActivity,
         Monitor, Tick, TickContinues, SubackArrives,
         AgentStep, IpnetStatusHandler, NotOurs, OnTcpConnected, OnTcpDown, RaiseTimer, TimerRefused,
         MqttStatusHandler, OnConnected, OnConnectFailed, OnSubscribed, OnSubscribeFailed, OnDisconnected,
         AgentStopShutdown, BackoffEnds, BackoffFires, AgentStart, AgentStop, Request,
         ReturnPublishing, ReturnSilently, CallPublish, Ended, vars, busVars
<1>2. registered' \subseteq registered \/ \E c \in Client : AgentStart(c) /\ registered' = registered \cup {c}
  BY DEF Next, Messaging, IpnetStep, MqttStep, Ended, vars, agentVars,
         AgentStep, IpnetStatusHandler, NotOurs, OnTcpConnected, OnTcpDown, RaiseTimer, TimerRefused,
         MqttStatusHandler, OnConnected, OnConnectFailed, OnSubscribed, OnSubscribeFailed, OnDisconnected, OnStatus,
         AgentStopShutdown, BackoffEnds, BackoffFires, AgentStart, AgentStop
<1> QED
  BY <1>1, <1>2

LEMMA NextKeepsOne ==
  ASSUME TypeOK, TypeOK', ConnectInv, StartedInv, OneInv, [Next]_vars
  PROVE  OneInv'
<1>1. ASSUME NEW c \in registered, c \in registered'
      PROVE  Keeps(c)
  <2>1. c \in Client
    BY DEF TypeOK, AgentTypeOK
  <2>2. CASE Ended \/ UNCHANGED vars
    <3>1. UNCHANGED <<queue, cur, out>> /\ Other(c)' = Other(c)
      BY <2>1, <2>2, OtherSame DEF Ended, vars, busVars, mqttVars, agentVars
    <3> QED
      BY <2>1, <3>1, FrameKeepsOne DEF Keeps
  <2> QED
    BY <1>1, <2>1, <2>2, MessagingKeepsOne, IpnetKeepsOne, MqttKeepsOne, AgentKeepsOne DEF Next
<1>2. ASSUME NEW c \in Client, AgentStart(c), registered' = registered \cup {c}
      PROVE  AtMostOne(c)' /\ AtLeastOne(c)'
  <2>1. UNCHANGED session
    BY <1>2 DEF Next, Messaging, IpnetStep, MqttStep, Ended, vars, agentVars, AgentStep, mqttVars, AgentStart,
                TypeOK, AgentTypeOK
  <2> QED
    BY <1>2, <2>1, StartMakesOne
<1> SUFFICES ASSUME NEW c \in registered'
             PROVE  AtMostOne(c)' /\ (MaxTimerFaults = 0 /\ c \notin lost' => AtLeastOne(c)')
  BY DEF OneInv
<1>3. CASE c \in registered
  BY <1>1, <1>3, ListAndLosses DEF OneInv, Keeps
<1>4. CASE c \notin registered
  BY <1>2, <1>4, ListAndLosses
<1> QED
  BY <1>3, <1>4

LEMMA OneHolds == Spec => [](TypeOK /\ ConnectInv /\ StartedInv /\ OneInv)
<1>1. Init => ConnectInv /\ StartedInv /\ OneInv
  <2> SUFFICES ASSUME Init PROVE ConnectInv /\ StartedInv /\ OneInv
    OBVIOUS
  <2>1. ConnectInv
    BY DEF Init, MqttInit, ConnectInv, NoSession
  <2>2. \A p \in Places : At(p) = NoMsg
    <3>1. BusTypeOK
      BY InitType DEF TypeOK
    <3> QED
      BY <3>1, AtPlaces, PlaceKinds DEF Init, BusInit
  <2>3. StartedInv
    BY <2>2, NoMsgIsNone DEF Init, MqttInit, AgentInit, StartedInv, MessagesStarted, HasClient
  <2>4. OneInv
    BY DEF Init, AgentInit, OneInv
  <2> QED
    BY <2>1, <2>3, <2>4
<1>2. TypeOK /\ TypeOK' /\ ConnectInv /\ StartedInv /\ OneInv /\ [Next]_vars
        => ConnectInv' /\ StartedInv' /\ OneInv'
  BY NextKeepsConnect, NextKeepsStarted, NextKeepsOne
<1> QED
  BY <1>1, <1>2, TypeCorrect, PTL DEF Spec

LEMMA UpIsSetUp ==
  ASSUME MqttTypeOK, NEW c \in Client
  PROVE  Up(c) <=> c \in Sessions \ InConnect
  BY DEF MqttTypeOK, Up, Sessions, InConnect, Connected, Phase, NoSession

LEMMA LifelinesCounted ==
  ASSUME TypeOK, NEW c \in Client, AtMostOne(c)
  PROVE  Lifelines(c) <= 1 /\ (AtLeastOne(c) => Lifelines(c) = 1)
<1> DEFINE line == {p \in Places : Carries(At(p), c)}
<1>1. /\ backoff[c] \in Nat /\ Other(c) \in Nat
      /\ Lifelines(c) = Cardinality(line) + backoff[c] + Weight(Up(c))
      /\ Other(c) = backoff[c] + Weight(Up(c))
      /\ Weight(Up(c)) \in Nat
  BY UpIsSetUp, OtherType DEF Lifelines, Other, Weight, TypeOK, AgentTypeOK
<1>2. CASE Carried(c)
  <2>1. PICK p \in Places : line = {p}
    BY <1>2 DEF AtMostOne, Carried
  <2>2. Cardinality(line) = 1
    BY <2>1, FS_Singleton
  <2>3. Other(c) = 0
    BY <1>2 DEF AtMostOne
  <2> HIDE DEF line
  <2> QED
    BY <1>1, <2>2, <2>3
<1>3. CASE ~Carried(c)
  <2>1. line = {}
    BY <1>3 DEF Carried
  <2>2. Cardinality(line) = 0
    BY <2>1, FS_EmptySet
  <2>3. Other(c) <= 1 /\ (AtLeastOne(c) => Other(c) >= 1)
    BY <1>3 DEF AtMostOne, AtLeastOne
  <2> HIDE DEF line
  <2> QED
    BY <1>1, <2>2, <2>3
<1> QED
  BY <1>2, <1>3

\* Whatever fails, no registered client is ever carried on by two things at a
\* time, so that two cycles never run for it.
THEOREM NeverTwoCycles == Spec => [](\A c \in registered : Lifelines(c) <= 1)
<1>1. TypeOK /\ OneInv => \A c \in registered : Lifelines(c) <= 1
  BY LifelinesCounted DEF OneInv, TypeOK, AgentTypeOK
<1> QED
  BY <1>1, OneHolds, PTL

\* As long as no timer start is refused, exactly one thing carries each
\* registered client on, from its start until a full queue drops a message of
\* its life cycle or adp_mqtt_agent_stop removes it.
THEOREM OneCycleAlways ==
  ASSUME MaxTimerFaults = 0
  PROVE  Spec => []OneLifeline
<1>1. TypeOK /\ OneInv => OneLifeline
  BY LifelinesCounted DEF OneInv, OneLifeline, TypeOK, AgentTypeOK
<1> QED
  BY <1>1, OneHolds, PTL

-----------------------------------------------------------------------------
(* The socket of a session *)

\* The messages that hand the socket of a client over to the MQTT service.
SocketMsg(m) ==
  \/ m.topic = "MQTT_EXECUTE_CMD" /\ m.cmd = "CONNECT"
  \/ m.topic = "IPNET_CMD_STATUS" /\ m.cmd = "TCP_CONNECT" /\ m.ok

HandedOver(c) == \A p \in Places : SocketMsg(At(p)) /\ At(p).ctx = c => socketDb[c] = At(p).socket

OnSocket(c) ==
  /\ session[c] # NoSession => socketDb[c] = session[c].socket
  /\ HandedOver(c)

OnSocketInv == \A c \in registered : OnSocket(c)

LEMMA HandedOverStays ==
  ASSUME NEW c, NEW m, HandedOver(c), OldOrNew(m), socketDb'[c] = socketDb[c],
         SocketMsg(m) /\ m.ctx = c => socketDb[c] = m.socket
  PROVE  HandedOver(c)'
<1> SUFFICES ASSUME NEW p \in Places, SocketMsg(At(p))', (At(p).ctx)' = c
             PROVE  socketDb'[c] = (At(p).socket)'
  BY DEF HandedOver
<1>1. SocketMsg(At(p)') /\ At(p)'.ctx = c
  BY DEF SocketMsg
<1>2. ~SocketMsg(NoMsg)
  BY NoMsgIsNone DEF SocketMsg
<1>3. CASE At(p)' = m
  BY <1>1, <1>3
<1>4. ASSUME NEW q \in Places, At(p)' = At(q) PROVE socketDb'[c] = At(p)'.socket
  BY <1>1, <1>4 DEF HandedOver
<1> QED
  BY <1>1, <1>2, <1>3, <1>4 DEF OldOrNew

\* Which of the messages that are published hand a socket over.
LEMMA MadeHandsOver ==
  ASSUME NEW u, NEW s, NEW ok, NEW cmd
  PROVE  /\ ~SocketMsg(NoMsg) /\ ~SocketMsg(IpnetCmd(cmd, u)) /\ ~SocketMsg(MqttStatus(cmd, u, ok))
         /\ ~SocketMsg(RxTx(s)) /\ ~SocketMsg(Disconnected(s))
         /\ ~SocketMsg(IpnetStatus("TCP_SHUTDOWN", u, ok, s)) /\ ~SocketMsg(IpnetStatus(cmd, u, FALSE, s))
         /\ cmd # "CONNECT" => ~SocketMsg(MqttCmd(cmd, u))
         /\ MqttConnect(u, s).socket = s /\ IpnetStatus(cmd, u, ok, s).socket = s
  BY DEF SocketMsg, NoMsg, IpnetCmd, MqttStatus, RxTx, Disconnected, IpnetStatus, MqttCmd, MqttConnect

LEMMA SocketMsgCarries ==
  ASSUME BusTypeOK, NEW p \in Places, SocketMsg(At(p))
  PROVE  Carries(At(p), At(p).ctx) /\ At(p).ctx \in Client
<1>1. PICK m \in Msg \cup {NoMsg} : m = At(p)
  BY AtType
<1>2. m \in Msg /\ SocketMsg(m)
  BY <1>1, NoMsgIsNone DEF SocketMsg
<1>3. Carries(m, m.ctx) /\ m.ctx \in Client
  BY <1>2, MessageFields DEF SocketMsg, Carries, MovesClient
<1> QED
  BY <1>1, <1>3

\* While a command of a client is carried out in the TCP/IP service, no session
\* and no other message uses its socket: the command is what carries it on.
LEMMA CommandIsAlone ==
  ASSUME TypeOK, ConnectInv, NEW c \in Client, AtMostOne(c),
         cur["ipnet"].topic = "IPNET_EXECUTE_CMD", cur["ipnet"].ctx = c
  PROVE  session[c] = NoSession /\ \A p \in Places : ~(SocketMsg(At(p)) /\ At(p).ctx = c)
<1> DEFINE here == <<"ipnet", 0>>
<1>1. /\ BusTypeOK /\ MqttTypeOK /\ {"ipnet", "mqtt"} \subseteq Dispatcher
      /\ here \in Places /\ At(here) = cur["ipnet"]
      /\ <<"mqtt", 0>> \in Places /\ At(<<"mqtt", 0>>) = cur["mqtt"] /\ here # <<"mqtt", 0>>
  BY AtPlaces, PlaceKinds DEF TypeOK, Dispatcher
<1>2. Carries(At(here), c)
  BY <1>1, HandledCarries
<1> HIDE DEF here
<1>3. ~SocketMsg(At(here))
  BY <1>1 DEF SocketMsg
<1>4. \A p \in Places : ~(SocketMsg(At(p)) /\ At(p).ctx = c)
  BY <1>1, <1>2, <1>3, SocketMsgCarries DEF AtMostOne
<1>5. session[c].phase \notin Connected
  <2>1. Other(c) = 0
    BY <1>1, <1>2 DEF AtMostOne, Carried
  <2> QED
    BY <2>1 DEF Other, Up, Weight, TypeOK, AgentTypeOK
<1>6. session[c].phase \notin {"listed", "connecting"}
  <2> SUFFICES ASSUME session[c].phase \in {"listed", "connecting"} PROVE FALSE
    OBVIOUS
  <2>1. Carries(cur["mqtt"], c)
    BY <1>1, HandledCarries DEF ConnectInv
  <2> QED
    BY <1>1, <1>2, <2>1 DEF AtMostOne
<1> QED
  BY <1>1, <1>4, <1>5, <1>6 DEF MqttTypeOK, Phase, Connected

LEMMA IpnetKeepsSocket ==
  ASSUME TypeOK, ConnectInv, IpnetStep, NEW c \in Client, AtMostOne(c), OnSocket(c)
  PROVE  OnSocket(c)'
<1>1. /\ BusTypeOK /\ IpnetTypeOK /\ "ipnet" \in Dispatcher /\ "iptask" \in Task /\ UNCHANGED session
      /\ HandedOver(c)
  BY DEF TypeOK, Dispatcher, Task, IpnetStep, mqttVars, OnSocket
<1>2. ASSUME NEW m, OldOrNew(m), ~SocketMsg(m), socketDb'[c] = socketDb[c]
      PROVE  OnSocket(c)'
  BY <1>1, <1>2, HandedOverStays DEF OnSocket
<1>3. ASSUME UNCHANGED busVars, socketDb'[c] = socketDb[c]
      PROVE  OnSocket(c)'
  BY <1>1, <1>2, <1>3, StepsMakeOne, MadeHandsOver DEF busVars
<1>4. ASSUME NEW m, Free("ipnet"), ReturnPublishing("ipnet", m), cur["ipnet"].topic = "IPNET_EXECUTE_CMD",
             User = c, SocketMsg(m) => socketDb'[c] = m.socket
      PROVE  OnSocket(c)'
  <2>1. session'[c] = NoSession /\ \A p \in Places : ~(SocketMsg(At(p)) /\ At(p).ctx = c)
    BY <1>1, <1>4, CommandIsAlone DEF User
  <2>2. ASSUME NEW p \in Places, SocketMsg(At(p)'), At(p)'.ctx = c
        PROVE  socketDb'[c] = At(p)'.socket
    <3>1. OldOrNew(m) /\ ~SocketMsg(NoMsg)
      BY <1>1, <1>4, StepsMakeOne, MadeHandsOver
    <3> QED
      BY <1>4, <2>1, <2>2, <3>1 DEF OldOrNew
  <2>3. HandedOver(c)'
    BY <2>2 DEF HandedOver, SocketMsg
  <2> QED
    BY <2>1, <2>3 DEF OnSocket
<1>5. CASE IpnetHandler
  <2>1. cur["ipnet"].topic = "IPNET_EXECUTE_CMD" /\ Free("ipnet") /\ User \in Client
    <3>1. cur["ipnet"].topic = "IPNET_EXECUTE_CMD" /\ Free("ipnet")
      BY <1>5 DEF IpnetHandler, TcpConnect, TcpConnectNoSocket, TcpConnectFails, TcpConnectReturns, TcpShutdown,
                  Executing, Handling
    <3> QED
      BY <1>1, <3>1, Handled DEF User
  <2>2. ASSUME NEW m, ReturnPublishing("ipnet", m), ~SocketMsg(m), socketDb'[c] = socketDb[c]
        PROVE  OnSocket(c)'
    BY <1>1, <1>2, <2>1, <2>2, StepsMakeOne
  <2>3. CASE TcpConnect
    BY <1>3, <2>3 DEF TcpConnect
  <2>4. CASE TcpConnectNoSocket \/ TcpConnectFails
    BY <2>2, <2>4, MadeHandsOver DEF TcpConnectNoSocket, TcpConnectFails, ipnetVars
  <2>5. CASE TcpConnectReturns
    <3>1. CASE MayAdd(User, conn)
      <4>1. PICK m : m = IpnetStatus("TCP_CONNECT", User, TRUE, conn)
        OBVIOUS
      <4>2. ReturnPublishing("ipnet", m) /\ socketDb' = [socketDb EXCEPT ![User] = conn]
        BY <2>5, <3>1, <4>1 DEF TcpConnectReturns
      <4>3. m.socket = conn /\ m.ctx = User
        BY <4>1 DEF IpnetStatus
      <4>4. CASE User = c
        <5>1. socketDb'[c] = m.socket
          BY <1>1, <4>2, <4>3, <4>4 DEF IpnetTypeOK
        <5> QED
          BY <1>4, <2>1, <4>2, <4>4, <5>1
      <4>5. CASE User # c
        <5>1. socketDb'[c] = socketDb[c]
          BY <1>1, <4>2, <4>5 DEF IpnetTypeOK
        <5>2. OldOrNew(m)
          BY <1>1, <2>1, <4>2, StepsMakeOne
        <5>3. HandedOver(c)'
          BY <1>1, <4>3, <4>5, <5>1, <5>2, HandedOverStays
        <5> QED
          BY <1>1, <5>1, <5>3 DEF OnSocket
      <4> QED
        BY <4>4, <4>5
    <3>2. CASE ~MayAdd(User, conn)
      BY <2>2, <2>5, <3>2, MadeHandsOver DEF TcpConnectReturns
    <3> QED
      BY <3>1, <3>2
  <2>6. CASE TcpShutdown
    <3>1. PICK m : m = IpnetStatus("TCP_SHUTDOWN", User, socketDb[User] # NULL, socketDb[User])
      OBVIOUS
    <3>2. /\ ReturnPublishing("ipnet", m) /\ ~SocketMsg(m)
          /\ socketDb' = [socketDb EXCEPT ![User] = NULL]
      BY <2>6, <3>1, MadeHandsOver DEF TcpShutdown
    <3>3. CASE User = c
      BY <1>4, <2>1, <3>2, <3>3
    <3>4. CASE User # c
      BY <1>1, <2>2, <3>2, <3>4 DEF IpnetTypeOK
    <3> QED
      BY <3>3, <3>4
  <2> QED
    BY <1>5, <2>3, <2>4, <2>5, <2>6 DEF IpnetHandler
<1>6. CASE IpTaskStep
  <2>1. /\ UNCHANGED socketDb
        /\ \/ \E s \in Socket : CallPublish("iptask", RxTx(s)) \/ CallPublish("iptask", Disconnected(s))
           \/ UNCHANGED busVars
    BY <1>6 DEF IpTaskStep, Established, PeerCloses, Traffic, WakeUp, CloseDone
  <2>2. ASSUME NEW m, CallPublish("iptask", m), ~SocketMsg(m) PROVE OnSocket(c)'
    BY <1>1, <1>2, <2>1, <2>2, StepsMakeOne
  <2> QED
    BY <1>3, <2>1, <2>2, MadeHandsOver
<1> QED
  BY <1>5, <1>6 DEF IpnetStep

\* A session of the MQTT service has the socket it had, or the one that came with
\* the command that sets it up.
LEMMA MqttKeepsSocket ==
  ASSUME TypeOK, MqttStep, NEW c \in Client, OnSocket(c)
  PROVE  OnSocket(c)'
<1>1. /\ BusTypeOK /\ MqttTypeOK /\ {"ipnet", "mqtt"} \subseteq Dispatcher /\ "timer" \in Task
      /\ HandedOver(c)
  BY DEF TypeOK, Dispatcher, Task, OnSocket
<1>2. UNCHANGED socketDb
  BY DEF MqttStep, ipnetVars, MqttHandler, SessionAlloc, SessionSetup, BrokerAccepts, BrokerConnectFails, Subscribe,
         SubscribeFails, ProcessLoop, BrokerPing, Disconnect, MonitorHandler, MonitorDisconnected, MonitorActivity,
         Monitor, Tick, TickContinues, SubackArrives
<1>3. HandedOver(c)'
  <2>1. ASSUME NEW m, OldOrNew(m), ~SocketMsg(m) PROVE HandedOver(c)'
    BY <1>1, <1>2, <2>1, HandedOverStays
  <2>2. UNCHANGED <<queue, cur, out>> => HandedOver(c)'
    BY <1>1, <2>1, StepsMakeOne, MadeHandsOver
  <2>3. ASSUME NEW d \in {"ipnet", "mqtt"},
               \/ ReturnSilently(d)
               \/ /\ Free(d)
                  /\ \E u, ok, cmd :
                       \/ ReturnPublishing(d, MqttStatus(cmd, u, ok))
                       \/ ReturnPublishing(d, MqttCmd(cmd, u)) /\ cmd # "CONNECT"
        PROVE  HandedOver(c)'
    BY <1>1, <2>1, <2>3, StepsMakeOne, MadeHandsOver
  <2>4. CASE MqttHandler
    <3>1. \/ Free("mqtt") /\ \E u, ok, cmd : ReturnPublishing("mqtt", MqttStatus(cmd, u, ok))
          \/ ReturnSilently("mqtt")
          \/ UNCHANGED <<queue, cur, out>>
      BY <2>4 DEF MqttHandler, SessionAlloc, SessionSetup, BrokerAccepts, BrokerConnectFails, Subscribe,
                  SubscribeFails, ProcessLoop, BrokerPing, Disconnect, MqttHandling, Requested, Handling, busVars
    <3> QED
      BY <2>2, <2>3, <3>1
  <2>5. CASE MonitorHandler
    <3>1. \/ Free("ipnet") /\ \E u, cmd : ReturnPublishing("ipnet", MqttCmd(cmd, u)) /\ cmd # "CONNECT"
          \/ ReturnSilently("ipnet")
      BY <2>5 DEF MonitorHandler, MonitorDisconnected, MonitorActivity, Monitor
    <3> QED
      BY <2>3, <3>1
  <2>6. CASE Tick \/ TickContinues
    <3>1. \/ \E u : CallPublish("timer", MqttCmd("BROKER_PING", u))
          \/ UNCHANGED <<queue, cur, out>>
      BY <2>6 DEF Tick, TickContinues
    <3> QED
      BY <1>1, <2>1, <2>2, <3>1, StepsMakeOne, MadeHandsOver
  <2>7. ASSUME NEW u \in Client, SubackArrives(u) PROVE HandedOver(c)'
    BY <2>2, <2>7 DEF SubackArrives, busVars
  <2> QED
    BY <2>4, <2>5, <2>6, <2>7 DEF MqttStep
<1>4. ASSUME session'[c] # NoSession PROVE socketDb[c] = session'[c].socket
  <2>1. CASE UNCHANGED session
    BY <1>4, <2>1 DEF OnSocket
  <2>2. ASSUME NEW u \in Client, NEW p \in Phase, session[u] # NoSession, SetPhase(u, p)
        PROVE  socketDb[c] = session'[c].socket
    <3>1. session'[u].socket = session[u].socket /\ \A e \in Client : e # u => session'[e] = session[e]
      BY <1>1, <2>2, PhaseSet
    <3> QED
      BY <1>4, <2>2, <3>1 DEF OnSocket
  <2>3. ASSUME NEW u \in Client, Delete(u)
        PROVE  socketDb[c] = session'[c].socket
    BY <1>1, <1>4, <2>3, SessionDeleted DEF OnSocket
  <2>4. CASE SessionAlloc
    <3>1. CASE MayList(MqttUser, cur["mqtt"].socket)
      <4>1. /\ session' = [session EXCEPT ![MqttUser] = [phase |-> "listed", socket |-> cur["mqtt"].socket]]
            /\ SocketMsg(cur["mqtt"]) /\ MqttUser \in Client
        BY <2>4, <3>1, MqttUserType DEF SessionAlloc, MqttHandling, Requested, Handling, SocketMsg, MqttHandler
      <4>2. CASE MqttUser = c
        <5>1. session'[c].socket = cur["mqtt"].socket
          BY <1>1, <4>1, <4>2 DEF MqttTypeOK
        <5>2. PICK p \in Places : p = <<"mqtt", 0>> /\ At(p) = cur["mqtt"]
          BY <1>1, PlaceKinds, AtPlaces
        <5> QED
          BY <1>1, <4>1, <4>2, <5>1, <5>2 DEF HandedOver, MqttUser
      <4>3. CASE MqttUser # c
        BY <1>1, <1>4, <4>1, <4>3 DEF MqttTypeOK, OnSocket
      <4> QED
        BY <4>2, <4>3
    <3>2. CASE ~MayList(MqttUser, cur["mqtt"].socket)
      BY <2>1, <2>4, <3>2 DEF SessionAlloc
    <3> QED
      BY <3>1, <3>2
  <2>5. CASE MqttHandler /\ ~SessionAlloc
    <3>1. MqttUser \in Client
      BY <2>5, MqttUserType
    <3>2. \/ UNCHANGED session
          \/ Delete(MqttUser)
          \/ \E p \in Phase : session[MqttUser] # NoSession /\ SetPhase(MqttUser, p)
      BY <2>5, NoSessionPhase
      DEF MqttHandler, SessionSetup, BrokerAccepts, BrokerConnectFails, Subscribe, SubscribeFails, ProcessLoop,
          BrokerPing, Disconnect, mqttVars, Phase, Sessions
    <3> QED
      BY <2>1, <2>2, <2>3, <3>1, <3>2
  <2>6. CASE MonitorHandler \/ Tick \/ TickContinues
    BY <2>1, <2>6 DEF MonitorHandler, MonitorDisconnected, MonitorActivity, Monitor, Tick, TickContinues, mqttVars
  <2>7. ASSUME NEW u \in Client, SubackArrives(u) PROVE socketDb[c] = session'[c].socket
    <3>1. SetPhase(u, "acked") /\ session[u] # NoSession /\ "acked" \in Phase
      BY <2>7, NoSessionPhase DEF SubackArrives, Phase
    <3> QED
      BY <2>2, <3>1
  <2> QED
    BY <2>4, <2>5, <2>6, <2>7 DEF MqttStep
<1> QED
  BY <1>2, <1>3, <1>4 DEF OnSocket

LEMMA AgentKeepsSocket ==
  ASSUME TypeOK, AgentStep, NEW c \in Client, OnSocket(c)
  PROVE  OnSocket(c)'
<1>1. /\ BusTypeOK /\ {"ipnet", "mqtt"} \subseteq Dispatcher /\ {"timer", "cli"} \subseteq Task
      /\ UNCHANGED <<session, socketDb>> /\ HandedOver(c)
  BY DEF TypeOK, Dispatcher, Task, AgentStep, mqttVars, ipnetVars, OnSocket
<1>2. ASSUME NEW m, OldOrNew(m), SocketMsg(m) /\ m.ctx = c => socketDb[c] = m.socket
      PROVE  OnSocket(c)'
  BY <1>1, <1>2, HandedOverStays DEF OnSocket
<1>3. ASSUME NEW d \in {"ipnet", "mqtt"}, ReturnSilently(d) PROVE OnSocket(c)'
  BY <1>1, <1>2, <1>3, StepsMakeOne, MadeHandsOver
<1>4. ASSUME NEW t \in {"timer", "cli"}, NEW m, CallPublish(t, m), ~SocketMsg(m) PROVE OnSocket(c)'
  BY <1>1, <1>2, <1>4, StepsMakeOne
<1>5. CASE OnTcpConnected
  <2>1. PICK m : m = MqttConnect(cur["ipnet"].ctx, cur["ipnet"].socket)
    OBVIOUS
  <2>2. /\ ReturnPublishing("ipnet", m) /\ Free("ipnet") /\ SocketMsg(cur["ipnet"])
        /\ m.ctx = cur["ipnet"].ctx /\ m.socket = cur["ipnet"].socket
    BY <1>5, <2>1 DEF OnTcpConnected, Completed, Handling, SocketMsg, MqttConnect
  <2>3. PICK p \in Places : p = <<"ipnet", 0>> /\ At(p) = cur["ipnet"]
    BY <1>1, PlaceKinds, AtPlaces
  <2>4. m.ctx = c => socketDb[c] = m.socket
    BY <1>1, <2>2, <2>3 DEF HandedOver
  <2> QED
    BY <1>1, <1>2, <2>2, <2>4, StepsMakeOne
<1>6. CASE IpnetStatusHandler /\ ~OnTcpConnected
  BY <1>3, <1>6 DEF IpnetStatusHandler, NotOurs, OnTcpDown, RaiseTimer, TimerRefused
<1>7. CASE MqttStatusHandler
  <2>1. /\ Free("mqtt")
        /\ \/ ReturnSilently("mqtt")
           \/ ReturnPublishing("mqtt", IpnetCmd("TCP_SHUTDOWN", Subject))
           \/ \E cmd \in {"SUBSCRIBE", "DISCONNECT"} : ReturnPublishing("mqtt", MqttCmd(cmd, Subject))
    BY <1>7 DEF MqttStatusHandler, OnConnected, OnConnectFailed, OnSubscribed, OnSubscribeFailed, OnDisconnected,
                OnStatus, Handling, Request
  <2>2. ASSUME NEW m, ReturnPublishing("mqtt", m), ~SocketMsg(m) PROVE OnSocket(c)'
    BY <1>1, <1>2, <2>1, <2>2, StepsMakeOne
  <2> QED
    BY <1>3, <2>1, <2>2, MadeHandsOver
<1>8. CASE AgentStopShutdown \/ \E u \in Client : BackoffEnds(u) \/ AgentStart(u) \/ AgentStop(u)
  <2>1. \/ \E t \in {"timer", "cli"} : \E u :
             \/ \E cmd : CallPublish(t, IpnetCmd(cmd, u))
             \/ CallPublish(t, MqttCmd("DISCONNECT", u))
        \/ UNCHANGED <<queue, cur, out>>
    BY <1>8 DEF AgentStopShutdown, BackoffEnds, BackoffFires, AgentStart, AgentStop, busVars
  <2> QED
    BY <1>1, <1>2, <1>4, <2>1, StepsMakeOne, MadeHandsOver
<1> QED
  BY <1>5, <1>6, <1>7, <1>8 DEF AgentStep

LEMMA NextKeepsSocket ==
  ASSUME TypeOK, TypeOK', ConnectInv, StartedInv, OneInv, OnSocketInv, [Next]_vars
  PROVE  OnSocketInv'
<1>1. ASSUME NEW c \in registered PROVE OnSocket(c)'
  <2>1. c \in Client /\ OnSocket(c) /\ AtMostOne(c) /\ BusTypeOK /\ HandedOver(c)
    BY DEF TypeOK, AgentTypeOK, OneInv, OnSocketInv, OnSocket
  <2>2. UNCHANGED <<session, socketDb>> /\ OldOrNew(NoMsg) => OnSocket(c)'
    BY <2>1, HandedOverStays, MadeHandsOver DEF OnSocket
  <2>3. CASE Messaging
    <3>1. OldOrNew(NoMsg)
      BY <2>1, <2>3, PutMoves, ReceiveMoves, StepsMakeOne DEF Messaging, Put
    <3> QED
      BY <2>2, <2>3, <3>1 DEF Messaging, ipnetVars, mqttVars
  <2>4. CASE Ended \/ UNCHANGED vars
    <3>1. OldOrNew(NoMsg)
      BY <2>1, <2>4, StepsMakeOne DEF Ended, vars, busVars
    <3> QED
      BY <2>2, <2>4, <3>1 DEF Ended, vars, ipnetVars, mqttVars
  <2> QED
    BY <2>1, <2>3, <2>4, IpnetKeepsSocket, MqttKeepsSocket, AgentKeepsSocket DEF Next
<1>2. ASSUME NEW c \in Client, AgentStart(c) PROVE OnSocket(c)'
  <2>1. UNCHANGED <<session, socketDb>> /\ session[c] = NoSession /\ c \notin started /\ BusTypeOK
    BY <1>2 DEF Next, Messaging, IpnetStep, MqttStep, Ended, vars, agentVars, AgentStep, mqttVars, ipnetVars,
                AgentStart, TypeOK, AgentTypeOK, StartedInv
  <2>2. HandedOver(c)
    <3> SUFFICES ASSUME NEW p \in Places, SocketMsg(At(p)), At(p).ctx = c PROVE FALSE
      BY DEF HandedOver
    <3>1. HasClient(At(p))
      BY DEF HasClient, SocketMsg
    <3> QED
      BY <2>1, <3>1 DEF StartedInv, MessagesStarted
  <2>3. OldOrNew(IpnetCmd("TCP_CONNECT", c))
    BY <1>2, <2>1, StepsMakeOne DEF AgentStart, Task
  <2>4. HandedOver(c)'
    BY <2>1, <2>2, <2>3, HandedOverStays, MadeHandsOver
  <2> QED
    BY <2>1, <2>4 DEF OnSocket
<1> QED
  BY <1>1, <1>2, ListAndLosses DEF OnSocketInv

LEMMA SocketHolds == Spec => [](TypeOK /\ SocketInv /\ OneInv /\ OnSocketInv)
<1>1. Init => OnSocketInv
  BY DEF Init, AgentInit, OnSocketInv
<1>2. TypeOK /\ TypeOK' /\ ConnectInv /\ StartedInv /\ OneInv /\ OnSocketInv /\ [Next]_vars => OnSocketInv'
  BY NextKeepsSocket
<1> QED
  BY <1>1, <1>2, OneHolds, CustodyHolds, PTL DEF Spec

LEMMA InFlightPlaces ==
  ASSUME BusTypeOK, NEW m \in InFlight
  PROVE  \E p \in Places : At(p) = m
<1>1. ASSUME NEW d \in Dispatcher, m = cur[d] PROVE \E p \in Places : At(p) = m
  BY <1>1, PlaceKinds, AtPlaces
<1>2. ASSUME NEW t \in Task, m = out[t] PROVE \E p \in Places : At(p) = m
  BY <1>2, PlaceKinds, AtPlaces
<1>3. ASSUME NEW d \in Dispatcher, NEW i \in 1..Len(queue[d]), m = queue[d][i] PROVE \E p \in Places : At(p) = m
  <2>1. i \in 1..QueueLength /\ i <= Len(queue[d])
    BY BusAssumption DEF BusTypeOK
  <2> QED
    BY <1>3, <2>1, PlaceKinds, AtPlaces
<1> QED
  BY <1>1, <1>2, <1>3 DEF InFlight

\* A session of a registered client uses the socket that is listed for the client,
\* and that is connected or was; and so does the request that will set one up,
\* which never meets a session.  Whatever the network, the queues and the timers do.
THEOREM SessionHasItsSocket == Spec => []SessionOnItsSocket
<1>1. TypeOK /\ SocketInv /\ OneInv /\ OnSocketInv => SessionOnItsSocket
  <2> SUFFICES ASSUME TypeOK, SocketInv, OneInv, OnSocketInv PROVE SessionOnItsSocket
    OBVIOUS
  <2>1. ASSUME NEW c \in registered \cap Sessions
        PROVE  socketDb[c] = session[c].socket /\ tcp[session[c].socket] \in {"established", "dead"}
    <3>1. c \in Client /\ socketDb[c] = session[c].socket /\ session[c].socket \in Socket
      BY DEF Sessions, OnSocketInv, OnSocket, TypeOK, MqttTypeOK
    <3> QED
      BY <3>1 DEF SocketInv, Custody
  <2>2. ASSUME NEW m \in InFlight, m.topic = "MQTT_EXECUTE_CMD", m.cmd = "CONNECT", m.ctx \in registered
        PROVE  socketDb[m.ctx] = m.socket /\ m.ctx \notin Sessions \ InConnect
    <3>1. PICK p \in Places : At(p) = m
      BY InFlightPlaces DEF TypeOK
    <3>2. SocketMsg(At(p)) /\ m.ctx \in Client
      BY <2>2, <3>1 DEF SocketMsg, TypeOK, AgentTypeOK
    <3>3. Carries(At(p), m.ctx)
      BY <3>1, <3>2, SocketMsgCarries DEF TypeOK
    <3>4. socketDb[m.ctx] = m.socket
      BY <2>2, <3>1, <3>2 DEF OnSocketInv, OnSocket, HandedOver
    <3>5. Other(m.ctx) = 0
      BY <2>2, <3>3 DEF OneInv, AtMostOne, Carried
    <3>6. ~Up(m.ctx)
      BY <3>2, <3>5 DEF Other, Weight, TypeOK, AgentTypeOK
    <3> QED
      BY <3>2, <3>4, <3>6, UpIsSetUp DEF TypeOK
  <2> QED
    BY <2>1, <2>2 DEF SessionOnItsSocket
<1> QED
  BY <1>1, SocketHolds, PTL

=============================================================================
