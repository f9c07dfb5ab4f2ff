------------------------------- MODULE AdpMqtt -------------------------------
(***************************************************************************)
(* The MQTT service: adp_mqtt.c.  Its commands run in the MQTT dispatcher, *)
(* mqtt_socket_monitor_io in the IPNET dispatcher and mqtt_timer_cb in the *)
(* timer daemon, so the session list is shared by three tasks.  Sessions   *)
(* use the sockets of AdpIpnet directly, by their handles.                 *)
(***************************************************************************)
EXTENDS AdpIpnet

CONSTANT MaxSessions   \* ADP_MQTT_SESSIONS_MAX_NUMBER

ASSUME MqttAssumption == MaxSessions \in Nat

VARIABLES
  session,   \* s_session_db: the session of a client
  pinging    \* clients mqtt_timer_cb still has to request a ping for

mqttVars == <<session, pinging>>

\* "listed": in the list, keepAliveSeconds still 0; "connecting": in
\* MQTT_Connect; "connected"; "subscribing": SUBSCRIBE sent; "acked": SUBACK in
\* the socket, not read; "subscribed": SUBACK read.
Phase     == {"listed", "connecting", "connected", "subscribing", "acked", "subscribed"}
Connected == {"connected", "subscribing", "acked", "subscribed"}
NoSession == [phase |-> "none", socket |-> NULL]

MqttInit ==
  /\ session = [c \in Client |-> NoSession]
  /\ pinging = {}

Sessions      == {c \in Client : session[c] # NoSession}
InConnect     == {c \in Sessions : session[c].phase \in {"listed", "connecting"}}
SetPhase(c, p) == session' = [session EXCEPT ![c].phase = p]
Delete(c)      == session' = [session EXCEPT ![c] = NoSession]

\* mqtt_timer_cb holds s_session_list_mutex throughout its loop, its publish
\* calls included; every other use of the list waits for the mutex.
Unlocked ==
  /\ pinging = {}
  /\ ~(Publishing("timer") /\ out["timer"].cmd = "BROKER_PING")

Requested(cmd)    == Handling("mqtt", "MQTT_EXECUTE_CMD", cmd)
MqttHandling(cmd) == Requested(cmd) /\ Unlocked

MqttUser == cur["mqtt"].ctx

\* The peer is there to receive what is sent.
Alive(c) == tcp[session[c].socket] = "established"

-----------------------------------------------------------------------------
(* mqtt_do_broker_connect *)

\* mqtt_add_session: client and socket are new to the list, which has room.
MayList(c, s) ==
  /\ c \notin Sessions
  /\ \A d \in Sessions : session[d].socket # s
  /\ Cardinality(Sessions) < MaxSessions

\* adp_mqtt_session_alloc; the session is in the list before it is set up.
SessionAlloc ==
  LET c == MqttUser
      s == cur["mqtt"].socket IN
  /\ MqttHandling("CONNECT")
  /\ InConnect = {}
  /\ UNCHANGED <<ipnetVars, pinging>>
  /\ IF MayList(c, s)
     THEN /\ session' = [session EXCEPT ![c] = [phase |-> "listed", socket |-> s]]
          /\ UNCHANGED busVars
     ELSE /\ ReturnPublishing("mqtt", MqttStatus("CONNECT", c, FALSE))
          /\ UNCHANGED session

\* keepAliveSeconds and the rest of connect_info are set; MQTT_Connect starts.
\* (This step takes no mutex.)
SessionSetup ==
  /\ Requested("CONNECT")
  /\ session[MqttUser].phase = "listed"
  /\ SetPhase(MqttUser, "connecting")
  /\ UNCHANGED <<busVars, ipnetVars, pinging>>

\* CONNACK received.
BrokerAccepts ==
  LET c == MqttUser IN
  /\ MqttHandling("CONNECT")
  /\ session[c].phase = "connecting"
  /\ Alive(c)
  /\ SetPhase(c, "connected")
  /\ ReturnPublishing("mqtt", MqttStatus("CONNECT", c, TRUE))
  /\ UNCHANGED <<ipnetVars, pinging>>

\* MQTT_Connect fails: dead socket, or a refusal or no CONNACK in time.
BrokerConnectFails ==
  LET c == MqttUser IN
  /\ MqttHandling("CONNECT")
  /\ session[c].phase = "connecting"
  /\ IF Alive(c) THEN Fault ELSE UNCHANGED faults
  /\ Delete(c)
  /\ ReturnPublishing("mqtt", MqttStatus("CONNECT", c, FALSE))
  /\ UNCHANGED <<socketDb, conn, tcp, watched, events, pinging>>

-----------------------------------------------------------------------------
(* The other commands of mqtt_cmd_handler *)

\* mqtt_do_subscribe sends SUBSCRIBE; the status waits for the SUBACK.
Subscribe ==
  LET c == MqttUser IN
  /\ MqttHandling("SUBSCRIBE")
  /\ c \in Sessions /\ Alive(c)
  /\ SetPhase(c, "subscribing")
  /\ ReturnSilently("mqtt")
  /\ UNCHANGED <<ipnetVars, pinging>>

\* There is no session, or sending fails.
SubscribeFails ==
  LET c == MqttUser IN
  /\ MqttHandling("SUBSCRIBE")
  /\ IF c \in Sessions /\ Alive(c) THEN Fault ELSE UNCHANGED faults
  /\ ReturnPublishing("mqtt", MqttStatus("SUBSCRIBE", c, FALSE))
  /\ UNCHANGED <<socketDb, conn, tcp, watched, events, mqttVars>>

\* MQTT_ProcessLoop; mqtt_eventCallback publishes the status of a SUBACK,
\* whatever the broker answered in it.  Its result is not looked at.
ProcessLoop ==
  LET c == MqttUser IN
  /\ MqttHandling("PROCESS_LOOP")
  /\ UNCHANGED <<ipnetVars, pinging>>
  /\ IF session[c].phase = "acked"
     THEN /\ SetPhase(c, "subscribed")
          /\ ReturnPublishing("mqtt", MqttStatus("SUBSCRIBE", c, TRUE))
     ELSE /\ ReturnSilently("mqtt")
          /\ UNCHANGED session

\* MQTT_Ping, whose result is not looked at: the answer is Traffic(s).
BrokerPing ==
  /\ MqttHandling("BROKER_PING")
  /\ ReturnSilently("mqtt")
  /\ UNCHANGED <<ipnetVars, mqttVars>>

\* mqtt_do_disconnect.  (The session leaves the list first, so that
\* mqtt_network_send refuses the DISCONNECT packet: nothing is sent.)
Disconnect ==
  LET c == MqttUser IN
  /\ MqttHandling("DISCONNECT")
  /\ IF c \in Sessions
     THEN /\ Delete(c)
          /\ ReturnPublishing("mqtt", MqttStatus("DISCONNECT", c, TRUE))
     ELSE /\ ReturnSilently("mqtt")
          /\ UNCHANGED session
  /\ UNCHANGED <<ipnetVars, pinging>>

-----------------------------------------------------------------------------
(* mqtt_socket_monitor_io *)

Monitor(event, cmd) ==
  LET owner == {c \in Sessions : session[c].socket = cur["ipnet"].socket} IN
  /\ Free("ipnet") /\ cur["ipnet"].topic = event
  /\ Unlocked
  /\ IF owner # {}
     THEN \E c \in owner : ReturnPublishing("ipnet", MqttCmd(cmd, c))
     ELSE ReturnSilently("ipnet")
  /\ UNCHANGED <<ipnetVars, mqttVars>>

\* Mutant: the two topics are confused.
MonitorActivityEnds == Monitor("IPNET_SOCKET_RXTX_ACTIVITY", "DISCONNECT")

MonitorDisconnected == Monitor("IPNET_SOCKET_DISCONNECTED", "DISCONNECT")
MonitorActivity     == Monitor("IPNET_SOCKET_RXTX_ACTIVITY", "PROCESS_LOOP")

-----------------------------------------------------------------------------
(* mqtt_timer_cb *)

\* One pass over the list.  Which sessions are due is left open (every one is,
\* once in keepAliveSeconds ticks); keepAliveSeconds is the divisor, so a
\* session that is not set up yet kills the process.
Tick ==
  /\ Free("timer") /\ pinging = {}
  /\ UNCHANGED <<ipnetVars, session>>
  /\ IF \E c \in Sessions : session[c].phase = "listed"
     THEN /\ crashed' = TRUE
          /\ UNCHANGED <<queue, cur, out, lost, pinging>>
     ELSE /\ MoreNoise
          /\ \E due \in SUBSET Sessions : \E c \in due :
               /\ CallPublish("timer", MqttCmd("BROKER_PING", c))
               /\ pinging' = due \ {c}

\* The loop goes on to another session that is due.
TickContinues ==
  \E c \in pinging :
    /\ CallPublish("timer", MqttCmd("BROKER_PING", c))
    /\ pinging' = pinging \ {c}
    /\ UNCHANGED <<ipnetVars, session>>

-----------------------------------------------------------------------------
\* The broker answers SUBSCRIBE (environment; in the task of the stack).
SubackArrives(c) ==
  /\ Free("iptask")
  /\ session[c].phase = "subscribing"
  /\ Alive(c)
  /\ SetPhase(c, "acked")
  /\ events' = events \cup {session[c].socket}
  /\ UNCHANGED <<busVars, socketDb, conn, tcp, watched, faults, pinging>>

MqttHandler ==
  \/ SessionAlloc \/ SessionSetup \/ BrokerAccepts \/ BrokerConnectFails
  \/ Subscribe \/ SubscribeFails \/ ProcessLoop \/ BrokerPing \/ Disconnect

MonitorHandler == MonitorDisconnected \/ MonitorActivity

MqttTypeOK ==
  /\ session \in [Client -> [phase : Phase, socket : Socket] \cup {NoSession}]
  /\ pinging \subseteq Client

=============================================================================
