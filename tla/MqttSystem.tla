----------------------------- MODULE MqttSystem -----------------------------
(***************************************************************************)
(* The MQTT application: the TCP/IP service, the MQTT service and the MQTT *)
(* agent over the dispatchers of AdpBus, with the TCP/IP stack, the broker *)
(* and the console around them.                                            *)
(***************************************************************************)
EXTENDS AdpMqtt, AdpMqttAgent

CONSTANT SlowBackoff   \* whether queues are emptied while a backoff lasts

ASSUME SystemAssumption == SlowBackoff \in BOOLEAN

vars == <<busVars, ipnetVars, mqttVars, agentVars>>

Init == BusInit /\ IpnetInit /\ MqttInit /\ AgentInit

\* Steps of the dispatchers' queues and of publish calls.
Messaging ==
  /\ \/ \E d \in Dispatcher : Receive(d)
     \/ \E t \in Task : Put(t)
  /\ UNCHANGED <<ipnetVars, mqttVars, agentVars>>

IpnetStep == (IpnetHandler \/ IpTaskStep) /\ UNCHANGED <<mqttVars, agentVars>>

MqttStep ==
  /\ \/ MqttHandler \/ MonitorHandler
     \/ Tick \/ TickContinues
     \/ \E c \in Client : SubackArrives(c)
  /\ UNCHANGED agentVars

\* A backoff takes at least a second.  If SlowBackoff, it does not end before the
\* messages on their way have been handled, save by a dispatcher that waits for
\* the network.
Waiting(d) == IF d = "ipnet" THEN conn # NULL ELSE InConnect # {}
Drained ==
  /\ events = {}
  /\ \A t \in Task : ~Publishing(t)
  /\ \A d \in Dispatcher : Waiting(d) \/ (queue[d] = <<>> /\ cur[d] = NoMsg)
BackoffEnds(c) ==
  /\ pinging = {}   \* the timer daemon is not inside mqtt_timer_cb
  /\ SlowBackoff => Drained
  /\ BackoffFires(c)

AgentStep ==
  /\ \/ IpnetStatusHandler \/ MqttStatusHandler
     \/ AgentStopShutdown
     \/ \E c \in Client : BackoffEnds(c) \/ AgentStart(c) \/ AgentStop(c)
  /\ UNCHANGED <<ipnetVars, mqttVars>>

\* The process is dead, or nothing is under way and every client is subscribed
\* or stopped; in any other state something must be able to happen.
Quiet ==
  /\ events = {}
  /\ \A d \in Dispatcher : queue[d] = <<>> /\ cur[d] = NoMsg
  /\ \A t \in Task : ~Publishing(t)
  /\ \A c \in registered : session[c].phase = "subscribed" \/ c \in lost
Ended == (crashed \/ Quiet) /\ UNCHANGED vars

Next == Messaging \/ IpnetStep \/ MqttStep \/ AgentStep \/ Ended

\* Tasks that can run are run, and the network and the broker answer: a connect
\* attempt ends, a closed socket is freed, a SUBSCRIBE is acknowledged, although
\* the task of the stack has other events to report in between.  The handlers
\* that take s_session_list_mutex get it although a tick, once in a second, may
\* take it first: the kernel gives a mutex to a waiting task.  A backoff ends
\* although reads and pings go on.
TaskFairness ==
  /\ \A d \in Dispatcher : WF_vars(Receive(d) /\ UNCHANGED <<ipnetVars, mqttVars, agentVars>>)
  /\ \A t \in Task : WF_vars(Put(t) /\ UNCHANGED <<ipnetVars, mqttVars, agentVars>>)
  /\ WF_vars(IpnetHandler /\ UNCHANGED <<mqttVars, agentVars>>)
  /\ WF_vars((IpnetStatusHandler \/ MqttStatusHandler) /\ UNCHANGED <<ipnetVars, mqttVars>>)
  /\ WF_vars(TickContinues /\ UNCHANGED agentVars)
  /\ WF_vars(AgentStopShutdown /\ UNCHANGED <<ipnetVars, mqttVars>>)
  /\ SF_vars(MqttHandler /\ UNCHANGED agentVars)
  /\ SF_vars(MonitorHandler /\ UNCHANGED agentVars)

NetworkFairness ==
  /\ SF_vars(Established /\ UNCHANGED <<mqttVars, agentVars>>)
  /\ SF_vars((\E s \in Socket : CloseDone(s)) /\ UNCHANGED <<mqttVars, agentVars>>)
  /\ SF_vars((\E s \in Socket : WakeUp(s)) /\ UNCHANGED <<mqttVars, agentVars>>)
  /\ SF_vars((\E c \in Client : SubackArrives(c)) /\ UNCHANGED agentVars)

BackoffFairness ==
  SF_vars((\E c \in Client : BackoffEnds(c)) /\ UNCHANGED <<ipnetVars, mqttVars>>)

Spec     == Init /\ [][Next]_vars
FairSpec == Spec /\ TaskFairness /\ NetworkFairness /\ BackoffFairness

-----------------------------------------------------------------------------
TypeOK == BusTypeOK /\ IpnetTypeOK /\ MqttTypeOK /\ AgentTypeOK

\* Places where a message can be: queues, handlers, publish calls.
Places == (Dispatcher \X (0..QueueLength)) \cup (Task \X {QueueLength + 1})
At(p) ==
  CASE p[2] = 0 -> cur[p[1]]
    [] p[2] = QueueLength + 1 -> out[p[1]]
    [] OTHER -> IF p[2] <= Len(queue[p[1]]) THEN queue[p[1]][p[2]] ELSE NoMsg

\* The messages in those places.
InFlight ==
  {cur[d] : d \in Dispatcher} \cup {out[t] : t \in Task}
    \cup UNION {{queue[d][i] : i \in 1..Len(queue[d])} : d \in Dispatcher}

\* m moves c on and does not only exist beside a session of c.
Carries(m, c) ==
  /\ MovesClient(m) /\ m.ctx = c
  /\ m.topic = "MQTT_EXECUTE_CMD" => m.cmd = "CONNECT"
  /\ m.topic = "MQTT_CMD_STATUS" => m.cmd = "DISCONNECT" \/ (m.cmd = "CONNECT" /\ ~m.ok)

\* What keeps c going: a message, a backoff timer or a session (in MQTT_Connect
\* the session and the command it came from are one).
Lifelines(c) ==
  Cardinality({p \in Places : Carries(At(p), c)})
    + backoff[c]
    + (IF c \in Sessions \ InConnect THEN 1 ELSE 0)

\* At any time exactly one thing carries a registered client on: none, and the
\* client would never reconnect; two, and two cycles would run for it, each
\* tearing down what the other one set up.
OneLifeline ==
  \A c \in registered \ lost : ~crashed => Lifelines(c) = 1

\* A client whose backoff timer cannot be started is carried on all the same.
NeverStranded ==
  \A c \in registered \ lost : ~crashed => Lifelines(c) >= 1

\* The handle a session of a registered client uses is the socket registered
\* for that client, not one that was freed or that another client has got; and
\* so is the handle in a request to set up a session, which comes when there is
\* none.
SessionOnItsSocket ==
  /\ \A c \in registered \cap Sessions :
       /\ socketDb[c] = session[c].socket
       /\ tcp[session[c].socket] \in {"established", "dead"}
  /\ \A m \in InFlight :
       m.topic = "MQTT_EXECUTE_CMD" /\ m.cmd = "CONNECT" /\ m.ctx \in registered
         => socketDb[m.ctx] = m.socket /\ m.ctx \notin Sessions \ InConnect

\* A socket the stack has allocated is being connected or is in the socket list
\* of exactly one client, so that somebody will free it; nothing in the list is
\* free.
SocketCustody ==
  \A s \in Socket :
    LET owners == {c \in Client : socketDb[c] = s} IN
    IF tcp[s] \in {"open", "established", "dead"}
    THEN IF s = conn THEN owners = {} ELSE \E c \in Client : owners = {c}
    ELSE s # conn /\ owners = {}

\* The notice that a socket is closed never meets a session of a registered
\* client on a later socket with the same handle.
NoticesAreCurrent ==
  \A c \in registered \cap Sessions :
    Disconnected(session[c].socket) \in InFlight => tcp[session[c].socket] # "established"

\* A subscribed session of a registered client is not ended while its socket is
\* connected, whatever commands from earlier sessions are still under way.
HealthySessionKept ==
  [][\A c \in registered :
       session[c].phase \in {"subscribing", "acked", "subscribed"} /\ Alive(c) => session'[c] # NoSession]_vars

\* Nothing is left of c that could still do something.
Gone(c)    == c \notin Sessions /\ socketDb[c] = NULL
Settled(c) == stopping # c /\ ~\E m \in InFlight : MovesClient(m) /\ m.ctx = c

\* The dispatcher of the console runs below the tasks that look up whether a
\* client is registered before they publish, so that it does not remove the
\* client in between.
ConsoleBelow == \A t \in {"ipnet", "timer"} : Prio["cli"] < Prio[t]

\* Once the commands of adp_mqtt_agent_stop have been carried out, a stopped
\* client has neither a session nor a socket, whatever was under way for it.
StoppedIsGone ==
  \A c \in started \ (registered \cup lost) : ~crashed /\ Settled(c) => Gone(c)

\* The process survives the timer callback.
NeverCrashes == ~crashed

\* When the network stops failing, every registered client ends up subscribed,
\* unless a message of its life cycle was dropped by a full queue.
Reconnects ==
  \A c \in Client :
    <>[](c \in registered => session[c].phase = "subscribed" \/ c \in lost \/ crashed)

\* mqtt_timer_cb gives s_session_list_mutex back, although it holds it while it
\* publishes to the queue of the task that waits for it: the put is timed.
MutexReleased == ~Unlocked ~> Unlocked

\* The stage of a client in its life, by what carries it on.
Stage(c) ==
  LET line == {m \in InFlight : Carries(m, c)}
      Is(topic, cmd) == \E m \in line : m.topic = topic /\ m.cmd = cmd
  IN
  CASE c \notin registered -> "off"
    [] c \in registered \cap lost -> "lost"
    [] OTHER ->
         IF c \in Sessions \ InConnect THEN "up"
         ELSE IF Is("IPNET_EXECUTE_CMD", "TCP_CONNECT") THEN "dial"
         ELSE IF Is("MQTT_EXECUTE_CMD", "CONNECT") THEN "login"
         ELSE IF Is("IPNET_CMD_STATUS", "TCP_CONNECT") /\ \E m \in line : m.ok THEN "login"
         ELSE IF Is("MQTT_CMD_STATUS", "CONNECT") \/ Is("MQTT_CMD_STATUS", "DISCONNECT")
                 \/ Is("IPNET_EXECUTE_CMD", "TCP_SHUTDOWN") THEN "down"
         ELSE "wait"

Life == INSTANCE ClientLife WITH stage <- [c \in Client |-> Stage(c)]

\* The services and the agent together take every client through the life that
\* ClientLife describes.
RefinesClientLife == Life!Spec

=============================================================================
