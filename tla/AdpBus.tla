------------------------------- MODULE AdpBus -------------------------------
(***************************************************************************)
(* The dispatcher as the network services use it: the two queues of the    *)
(* IPNET and MQTT dispatchers, the messages they carry and the tasks that  *)
(* publish.  Module AdpDispatcher models what this one abstracts: here a   *)
(* publish call in progress (out) either puts its message or, if the queue *)
(* is full and the timed put gives up, drops it.  Each topic of these      *)
(* services has one subscriber, so routing is one call of its handler.     *)
(***************************************************************************)
EXTENDS Naturals, Sequences, FiniteSets

CONSTANTS
  Client,       \* MQTT client objects: the user_ctx of commands and statuses
  Socket,       \* sockets the TCP/IP stack can allocate
  NULL,
  QueueLength,  \* max_items of both dispatchers
  Prio,         \* task priorities; all equal: any scheduling
  MaxNoise      \* BOUND: no ping or traffic while so many of them are under way

\* "ipnet", "mqtt": the dispatchers; "timer": the timer daemon; "iptask": the
\* task of the TCP/IP stack; "cli": the dispatcher that runs console commands.
Dispatcher == {"ipnet", "mqtt"}
Task == Dispatcher \cup {"timer", "iptask", "cli"}

ASSUME BusAssumption ==
  /\ NULL \notin Client \cup Socket
  /\ QueueLength \in Nat \ {0}
  /\ MaxNoise \in Nat
  /\ Prio \in [Task -> Nat]

VARIABLES
  queue,    \* messages waiting for each dispatcher
  cur,      \* the message a dispatcher is handling
  out,      \* the message a task is publishing
  lost,     \* history: clients a message of whose life cycle was dropped
  crashed   \* the process has died

busVars == <<queue, cur, out, lost, crashed>>

-----------------------------------------------------------------------------
(* Messages *)

NoMsg == [topic |-> "NONE"]

IpnetCmd(cmd, c)           == [topic |-> "IPNET_EXECUTE_CMD", cmd |-> cmd, ctx |-> c]
IpnetStatus(cmd, c, ok, s) == [topic |-> "IPNET_CMD_STATUS", cmd |-> cmd, ctx |-> c,
                               ok |-> ok, socket |-> s]
Disconnected(s)            == [topic |-> "IPNET_SOCKET_DISCONNECTED", socket |-> s]
RxTx(s)                    == [topic |-> "IPNET_SOCKET_RXTX_ACTIVITY", socket |-> s]
MqttCmd(cmd, c)            == [topic |-> "MQTT_EXECUTE_CMD", cmd |-> cmd, ctx |-> c]
MqttConnect(c, s)          == [topic |-> "MQTT_EXECUTE_CMD", cmd |-> "CONNECT", ctx |-> c,
                               socket |-> s]
MqttStatus(cmd, c, ok)     == [topic |-> "MQTT_CMD_STATUS", cmd |-> cmd, ctx |-> c, ok |-> ok]

IpnetMsg ==
  [topic : {"IPNET_EXECUTE_CMD"}, cmd : {"TCP_CONNECT", "TCP_SHUTDOWN"}, ctx : Client]
  \cup [topic : {"IPNET_CMD_STATUS"}, cmd : {"TCP_CONNECT", "TCP_SHUTDOWN"}, ctx : Client,
        ok : {TRUE}, socket : Socket]
  \cup [topic : {"IPNET_CMD_STATUS"}, cmd : {"TCP_CONNECT", "TCP_SHUTDOWN"}, ctx : Client,
        ok : {FALSE}, socket : {NULL}]
  \cup [topic : {"IPNET_SOCKET_DISCONNECTED", "IPNET_SOCKET_RXTX_ACTIVITY"}, socket : Socket]

MqttMsg ==
  [topic : {"MQTT_EXECUTE_CMD"}, ctx : Client,
   cmd : {"SUBSCRIBE", "PROCESS_LOOP", "BROKER_PING", "DISCONNECT"}]
  \cup [topic : {"MQTT_EXECUTE_CMD"}, cmd : {"CONNECT"}, ctx : Client, socket : Socket]
  \cup [topic : {"MQTT_CMD_STATUS"}, cmd : {"CONNECT", "SUBSCRIBE", "DISCONNECT"},
        ctx : Client, ok : BOOLEAN]

\* adp_topic_register: the services register their topics at their dispatcher.
Target(m) == IF m.topic \in {"MQTT_EXECUTE_CMD", "MQTT_CMD_STATUS"} THEN "mqtt" ELSE "ipnet"

\* The messages by which a client gets on; losing another one costs a ping, a
\* read that the next activity repeats, or the notice that a socket is closed.
MovesClient(m) ==
  /\ m.topic \notin {"NONE", "IPNET_SOCKET_RXTX_ACTIVITY", "IPNET_SOCKET_DISCONNECTED"}
  /\ m.cmd \notin {"PROCESS_LOOP", "BROKER_PING"}

\* Pings, reads and notices, which the environment can cause at any time.
IsNoise(m) ==
  \/ m.topic \in {"IPNET_SOCKET_RXTX_ACTIVITY", "IPNET_SOCKET_DISCONNECTED"}
  \/ m.topic = "MQTT_EXECUTE_CMD" /\ m.cmd \in {"PROCESS_LOOP", "BROKER_PING"}

-----------------------------------------------------------------------------
(* Tasks *)

BusInit ==
  /\ queue   = [d \in Dispatcher |-> <<>>]
  /\ cur     = [d \in Dispatcher |-> NoMsg]
  /\ out     = [t \in Task |-> NoMsg]
  /\ lost    = {}
  /\ crashed = FALSE

Room(d)       == Len(queue[d]) < QueueLength
Publishing(t) == out[t] # NoMsg

Ready(t) ==
  IF Publishing(t) THEN Room(Target(out[t]))
  ELSE t \in Dispatcher /\ cur[t] = NoMsg /\ queue[t] # <<>>

\* The kernel is preemptive: a task runs when no task above it can.
MayRun(t) == ~crashed /\ \A u \in Task : Prio[u] > Prio[t] => ~Ready(u)

\* A task that runs and is not inside adp_topic_publish.
Free(t) == MayRun(t) /\ ~Publishing(t)

NoiseUnderWay ==
  Cardinality({t \in Task : IsNoise(out[t])})
    + Cardinality({d \in Dispatcher : IsNoise(cur[d])})
    + Cardinality({p \in Dispatcher \X (1..QueueLength) :
                     p[2] <= Len(queue[p[1]]) /\ IsNoise(queue[p[1]][p[2]])})

Publish(t, m) == out' = [out EXCEPT ![t] = m]

\* Mutant: the put does not look for room.
PutUnchecked(t) ==
  /\ MayRun(t) /\ Publishing(t)
  /\ queue' = [queue EXCEPT ![Target(out[t])] = Append(@, out[t])]
  /\ out' = [out EXCEPT ![t] = NoMsg]
  /\ UNCHANGED <<cur, lost, crashed>>

\* Mutant: the put honours ADP_TOPIC_PRIORITY_HIGH (xQueueSendToFront).
PutInFront(t) ==
  /\ MayRun(t) /\ Publishing(t)
  /\ Room(Target(out[t]))
  /\ queue' = [queue EXCEPT ![Target(out[t])] = <<out[t]>> \o @]
  /\ out' = [out EXCEPT ![t] = NoMsg]
  /\ UNCHANGED <<cur, lost, crashed>>

\* Mutant: the put is not timed.
PutWaitsForever(t) == Publishing(t) /\ UNCHANGED busVars

\* adp_topic_publish puts its message, or the put times out on a full queue and
\* the caller goes on: no caller in the services looks at the result.  (A put
\* that times out when room has just come up has the effect of one that timed
\* out before.)
PutDone(t) ==
  /\ MayRun(t) /\ Publishing(t)
  /\ Room(Target(out[t]))
  /\ queue' = [queue EXCEPT ![Target(out[t])] = Append(@, out[t])]
  /\ out' = [out EXCEPT ![t] = NoMsg]
  /\ UNCHANGED <<cur, lost, crashed>>

PutTimeout(t) ==
  /\ ~crashed /\ Publishing(t)
  /\ ~Room(Target(out[t]))
  /\ lost' = IF MovesClient(out[t]) THEN lost \cup {out[t].ctx} ELSE lost
  /\ out' = [out EXCEPT ![t] = NoMsg]
  /\ UNCHANGED <<queue, cur, crashed>>

Put(t) == PutDone(t) \/ PutTimeout(t)

\* dispatcher_task receives the oldest message ...
Receive(d) ==
  /\ Free(d) /\ cur[d] = NoMsg
  /\ queue[d] # <<>>
  /\ cur' = [cur EXCEPT ![d] = Head(queue[d])]
  /\ queue' = [queue EXCEPT ![d] = Tail(@)]
  /\ UNCHANGED <<out, lost, crashed>>

\* ... and is in the handler of a command or status, which may have to wait for
\* the network or for a mutex, and ends with a publish call or without one.
Handling(d, topic, cmd) == Free(d) /\ cur[d].topic = topic /\ cur[d].cmd = cmd

ReturnPublishing(d, m) ==
  /\ cur' = [cur EXCEPT ![d] = NoMsg]
  /\ Publish(d, m)
  /\ UNCHANGED <<queue, lost, crashed>>

ReturnSilently(d) ==
  /\ cur' = [cur EXCEPT ![d] = NoMsg]
  /\ UNCHANGED <<queue, out, lost, crashed>>

\* A task other than a dispatcher calls adp_topic_publish.
CallPublish(t, m) ==
  /\ Free(t)
  /\ Publish(t, m)
  /\ UNCHANGED <<queue, cur, lost, crashed>>

BusTypeOK ==
  /\ queue \in [Dispatcher -> Seq(IpnetMsg \cup MqttMsg)]
  /\ \A d \in Dispatcher : Len(queue[d]) <= QueueLength
  /\ cur \in [Dispatcher -> IpnetMsg \cup MqttMsg \cup {NoMsg}]
  /\ out \in [Task -> IpnetMsg \cup MqttMsg \cup {NoMsg}]
  /\ lost \subseteq Client
  /\ crashed \in BOOLEAN

=============================================================================
