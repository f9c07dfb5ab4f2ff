---------------------------- MODULE AdpMqttAgent ----------------------------
(***************************************************************************)
(* The MQTT agent: adp_mqtt_agent.c.  It keeps every registered client     *)
(* connected: each status of the two services makes it request the next    *)
(* command, and after a failure a one-shot timer starts the cycle again.   *)
(* Its handlers run in both dispatchers, the backoff in the timer daemon,  *)
(* start and stop in the dispatcher of the console.                        *)
(***************************************************************************)
EXTENDS AdpBus

CONSTANTS
  MaxClients,      \* ADP_MQTT_SESSIONS_MAX_NUMBER: rows of s_mqtt_client_db
  MaxTimerFaults,  \* BOUND: timers that cannot be started
  StopAllowed      \* BOUND: whether the console may stop the clients

ASSUME AgentAssumption == MaxClients \in Nat /\ MaxTimerFaults \in Nat /\ StopAllowed \in BOOLEAN

VARIABLES
  registered,    \* clients in s_mqtt_client_db
  started,       \* clients ever put there; their number is cnt
  stopping,      \* client whose shutdown adp_mqtt_agent_stop has to request
  sweeping,      \* the loop of adp_mqtt_agent_stop is running
  backoff,       \* backoff timers running for a client
  timerFaults    \* timers that could not be started so far

agentVars == <<registered, started, stopping, sweeping, backoff, timerFaults>>

AgentInit ==
  /\ registered  = {}
  /\ started     = {}
  /\ stopping    = NULL
  /\ sweeping    = FALSE
  /\ backoff     = [c \in Client |-> 0]
  /\ timerFaults = 0

-----------------------------------------------------------------------------
(* net_agent_status_handler, in the IPNET dispatcher *)

Completed(cmd) == Handling("ipnet", "IPNET_CMD_STATUS", cmd)

\* The status of a user that is not (or no longer) registered is left alone.
NotOurs ==
  /\ \E cmd \in {"TCP_CONNECT", "TCP_SHUTDOWN"} : Completed(cmd)
  /\ cur["ipnet"].ctx \notin registered
  /\ ReturnSilently("ipnet")
  /\ UNCHANGED agentVars

OnTcpConnected ==
  LET m == cur["ipnet"] IN
  /\ Completed("TCP_CONNECT") /\ m.ok
  /\ m.ctx \in registered
  /\ ReturnPublishing("ipnet", MqttConnect(m.ctx, m.socket))
  /\ UNCHANGED agentVars

\* do_backoff_raise_timer: a one-shot timer of 1 to 11 seconds.
RaiseTimer(c) ==
  /\ backoff' = [backoff EXCEPT ![c] = @ + 1]
  /\ ReturnSilently("ipnet")
  /\ UNCHANGED <<registered, started, stopping, sweeping, timerFaults>>

\* xTimerStart finds the command queue of the timer daemon full.  The fallback
\* calls do_backoff_tcp_connect with the client where a timer is expected: the
\* user_ctx it reads from it is no registered client, so nothing is published,
\* and the client's memory is handed to the daemon as a timer to delete.
TimerRefused(c) ==
  /\ timerFaults < MaxTimerFaults
  /\ timerFaults' = timerFaults + 1
  /\ ReturnSilently("ipnet")
  /\ UNCHANGED <<registered, started, stopping, sweeping, backoff>>

\* Mutant: only a shutdown raises the backoff timer.
OnTcpDownForgetsFailure ==
  \/ Completed("TCP_SHUTDOWN") /\ cur["ipnet"].ctx \in registered /\ RaiseTimer(cur["ipnet"].ctx)
  \/ /\ Completed("TCP_CONNECT") /\ ~cur["ipnet"].ok
     /\ cur["ipnet"].ctx \in registered
     /\ ReturnSilently("ipnet")
     /\ UNCHANGED agentVars

\* A TCP connect that failed, or a shutdown whatever its status.
OnTcpDown ==
  LET m == cur["ipnet"] IN
  /\ Completed("TCP_SHUTDOWN") \/ (Completed("TCP_CONNECT") /\ ~m.ok)
  /\ m.ctx \in registered
  /\ RaiseTimer(m.ctx) \/ TimerRefused(m.ctx)

IpnetStatusHandler == NotOurs \/ OnTcpConnected \/ OnTcpDown

-----------------------------------------------------------------------------
(* mqtt_agent_status_handler, in the MQTT dispatcher *)

OnStatus(cmd, ok) ==
  /\ Handling("mqtt", "MQTT_CMD_STATUS", cmd) /\ cur["mqtt"].ok = ok
  /\ UNCHANGED agentVars

Request(m) == ReturnPublishing("mqtt", m)
Subject    == cur["mqtt"].ctx

\* Mutants: a refused client dials again at once; a failed SUBSCRIBE closes the
\* socket under its session, or is ignored.
OnConnectFailedDials    == OnStatus("CONNECT", FALSE)   /\ Request(IpnetCmd("TCP_CONNECT", Subject))
OnSubscribeFailedCloses == OnStatus("SUBSCRIBE", FALSE) /\ Request(IpnetCmd("TCP_SHUTDOWN", Subject))
OnSubscribeFailedStays  == OnStatus("SUBSCRIBE", FALSE) /\ ReturnSilently("mqtt")

OnConnected       == OnStatus("CONNECT", TRUE)    /\ Request(MqttCmd("SUBSCRIBE", Subject))
OnConnectFailed   == OnStatus("CONNECT", FALSE)   /\ Request(IpnetCmd("TCP_SHUTDOWN", Subject))
OnSubscribed      == OnStatus("SUBSCRIBE", TRUE)  /\ ReturnSilently("mqtt")
OnSubscribeFailed == OnStatus("SUBSCRIBE", FALSE) /\ Request(MqttCmd("DISCONNECT", Subject))
OnDisconnected    == OnStatus("DISCONNECT", TRUE) /\ Request(IpnetCmd("TCP_SHUTDOWN", Subject))

MqttStatusHandler ==
  OnConnected \/ OnConnectFailed \/ OnSubscribed \/ OnSubscribeFailed \/ OnDisconnected

-----------------------------------------------------------------------------
(* do_backoff_tcp_connect, in the timer daemon *)

\* Mutant: the registration is not looked up.
BackoffFiresUnchecked(c) ==
  /\ Free("timer")
  /\ backoff[c] > 0
  /\ backoff' = [backoff EXCEPT ![c] = @ - 1]
  /\ CallPublish("timer", IpnetCmd("TCP_CONNECT", c))
  /\ UNCHANGED <<registered, started, stopping, sweeping, timerFaults>>

BackoffFires(c) ==
  /\ Free("timer")
  /\ backoff[c] > 0
  /\ backoff' = [backoff EXCEPT ![c] = @ - 1]
  /\ IF c \in registered THEN CallPublish("timer", IpnetCmd("TCP_CONNECT", c)) ELSE UNCHANGED busVars
  /\ UNCHANGED <<registered, started, stopping, sweeping, timerFaults>>

-----------------------------------------------------------------------------
(* Console commands, in the CLI dispatcher *)

\* adp_mqtt_agent_start with a client object of its own.
AgentStart(c) ==
  /\ ~sweeping
  /\ c \notin started
  /\ Cardinality(started) < MaxClients
  /\ started' = started \cup {c}
  /\ registered' = registered \cup {c}
  /\ CallPublish("cli", IpnetCmd("TCP_CONNECT", c))
  /\ UNCHANGED <<stopping, sweeping, backoff, timerFaults>>

\* adp_mqtt_agent_stop(NULL): for every registered client, it is removed, then
\* MQTT_DO_DISCONNECT and TCP_SHUTDOWN are requested.
AgentStop(c) ==
  /\ StopAllowed
  /\ stopping = NULL
  /\ c \in registered
  /\ registered' = registered \ {c}
  /\ stopping' = c
  /\ sweeping' = TRUE
  /\ CallPublish("cli", MqttCmd("DISCONNECT", c))
  /\ UNCHANGED <<started, backoff, timerFaults>>

AgentStopShutdown ==
  /\ stopping # NULL
  /\ CallPublish("cli", IpnetCmd("TCP_SHUTDOWN", stopping))
  /\ stopping' = NULL
  /\ sweeping' = (registered # {})
  /\ UNCHANGED <<registered, started, backoff, timerFaults>>

AgentTypeOK ==
  /\ registered \subseteq started
  /\ started \subseteq Client
  /\ stopping \in Client \cup {NULL}
  /\ sweeping \in BOOLEAN
  /\ backoff \in [Client -> Nat]
  /\ timerFaults \in 0..MaxTimerFaults

=============================================================================
