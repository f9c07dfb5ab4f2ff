------------------------------ MODULE AdpIpnet ------------------------------
(***************************************************************************)
(* The TCP/IP service: adp_tcpip.c, run by the IPNET dispatcher, over the  *)
(* TCP/IP stack, whose task closes sockets and reports what happens on     *)
(* them.  A socket handle is a pointer: once the stack has freed a socket, *)
(* the next allocation may return the same handle.                         *)
(***************************************************************************)
EXTENDS AdpBus

CONSTANTS
  MaxSockets,   \* ADP_IPNET_SOCKETS_MAX_NUMBER
  MaxFaults     \* BOUND: refused connections, closing peers, refusing brokers

ASSUME IpnetAssumption == MaxSockets \in Nat /\ MaxFaults \in Nat

VARIABLES
  socketDb,   \* s_socket_db: the socket registered for a client
  conn,       \* the socket that FreeRTOS_connect is called on
  tcp,        \* state of each socket in the stack
  watched,    \* sockets with ipnet_client_socket_wakeup_cb installed
  events,     \* sockets with xEventBits set: their user is to be woken up
  faults      \* faults of the network so far

ipnetVars == <<socketDb, conn, tcp, watched, events, faults>>

\* "free": not allocated, "closing": FreeRTOS_closesocket called, the task of
\* the stack has not freed it yet, "dead": the peer has closed the connection.
TcpState == {"free", "open", "established", "dead", "closing"}

IpnetInit ==
  /\ socketDb = [c \in Client |-> NULL]
  /\ conn     = NULL
  /\ tcp      = [s \in Socket |-> "free"]
  /\ watched  = {}
  /\ events   = {}
  /\ faults   = 0

Listed == {socketDb[c] : c \in Client} \ {NULL}

Fault == faults < MaxFaults /\ faults' = faults + 1

\* Room for another ping or event within the bound.
MoreNoise == NoiseUnderWay + Cardinality(events) < MaxNoise

\* adp_ipnet_socket_free: no more wakeups, and the stack is told to close.
SocketFree(s) ==
  /\ watched' = watched \ {s}
  /\ tcp' = [tcp EXCEPT ![s] = "closing"]

-----------------------------------------------------------------------------
(* ipnet_cmd_handler *)

Executing(cmd) == Handling("ipnet", "IPNET_EXECUTE_CMD", cmd)
User           == cur["ipnet"].ctx

\* ipnet_do_tcp_connect has allocated a socket and calls FreeRTOS_connect.
TcpConnect ==
  /\ Executing("TCP_CONNECT")
  /\ conn = NULL
  /\ \E s \in Socket :
       /\ tcp[s] = "free"
       /\ tcp' = [tcp EXCEPT ![s] = "open"]
       /\ conn' = s
  /\ UNCHANGED <<busVars, socketDb, watched, events, faults>>

\* adp_ipnet_socket_alloc fails.
TcpConnectNoSocket ==
  /\ Executing("TCP_CONNECT")
  /\ conn = NULL
  /\ \A s \in Socket : tcp[s] # "free"
  /\ ReturnPublishing("ipnet", IpnetStatus("TCP_CONNECT", User, FALSE, NULL))
  /\ UNCHANGED ipnetVars

\* Mutant: the socket of the failed connect is not freed.
TcpConnectFailsLeaks ==
  /\ Executing("TCP_CONNECT")
  /\ conn # NULL
  /\ tcp[conn] = "open" /\ Fault
  /\ conn' = NULL
  /\ ReturnPublishing("ipnet", IpnetStatus("TCP_CONNECT", User, FALSE, NULL))
  /\ UNCHANGED <<socketDb, tcp, watched, events>>

\* FreeRTOS_connect fails: unknown host, refused, timeout; or the connection is
\* over before FreeRTOS_connect has seen it.
TcpConnectFails ==
  /\ Executing("TCP_CONNECT")
  /\ conn # NULL
  /\ \/ tcp[conn] = "open" /\ Fault
     \/ tcp[conn] = "dead" /\ UNCHANGED faults
  /\ SocketFree(conn)
  /\ conn' = NULL
  /\ ReturnPublishing("ipnet", IpnetStatus("TCP_CONNECT", User, FALSE, NULL))
  /\ UNCHANGED <<socketDb, events>>

\* ipnet_add_socket: client and socket are new to the list, which has room.
MayAdd(c, s) ==
  /\ socketDb[c] = NULL
  /\ s \notin Listed
  /\ Cardinality(Listed) < MaxSockets

\* FreeRTOS_connect has succeeded: the wakeup callback is installed and the
\* socket is added to the list, or freed if that fails.
TcpConnectReturns ==
  /\ Executing("TCP_CONNECT")
  /\ conn # NULL
  /\ tcp[conn] \in {"established", "dead"}
  /\ conn' = NULL
  /\ UNCHANGED <<events, faults>>
  /\ IF MayAdd(User, conn)
     THEN /\ socketDb' = [socketDb EXCEPT ![User] = conn]
          /\ watched' = watched \cup {conn}
          /\ ReturnPublishing("ipnet", IpnetStatus("TCP_CONNECT", User, TRUE, conn))
          /\ UNCHANGED tcp
     ELSE /\ SocketFree(conn)
          /\ ReturnPublishing("ipnet", IpnetStatus("TCP_CONNECT", User, FALSE, NULL))
          /\ UNCHANGED socketDb

\* Mutant of TcpShutdown: the socket is closed, its entry stays in the list.
TcpShutdownKeepsEntry ==
  LET s == socketDb[User] IN
  /\ Executing("TCP_SHUTDOWN")
  /\ ReturnPublishing("ipnet", IpnetStatus("TCP_SHUTDOWN", User, s # NULL, s))
  /\ IF s # NULL THEN SocketFree(s) ELSE UNCHANGED <<tcp, watched>>
  /\ UNCHANGED <<socketDb, conn, events, faults>>

\* ipnet_do_tcp_shutdown; the user may have no socket in the list.
TcpShutdown ==
  LET s == socketDb[User] IN
  /\ Executing("TCP_SHUTDOWN")
  /\ ReturnPublishing("ipnet", IpnetStatus("TCP_SHUTDOWN", User, s # NULL, s))
  /\ socketDb' = [socketDb EXCEPT ![User] = NULL]
  /\ IF s # NULL THEN SocketFree(s) ELSE UNCHANGED <<tcp, watched>>
  /\ UNCHANGED <<conn, events, faults>>

-----------------------------------------------------------------------------
(* The task of the TCP/IP stack *)

\* The three-way handshake is complete.  (The user woken up by this event is
\* ipnet_do_tcp_connect, which has not installed the callback yet.)
Established ==
  /\ Free("iptask")
  /\ conn # NULL
  /\ tcp[conn] = "open"
  /\ tcp' = [tcp EXCEPT ![conn] = "established"]
  /\ UNCHANGED <<busVars, socketDb, conn, watched, events, faults>>

\* The peer closes or resets the connection, or it breaks.
PeerCloses(s) ==
  /\ Free("iptask")
  /\ tcp[s] = "established"
  /\ Fault
  /\ tcp' = [tcp EXCEPT ![s] = "dead"]
  /\ events' = events \cup {s}
  /\ UNCHANGED <<busVars, socketDb, conn, watched>>

\* Data or an acknowledgement arrives.
Traffic(s) ==
  /\ Free("iptask")
  /\ tcp[s] \in {"established", "dead"}
  /\ s \in watched
  /\ MoreNoise
  /\ events' = events \cup {s}
  /\ UNCHANGED <<busVars, socketDb, conn, tcp, watched, faults>>

\* Before it sleeps, the task wakes the users of sockets with events up:
\* ipnet_client_socket_wakeup_cb, which publishes by the state it finds.
WakeUp(s) ==
  /\ Free("iptask")
  /\ s \in events
  /\ events' = events \ {s}
  /\ IF s \in watched
     THEN CallPublish("iptask", IF tcp[s] = "established" THEN RxTx(s) ELSE Disconnected(s))
     ELSE UNCHANGED busVars
  /\ UNCHANGED <<socketDb, conn, tcp, watched, faults>>

\* The stack frees a socket it was told to close.
CloseDone(s) ==
  /\ Free("iptask")
  /\ tcp[s] = "closing"
  /\ tcp' = [tcp EXCEPT ![s] = "free"]
  /\ events' = events \ {s}
  /\ UNCHANGED <<busVars, socketDb, conn, watched, faults>>

-----------------------------------------------------------------------------
IpnetHandler ==
  TcpConnect \/ TcpConnectNoSocket \/ TcpConnectFails \/ TcpConnectReturns \/ TcpShutdown

IpTaskStep ==
  \/ Established
  \/ \E s \in Socket : PeerCloses(s) \/ Traffic(s) \/ WakeUp(s) \/ CloseDone(s)

IpnetTypeOK ==
  /\ socketDb \in [Client -> Socket \cup {NULL}]
  /\ conn \in Socket \cup {NULL}
  /\ tcp \in [Socket -> TcpState]
  /\ watched \subseteq Socket
  /\ events \subseteq Socket
  /\ faults \in 0..MaxFaults

=============================================================================
