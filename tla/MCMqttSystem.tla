---------------------------- MODULE MCMqttSystem ----------------------------
(* Instances of MqttSystem for TLC. *)
EXTENDS MqttSystem, TLC

CONSTANTS c1, c2, s1, s2

\* Any scheduling of the tasks ...
FlatPrio == [t \in Task |-> 0]

\* ... and the priorities of main.c and FreeRTOSConfig.h.
AppPrio == [t \in Task |-> CASE t = "timer" -> 6 [] t \in {"ipnet", "iptask"} -> 5
                             [] t = "mqtt" -> 4 [] t = "cli" -> 0]

\* The instance of the application satisfies the condition of the theorem about
\* stopped clients.
ASSUME InstanceBelow == Prio = AppPrio => ConsoleBelow

Symmetry == Permutations(Client) \cup Permutations(Socket)

=============================================================================
