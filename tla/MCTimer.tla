------------------------------ MODULE MCTimer ------------------------------
(* Two backoff timers that race for the queue and the periodic timer of the  *)
(* MQTT service; the tick count wraps after eleven ticks.                    *)
EXTENDS RtosTimer

CONSTANTS b1, b2, p

MCPeriod == [t \in Timer |-> IF t = b2 THEN 3 ELSE 2]

\* The tick count is wide enough for this instance.
ASSUME InstanceLag == LagIsShort

=============================================================================
