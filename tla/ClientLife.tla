----------------------------- MODULE ClientLife -----------------------------
(***************************************************************************)
(* The life of MQTT clients as the agent means it, whatever services,      *)
(* queues and tasks it takes: one cycle per client, in which a stage is    *)
(* entered only from the one before, and a socket is dialled again only    *)
(* after the last one was shut down and a backoff has passed.              *)
(***************************************************************************)
CONSTANT Client

VARIABLE stage   \* "off": not started or stopped; "lost": given up by accident

Init == stage = [c \in Client |-> "off"]

\* Where a client can get from each stage.
After ==
  [off   |-> {"dial"},            \* adp_mqtt_agent_start
   dial  |-> {"login", "wait"},   \* TCP connect: done or failed
   login |-> {"up", "down"},      \* MQTT connect: done or failed
   up    |-> {"down"},            \* the session ended
   down  |-> {"wait"},            \* TCP shutdown
   wait  |-> {"dial"},            \* backoff
   lost  |-> {}]

Advance(c) == stage'[c] \in After[stage[c]]
Stop(c)    == stage'[c] = "off"
Lose(c)    == stage[c] # "off" /\ stage'[c] = "lost"
Stay(c)    == stage'[c] = stage[c]

Next == \A c \in Client : Stay(c) \/ Advance(c) \/ Stop(c) \/ Lose(c)

Spec == Init /\ [][Next]_stage

=============================================================================
