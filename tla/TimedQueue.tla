----------------------------- MODULE TimedQueue -----------------------------
(***************************************************************************)
(* What xQueueSend and xQueueReceive promise, without critical sections,   *)
(* event lists and priorities: a bounded queue whose calls take effect in  *)
(* one step, at once or later, or give up when their time has run out.  A  *)
(* receive gives up only when the queue is empty; a send may give up       *)
(* although there is room again.                                           *)
(***************************************************************************)
EXTENDS Naturals, Sequences

CONSTANTS Task, QueueLength, MaxTicks, FOREVER, NONE

VARIABLES queue, pend

timedVars == <<queue, pend>>

Served == [op |-> NONE, left |-> 0]

Init ==
  /\ queue = <<>>
  /\ pend = [t \in Task |-> Served]

May(t, op) == pend[t] = Served \/ pend[t].op = op

Put(t) ==
  /\ May(t, "send") /\ Len(queue) < QueueLength
  /\ queue' = Append(queue, t)
  /\ pend' = [pend EXCEPT ![t] = Served]

Get(t) ==
  /\ May(t, "receive") /\ queue # <<>>
  /\ queue' = Tail(queue)
  /\ pend' = [pend EXCEPT ![t] = Served]

Wait(t, op, n) ==
  /\ pend[t] = Served
  /\ IF op = "send" THEN Len(queue) = QueueLength ELSE queue = <<>>
  /\ pend' = [pend EXCEPT ![t] = [op |-> op, left |-> n]]
  /\ UNCHANGED queue

GiveUp(t) ==
  /\ pend[t].op # NONE /\ pend[t].left = 0
  /\ pend[t].op = "receive" => queue = <<>>
  /\ pend' = [pend EXCEPT ![t] = Served]
  /\ UNCHANGED queue

\* Time passes for every call that waits.
Elapse ==
  /\ pend' = [t \in Task |->
       IF pend[t].left \in {0, FOREVER} THEN pend[t] ELSE [pend[t] EXCEPT !.left = @ - 1]]
  /\ UNCHANGED queue

Next ==
  \/ \E t \in Task : Put(t) \/ Get(t) \/ GiveUp(t)
  \/ \E t \in Task, op \in {"send", "receive"}, n \in (1..MaxTicks) \cup {FOREVER} : Wait(t, op, n)
  \/ Elapse

Spec == Init /\ [][Next]_timedVars

=============================================================================
