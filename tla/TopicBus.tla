------------------------------ MODULE TopicBus ------------------------------
(***************************************************************************)
(* What the dispatcher promises, without its queues, heap and tasks: every *)
(* topic belongs to a line of messages; a message that was accepted gets   *)
(* the next number of its line; the subscribers of a line are called one   *)
(* at a time, by ascending number and, for one number, by ascending row of *)
(* the subscriber table; and no subscriber waits for ever.                 *)
(***************************************************************************)
EXTENDS Naturals, Sequences

CONSTANTS Dispatcher, Topic, Owner, NumSlots, SlotTopic, NULL

VARIABLES accepted, handled

busVars == <<accepted, handled>>

BusSlot == 1..NumSlots

\* Line d owes row s a call with its message n.
Owes(d, n, s) ==
  /\ n \in 1..Len(accepted[d])
  /\ accepted[d][n] = SlotTopic[s]
  /\ \A i \in 1..Len(handled[s]) : handled[s][i] # n

Init ==
  /\ accepted = [d \in Dispatcher |-> <<>>]
  /\ handled  = [s \in BusSlot |-> <<>>]

\* A publish call succeeds.
Accept(topic) ==
  /\ Owner[topic] # NULL
  /\ accepted' = [accepted EXCEPT ![Owner[topic]] = Append(@, topic)]
  /\ UNCHANGED handled

\* Row s is called with the first message its line owes a call for.
Handle(d, s) ==
  \E n \in 1..Len(accepted[d]) :
    /\ Owes(d, n, s)
    /\ \A r \in BusSlot, m \in 1..Len(accepted[d]) :
         Owes(d, m, r) => n < m \/ (n = m /\ s <= r)
    /\ handled' = [handled EXCEPT ![s] = Append(@, n)]
    /\ UNCHANGED accepted

Next ==
  \/ \E topic \in Topic : Accept(topic)
  \/ \E d \in Dispatcher, s \in BusSlot : Handle(d, s)

\* A line that owes a call makes it.
Fairness == \A d \in Dispatcher : WF_busVars(\E s \in BusSlot : Handle(d, s))

\* The promise without its liveness part.
Safety == Init /\ [][Next]_busVars

Spec == Safety /\ Fairness

=============================================================================
