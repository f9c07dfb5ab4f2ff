---------------------------- MODULE AdpDispatcher ----------------------------
(***************************************************************************)
(* The topic dispatcher: adp_dispatcher.c over the FreeRTOS queues that    *)
(* adp_osal.c wraps.  Any task publishes a message on a topic; the message *)
(* is copied to the heap and its descriptor is put into the queue of the   *)
(* dispatcher the topic is registered at; the task of that dispatcher      *)
(* takes descriptors one by one, calls every subscriber of the topic in    *)
(* the order of the subscriber table and frees the copy.                   *)
(*                                                                         *)
(* The tables are constant here: the applications fill them before the     *)
(* scheduler starts; the rows added later (by the first start of an MQTT   *)
(* client) are there before the first message of their topics.             *)
(***************************************************************************)
EXTENDS Naturals, Sequences, FiniteSets

CONSTANTS
  Dispatcher,    \* dispatchers, each one task with one queue
  Publisher,     \* tasks (or timers) that publish and are no dispatcher
  Topic,         \* topic identifiers
  Owner,         \* dispatcher_table: the dispatcher of a topic, NULL if none
  NumSlots,      \* used rows of subscriber_table
  SlotTopic,     \* topic_target of each used row
  Emits,         \* topics that the callback of each row may publish
  QueueLength,   \* max_items of adp_dispatcher_create
  Buffer,        \* blocks the heap can hand out
  NULL,
  MaxAccepted    \* BOUND: publish calls let into one queue

ASSUME DispatcherAssumption ==
  /\ Dispatcher \cap Publisher = {}
  /\ NULL \notin Dispatcher \cup Topic \cup Buffer
  /\ Owner \in [Topic -> Dispatcher \cup {NULL}]
  /\ NumSlots \in Nat
  /\ SlotTopic \in [1..NumSlots -> Topic]
  /\ Emits \in [1..NumSlots -> SUBSET Topic]
  /\ QueueLength \in Nat \ {0}
  /\ MaxAccepted \in Nat

VARIABLES
  queue,     \* the descriptors in each queue
  live,      \* allocated blocks of the heap
  out,       \* the descriptor a task is putting, NoMsg outside adp_topic_publish
  blocked,   \* the task sleeps in xQueueSend on a full queue
  cur,       \* the descriptor a dispatcher_task is routing
  pos,       \* where it is: 0 in adp_queue_receive, a slot, or RouteEnd
  todo,      \* topics the running callback may still publish
  accepted,  \* history: topics put into each queue, in order
  handled    \* history: numbers of the messages each slot was called with

vars == <<queue, live, out, blocked, cur, pos, todo, accepted, handled>>

-----------------------------------------------------------------------------
Task     == Dispatcher \cup Publisher
Slot     == 1..NumSlots
RouteEnd == NumSlots + 1
NoMsg    == [topic |-> NULL, data |-> NULL]
Msg      == [topic : {t \in Topic : Owner[t] # NULL}, data : Buffer \cup {NULL}]

\* The number of descriptors a dispatcher has received so far.
Taken(d) == Len(accepted[d]) - Len(queue[d])

\* Publish calls in progress towards the queue of d.
CallsTo(d) == {t \in Task : out[t] # NoMsg /\ Owner[out[t].topic] = d}

\* Mutant: the loop does not look at the topic.
WantsAny(topic, s) == TRUE

\* dispatcher_route_to_dest, its loop: the first row at or after `from' that
\* wants the topic, or the end of the table, is p.
Wants(topic, s) == SlotTopic[s] = topic
IsNextStop(topic, from, p) ==
  /\ p \in Slot => Wants(topic, p)
  /\ \A s \in from..(p - 1) : ~Wants(topic, s)

Init ==
  /\ queue    = [d \in Dispatcher |-> <<>>]
  /\ live     = {}
  /\ out      = [t \in Task |-> NoMsg]
  /\ blocked  = [t \in Task |-> FALSE]
  /\ cur      = [d \in Dispatcher |-> NoMsg]
  /\ pos      = [d \in Dispatcher |-> 0]
  /\ todo     = [d \in Dispatcher |-> {}]
  /\ accepted = [d \in Dispatcher |-> <<>>]
  /\ handled  = [s \in Slot |-> <<>>]

-----------------------------------------------------------------------------
(* adp_topic_publish *)

\* A task that may call adp_topic_publish(topic, ...) now: a publisher at any
\* time, a dispatcher from inside a callback that publishes the topic.
MayPublish(t, topic) ==
  /\ out[t] = NoMsg
  /\ t \in Dispatcher => topic \in todo[t]

Spend(t, topic) ==
  todo' = IF t \in Dispatcher THEN [todo EXCEPT ![t] = @ \ {topic}] ELSE todo

\* The topic is not registered, or malloc fails: nothing but the result.
PublishRejected(t, topic) ==
  /\ MayPublish(t, topic)
  /\ Spend(t, topic)
  /\ UNCHANGED <<queue, live, out, blocked, cur, pos, accepted, handled>>

\* The topic is found and the data, if any, is copied to a fresh block.
PublishCopy(t, topic, data) ==
  /\ MayPublish(t, topic)
  /\ Owner[topic] # NULL
  /\ Len(accepted[Owner[topic]]) + Cardinality(CallsTo(Owner[topic])) < MaxAccepted
  /\ data \notin live
  /\ live' = live \cup ({data} \ {NULL})
  /\ out' = [out EXCEPT ![t] = [topic |-> topic, data |-> data]]
  /\ Spend(t, topic)
  /\ UNCHANGED <<queue, blocked, cur, pos, accepted, handled>>

\* Mutant: the put does not look for room.
QueuePutUnchecked(t) ==
  LET d == Owner[out[t].topic] IN
  /\ out[t] # NoMsg
  /\ queue' = [queue EXCEPT ![d] = Append(@, out[t])]
  /\ accepted' = [accepted EXCEPT ![d] = Append(@, out[t].topic)]
  /\ out' = [out EXCEPT ![t] = NoMsg]
  /\ blocked' = [blocked EXCEPT ![t] = FALSE]
  /\ UNCHANGED <<live, cur, pos, todo, handled>>

\* xQueueSend finds room, at once or after a sleep; adp_topic_publish returns
\* ADP_RESULT_SUCCESS and the block now belongs to the queue.
QueuePut(t) ==
  LET d == Owner[out[t].topic] IN
  /\ out[t] # NoMsg
  /\ Len(queue[d]) < QueueLength
  /\ queue' = [queue EXCEPT ![d] = Append(@, out[t])]
  /\ accepted' = [accepted EXCEPT ![d] = Append(@, out[t].topic)]
  /\ out' = [out EXCEPT ![t] = NoMsg]
  /\ blocked' = [blocked EXCEPT ![t] = FALSE]
  /\ UNCHANGED <<live, cur, pos, todo, handled>>

\* xQueueSend finds the queue full and sleeps.
QueuePutBlock(t) ==
  /\ out[t] # NoMsg
  /\ ~blocked[t]
  /\ Len(queue[Owner[out[t].topic]]) = QueueLength
  /\ blocked' = [blocked EXCEPT ![t] = TRUE]
  /\ UNCHANGED <<queue, live, out, cur, pos, todo, accepted, handled>>

\* Mutant: adp_topic_publish does not free the copy.
QueuePutTimeoutLeaks(t) ==
  /\ out[t] # NoMsg
  /\ blocked[t]
  /\ out' = [out EXCEPT ![t] = NoMsg]
  /\ blocked' = [blocked EXCEPT ![t] = FALSE]
  /\ UNCHANGED <<queue, live, cur, pos, todo, accepted, handled>>

\* Mutant: the put is not timed (portMAX_DELAY).
QueuePutWaitsForever(t) == blocked[t] /\ UNCHANGED vars

\* The sleep lasts ADP_OS_DEFAULT_QUEUE_PUT_TIMEOUT_MS: errQUEUE_FULL, the copy
\* is freed and adp_topic_publish returns ADP_RESULT_NO_SPACE_LEFT.  The kernel
\* tests the timeout after it has left the critical section that tests for
\* room, so room that has come up since does not prevent the failure.
QueuePutTimeout(t) ==
  /\ out[t] # NoMsg
  /\ blocked[t]
  /\ live' = live \ {out[t].data}
  /\ out' = [out EXCEPT ![t] = NoMsg]
  /\ blocked' = [blocked EXCEPT ![t] = FALSE]
  /\ UNCHANGED <<queue, cur, pos, todo, accepted, handled>>

-----------------------------------------------------------------------------
(* dispatcher_task *)

\* The loop of dispatcher_route_to_dest goes on from row `from' with message
\* number n: the callback of the next row is called, or the loop is over.
RouteFrom(d, msg, n, from) ==
  \E p \in from..RouteEnd :
    /\ IsNextStop(msg.topic, from, p)
    /\ pos' = [pos EXCEPT ![d] = p]
    /\ IF p = RouteEnd
       THEN /\ todo' = [todo EXCEPT ![d] = {}]
            /\ UNCHANGED handled
       ELSE /\ todo' = [todo EXCEPT ![d] = Emits[p]]
            /\ handled' = [handled EXCEPT ![p] = Append(@, n)]

\* Mutant: the descriptor is copied but stays in the queue (xQueuePeek).
ReceivePeeks(d) ==
  /\ pos[d] = 0
  /\ queue[d] # <<>>
  /\ cur' = [cur EXCEPT ![d] = Head(queue[d])]
  /\ RouteFrom(d, Head(queue[d]), Taken(d) + 1, 1)
  /\ UNCHANGED <<queue, live, out, blocked, accepted>>

\* adp_queue_receive returns the oldest descriptor and routing starts.
\* (A receive that times out changes nothing and is a stuttering step.)
Receive(d) ==
  /\ pos[d] = 0
  /\ queue[d] # <<>>
  /\ queue' = [queue EXCEPT ![d] = Tail(@)]
  /\ cur' = [cur EXCEPT ![d] = Head(queue[d])]
  /\ RouteFrom(d, Head(queue[d]), Taken(d) + 1, 1)
  /\ UNCHANGED <<live, out, blocked, accepted>>

\* Mutant: the loop ends after the first subscriber.
CallbackReturnBreaks(d) ==
  /\ pos[d] \in Slot
  /\ out[d] = NoMsg
  /\ RouteFrom(d, cur[d], Taken(d), RouteEnd)
  /\ UNCHANGED <<queue, live, out, blocked, cur, accepted>>

\* Mutant: the loop does not get past the row just called.
CallbackReturnRepeats(d) ==
  /\ pos[d] \in Slot
  /\ out[d] = NoMsg
  /\ RouteFrom(d, cur[d], Taken(d), pos[d])
  /\ UNCHANGED <<queue, live, out, blocked, cur, accepted>>

\* A callback returns; it is not inside adp_topic_publish.
CallbackReturn(d) ==
  /\ pos[d] \in Slot
  /\ out[d] = NoMsg
  /\ RouteFrom(d, cur[d], Taken(d), pos[d] + 1)
  /\ UNCHANGED <<queue, live, out, blocked, cur, accepted>>

\* All subscribers were called: the copy is freed.
Release(d) ==
  /\ pos[d] = RouteEnd
  /\ live' = live \ {cur[d].data}
  /\ cur' = [cur EXCEPT ![d] = NoMsg]
  /\ pos' = [pos EXCEPT ![d] = 0]
  /\ UNCHANGED <<queue, out, blocked, todo, accepted, handled>>

-----------------------------------------------------------------------------
Publish(t) ==
  \E topic \in Topic :
    \/ PublishRejected(t, topic)
    \/ \E data \in Buffer \cup {NULL} : PublishCopy(t, topic, data)

PutStep(t)      == QueuePut(t) \/ QueuePutBlock(t) \/ QueuePutTimeout(t)
DispatchStep(d) == Receive(d) \/ CallbackReturn(d) \/ Release(d)

Next ==
  \/ \E t \in Task : Publish(t) \/ PutStep(t)
  \/ \E d \in Dispatcher : DispatchStep(d)

\* Tasks that can run are run: every task of the applications sleeps or blocks
\* in each of its cycles, and a sleep of bounded length ends.
Fairness ==
  /\ \A t \in Task : WF_vars(PutStep(t))
  /\ \A d \in Dispatcher : WF_vars(DispatchStep(d))

Spec == Init /\ [][Next]_vars /\ Fairness

-----------------------------------------------------------------------------
(* Properties *)

\* Type invariant: the shape of every variable, and queues within max_items.
TypeOK ==
  /\ queue \in [Dispatcher -> Seq(Msg)]
  /\ \A d \in Dispatcher : Len(queue[d]) <= QueueLength
  /\ live \subseteq Buffer
  /\ out \in [Task -> Msg \cup {NoMsg}]
  /\ blocked \in [Task -> BOOLEAN]
  /\ cur \in [Dispatcher -> Msg \cup {NoMsg}]
  /\ pos \in [Dispatcher -> 0..RouteEnd]
  /\ todo \in [Dispatcher -> SUBSET Topic]
  /\ accepted \in [Dispatcher -> Seq(Topic)]
  /\ handled \in [Slot -> Seq(Nat)]

\* Who refers to a block: publish calls, entries of queues, routing tasks.
Callers(b) == {t \in Task : out[t].data = b}
Entries(b) == {e \in Dispatcher \X (1..QueueLength) :
                 e[2] <= Len(queue[e[1]]) /\ queue[e[1]][e[2]].data = b}
Routers(b) == {d \in Dispatcher : cur[d].data = b}

OneHolder(b) ==
  \/ Entries(b) = {} /\ Routers(b) = {} /\ \E t \in Task : Callers(b) = {t}
  \/ Callers(b) = {} /\ Routers(b) = {} /\ \E e \in Entries(b) : Entries(b) = {e}
  \/ Callers(b) = {} /\ Entries(b) = {} /\ \E d \in Dispatcher : Routers(b) = {d}

NoHolder(b) == Callers(b) = {} /\ Entries(b) = {} /\ Routers(b) = {}

\* The copy that adp_topic_publish makes changes hands (publish call, queue,
\* dispatcher_task) until exactly one of them frees it: an allocated block has
\* exactly one holder, so it neither leaks nor is freed twice or used by two,
\* and no descriptor refers to a freed block.
BufferOwnership ==
  \A b \in Buffer : IF b \in live THEN OneHolder(b) ELSE NoHolder(b)

\* The queue and the message being routed are the end of what was accepted.
QueueIsSuffix ==
  \A d \in Dispatcher :
    /\ Len(queue[d]) <= Len(accepted[d])
    /\ \A i \in 1..Len(queue[d]) : queue[d][i].topic = accepted[d][Taken(d) + i]
    /\ pos[d] # 0 => Taken(d) > 0 /\ cur[d].topic = accepted[d][Taken(d)]

\* Routing of message n of d has come past row s.
Reached(d, n, s) ==
  \/ n < Taken(d)
  \/ n = Taken(d) /\ (pos[d] = 0 \/ s <= pos[d])

\* The messages that row s has to have been called with by now.
Due(s) ==
  LET d == Owner[SlotTopic[s]] IN
  IF d = NULL THEN {}
  ELSE {n \in 1..Taken(d) : accepted[d][n] = SlotTopic[s] /\ Reached(d, n, s)}

Values(h)    == {h[i] : i \in 1..Len(h)}
Ascending(h) == \A i, j \in 1..Len(h) : i < j => h[i] < h[j]

\* What adp_topic_publish accepted reaches every subscriber of the topic, once,
\* in the order of acceptance, whatever publishers, full queues and callbacks
\* that publish do in between: each row was called with exactly the messages
\* due, in ascending order.
HandledOnceInOrder ==
  \A s \in Slot : Values(handled[s]) = Due(s) /\ Ascending(handled[s])

\* adp_topic_publish returns, even if the caller is the task that would have to
\* drain the full queue it puts to (a callback that publishes to its own
\* dispatcher), because the put of adp_os_queue_put is timed.
PublishReturns ==
  \A t \in Task : out[t] # NoMsg ~> out[t] = NoMsg

\* The n-th message accepted for d has been handled by every subscriber of it.
Delivered(d, n) ==
  \A s \in Slot : SlotTopic[s] = accepted[d][n] =>
                    \E i \in 1..Len(handled[s]) : handled[s][i] = n

\* A message that adp_topic_publish reported as accepted is eventually handed
\* to every subscriber of its topic.
EventuallyDelivered ==
  \A d \in Dispatcher, n \in 1..MaxAccepted :
    Len(accepted[d]) >= n ~> (Len(accepted[d]) >= n /\ Delivered(d, n))

\* What the detailed dispatcher implements: queues, heap and callbacks hidden.
Bus == INSTANCE TopicBus

\* Every behaviour of the dispatcher is one of the abstract topic bus.
RefinesTopicBus == Bus!Spec

=============================================================================
