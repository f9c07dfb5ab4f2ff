---------------------------- MODULE AdpTopicTable ----------------------------
(***************************************************************************)
(* The tables of the dispatcher (adp_dispatcher.c): dispatcher_table says  *)
(* which queue a topic goes to, subscriber_table which callbacks want it.  *)
(* No lock protects them.  A task that creates a dispatcher, registers a   *)
(* topic or subscribes looks for a free row and then fills it field by     *)
(* field; tasks of higher priority publish and route at any point between. *)
(* The fields are plain variables, so the compiler may order the stores as *)
(* it likes: they are written here in any order.  A row is never given     *)
(* back and a field is never changed once it is set, so a reader that      *)
(* takes the fields of a row one by one sees what it would have seen at    *)
(* the last of these reads: a row is read in one step.                     *)
(***************************************************************************)
EXTENDS Naturals, FiniteSets

CONSTANTS
  Writer,       \* tasks that create, register and subscribe
  Reader,       \* tasks that publish, and dispatchers that route
  Queue,        \* handles of queues
  Topic,        \* topic identifiers (not 0)
  Callback,     \* subscribers
  TableSize,    \* ADP_DISPATCHER_TABLE_SIZE
  SubTableSize, \* ADP_SUBSCRIBER_TABLE_SIZE
  NULL

ASSUME TopicTableAssumption ==
  /\ TableSize \in Nat \ {0}
  /\ SubTableSize \in Nat \ {0}
  /\ NULL \notin Queue \cup Topic \cup Callback

VARIABLES
  dispatcher_table,  \* handle and topic_id of each row, NULL for 0
  subscriber_table,  \* topic_target and dest_cb of each row, NULL for 0
  created,           \* queues created so far
  write,             \* the call a writer is in
  read,              \* the call a reader is in
  registered,        \* history: topics registered with success, and their queues
  subscribed         \* history: rows whose subscription has succeeded

vars == <<dispatcher_table, subscriber_table, created, write, read, registered, subscribed>>

-----------------------------------------------------------------------------
Row    == 1..TableSize
SubRow == 1..SubTableSize

\* d_cnt is not 0: dispatcher_add has listed a queue.
Started == \E i \in Row : dispatcher_table[i].handle # NULL

\* A writer outside the calls; in adp_dispatcher_create before dispatcher_add;
\* in adp_topic_register or adp_topic_subscribe with the row it has found, the
\* values of the fields and those it has still to write.
NoWrite == [op |-> "none"]
WriteCalls ==
  {NoWrite} \cup [op : {"create"}, handle : Queue]
    \cup [op : {"register"}, row : Row, handle : Queue, topic : Topic, left : SUBSET {"handle", "topic"}]
    \cup [op : {"subscribe"}, row : SubRow, topic : Topic, cb : Callback, left : SUBSET {"topic", "cb"}]

\* A reader outside the calls; in the loop of adp_topic_publish at `row', or
\* past it and about to put into the queue of that row; in the loop of
\* dispatcher_route_to_dest.  `due' is what had been set up when the call began.
NoRead == [op |-> "none"]
ReadCalls ==
  {NoRead} \cup [op : {"publish", "put", "rejected"}, topic : Topic, row : 1..(TableSize + 1), due : BOOLEAN]
    \cup [op : {"route"}, topic : Topic, row : 1..(SubTableSize + 1), due : SUBSET SubRow, called : SUBSET SubRow]

Init ==
  /\ dispatcher_table = [i \in Row |-> [handle |-> NULL, topic |-> NULL]]
  /\ subscriber_table = [i \in SubRow |-> [topic |-> NULL, cb |-> NULL]]
  /\ created = {}
  /\ write = [w \in Writer |-> NoWrite]
  /\ read = [r \in Reader |-> NoRead]
  /\ registered = {}
  /\ subscribed = {}

\* i is the first row among those in S.
IsFirst(i, S) == i \in S /\ \A j \in S : i <= j

-----------------------------------------------------------------------------
(* adp_dispatcher_create *)

\* Mutant: the tables are erased by every adp_dispatcher_create (d_cnt is not
\* counted up).
ClearsTables == TRUE

\* The first call erases the tables.
MustClear == ~Started

\* Mutant: the handle that adp_os_queue_create returns is not tested for NULL.
CreateQueueUnchecked(w, h) ==
  /\ write[w] = NoWrite
  /\ created' = created \cup {NULL}
  /\ write' = [write EXCEPT ![w] = [op |-> "create", handle |-> NULL]]
  /\ UNCHANGED <<dispatcher_table, subscriber_table, read, registered, subscribed>>

\* The tables are erased if need be, the queue is created and its task started.
\* (If one of them fails, an assertion stops the process.)
CreateQueue(w, h) ==
  /\ write[w] = NoWrite
  /\ h \notin created
  /\ created' = created \cup {h}
  /\ IF MustClear
     THEN /\ dispatcher_table' = [i \in Row |-> [handle |-> NULL, topic |-> NULL]]
          /\ subscriber_table' = [i \in SubRow |-> [topic |-> NULL, cb |-> NULL]]
     ELSE UNCHANGED <<dispatcher_table, subscriber_table>>
  /\ write' = [write EXCEPT ![w] = [op |-> "create", handle |-> h]]
  /\ UNCHANGED <<read, registered, subscribed>>

\* dispatcher_add: the first row without a handle, if there is one.
DispatcherAdd(w) ==
  LET unused == {i \in Row : dispatcher_table[i].handle = NULL} IN
  /\ write[w].op = "create"
  /\ IF unused # {}
     THEN \E i \in unused :
            /\ IsFirst(i, unused)
            /\ dispatcher_table' = [dispatcher_table EXCEPT ![i] = [handle |-> write[w].handle, topic |-> NULL]]
     ELSE UNCHANGED dispatcher_table
  /\ write' = [write EXCEPT ![w] = NoWrite]
  /\ UNCHANGED <<subscriber_table, created, read, registered, subscribed>>

-----------------------------------------------------------------------------
(* adp_topic_register *)

\* Mutant: the loop does not look for the topic in the rows of others.
AcceptsAny(topic, handle) == \E i \in Row : dispatcher_table[i].handle = handle

\* The handle is in the table and the topic is not.
MayRegister(topic, handle) ==
  /\ \E i \in Row : dispatcher_table[i].handle = handle
  /\ \A i \in Row : dispatcher_table[i].topic # topic

\* Rows without a topic that have no dispatcher or this one.
FreeFor(handle) ==
  {i \in Row : dispatcher_table[i].topic = NULL /\ dispatcher_table[i].handle \in {NULL, handle}}

\* The loop over the table finds the row to use.  (A call it rejects changes
\* nothing.)
RegisterFindsRow(w, h, topic) ==
  /\ write[w] = NoWrite
  /\ MayRegister(topic, h)
  /\ \E i \in FreeFor(h) :
       /\ IsFirst(i, FreeFor(h))
       /\ write' = [write EXCEPT ![w] =
            [op |-> "register", row |-> i, handle |-> h, topic |-> topic, left |-> {"handle", "topic"}]]
  /\ UNCHANGED <<dispatcher_table, subscriber_table, created, read, registered, subscribed>>

\* One of the stores to the row.
RegisterWrites(w, field) ==
  LET call == write[w] IN
  /\ call.op = "register"
  /\ field \in call.left
  /\ dispatcher_table' = [dispatcher_table EXCEPT ![call.row][field] = call[field]]
  /\ write' = [write EXCEPT ![w].left = @ \ {field}]
  /\ UNCHANGED <<subscriber_table, created, read, registered, subscribed>>

\* adp_topic_register returns ADP_RESULT_SUCCESS.
RegisterReturns(w) ==
  /\ write[w].op = "register"
  /\ write[w].left = {}
  /\ registered' = registered \cup {<<write[w].topic, write[w].handle>>}
  /\ write' = [write EXCEPT ![w] = NoWrite]
  /\ UNCHANGED <<dispatcher_table, subscriber_table, created, read, subscribed>>

-----------------------------------------------------------------------------
(* adp_topic_subscribe *)

\* Mutant: off by one, the last used row is taken for free.
SubscribeFindsUsedRow(w, topic, cb) ==
  LET free == {i \in SubRow : i = SubTableSize \/ subscriber_table[i + 1].cb = NULL} IN
  /\ write[w] = NoWrite
  /\ Started
  /\ \E i \in free :
       /\ IsFirst(i, free)
       /\ write' = [write EXCEPT ![w] =
            [op |-> "subscribe", row |-> i, topic |-> topic, cb |-> cb, left |-> {"topic", "cb"}]]
  /\ UNCHANGED <<dispatcher_table, subscriber_table, created, read, registered, subscribed>>

\* The loop finds the first row without a callback.  (With none left it changes
\* nothing.)  The applications subscribe after their first adp_dispatcher_create;
\* a subscription before it would be erased.
SubscribeFindsRow(w, topic, cb) ==
  LET free == {i \in SubRow : subscriber_table[i].cb = NULL} IN
  /\ write[w] = NoWrite
  /\ Started
  /\ \E i \in free :
       /\ IsFirst(i, free)
       /\ write' = [write EXCEPT ![w] =
            [op |-> "subscribe", row |-> i, topic |-> topic, cb |-> cb, left |-> {"topic", "cb"}]]
  /\ UNCHANGED <<dispatcher_table, subscriber_table, created, read, registered, subscribed>>

\* One of the stores to the row.
SubscribeWrites(w, field) ==
  LET call == write[w] IN
  /\ call.op = "subscribe"
  /\ field \in call.left
  /\ subscriber_table' = [subscriber_table EXCEPT ![call.row][field] = call[field]]
  /\ write' = [write EXCEPT ![w].left = @ \ {field}]
  /\ UNCHANGED <<dispatcher_table, created, read, registered, subscribed>>

\* adp_topic_subscribe returns ADP_RESULT_SUCCESS.
SubscribeReturns(w) ==
  /\ write[w].op = "subscribe"
  /\ write[w].left = {}
  /\ subscribed' = subscribed \cup {write[w].row}
  /\ write' = [write EXCEPT ![w] = NoWrite]
  /\ UNCHANGED <<dispatcher_table, subscriber_table, created, read, registered>>

-----------------------------------------------------------------------------
(* adp_topic_publish *)

PublishBegins(r, topic) ==
  /\ read[r] = NoRead
  /\ read' = [read EXCEPT ![r] =
       [op |-> "publish", topic |-> topic, row |-> 1, due |-> \E h \in Queue : <<topic, h>> \in registered]]
  /\ UNCHANGED <<dispatcher_table, subscriber_table, created, write, registered, subscribed>>

\* Mutant: a row is recognised by its topic alone.
HasTopic(row, topic) == row.topic = topic

\* The row is the one of the topic.
RowMatches(row, topic) == row.handle # NULL /\ row.topic = topic

\* One round of the loop.
PublishLooks(r) ==
  LET call == read[r] IN
  /\ call.op = "publish"
  /\ IF call.row > TableSize
     THEN read' = [read EXCEPT ![r].op = "rejected"]
     ELSE IF RowMatches(dispatcher_table[call.row], call.topic)
          THEN read' = [read EXCEPT ![r].op = "put"]
          ELSE read' = [read EXCEPT ![r].row = @ + 1]
  /\ UNCHANGED <<dispatcher_table, subscriber_table, created, write, registered, subscribed>>

\* The queue a reader puts to: the handle is read again after the copy is made.
Target(r) == dispatcher_table[read[r].row].handle

\* adp_os_queue_put is called, or the topic is reported as not registered.
PublishReturns(r) ==
  /\ read[r].op \in {"put", "rejected"}
  /\ read' = [read EXCEPT ![r] = NoRead]
  /\ UNCHANGED <<dispatcher_table, subscriber_table, created, write, registered, subscribed>>

-----------------------------------------------------------------------------
(* dispatcher_route_to_dest *)

RouteBegins(r, topic) ==
  /\ read[r] = NoRead
  /\ read' = [read EXCEPT ![r] =
       [op |-> "route", topic |-> topic, row |-> 1, called |-> {},
        due |-> {i \in subscribed : subscriber_table[i].topic = topic}]]
  /\ UNCHANGED <<dispatcher_table, subscriber_table, created, write, registered, subscribed>>

\* One round of the loop: the callback is called if the row wants the topic.
RouteLooks(r) ==
  LET call == read[r]
      row  == subscriber_table[call.row]
  IN
  /\ call.op = "route"
  /\ call.row <= SubTableSize
  /\ read' = [read EXCEPT ![r].row = @ + 1,
                          ![r].called = IF row.cb # NULL /\ row.topic = call.topic THEN @ \cup {call.row} ELSE @]
  /\ UNCHANGED <<dispatcher_table, subscriber_table, created, write, registered, subscribed>>

RouteReturns(r) ==
  /\ read[r].op = "route"
  /\ read[r].row > SubTableSize
  /\ read' = [read EXCEPT ![r] = NoRead]
  /\ UNCHANGED <<dispatcher_table, subscriber_table, created, write, registered, subscribed>>

-----------------------------------------------------------------------------
WriterStep(w) ==
  \/ \E h \in Queue : CreateQueue(w, h)
  \/ DispatcherAdd(w)
  \/ \E h \in Queue, topic \in Topic : RegisterFindsRow(w, h, topic)
  \/ \E field \in {"handle", "topic"} : RegisterWrites(w, field)
  \/ RegisterReturns(w)
  \/ \E topic \in Topic, cb \in Callback : SubscribeFindsRow(w, topic, cb)
  \/ \E field \in {"topic", "cb"} : SubscribeWrites(w, field)
  \/ SubscribeReturns(w)

ReaderStep(r) ==
  \/ \E topic \in Topic : PublishBegins(r, topic) \/ RouteBegins(r, topic)
  \/ PublishLooks(r) \/ PublishReturns(r)
  \/ RouteLooks(r) \/ RouteReturns(r)

Next == (\E w \in Writer : WriterStep(w)) \/ (\E r \in Reader : ReaderStep(r))

Spec == Init /\ [][Next]_vars

-----------------------------------------------------------------------------
(* Properties *)

\* Type invariant: the shape of the tables and of the calls in progress.
TypeOK ==
  /\ dispatcher_table \in [Row -> [handle : Queue \cup {NULL}, topic : Topic \cup {NULL}]]
  /\ subscriber_table \in [SubRow -> [topic : Topic \cup {NULL}, cb : Callback \cup {NULL}]]
  /\ created \subseteq Queue
  /\ write \in [Writer -> WriteCalls]
  /\ read \in [Reader -> ReadCalls]
  /\ registered \subseteq Topic \X Queue
  /\ subscribed \subseteq SubRow

\* Registrations that have begun to fill their row.
Registering ==
  {<<write[w].topic, write[w].handle>> : w \in {v \in Writer : write[v].op = "register"}}

\* A publish call that passes the tests of the loop puts into the queue the topic
\* was registered for, not into the NULL handle of a row that adp_topic_register
\* has half filled.
PutsGoHome ==
  \A r \in Reader : read[r].op = "put" => <<read[r].topic, Target(r)>> \in registered \cup Registering

\* Once adp_topic_register has returned success, adp_topic_publish finds the
\* topic, although other rows are being written while it looks.
RegisteredIsFound ==
  \A r \in Reader : read[r].op = "rejected" => ~read[r].due

\* A topic has one row, so that all its messages go through one queue.
OneRowPerTopic ==
  \A i, j \in Row : dispatcher_table[i].topic = dispatcher_table[j].topic /\ i # j
                      => dispatcher_table[i].topic = NULL

\* When routing is over, every subscriber whose subscription had succeeded
\* before it began was called, and nobody else but those that were subscribing
\* to this topic meanwhile.
RouteServesSubscribers ==
  \A r \in Reader : read[r].op = "route" /\ read[r].row > SubTableSize =>
    /\ read[r].due \subseteq read[r].called
    /\ \A i \in read[r].called : subscriber_table[i].topic = read[r].topic

\* Rows are taken up for good: what a successful call has set stays.
RowsAreFinal ==
  [][/\ \A i \in Row : LET row == dispatcher_table[i] IN
          row.handle # NULL /\ row.topic # NULL => dispatcher_table'[i] = row
     /\ \A i \in subscribed : subscriber_table'[i] = subscriber_table[i]]_vars

=============================================================================
