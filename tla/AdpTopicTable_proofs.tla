------------------------ MODULE AdpTopicTable_proofs ------------------------
(***************************************************************************)
(* Theorems about the tables of the dispatcher, for any number of readers, *)
(* queues, topics, callbacks and rows.                                     *)
(***************************************************************************)
EXTENDS AdpTopicTable, TLAPS

\* The condition under which the tables need no lock: no two tasks write at once.
OneWriter == \A v, w \in Writer : v = w

-----------------------------------------------------------------------------
(* The inductive invariant *)

Complete(row) == row.handle # NULL /\ row.topic # NULL

\* Before the first dispatcher is listed the tables are blank, so that erasing
\* them changes nothing.
BlankUntilStarted ==
  ~Started => /\ \A i \in Row : dispatcher_table[i] = [handle |-> NULL, topic |-> NULL]
              /\ \A i \in SubRow : subscriber_table[i] = [topic |-> NULL, cb |-> NULL]

\* A row that is being registered holds what was stored to it, and otherwise what
\* it held when it was found; no other row has the topic.
RegisterInv(call) ==
  /\ Started
  /\ LET row == dispatcher_table[call.row] IN
       /\ IF "handle" \in call.left THEN row.handle \in {NULL, call.handle} ELSE row.handle = call.handle
       /\ IF "topic" \in call.left THEN row.topic = NULL ELSE row.topic = call.topic
  /\ \A j \in Row : j # call.row => dispatcher_table[j].topic # call.topic

\* A row that is being subscribed to likewise.
SubscribeInv(call) ==
  /\ Started
  /\ call.row \notin subscribed
  /\ LET row == subscriber_table[call.row] IN
       /\ IF "cb" \in call.left THEN row.cb = NULL ELSE row.cb = call.cb
       /\ IF "topic" \in call.left THEN row.topic = NULL ELSE row.topic = call.topic

WriteInv ==
  \A w \in Writer :
    /\ write[w].op = "register" => RegisterInv(write[w])
    /\ write[w].op = "subscribe" => SubscribeInv(write[w])

\* A topic without a queue, or a topic without a callback, is only found in the row
\* of a call in progress.
HalfRows ==
  /\ \A i \in Row :
       dispatcher_table[i].topic # NULL /\ dispatcher_table[i].handle = NULL
         => \E w \in Writer : write[w].op = "register" /\ write[w].row = i
  /\ \A i \in SubRow :
       subscriber_table[i].topic # NULL /\ subscriber_table[i].cb = NULL
         => \E w \in Writer : write[w].op = "subscribe" /\ write[w].row = i

\* The table holds what was registered, and nothing else but what is being
\* registered.
TableIsRegistered ==
  /\ \A i \in Row : LET row == dispatcher_table[i] IN
       Complete(row) => <<row.topic, row.handle>> \in registered \cup Registering
  /\ \A topic \in Topic, h \in Queue : <<topic, h>> \in registered =>
       \E i \in Row : dispatcher_table[i].topic = topic /\ dispatcher_table[i].handle = h

SubscribedRows ==
  \A i \in subscribed : subscriber_table[i].topic # NULL /\ subscriber_table[i].cb # NULL

TableInv ==
  /\ TypeOK
  /\ BlankUntilStarted
  /\ WriteInv
  /\ HalfRows
  /\ OneRowPerTopic
  /\ TableIsRegistered
  /\ SubscribedRows

\* What a reader in the loop of adp_topic_publish may rely on: a topic that was
\* registered when the call began is in this row or behind it; a row it has chosen
\* is the one of the topic.
PublishInv(call) ==
  /\ call.op = "publish" /\ call.due =>
       \E i \in Row : /\ i >= call.row
                      /\ dispatcher_table[i].topic = call.topic
                      /\ dispatcher_table[i].handle # NULL
  /\ call.op = "put" =>
       /\ call.row \in Row
       /\ dispatcher_table[call.row].topic = call.topic
       /\ dispatcher_table[call.row].handle # NULL
  /\ call.op = "rejected" => ~call.due

\* What a reader in the loop of dispatcher_route_to_dest may rely on.
RouteInv(call) ==
  call.op = "route" =>
    /\ \A i \in call.due : /\ i \in subscribed /\ subscriber_table[i].topic = call.topic
                           /\ i < call.row => i \in call.called
    /\ \A i \in call.called : subscriber_table[i].topic = call.topic

ReadInv == \A r \in Reader : PublishInv(read[r]) /\ RouteInv(read[r])

Inv == TableInv /\ ReadInv

-----------------------------------------------------------------------------
(* Types *)

RegisterCalls ==
  [op : {"register"}, row : Row, handle : Queue, topic : Topic, left : SUBSET {"handle", "topic"}]
SubscribeCalls ==
  [op : {"subscribe"}, row : SubRow, topic : Topic, cb : Callback, left : SUBSET {"topic", "cb"}]
PublishCalls ==
  [op : {"publish", "put", "rejected"}, topic : Topic, row : 1..(TableSize + 1), due : BOOLEAN]
RouteCalls ==
  [op : {"route"}, topic : Topic, row : 1..(SubTableSize + 1), due : SUBSET SubRow, called : SUBSET SubRow]

LEMMA WriteCallTypes ==
  ASSUME NEW c \in WriteCalls
  PROVE  /\ c.op = "create" => c = [op |-> "create", handle |-> c.handle] /\ c.handle \in Queue
         /\ c.op = "register" => c \in RegisterCalls
         /\ c.op = "subscribe" => c \in SubscribeCalls
  BY DEF WriteCalls, NoWrite, RegisterCalls, SubscribeCalls

LEMMA ReadCallTypes ==
  ASSUME NEW c \in ReadCalls
  PROVE  /\ c.op \in {"publish", "put", "rejected"} => c \in PublishCalls
         /\ c.op = "route" => c \in RouteCalls
  BY DEF ReadCalls, NoRead, PublishCalls, RouteCalls

LEMMA CallsIncluded ==
  /\ RegisterCalls \cup SubscribeCalls \subseteq WriteCalls
  /\ PublishCalls \cup RouteCalls \subseteq ReadCalls
  BY DEF WriteCalls, ReadCalls, RegisterCalls, SubscribeCalls, PublishCalls, RouteCalls

\* What the stores and the rounds of the loops make of a call.
LEMMA RegisterGoesOn ==
  ASSUME NEW c \in RegisterCalls, NEW left \in SUBSET {"handle", "topic"}
  PROVE  [c EXCEPT !.left = left] \in RegisterCalls
  BY DEF RegisterCalls

LEMMA SubscribeGoesOn ==
  ASSUME NEW c \in SubscribeCalls, NEW left \in SUBSET {"topic", "cb"}
  PROVE  [c EXCEPT !.left = left] \in SubscribeCalls
  BY DEF SubscribeCalls

LEMMA PublishGoesOn ==
  ASSUME NEW c \in PublishCalls
  PROVE  /\ \A op \in {"put", "rejected"} : [c EXCEPT !.op = op] \in PublishCalls
         /\ c.row <= TableSize => [c EXCEPT !.row = c.row + 1] \in PublishCalls
  BY TopicTableAssumption DEF PublishCalls

LEMMA RouteGoesOn ==
  ASSUME NEW c \in RouteCalls, c.row <= SubTableSize, NEW called \in SUBSET SubRow
  PROVE  [c EXCEPT !.row = c.row + 1, !.called = called] \in RouteCalls
<1>1. ASSUME NEW row \in 1..(SubTableSize + 1) PROVE [c EXCEPT !.row = row] \in RouteCalls
  BY DEF RouteCalls
<1>2. ASSUME NEW d \in RouteCalls PROVE [d EXCEPT !.called = called] \in RouteCalls
  BY DEF RouteCalls
<1>3. c.row + 1 \in 1..(SubTableSize + 1)
  BY TopicTableAssumption DEF RouteCalls
<1> QED
  BY <1>1, <1>2, <1>3

LEMMA InitType == Init => TypeOK
  BY DEF Init, TypeOK, WriteCalls, ReadCalls

LEMMA WriterType ==
  ASSUME TypeOK, NEW w \in Writer, WriterStep(w)
  PROVE  TypeOK'
<1>1. ASSUME NEW h \in Queue, CreateQueue(w, h) PROVE TypeOK'
  BY <1>1 DEF CreateQueue, TypeOK, WriteCalls
<1>2. CASE DispatcherAdd(w)
  <2>1. write[w].handle \in Queue
    BY <1>2, WriteCallTypes DEF DispatcherAdd, TypeOK
  <2>2. write' \in [Writer -> WriteCalls]
    BY <1>2 DEF DispatcherAdd, TypeOK, WriteCalls
  <2>3. \/ UNCHANGED dispatcher_table
        \/ \E i \in Row : dispatcher_table' =
             [dispatcher_table EXCEPT ![i] = [handle |-> write[w].handle, topic |-> NULL]]
    BY <1>2 DEF DispatcherAdd
  <2>4. dispatcher_table' \in [Row -> [handle : Queue \cup {NULL}, topic : Topic \cup {NULL}]]
    BY <2>1, <2>3 DEF TypeOK
  <2> QED
    BY <1>2, <2>2, <2>4 DEF DispatcherAdd, TypeOK
<1>3. ASSUME NEW h \in Queue, NEW topic \in Topic, RegisterFindsRow(w, h, topic) PROVE TypeOK'
  BY <1>3 DEF RegisterFindsRow, FreeFor, TypeOK, WriteCalls
<1>4. ASSUME NEW field \in {"handle", "topic"}, RegisterWrites(w, field) PROVE TypeOK'
  <2> DEFINE left == write[w].left \ {field}
  <2>1. write[w] \in RegisterCalls
    BY <1>4, WriteCallTypes DEF RegisterWrites, TypeOK
  <2>2. left \in SUBSET {"handle", "topic"}
    BY <2>1 DEF RegisterCalls
  <2>3. [write[w] EXCEPT !.left = left] \in WriteCalls
    BY <2>1, <2>2, RegisterGoesOn, CallsIncluded
  <2>4. write' \in [Writer -> WriteCalls]
    BY <1>4, <2>3 DEF RegisterWrites, TypeOK
  <2>5. dispatcher_table' \in [Row -> [handle : Queue \cup {NULL}, topic : Topic \cup {NULL}]]
    BY <1>4, <2>1 DEF RegisterWrites, TypeOK, RegisterCalls
  <2> QED
    BY <1>4, <2>4, <2>5 DEF RegisterWrites, TypeOK
<1>5. CASE RegisterReturns(w)
  <2>1. write[w].topic \in Topic /\ write[w].handle \in Queue
    BY <1>5, WriteCallTypes DEF RegisterReturns, TypeOK, RegisterCalls
  <2> QED
    BY <1>5, <2>1 DEF RegisterReturns, TypeOK, WriteCalls
<1>6. ASSUME NEW topic \in Topic, NEW cb \in Callback, SubscribeFindsRow(w, topic, cb) PROVE TypeOK'
  BY <1>6 DEF SubscribeFindsRow, TypeOK, WriteCalls
<1>7. ASSUME NEW field \in {"topic", "cb"}, SubscribeWrites(w, field) PROVE TypeOK'
  <2> DEFINE left == write[w].left \ {field}
  <2>1. write[w] \in SubscribeCalls
    BY <1>7, WriteCallTypes DEF SubscribeWrites, TypeOK
  <2>2. left \in SUBSET {"topic", "cb"}
    BY <2>1 DEF SubscribeCalls
  <2>3. [write[w] EXCEPT !.left = left] \in WriteCalls
    BY <2>1, <2>2, SubscribeGoesOn, CallsIncluded
  <2>4. write' \in [Writer -> WriteCalls]
    BY <1>7, <2>3 DEF SubscribeWrites, TypeOK
  <2>5. subscriber_table' \in [SubRow -> [topic : Topic \cup {NULL}, cb : Callback \cup {NULL}]]
    BY <1>7, <2>1 DEF SubscribeWrites, TypeOK, SubscribeCalls
  <2> QED
    BY <1>7, <2>4, <2>5 DEF SubscribeWrites, TypeOK
<1>8. CASE SubscribeReturns(w)
  <2>1. write[w].row \in SubRow
    BY <1>8, WriteCallTypes DEF SubscribeReturns, TypeOK, SubscribeCalls
  <2> QED
    BY <1>8, <2>1 DEF SubscribeReturns, TypeOK, WriteCalls
<1> QED
  BY <1>1, <1>2, <1>3, <1>4, <1>5, <1>6, <1>7, <1>8 DEF WriterStep

LEMMA ReaderType ==
  ASSUME TypeOK, NEW r \in Reader, ReaderStep(r)
  PROVE  TypeOK'
<1> USE TopicTableAssumption
<1>1. ASSUME NEW topic \in Topic, PublishBegins(r, topic) PROVE TypeOK'
  BY <1>1 DEF PublishBegins, TypeOK, ReadCalls
<1>2. ASSUME NEW topic \in Topic, RouteBegins(r, topic) PROVE TypeOK'
  BY <1>2 DEF RouteBegins, TypeOK, ReadCalls
<1>3. CASE PublishLooks(r)
  <2>1. read[r] \in PublishCalls
    BY <1>3, ReadCallTypes DEF PublishLooks, TypeOK
  <2>2. /\ [read[r] EXCEPT !.op = "rejected"] \in ReadCalls
        /\ [read[r] EXCEPT !.op = "put"] \in ReadCalls
        /\ read[r].row <= TableSize => [read[r] EXCEPT !.row = read[r].row + 1] \in ReadCalls
    BY <2>1, PublishGoesOn, CallsIncluded
  <2>3. read[r].row > TableSize \/ read[r].row <= TableSize
    BY <2>1 DEF PublishCalls
  <2>4. \E c \in ReadCalls : read' = [read EXCEPT ![r] = c]
    BY <1>3, <2>2, <2>3 DEF PublishLooks, TypeOK
  <2> QED
    BY <1>3, <2>4 DEF PublishLooks, TypeOK
<1>4. CASE PublishReturns(r)
  BY <1>4 DEF PublishReturns, TypeOK, ReadCalls
<1>5. CASE RouteLooks(r)
  <2> DEFINE row == subscriber_table[read[r].row]
             called == IF row.cb # NULL /\ row.topic = read[r].topic
                       THEN read[r].called \cup {read[r].row} ELSE read[r].called
  <2>1. read[r] \in RouteCalls
    BY <1>5, ReadCallTypes DEF RouteLooks, TypeOK
  <2>2. called \in SUBSET SubRow
    BY <1>5, <2>1 DEF RouteLooks, RouteCalls, SubRow
  <2>3. [read[r] EXCEPT !.row = read[r].row + 1, !.called = called] \in ReadCalls
    BY <1>5, <2>1, <2>2, RouteGoesOn, CallsIncluded DEF RouteLooks
  <2>4. read' = [read EXCEPT ![r] = [read[r] EXCEPT !.row = read[r].row + 1, !.called = called]]
    BY <1>5 DEF RouteLooks, TypeOK
  <2> QED
    BY <1>5, <2>3, <2>4 DEF RouteLooks, TypeOK
<1>6. CASE RouteReturns(r)
  BY <1>6 DEF RouteReturns, TypeOK, ReadCalls
<1> QED
  BY <1>1, <1>2, <1>3, <1>4, <1>5, <1>6 DEF ReaderStep

\* Tables and calls have their types, with any number of writers.
THEOREM TypeCorrect == Spec => []TypeOK
<1>1. TypeOK /\ [Next]_vars => TypeOK'
  <2> SUFFICES ASSUME TypeOK, [Next]_vars PROVE TypeOK'
    OBVIOUS
  <2>1. CASE UNCHANGED vars
    BY <2>1 DEF vars, TypeOK
  <2> QED
    BY <2>1, WriterType, ReaderType DEF Next
<1> QED
  BY InitType, <1>1, PTL DEF Spec

-----------------------------------------------------------------------------
(* The steps of the writer *)

\* What no step of a writer takes back.
Grows ==
  /\ \A i \in Row : Complete(dispatcher_table[i]) => dispatcher_table'[i] = dispatcher_table[i]
  /\ \A i \in SubRow :
       subscriber_table[i].topic # NULL => subscriber_table'[i].topic = subscriber_table[i].topic
  /\ \A i \in subscribed : subscriber_table'[i] = subscriber_table[i]
  /\ subscribed \subseteq subscribed'

LEMMA RegisteringOfOne ==
  ASSUME OneWriter, NEW w \in Writer
  PROVE  /\ Registering = IF write[w].op = "register" THEN {<<write[w].topic, write[w].handle>>} ELSE {}
         /\ Registering' = IF write'[w].op = "register" THEN {<<write'[w].topic, write'[w].handle>>} ELSE {}
  BY DEF OneWriter, Registering

LEMMA InitTable == Init => TableInv
<1> SUFFICES ASSUME Init PROVE TableInv
  OBVIOUS
<1>1. Registering = {}
  BY DEF Init, Registering, NoWrite
<1> QED
  BY <1>1, InitType
  DEF Init, TableInv, BlankUntilStarted, WriteInv, HalfRows, OneRowPerTopic, TableIsRegistered,
      SubscribedRows, Complete, NoWrite

LEMMA CreateQueueKeeps ==
  ASSUME OneWriter, TableInv, NEW w \in Writer, NEW h \in Queue, CreateQueue(w, h)
  PROVE  TableInv' /\ Grows
<1>1. TypeOK'
  BY WriterType DEF TableInv, WriterStep
<1>2. write[w].op = "none" /\ write'[w] = [op |-> "create", handle |-> h]
  BY DEF CreateQueue, TableInv, TypeOK, NoWrite
<1>3. UNCHANGED <<dispatcher_table, subscriber_table>>
  <2>1. CASE MustClear
    <3>1. \A i \in Row : dispatcher_table[i] = dispatcher_table'[i]
      BY <2>1 DEF CreateQueue, MustClear, TableInv, BlankUntilStarted
    <3>2. \A i \in SubRow : subscriber_table[i] = subscriber_table'[i]
      BY <2>1 DEF CreateQueue, MustClear, TableInv, BlankUntilStarted
    <3>3. UNCHANGED dispatcher_table
      BY <3>1, <1>1 DEF TableInv, TypeOK
    <3>4. UNCHANGED subscriber_table
      BY <3>2, <1>1 DEF TableInv, TypeOK
    <3> QED
      BY <3>3, <3>4
  <2>2. CASE ~MustClear
    BY <2>2 DEF CreateQueue
  <2> QED
    BY <2>1, <2>2
<1>4. Registering' = Registering
  <2>1. Registering = {}
    BY <1>2, RegisteringOfOne
  <2>2. Registering' = {}
    BY <1>2, RegisteringOfOne
  <2> QED
    BY <2>1, <2>2
<1>5. UNCHANGED <<registered, subscribed>>
  BY DEF CreateQueue
<1>6. BlankUntilStarted' /\ OneRowPerTopic' /\ SubscribedRows'
  BY <1>3, <1>5 DEF TableInv, BlankUntilStarted, Started, OneRowPerTopic, SubscribedRows
<1>7. TableIsRegistered'
  BY <1>3, <1>4, <1>5 DEF TableInv, TableIsRegistered, Complete
<1>8. WriteInv'
  BY <1>2 DEF OneWriter, WriteInv
<1>9. HalfRows'
  BY <1>2, <1>3 DEF OneWriter, TableInv, HalfRows
<1> QED
  BY <1>1, <1>3, <1>5, <1>6, <1>7, <1>8, <1>9 DEF TableInv, Grows

LEMMA DispatcherAddKeeps ==
  ASSUME OneWriter, TableInv, NEW w \in Writer, DispatcherAdd(w)
  PROVE  TableInv' /\ Grows
<1>1. TypeOK'
  BY WriterType DEF TableInv, WriterStep
<1>2. /\ write[w].op = "create" /\ write[w].handle \in Queue
      /\ write'[w].op = "none"
  BY WriteCallTypes DEF DispatcherAdd, TableInv, TypeOK, NoWrite
<1>3. UNCHANGED <<subscriber_table, registered, subscribed>> /\ Registering' = Registering
  BY <1>2, RegisteringOfOne DEF DispatcherAdd
<1>4. \A i \in Row : dispatcher_table[i].handle = NULL => dispatcher_table[i].topic = NULL
  BY <1>2 DEF OneWriter, TableInv, HalfRows
<1>5. CASE UNCHANGED dispatcher_table
  <2>1. BlankUntilStarted' /\ OneRowPerTopic' /\ SubscribedRows'
    BY <1>3, <1>5 DEF TableInv, BlankUntilStarted, Started, OneRowPerTopic, SubscribedRows
  <2>2. TableIsRegistered'
    BY <1>3, <1>5 DEF TableInv, TableIsRegistered, Complete
  <2>3. WriteInv' /\ HalfRows'
    BY <1>2, <1>3, <1>5 DEF OneWriter, TableInv, WriteInv, HalfRows
  <2> QED
    BY <1>1, <1>3, <1>5, <2>1, <2>2, <2>3 DEF TableInv, Grows
<1>6. ASSUME NEW i \in Row, dispatcher_table[i].handle = NULL,
             dispatcher_table' = [dispatcher_table EXCEPT ![i] = [handle |-> write[w].handle, topic |-> NULL]]
      PROVE  TableInv' /\ Grows
  <2>1. /\ dispatcher_table'[i].handle = write[w].handle
        /\ dispatcher_table'[i].topic = NULL
        /\ \A j \in Row : j # i => dispatcher_table'[j] = dispatcher_table[j]
        /\ dispatcher_table[i].topic = NULL
    BY <1>4, <1>6 DEF TableInv, TypeOK
  <2>2. write[w].handle # NULL
    BY <1>2, TopicTableAssumption
  <2>3. \A j \in Row : dispatcher_table'[j].topic = dispatcher_table[j].topic
    BY <2>1
  <2>4. Started'
    BY <2>1, <2>2 DEF Started
  <2>5. OneRowPerTopic'
    BY <2>3 DEF TableInv, OneRowPerTopic
  <2>6. TableIsRegistered'
    <3>1. \A j \in Row : Complete(dispatcher_table'[j]) => j # i
      BY <2>1 DEF Complete
    <3>2. ASSUME NEW topic \in Topic, NEW h \in Queue, <<topic, h>> \in registered
          PROVE  \E j \in Row : dispatcher_table'[j].topic = topic /\ dispatcher_table'[j].handle = h
      <4>1. PICK j \in Row : dispatcher_table[j].topic = topic /\ dispatcher_table[j].handle = h
        BY <3>2 DEF TableInv, TableIsRegistered
      <4>2. j # i
        BY <4>1, <1>6, TopicTableAssumption
      <4> QED
        BY <4>1, <4>2, <2>1
    <3> QED
      BY <1>3, <2>1, <3>1, <3>2 DEF TableInv, TableIsRegistered
  <2>7. WriteInv' /\ HalfRows'
    <3>1. \A j \in Row : dispatcher_table'[j].handle = NULL => dispatcher_table'[j].topic = NULL
      BY <1>4, <2>1
    <3>2. \A j \in SubRow : subscriber_table[j].cb = NULL => subscriber_table[j].topic = NULL
      BY <1>2 DEF OneWriter, TableInv, HalfRows
    <3> QED
      BY <1>2, <1>3, <3>1, <3>2 DEF OneWriter, WriteInv, HalfRows
  <2>8. Grows
    BY <1>3, <1>6, <2>1 DEF Grows, Complete
  <2> QED
    BY <1>1, <1>3, <2>4, <2>5, <2>6, <2>7, <2>8 DEF TableInv, BlankUntilStarted, SubscribedRows
<1> QED
  BY <1>5, <1>6 DEF DispatcherAdd

LEMMA RegisterFindsRowKeeps ==
  ASSUME OneWriter, TableInv, NEW w \in Writer, NEW h \in Queue, NEW topic \in Topic,
         RegisterFindsRow(w, h, topic)
  PROVE  TableInv' /\ Grows
<1>1. TypeOK'
  BY WriterType DEF TableInv, WriterStep
<1>2. UNCHANGED <<dispatcher_table, subscriber_table, registered, subscribed>>
  BY DEF RegisterFindsRow
<1>3. PICK i \in FreeFor(h) : write'[w] =
        [op |-> "register", row |-> i, handle |-> h, topic |-> topic, left |-> {"handle", "topic"}]
  BY DEF RegisterFindsRow, TableInv, TypeOK
<1>4. write[w].op = "none"
  BY DEF RegisterFindsRow, NoWrite
<1>5. /\ i \in Row
      /\ dispatcher_table[i].topic = NULL /\ dispatcher_table[i].handle \in {NULL, h}
  BY DEF FreeFor
<1>6. Started /\ (\A j \in Row : dispatcher_table[j].topic # topic)
  BY TopicTableAssumption DEF RegisterFindsRow, MayRegister, Started
<1>7. BlankUntilStarted' /\ OneRowPerTopic' /\ SubscribedRows'
  BY <1>2 DEF TableInv, BlankUntilStarted, Started, OneRowPerTopic, SubscribedRows
<1>8. WriteInv'
  <2>1. RegisterInv(write[w])'
    BY <1>2, <1>3, <1>5, <1>6 DEF RegisterInv, Started
  <2> QED
    BY <2>1, <1>3 DEF OneWriter, WriteInv
<1>9. HalfRows'
  BY <1>2, <1>4 DEF OneWriter, TableInv, HalfRows
<1>10. TableIsRegistered'
  <2>1. Registering = {}
    BY <1>4, RegisteringOfOne
  <2> QED
    BY <2>1, <1>2 DEF TableInv, TableIsRegistered, Complete
<1> QED
  BY <1>1, <1>2, <1>7, <1>8, <1>9, <1>10 DEF TableInv, Grows

\* What one store of adp_topic_register does to the table and to the call.
LEMMA RegisterStores ==
  ASSUME TypeOK, NEW w \in Writer, NEW field \in {"handle", "topic"}, RegisterWrites(w, field)
  PROVE  LET call == write[w] IN
         /\ call \in RegisterCalls
         /\ \A i \in Row : i # call.row => dispatcher_table'[i] = dispatcher_table[i]
         /\ dispatcher_table'[call.row].handle =
              IF field = "handle" THEN call.handle ELSE dispatcher_table[call.row].handle
         /\ dispatcher_table'[call.row].topic =
              IF field = "topic" THEN call.topic ELSE dispatcher_table[call.row].topic
         /\ write'[w].op = "register" /\ write'[w].row = call.row
         /\ write'[w].handle = call.handle /\ write'[w].topic = call.topic
         /\ write'[w].left = call.left \ {field}
         /\ field \in call.left
         /\ UNCHANGED <<subscriber_table, registered, subscribed>>
<1>1. write[w] \in RegisterCalls
  BY WriteCallTypes DEF RegisterWrites, TypeOK
<1>2. /\ field \in write[w].left
      /\ dispatcher_table' = [dispatcher_table EXCEPT ![write[w].row][field] = write[w][field]]
      /\ write' = [write EXCEPT ![w].left = @ \ {field}]
      /\ UNCHANGED <<subscriber_table, registered, subscribed>>
  BY DEF RegisterWrites
<1>3. write[w].row \in Row
  BY <1>1 DEF RegisterCalls
<1>4. write'[w] = [write[w] EXCEPT !.left = write[w].left \ {field}]
  BY <1>2 DEF TypeOK
<1>5. /\ write'[w].op = "register" /\ write'[w].row = write[w].row
      /\ write'[w].handle = write[w].handle /\ write'[w].topic = write[w].topic
      /\ write'[w].left = write[w].left \ {field}
  BY <1>1, <1>4 DEF RegisterCalls
<1>6. /\ \A i \in Row : i # write[w].row => dispatcher_table'[i] = dispatcher_table[i]
      /\ dispatcher_table'[write[w].row] = [dispatcher_table[write[w].row] EXCEPT ![field] = write[w][field]]
  BY <1>2, <1>3 DEF TypeOK
<1>7. /\ dispatcher_table'[write[w].row].handle =
           IF field = "handle" THEN write[w].handle ELSE dispatcher_table[write[w].row].handle
      /\ dispatcher_table'[write[w].row].topic =
           IF field = "topic" THEN write[w].topic ELSE dispatcher_table[write[w].row].topic
  BY <1>3, <1>6 DEF TypeOK
<1> QED
  BY <1>1, <1>2, <1>5, <1>6, <1>7

LEMMA RegisterWritesKeeps ==
  ASSUME OneWriter, TableInv, NEW w \in Writer, NEW field \in {"handle", "topic"}, RegisterWrites(w, field)
  PROVE  TableInv' /\ Grows
<1> DEFINE call == write[w]
           row  == dispatcher_table[call.row]
<1>1. TypeOK'
  BY WriterType DEF TableInv, WriterStep
<1>2. /\ \A i \in Row : i # call.row => dispatcher_table'[i] = dispatcher_table[i]
      /\ dispatcher_table'[call.row].handle = IF field = "handle" THEN call.handle ELSE row.handle
      /\ dispatcher_table'[call.row].topic = IF field = "topic" THEN call.topic ELSE row.topic
      /\ UNCHANGED <<subscriber_table, registered, subscribed>>
  BY RegisterStores DEF TableInv
<1>3. /\ write'[w].op = "register" /\ write'[w].row = call.row
      /\ write'[w].handle = call.handle /\ write'[w].topic = call.topic
      /\ write'[w].left = call.left \ {field}
      /\ field \in call.left
  BY RegisterStores DEF TableInv
<1>4. call.op = "register" /\ call.row \in Row /\ call.handle \in Queue /\ call.topic \in Topic
  BY RegisterStores DEF TableInv, RegisterCalls
<1>5. call.handle # NULL /\ call.topic # NULL
  BY <1>4, TopicTableAssumption
<1>6. RegisterInv(call)
  BY <1>4 DEF TableInv, WriteInv
<1>7. /\ row.handle \in {NULL, call.handle} /\ row.topic \in {NULL, call.topic}
      /\ \A j \in Row : j # call.row => dispatcher_table[j].topic # call.topic
      /\ field = "topic" => row.topic = NULL
  BY <1>3, <1>6 DEF RegisterInv
<1>8. Complete(row) => dispatcher_table'[call.row] = row
  <2> SUFFICES ASSUME Complete(row) PROVE dispatcher_table'[call.row] = row
    OBVIOUS
  <2>1. dispatcher_table'[call.row].handle = row.handle /\ dispatcher_table'[call.row].topic = row.topic
    BY <1>2, <1>7 DEF Complete
  <2>2. /\ row \in [handle : Queue \cup {NULL}, topic : Topic \cup {NULL}]
        /\ dispatcher_table'[call.row] \in [handle : Queue \cup {NULL}, topic : Topic \cup {NULL}]
    BY <1>1, <1>4 DEF TableInv, TypeOK
  <2> QED
    BY <2>1, <2>2
<1>9. \A i \in Row : Complete(dispatcher_table[i]) => dispatcher_table'[i] = dispatcher_table[i]
  BY <1>2, <1>8
<1>10. Started'
  <2>1. PICK j \in Row : dispatcher_table[j].handle # NULL
    BY <1>6 DEF RegisterInv, Started
  <2>2. dispatcher_table'[j].handle # NULL
    BY <1>2, <1>5, <2>1
  <2> QED
    BY <2>2 DEF Started
<1>11. WriteInv'
  <2>1. RegisterInv(write[w])'
    BY <1>2, <1>3, <1>6, <1>7, <1>10 DEF RegisterInv
  <2> QED
    BY <2>1, <1>3 DEF OneWriter, WriteInv
<1>12. HalfRows'
  <2>1. \A j \in Row : j # call.row /\ dispatcher_table[j].topic # NULL => dispatcher_table[j].handle # NULL
    BY <1>4 DEF OneWriter, TableInv, HalfRows
  <2>2. \A j \in SubRow : subscriber_table[j].topic # NULL => subscriber_table[j].cb # NULL
    BY <1>4 DEF OneWriter, TableInv, HalfRows
  <2> QED
    BY <1>2, <1>3, <2>1, <2>2 DEF HalfRows
<1>13. OneRowPerTopic'
  <2>1. ASSUME NEW i \in Row, NEW j \in Row, i # j, dispatcher_table'[i].topic = dispatcher_table'[j].topic
        PROVE  dispatcher_table'[i].topic = NULL
    <3>1. CASE i # call.row /\ j # call.row
      BY <1>2, <2>1, <3>1 DEF TableInv, OneRowPerTopic
    <3>2. CASE i = call.row
      BY <1>2, <1>7, <2>1, <3>2
    <3>3. CASE j = call.row
      BY <1>2, <1>7, <2>1, <3>3
    <3> QED
      BY <3>1, <3>2, <3>3
  <2> QED
    BY <2>1 DEF OneRowPerTopic
<1>14. TableIsRegistered'
  <2>1. /\ Registering = {<<call.topic, call.handle>>}
        /\ Registering' = {<<call.topic, call.handle>>}
    BY <1>3, <1>4, RegisteringOfOne
  <2>2. ASSUME NEW i \in Row, Complete(dispatcher_table'[i])
        PROVE  <<dispatcher_table'[i].topic, dispatcher_table'[i].handle>> \in (registered \cup Registering)'
    <3>1. CASE i = call.row
      <4>1. dispatcher_table'[i].topic = call.topic /\ dispatcher_table'[i].handle = call.handle
        BY <1>2, <1>7, <2>2, <3>1 DEF Complete
      <4> QED
        BY <2>1, <4>1
    <3>2. CASE i # call.row
      BY <1>2, <2>1, <2>2, <3>2 DEF TableInv, TableIsRegistered
    <3> QED
      BY <3>1, <3>2
  <2>3. ASSUME NEW topic \in Topic, NEW h \in Queue, <<topic, h>> \in registered'
        PROVE  \E i \in Row : dispatcher_table'[i].topic = topic /\ dispatcher_table'[i].handle = h
    <3>1. PICK i \in Row : dispatcher_table[i].topic = topic /\ dispatcher_table[i].handle = h
      BY <1>2, <2>3 DEF TableInv, TableIsRegistered
    <3>2. dispatcher_table'[i] = dispatcher_table[i]
      BY <1>9, <3>1, TopicTableAssumption DEF Complete
    <3> QED
      BY <3>1, <3>2
  <2> QED
    BY <2>2, <2>3 DEF TableIsRegistered
<1>15. BlankUntilStarted' /\ SubscribedRows'
  BY <1>2, <1>10 DEF TableInv, BlankUntilStarted, SubscribedRows
<1>16. Grows
  BY <1>2, <1>9 DEF Grows
<1> QED
  BY <1>1, <1>11, <1>12, <1>13, <1>14, <1>15, <1>16 DEF TableInv

LEMMA RegisterReturnsKeeps ==
  ASSUME OneWriter, TableInv, NEW w \in Writer, RegisterReturns(w)
  PROVE  TableInv' /\ Grows
<1> DEFINE call == write[w]
<1>1. TypeOK'
  BY WriterType DEF TableInv, WriterStep
<1>2. /\ UNCHANGED <<dispatcher_table, subscriber_table, subscribed>>
      /\ call.op = "register" /\ call.left = {}
      /\ registered' = registered \cup {<<call.topic, call.handle>>}
      /\ write'[w].op = "none"
  BY DEF RegisterReturns, TableInv, TypeOK, NoWrite
<1>3. call.row \in Row /\ call.handle \in Queue /\ call.topic \in Topic
  BY <1>2, WriteCallTypes DEF TableInv, TypeOK, RegisterCalls
<1>4. /\ dispatcher_table[call.row].handle = call.handle
      /\ dispatcher_table[call.row].topic = call.topic
  BY <1>2 DEF TableInv, WriteInv, RegisterInv
<1>5. /\ Registering = {<<call.topic, call.handle>>}
      /\ Registering' = {}
  BY <1>2, RegisteringOfOne
<1>6. TableIsRegistered'
  BY <1>2, <1>3, <1>4, <1>5 DEF TableInv, TableIsRegistered, Complete
<1>7. WriteInv'
  BY <1>2 DEF OneWriter, WriteInv
<1>8. HalfRows'
  BY <1>2, <1>3, <1>4, TopicTableAssumption DEF OneWriter, TableInv, HalfRows
<1>9. BlankUntilStarted' /\ OneRowPerTopic' /\ SubscribedRows'
  BY <1>2 DEF TableInv, BlankUntilStarted, Started, OneRowPerTopic, SubscribedRows
<1>10. Grows
  BY <1>2 DEF Grows
<1> QED
  BY <1>1, <1>6, <1>7, <1>8, <1>9, <1>10 DEF TableInv

LEMMA SubscribeFindsRowKeeps ==
  ASSUME OneWriter, TableInv, NEW w \in Writer, NEW topic \in Topic, NEW cb \in Callback,
         SubscribeFindsRow(w, topic, cb)
  PROVE  TableInv' /\ Grows
<1>1. TypeOK'
  BY WriterType DEF TableInv, WriterStep
<1>2. UNCHANGED <<dispatcher_table, subscriber_table, registered, subscribed>> /\ Started
  BY DEF SubscribeFindsRow
<1>3. PICK i \in SubRow :
        /\ subscriber_table[i].cb = NULL
        /\ write'[w] = [op |-> "subscribe", row |-> i, topic |-> topic, cb |-> cb, left |-> {"topic", "cb"}]
  BY DEF SubscribeFindsRow, IsFirst, TableInv, TypeOK
<1>4. write[w].op = "none"
  BY DEF SubscribeFindsRow, NoWrite
<1>5. subscriber_table[i].topic = NULL
  BY <1>3, <1>4 DEF OneWriter, TableInv, HalfRows
<1>6. i \notin subscribed
  BY <1>3 DEF TableInv, SubscribedRows
<1>7. BlankUntilStarted' /\ OneRowPerTopic' /\ SubscribedRows'
  BY <1>2 DEF TableInv, BlankUntilStarted, Started, OneRowPerTopic, SubscribedRows
<1>8. WriteInv'
  <2>1. SubscribeInv(write[w])'
    BY <1>2, <1>3, <1>5, <1>6 DEF SubscribeInv, Started
  <2> QED
    BY <2>1, <1>3 DEF OneWriter, WriteInv
<1>9. HalfRows'
  BY <1>2, <1>4 DEF OneWriter, TableInv, HalfRows
<1>10. TableIsRegistered'
  <2>1. Registering = {}
    BY <1>4, RegisteringOfOne
  <2> QED
    BY <2>1, <1>2 DEF TableInv, TableIsRegistered, Complete
<1> QED
  BY <1>1, <1>2, <1>7, <1>8, <1>9, <1>10 DEF TableInv, Grows

\* What one store of adp_topic_subscribe does to the table and to the call.
LEMMA SubscribeStores ==
  ASSUME TypeOK, NEW w \in Writer, NEW field \in {"topic", "cb"}, SubscribeWrites(w, field)
  PROVE  LET call == write[w] IN
         /\ call \in SubscribeCalls
         /\ \A i \in SubRow : i # call.row => subscriber_table'[i] = subscriber_table[i]
         /\ subscriber_table'[call.row].topic =
              IF field = "topic" THEN call.topic ELSE subscriber_table[call.row].topic
         /\ subscriber_table'[call.row].cb =
              IF field = "cb" THEN call.cb ELSE subscriber_table[call.row].cb
         /\ write'[w].op = "subscribe" /\ write'[w].row = call.row
         /\ write'[w].topic = call.topic /\ write'[w].cb = call.cb
         /\ write'[w].left = call.left \ {field}
         /\ field \in call.left
         /\ UNCHANGED <<dispatcher_table, registered, subscribed>>
<1>1. write[w] \in SubscribeCalls
  BY WriteCallTypes DEF SubscribeWrites, TypeOK
<1>2. /\ field \in write[w].left
      /\ subscriber_table' = [subscriber_table EXCEPT ![write[w].row][field] = write[w][field]]
      /\ write' = [write EXCEPT ![w].left = @ \ {field}]
      /\ UNCHANGED <<dispatcher_table, registered, subscribed>>
  BY DEF SubscribeWrites
<1>3. write[w].row \in SubRow
  BY <1>1 DEF SubscribeCalls
<1>4. write'[w] = [write[w] EXCEPT !.left = write[w].left \ {field}]
  BY <1>2 DEF TypeOK
<1>5. /\ write'[w].op = "subscribe" /\ write'[w].row = write[w].row
      /\ write'[w].topic = write[w].topic /\ write'[w].cb = write[w].cb
      /\ write'[w].left = write[w].left \ {field}
  BY <1>1, <1>4 DEF SubscribeCalls
<1>6. /\ \A i \in SubRow : i # write[w].row => subscriber_table'[i] = subscriber_table[i]
      /\ subscriber_table'[write[w].row] = [subscriber_table[write[w].row] EXCEPT ![field] = write[w][field]]
  BY <1>2, <1>3 DEF TypeOK
<1>7. /\ subscriber_table'[write[w].row].topic =
           IF field = "topic" THEN write[w].topic ELSE subscriber_table[write[w].row].topic
      /\ subscriber_table'[write[w].row].cb =
           IF field = "cb" THEN write[w].cb ELSE subscriber_table[write[w].row].cb
  BY <1>3, <1>6 DEF TypeOK
<1> QED
  BY <1>1, <1>2, <1>5, <1>6, <1>7

LEMMA SubscribeWritesKeeps ==
  ASSUME OneWriter, TableInv, NEW w \in Writer, NEW field \in {"topic", "cb"}, SubscribeWrites(w, field)
  PROVE  TableInv' /\ Grows
<1> DEFINE call == write[w]
           row  == subscriber_table[call.row]
<1>1. TypeOK'
  BY WriterType DEF TableInv, WriterStep
<1>2. /\ \A i \in SubRow : i # call.row => subscriber_table'[i] = subscriber_table[i]
      /\ subscriber_table'[call.row].topic = IF field = "topic" THEN call.topic ELSE row.topic
      /\ subscriber_table'[call.row].cb = IF field = "cb" THEN call.cb ELSE row.cb
      /\ UNCHANGED <<dispatcher_table, registered, subscribed>>
  BY SubscribeStores DEF TableInv
<1>3. /\ write'[w].op = "subscribe" /\ write'[w].row = call.row
      /\ write'[w].topic = call.topic /\ write'[w].cb = call.cb
      /\ write'[w].left = call.left \ {field}
      /\ field \in call.left
  BY SubscribeStores DEF TableInv
<1>4. call.op = "subscribe" /\ call.row \in SubRow /\ call.topic \in Topic /\ call.cb \in Callback
  BY SubscribeStores DEF TableInv, SubscribeCalls
<1>5. call.topic # NULL /\ call.cb # NULL
  BY <1>4, TopicTableAssumption
<1>6. SubscribeInv(call)
  BY <1>4 DEF TableInv, WriteInv
<1>7. /\ field = "cb" => row.cb = NULL
      /\ field = "topic" => row.topic = NULL
      /\ call.row \notin subscribed
  BY <1>3, <1>6 DEF SubscribeInv
<1>8. Started /\ Started'
  BY <1>2, <1>6 DEF SubscribeInv, Started
<1>9. WriteInv'
  <2>1. SubscribeInv(write[w])'
    BY <1>2, <1>3, <1>6, <1>8 DEF SubscribeInv
  <2> QED
    BY <2>1, <1>3 DEF OneWriter, WriteInv
<1>10. HalfRows'
  <2>1. \A j \in SubRow : j # call.row /\ subscriber_table[j].topic # NULL => subscriber_table[j].cb # NULL
    BY <1>4 DEF OneWriter, TableInv, HalfRows
  <2>2. \A j \in Row : dispatcher_table[j].topic # NULL => dispatcher_table[j].handle # NULL
    BY <1>4 DEF OneWriter, TableInv, HalfRows
  <2> QED
    BY <1>2, <1>3, <2>1, <2>2 DEF HalfRows
<1>11. TableIsRegistered'
  <2>1. Registering = {}
    BY <1>4, RegisteringOfOne
  <2> QED
    BY <2>1, <1>2 DEF TableInv, TableIsRegistered, Complete
<1>12. BlankUntilStarted' /\ OneRowPerTopic'
  BY <1>2, <1>8 DEF TableInv, BlankUntilStarted, OneRowPerTopic
<1>13. \A i \in subscribed : subscriber_table'[i] = subscriber_table[i]
  BY <1>2, <1>7 DEF TableInv, TypeOK
<1>14. SubscribedRows'
  BY <1>2, <1>13 DEF TableInv, SubscribedRows
<1>15. Grows
  BY <1>2, <1>7, <1>13 DEF Grows
<1> QED
  BY <1>1, <1>9, <1>10, <1>11, <1>12, <1>14, <1>15 DEF TableInv

LEMMA SubscribeReturnsKeeps ==
  ASSUME OneWriter, TableInv, NEW w \in Writer, SubscribeReturns(w)
  PROVE  TableInv' /\ Grows
<1> DEFINE call == write[w]
<1>1. TypeOK'
  BY WriterType DEF TableInv, WriterStep
<1>2. /\ UNCHANGED <<dispatcher_table, subscriber_table, registered>>
      /\ call.op = "subscribe" /\ call.left = {}
      /\ subscribed' = subscribed \cup {call.row}
      /\ write'[w].op = "none"
  BY DEF SubscribeReturns, TableInv, TypeOK, NoWrite
<1>3. call.row \in SubRow /\ call.topic # NULL /\ call.cb # NULL
  BY <1>2, WriteCallTypes, TopicTableAssumption DEF TableInv, TypeOK, SubscribeCalls
<1>4. /\ subscriber_table[call.row].topic # NULL
      /\ subscriber_table[call.row].cb # NULL
  BY <1>2, <1>3 DEF TableInv, WriteInv, SubscribeInv
<1>5. SubscribedRows'
  BY <1>2, <1>4 DEF TableInv, SubscribedRows
<1>6. TableIsRegistered'
  <2>1. Registering = {}
    BY <1>2, RegisteringOfOne
  <2> QED
    BY <2>1, <1>2 DEF TableInv, TableIsRegistered, Complete
<1>7. WriteInv'
  BY <1>2 DEF OneWriter, WriteInv
<1>8. HalfRows'
  BY <1>2, <1>4 DEF OneWriter, TableInv, HalfRows
<1>9. BlankUntilStarted' /\ OneRowPerTopic'
  BY <1>2 DEF TableInv, BlankUntilStarted, Started, OneRowPerTopic
<1>10. Grows
  BY <1>2 DEF Grows
<1> QED
  BY <1>1, <1>5, <1>6, <1>7, <1>8, <1>9, <1>10 DEF TableInv

LEMMA WriterKeeps ==
  ASSUME OneWriter, TableInv, NEW w \in Writer, WriterStep(w)
  PROVE  TableInv' /\ Grows
  BY CreateQueueKeeps, DispatcherAddKeeps, RegisterFindsRowKeeps, RegisterWritesKeeps, RegisterReturnsKeeps,
     SubscribeFindsRowKeeps, SubscribeWritesKeeps, SubscribeReturnsKeeps
  DEF WriterStep

-----------------------------------------------------------------------------
(* The steps of the readers *)

\* A reader changes nothing but what it remembers itself.
LEMMA ReaderReads ==
  ASSUME NEW r \in Reader, ReaderStep(r)
  PROVE  UNCHANGED <<dispatcher_table, subscriber_table, created, write, registered, subscribed>>
  BY DEF ReaderStep, PublishBegins, PublishLooks, PublishReturns, RouteBegins, RouteLooks, RouteReturns

LEMMA ReaderKeepsTable ==
  ASSUME TableInv, NEW r \in Reader, ReaderStep(r)
  PROVE  TableInv' /\ Grows
<1>1. UNCHANGED <<dispatcher_table, subscriber_table, created, write, registered, subscribed>>
  BY ReaderReads
<1>2. TypeOK'
  BY ReaderType DEF TableInv
<1>3. BlankUntilStarted' /\ OneRowPerTopic' /\ SubscribedRows' /\ HalfRows'
  BY <1>1 DEF TableInv, BlankUntilStarted, Started, OneRowPerTopic, SubscribedRows, HalfRows
<1>4. WriteInv'
  BY <1>1 DEF TableInv, WriteInv, RegisterInv, SubscribeInv, Started
<1>5. TableIsRegistered'
  BY <1>1 DEF TableInv, TableIsRegistered, Registering, Complete
<1> QED
  BY <1>1, <1>2, <1>3, <1>4, <1>5 DEF TableInv, Grows

\* What a reader relies on stays while it is looking.
LEMMA CallKeeps ==
  ASSUME TypeOK, Grows, NEW c \in ReadCalls, PublishInv(c), RouteInv(c)
  PROVE  PublishInv(c)' /\ RouteInv(c)'
<1>1. PublishInv(c)'
  <2>1. CASE c.op \in {"publish", "put", "rejected"}
    <3>1. c.topic # NULL
      BY <2>1, ReadCallTypes, TopicTableAssumption DEF PublishCalls
    <3> QED
      BY <3>1 DEF PublishInv, Grows, Complete
  <2>2. CASE c.op \notin {"publish", "put", "rejected"}
    BY <2>2 DEF PublishInv
  <2> QED
    BY <2>1, <2>2
<1>2. RouteInv(c)'
  <2> SUFFICES ASSUME c.op = "route" PROVE RouteInv(c)'
    BY DEF RouteInv
  <2>1. c.topic # NULL /\ c.called \subseteq SubRow /\ c.due \subseteq SubRow
    BY ReadCallTypes, TopicTableAssumption DEF RouteCalls
  <2> QED
    BY <2>1 DEF RouteInv, Grows
<1> QED
  BY <1>1, <1>2

LEMMA WriterKeepsReads ==
  ASSUME TypeOK, ReadInv, Grows, UNCHANGED read
  PROVE  ReadInv'
<1> SUFFICES ASSUME NEW r \in Reader
             PROVE  PublishInv(read[r])' /\ RouteInv(read[r])'
  BY DEF ReadInv
<1>1. PICK c \in ReadCalls : c = read[r]
  BY DEF TypeOK
<1>2. PublishInv(c) /\ RouteInv(c)
  BY <1>1 DEF ReadInv
<1>3. PublishInv(c)' /\ RouteInv(c)'
  BY <1>2, CallKeeps
<1>4. read'[r] = c
  BY <1>1
<1> QED
  BY <1>3, <1>4 DEF PublishInv, RouteInv

\* A round of the loop of adp_topic_publish.
LEMMA PublishLooksKeeps ==
  ASSUME TableInv, NEW r \in Reader, PublishLooks(r), PublishInv(read[r])
  PROVE  PublishInv(read[r])' /\ RouteInv(read[r])'
<1> DEFINE call == read[r]
<1>1. call \in PublishCalls /\ call.op = "publish"
  BY ReadCallTypes DEF PublishLooks, TableInv, TypeOK
<1>2. call.row \in Nat /\ TableSize \in Nat /\ call.row >= 1
  BY <1>1, TopicTableAssumption DEF PublishCalls
<1>3. UNCHANGED dispatcher_table
  BY DEF PublishLooks
<1>4. CASE call.row > TableSize
  <2>1. read'[r] = [call EXCEPT !.op = "rejected"]
    BY <1>4 DEF PublishLooks, TableInv, TypeOK
  <2>2. read'[r].op = "rejected" /\ read'[r].due = call.due
    BY <1>1, <2>1 DEF PublishCalls
  <2>3. ~call.due
    BY <1>1, <1>2, <1>4 DEF PublishInv, Row
  <2> QED
    BY <2>2, <2>3 DEF PublishInv, RouteInv
<1>5. CASE call.row <= TableSize /\ RowMatches(dispatcher_table[call.row], call.topic)
  <2>1. read'[r] = [call EXCEPT !.op = "put"]
    BY <1>2, <1>5 DEF PublishLooks, TableInv, TypeOK
  <2>2. read'[r].op = "put" /\ read'[r].row = call.row /\ read'[r].topic = call.topic
    BY <1>1, <2>1 DEF PublishCalls
  <2>3. call.row \in Row
    BY <1>2, <1>5 DEF Row
  <2> QED
    BY <1>3, <1>5, <2>2, <2>3 DEF PublishInv, RouteInv, RowMatches
<1>6. CASE call.row <= TableSize /\ ~RowMatches(dispatcher_table[call.row], call.topic)
  <2>1. read'[r] = [call EXCEPT !.row = call.row + 1]
    BY <1>2, <1>6 DEF PublishLooks, TableInv, TypeOK
  <2>2. /\ read'[r].op = "publish" /\ read'[r].row = call.row + 1
        /\ read'[r].topic = call.topic /\ read'[r].due = call.due
    BY <1>1, <2>1 DEF PublishCalls
  <2>3. ASSUME call.due
        PROVE  \E i \in Row : /\ i >= call.row + 1
                              /\ dispatcher_table[i].topic = call.topic
                              /\ dispatcher_table[i].handle # NULL
    <3>1. PICK i \in Row : /\ i >= call.row
                           /\ dispatcher_table[i].topic = call.topic
                           /\ dispatcher_table[i].handle # NULL
      BY <1>1, <2>3 DEF PublishInv
    <3>2. i # call.row
      BY <1>6, <3>1 DEF RowMatches
    <3>3. i >= call.row + 1
      BY <1>2, <3>1, <3>2 DEF Row
    <3> QED
      BY <3>1, <3>3
  <2> QED
    BY <1>3, <2>2, <2>3 DEF PublishInv, RouteInv
<1> QED
  BY <1>2, <1>4, <1>5, <1>6

\* A round of the loop of dispatcher_route_to_dest.
LEMMA RouteLooksKeeps ==
  ASSUME TableInv, NEW r \in Reader, RouteLooks(r), RouteInv(read[r])
  PROVE  PublishInv(read[r])' /\ RouteInv(read[r])'
<1> DEFINE call == read[r]
           row == subscriber_table[call.row]
           called == IF row.cb # NULL /\ row.topic = call.topic THEN call.called \cup {call.row} ELSE call.called
<1>1. call \in RouteCalls /\ call.op = "route"
  BY ReadCallTypes DEF RouteLooks, TableInv, TypeOK
<1>2. read'[r] = [call EXCEPT !.row = call.row + 1, !.called = called]
  BY DEF RouteLooks, TableInv, TypeOK
<1>3. /\ read'[r].op = "route" /\ read'[r].row = call.row + 1 /\ read'[r].called = called
      /\ read'[r].topic = call.topic /\ read'[r].due = call.due
  BY <1>1, <1>2 DEF RouteCalls
<1>4. UNCHANGED <<subscriber_table, subscribed>>
  BY DEF RouteLooks
<1>5. ASSUME NEW i \in call.due
      PROVE  /\ i \in subscribed /\ subscriber_table[i].topic = call.topic
             /\ i < call.row + 1 => i \in called
  <2>1. /\ i \in subscribed /\ subscriber_table[i].topic = call.topic
        /\ i < call.row => i \in call.called
    BY <1>1, <1>5 DEF RouteInv
  <2>2. subscriber_table[i].cb # NULL
    BY <2>1 DEF TableInv, SubscribedRows
  <2>3. i \in Nat /\ call.row \in Nat
    BY <1>1, <1>5, TopicTableAssumption DEF RouteCalls, SubRow
  <2>4. i < call.row + 1 => i < call.row \/ i = call.row
    BY <2>3
  <2> QED
    BY <2>1, <2>2, <2>4
<1>6. \A i \in called : subscriber_table[i].topic = call.topic
  BY <1>1 DEF RouteInv
<1> HIDE DEF called
<1> QED
  BY <1>3, <1>4, <1>5, <1>6 DEF PublishInv, RouteInv

LEMMA ReaderKeepsReads ==
  ASSUME TableInv, ReadInv, NEW r \in Reader, ReaderStep(r)
  PROVE  ReadInv'
<1>1. UNCHANGED <<dispatcher_table, subscriber_table, subscribed>>
  BY ReaderReads
<1>2. ASSUME NEW q \in Reader, q # r
      PROVE  PublishInv(read[q])' /\ RouteInv(read[q])'
  <2>1. read'[q] = read[q]
    BY <1>2 DEF ReaderStep, PublishBegins, PublishLooks, PublishReturns, RouteBegins, RouteLooks, RouteReturns,
                TableInv, TypeOK
  <2>2. PublishInv(read[q]) /\ RouteInv(read[q])
    BY DEF ReadInv
  <2> QED
    BY <1>1, <2>1, <2>2 DEF PublishInv, RouteInv
<1>3. PublishInv(read[r])' /\ RouteInv(read[r])'
  <2>1. ASSUME NEW topic \in Topic, PublishBegins(r, topic)
        PROVE  PublishInv(read[r])' /\ RouteInv(read[r])'
    <3>1. /\ read'[r].op = "publish" /\ read'[r].topic = topic /\ read'[r].row = 1
          /\ read'[r].due = \E h \in Queue : <<topic, h>> \in registered
      BY <2>1 DEF PublishBegins, TableInv, TypeOK
    <3>2. ASSUME \E h \in Queue : <<topic, h>> \in registered
          PROVE  \E i \in Row : /\ i >= 1
                                /\ dispatcher_table[i].topic = topic
                                /\ dispatcher_table[i].handle # NULL
      <4>1. PICK h \in Queue : <<topic, h>> \in registered
        BY <3>2
      <4>2. PICK i \in Row : dispatcher_table[i].topic = topic /\ dispatcher_table[i].handle = h
        BY <4>1 DEF TableInv, TableIsRegistered
      <4> QED
        BY <4>2, TopicTableAssumption DEF Row
    <3> QED
      BY <1>1, <3>1, <3>2 DEF PublishInv, RouteInv
  <2>2. ASSUME NEW topic \in Topic, RouteBegins(r, topic)
        PROVE  PublishInv(read[r])' /\ RouteInv(read[r])'
    <3>1. /\ read'[r].op = "route" /\ read'[r].topic = topic /\ read'[r].row = 1 /\ read'[r].called = {}
          /\ read'[r].due = {i \in subscribed : subscriber_table[i].topic = topic}
      BY <2>2 DEF RouteBegins, TableInv, TypeOK
    <3>2. \A i \in subscribed : ~(i < 1)
      BY TopicTableAssumption DEF TableInv, TypeOK, SubRow
    <3> QED
      BY <1>1, <3>1, <3>2 DEF PublishInv, RouteInv
  <2>3. CASE PublishLooks(r)
    BY <2>3, PublishLooksKeeps DEF ReadInv
  <2>4. CASE RouteLooks(r)
    BY <2>4, RouteLooksKeeps DEF ReadInv
  <2>5. CASE PublishReturns(r) \/ RouteReturns(r)
    <3>1. read'[r].op = "none"
      BY <2>5 DEF PublishReturns, RouteReturns, TableInv, TypeOK, NoRead
    <3> QED
      BY <3>1 DEF PublishInv, RouteInv
  <2> QED
    BY <2>1, <2>2, <2>3, <2>4, <2>5 DEF ReaderStep
<1> QED
  BY <1>2, <1>3 DEF ReadInv

-----------------------------------------------------------------------------
(* The theorems *)

LEMMA NextKeeps ==
  ASSUME OneWriter, TableInv, [Next]_vars
  PROVE  TableInv' /\ Grows /\ (ReadInv => ReadInv')
<1>1. ASSUME NEW w \in Writer, WriterStep(w) PROVE TableInv' /\ Grows /\ (ReadInv => ReadInv')
  <2>1. TableInv' /\ Grows
    BY <1>1, WriterKeeps
  <2>2. UNCHANGED read
    BY <1>1 DEF WriterStep, CreateQueue, DispatcherAdd, RegisterFindsRow, RegisterWrites, RegisterReturns,
                SubscribeFindsRow, SubscribeWrites, SubscribeReturns
  <2> QED
    BY <2>1, <2>2, WriterKeepsReads DEF TableInv
<1>2. ASSUME NEW r \in Reader, ReaderStep(r) PROVE TableInv' /\ Grows /\ (ReadInv => ReadInv')
  BY <1>2, ReaderKeepsTable, ReaderKeepsReads
<1>3. CASE UNCHANGED vars
  <2>1. TableInv'
    BY <1>3 DEF vars, TableInv, TypeOK, BlankUntilStarted, Started, WriteInv, RegisterInv, SubscribeInv,
                HalfRows, OneRowPerTopic, TableIsRegistered, Registering, SubscribedRows, Complete
  <2>2. Grows
    BY <1>3 DEF vars, Grows
  <2>3. UNCHANGED read
    BY <1>3 DEF vars
  <2> QED
    BY <2>1, <2>2, <2>3, WriterKeepsReads DEF TableInv
<1> QED
  BY <1>1, <1>2, <1>3 DEF Next

LEMMA InvHolds ==
  ASSUME OneWriter
  PROVE  Spec => []Inv
<1>1. Init => Inv
  BY InitTable DEF Inv, Init, ReadInv, PublishInv, RouteInv, NoRead
<1>2. Inv /\ [Next]_vars => Inv'
  BY NextKeeps DEF Inv
<1> QED
  BY <1>1, <1>2, PTL DEF Spec

\* A topic has at most one row, so that its messages all go through one queue and
\* keep their order, whatever the readers do while a row is being filled.
THEOREM TopicHasOneRow ==
  ASSUME OneWriter
  PROVE  Spec => []OneRowPerTopic
<1>1. Inv => OneRowPerTopic
  BY DEF Inv, TableInv
<1> QED
  BY <1>1, InvHolds, PTL

\* A call of adp_topic_publish that comes to adp_os_queue_put puts into the queue
\* its topic was registered for, never into that of a half-filled row.
THEOREM PublishGoesHome ==
  ASSUME OneWriter
  PROVE  Spec => []PutsGoHome
<1>1. Inv => PutsGoHome
  <2> SUFFICES ASSUME Inv, NEW r \in Reader, read[r].op = "put"
               PROVE  <<read[r].topic, Target(r)>> \in registered \cup Registering
    BY DEF PutsGoHome
  <2>1. /\ read[r].row \in Row
        /\ dispatcher_table[read[r].row].topic = read[r].topic
        /\ dispatcher_table[read[r].row].handle # NULL
    BY DEF Inv, ReadInv, PublishInv
  <2>2. read[r].topic # NULL
    BY ReadCallTypes, TopicTableAssumption DEF Inv, TableInv, TypeOK, PublishCalls
  <2> QED
    BY <2>1, <2>2 DEF Inv, TableInv, TableIsRegistered, Complete, Target
<1> QED
  BY <1>1, InvHolds, PTL

\* A publish call that begins after adp_topic_register has returned success for its
\* topic is not told that the topic is unknown.
THEOREM RegisteredTopicIsFound ==
  ASSUME OneWriter
  PROVE  Spec => []RegisteredIsFound
<1>1. Inv => RegisteredIsFound
  BY DEF Inv, ReadInv, PublishInv, RegisteredIsFound
<1> QED
  BY <1>1, InvHolds, PTL

\* When dispatcher_route_to_dest has gone through the table, every subscriber that
\* had subscribed before it began was called, and every callback called wanted the
\* topic.
THEOREM RouteCallsSubscribers ==
  ASSUME OneWriter
  PROVE  Spec => []RouteServesSubscribers
<1>1. Inv => RouteServesSubscribers
  <2> SUFFICES ASSUME Inv, NEW r \in Reader, read[r].op = "route", read[r].row > SubTableSize
               PROVE  /\ read[r].due \subseteq read[r].called
                      /\ \A i \in read[r].called : subscriber_table[i].topic = read[r].topic
    BY DEF RouteServesSubscribers
  <2>1. RouteInv(read[r])
    BY DEF Inv, ReadInv
  <2>2. read[r] \in RouteCalls
    BY ReadCallTypes DEF Inv, TableInv, TypeOK
  <2>3. \A i \in read[r].due : i < read[r].row
    BY <2>2, TopicTableAssumption DEF RouteCalls, SubRow
  <2> QED
    BY <2>1, <2>3 DEF RouteInv
<1> QED
  BY <1>1, InvHolds, PTL

\* A row that is complete, and a subscription that has succeeded, stay what they
\* are for good.
THEOREM RowsStay ==
  ASSUME OneWriter
  PROVE  Spec => RowsAreFinal
<1> DEFINE Final == /\ \A i \in Row : LET row == dispatcher_table[i] IN
                         row.handle # NULL /\ row.topic # NULL => dispatcher_table'[i] = row
                    /\ \A i \in subscribed : subscriber_table'[i] = subscriber_table[i]
<1>1. Inv /\ [Next]_vars => [Final]_vars
  BY NextKeeps DEF Inv, Grows, Complete
<1>2. Spec => [][Final]_vars
  BY <1>1, InvHolds, PTL DEF Spec
<1> QED
  BY <1>2 DEF RowsAreFinal

=============================================================================
