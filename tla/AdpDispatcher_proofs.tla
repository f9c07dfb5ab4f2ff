------------------------ MODULE AdpDispatcher_proofs ------------------------
(***************************************************************************)
(* Theorems about the dispatcher, for every number of dispatchers, tasks,  *)
(* topics, subscribers and blocks and every length of the queues.          *)
(***************************************************************************)
EXTENDS AdpDispatcher, TLAPS

\* Append and Tail by index, the only facts about sequences that are needed.
LEMMA AppendFacts ==
  ASSUME NEW S, NEW q \in Seq(S), NEW m \in S
  PROVE  /\ Append(q, m) \in Seq(S)
         /\ Len(Append(q, m)) = Len(q) + 1
         /\ \A i \in 1..Len(q) : Append(q, m)[i] = q[i]
         /\ Append(q, m)[Len(q) + 1] = m
  OBVIOUS

LEMMA TailFacts ==
  ASSUME NEW S, NEW q \in Seq(S), q # <<>>
  PROVE  /\ Tail(q) \in Seq(S)
         /\ Len(q) \in Nat \ {0}
         /\ Len(Tail(q)) = Len(q) - 1
         /\ \A i \in 1..Len(Tail(q)) : Tail(q)[i] = q[i + 1]
         /\ Head(q) = q[1]
         /\ Head(q) \in S
  OBVIOUS

-----------------------------------------------------------------------------
(* Types and the place of the queue in the history *)

OrderInv == TypeOK /\ QueueIsSuffix

\* QueueIsSuffix for one dispatcher, as a statement about its queue q, its
\* history a, its position p and the descriptor c that it routes.
Suffix(q, a, p, c) ==
  /\ Len(q) <= Len(a)
  /\ \A i \in 1..Len(q) : q[i].topic = a[Len(a) - Len(q) + i]
  /\ p # 0 => Len(a) - Len(q) > 0 /\ c.topic = a[Len(a) - Len(q)]

LEMMA SuffixNow ==
  QueueIsSuffix <=> \A d \in Dispatcher : Suffix(queue[d], accepted[d], pos[d], cur[d])
  BY DEF QueueIsSuffix, Suffix, Taken

LEMMA SuffixNext ==
  QueueIsSuffix' <=> \A d \in Dispatcher : Suffix(queue'[d], accepted'[d], pos'[d], cur'[d])
  BY DEF QueueIsSuffix, Suffix, Taken

\* A put extends queue and history alike.
LEMMA SuffixPut ==
  ASSUME NEW q \in Seq(Msg), NEW a \in Seq(Topic), NEW p, NEW c, NEW m \in Msg,
         m.topic \in Topic, Suffix(q, a, p, c)
  PROVE  Suffix(Append(q, m), Append(a, m.topic), p, c)
  <1> DEFINE q2 == Append(q, m)
             a2 == Append(a, m.topic)
  <1>1. /\ Len(q2) = Len(q) + 1 /\ Len(q) \in Nat
        /\ \A i \in 1..Len(q) : q2[i] = q[i]
        /\ q2[Len(q) + 1] = m
    BY AppendFacts
  <1>2. /\ Len(a2) = Len(a) + 1 /\ Len(a) \in Nat
        /\ \A i \in 1..Len(a) : a2[i] = a[i]
        /\ a2[Len(a) + 1] = m.topic
    BY AppendFacts
  <1> HIDE DEF q2, a2
  <1>3. ASSUME NEW i \in 1..Len(q2) PROVE q2[i].topic = a2[Len(a2) - Len(q2) + i]
    <2>1. CASE i = Len(q) + 1
      BY <2>1, <1>1, <1>2 DEF Suffix
    <2>2. CASE i \in 1..Len(q)
      BY <2>2, <1>1, <1>2 DEF Suffix
    <2> QED BY <2>1, <2>2, <1>1
  <1>4. p # 0 => Len(a2) - Len(q2) > 0 /\ c.topic = a2[Len(a2) - Len(q2)]
    BY <1>1, <1>2 DEF Suffix
  <1>5. Suffix(q2, a2, p, c)
    BY <1>1, <1>2, <1>3, <1>4 DEF Suffix
  <1> QED BY <1>5 DEF q2, a2

\* A receive moves the head of the queue into the hands of the dispatcher.
LEMMA SuffixTake ==
  ASSUME NEW q \in Seq(Msg), NEW a \in Seq(Topic), NEW p, NEW c, NEW p2,
         q # <<>>, Suffix(q, a, p, c)
  PROVE  Suffix(Tail(q), a, p2, Head(q))
  <1> DEFINE r == Tail(q)
  <1>1. /\ Len(q) \in Nat \ {0} /\ Len(r) = Len(q) - 1 /\ Head(q) = q[1]
        /\ \A i \in 1..Len(r) : r[i] = q[i + 1]
    BY TailFacts
  <1>2. Len(a) \in Nat
    OBVIOUS
  <1> HIDE DEF r
  <1>3. ASSUME NEW i \in 1..Len(r) PROVE r[i].topic = a[Len(a) - Len(r) + i]
    <2>1. i + 1 \in 1..Len(q) /\ r[i] = q[i + 1]
      BY <1>1
    <2>2. q[i + 1].topic = a[Len(a) - Len(q) + (i + 1)]
      BY <2>1 DEF Suffix
    <2> QED BY <2>1, <2>2, <1>1, <1>2
  <1>4. Len(a) - Len(r) > 0 /\ Head(q).topic = a[Len(a) - Len(r)]
    BY <1>1, <1>2 DEF Suffix
  <1>5. Suffix(r, a, p2, Head(q))
    BY <1>1, <1>2, <1>3, <1>4 DEF Suffix
  <1> QED BY <1>5 DEF r

USE DEF Task, Slot

LEMMA InitOrder == Init => OrderInv
  BY DispatcherAssumption DEF Init, OrderInv, TypeOK, QueueIsSuffix, NoMsg, Msg, RouteEnd, Taken

LEMMA RouteTypes ==
  ASSUME OrderInv, NEW d \in Dispatcher, NEW msg, NEW n \in Nat, NEW from \in 1..RouteEnd,
         RouteFrom(d, msg, n, from)
  PROVE  /\ pos' \in [Dispatcher -> 0..RouteEnd]
         /\ pos'[d] \in from..RouteEnd
         /\ \A e \in Dispatcher \ {d} : pos'[e] = pos[e]
         /\ todo' \in [Dispatcher -> SUBSET Topic]
         /\ handled' \in [Slot -> Seq(Nat)]
  <1> USE DispatcherAssumption
  <1>1. PICK p \in from..RouteEnd :
          /\ pos' = [pos EXCEPT ![d] = p]
          /\ IF p = RouteEnd
             THEN todo' = [todo EXCEPT ![d] = {}] /\ UNCHANGED handled
             ELSE /\ todo' = [todo EXCEPT ![d] = Emits[p]]
                  /\ handled' = [handled EXCEPT ![p] = Append(@, n)]
    BY DEF RouteFrom
  <1>2. /\ pos' \in [Dispatcher -> 0..RouteEnd]
        /\ pos'[d] \in from..RouteEnd
        /\ \A e \in Dispatcher \ {d} : pos'[e] = pos[e]
    BY <1>1 DEF OrderInv, TypeOK, RouteEnd
  <1>3. CASE p = RouteEnd
    BY <1>1, <1>2, <1>3 DEF OrderInv, TypeOK
  <1>4. CASE p # RouteEnd
    <2>1. p \in Slot
      BY <1>4 DEF RouteEnd
    <2>2. todo' \in [Dispatcher -> SUBSET Topic]
      BY <1>1, <1>4, <2>1 DEF OrderInv, TypeOK
    <2>3. handled' \in [Slot -> Seq(Nat)]
      <3>1. handled \in [Slot -> Seq(Nat)] /\ handled[p] \in Seq(Nat)
        BY <2>1 DEF OrderInv, TypeOK
      <3>2. Append(handled[p], n) \in Seq(Nat)
        BY <3>1, AppendFacts
      <3> QED BY <1>1, <1>4, <2>1, <3>1, <3>2
    <2> QED BY <1>2, <2>2, <2>3
  <1> QED BY <1>3, <1>4

LEMMA StepOrder == OrderInv /\ [Next]_vars => OrderInv'
  <1> SUFFICES ASSUME OrderInv, [Next]_vars PROVE OrderInv'
    OBVIOUS
  <1> USE DispatcherAssumption
  <1>1. ASSUME NEW t \in Task, NEW topic \in Topic, PublishRejected(t, topic)
        PROVE  OrderInv'
    BY <1>1 DEF PublishRejected, Spend, OrderInv, TypeOK, QueueIsSuffix, Taken
  <1>2. ASSUME NEW t \in Task, NEW topic \in Topic, NEW data \in Buffer \cup {NULL},
               PublishCopy(t, topic, data)
        PROVE  OrderInv'
    <2>1. [topic |-> topic, data |-> data] \in Msg
      BY <1>2 DEF PublishCopy, Msg
    <2>2. TypeOK'
      BY <1>2, <2>1 DEF PublishCopy, Spend, OrderInv, TypeOK
    <2> QED BY <1>2, <2>2 DEF PublishCopy, OrderInv, QueueIsSuffix, Taken
  <1>3. ASSUME NEW t \in Task, QueuePut(t) PROVE OrderInv'
    <2>1. PICK d \in Dispatcher :
            /\ d = Owner[out[t].topic] /\ out[t] \in Msg /\ out[t].topic \in Topic
            /\ Len(queue[d]) < QueueLength
            /\ queue' = [queue EXCEPT ![d] = Append(@, out[t])]
            /\ accepted' = [accepted EXCEPT ![d] = Append(@, out[t].topic)]
      <3>1. out[t] \in Msg
        BY <1>3 DEF QueuePut, OrderInv, TypeOK
      <3>2. out[t].topic \in Topic /\ Owner[out[t].topic] \in Dispatcher
        BY <3>1 DEF Msg
      <3> QED BY <1>3, <3>1, <3>2 DEF QueuePut
    <2>2. queue[d] \in Seq(Msg) /\ accepted[d] \in Seq(Topic)
      BY DEF OrderInv, TypeOK
    <2>3. /\ queue' \in [Dispatcher -> Seq(Msg)] /\ queue'[d] = Append(queue[d], out[t])
          /\ accepted' \in [Dispatcher -> Seq(Topic)]
          /\ accepted'[d] = Append(accepted[d], out[t].topic)
          /\ \A e \in Dispatcher \ {d} : queue'[e] = queue[e] /\ accepted'[e] = accepted[e]
      <3>1. Append(queue[d], out[t]) \in Seq(Msg) /\ Append(accepted[d], out[t].topic) \in Seq(Topic)
        BY <2>1, <2>2, AppendFacts
      <3>2. queue \in [Dispatcher -> Seq(Msg)] /\ accepted \in [Dispatcher -> Seq(Topic)]
        BY DEF OrderInv, TypeOK
      <3>3. /\ queue' \in [Dispatcher -> Seq(Msg)] /\ queue'[d] = Append(queue[d], out[t])
            /\ \A e \in Dispatcher \ {d} : queue'[e] = queue[e]
        BY <2>1, <3>1, <3>2
      <3>4. /\ accepted' \in [Dispatcher -> Seq(Topic)]
            /\ accepted'[d] = Append(accepted[d], out[t].topic)
            /\ \A e \in Dispatcher \ {d} : accepted'[e] = accepted[e]
        BY <2>1, <3>1, <3>2
      <3> QED BY <3>3, <3>4
    <2>4. \A e \in Dispatcher : Len(queue'[e]) <= QueueLength
      <3>0. out[t] \in Msg
        BY <2>1
      <3>1. Len(Append(queue[d], out[t])) = Len(queue[d]) + 1 /\ Len(queue[d]) \in Nat
        BY <2>2, <3>0, AppendFacts
      <3>2. Len(queue'[d]) <= QueueLength
        <4>1. Len(queue[d]) < QueueLength /\ QueueLength \in Nat
          BY <2>1
        <4>2. queue'[d] = Append(queue[d], out[t])
          BY <2>3
        <4> QED BY <3>1, <4>1, <4>2
      <3>3. \A e \in Dispatcher : Len(queue[e]) <= QueueLength
        BY DEF OrderInv, TypeOK
      <3> QED BY <2>3, <3>2, <3>3
    <2>5. TypeOK'
      BY <1>3, <2>3, <2>4 DEF QueuePut, OrderInv, TypeOK
    <2>6. \A e \in Dispatcher : Suffix(queue'[e], accepted'[e], pos'[e], cur'[e])
      <3>1. \A e \in Dispatcher : Suffix(queue[e], accepted[e], pos[e], cur[e])
        BY SuffixNow DEF OrderInv
      <3>2. UNCHANGED <<pos, cur>>
        BY <1>3 DEF QueuePut
      <3>3. Suffix(queue'[d], accepted'[d], pos[d], cur[d])
        BY <2>1, <2>2, <2>3, <3>1, SuffixPut
      <3> QED BY <2>3, <3>1, <3>2, <3>3
    <2> QED BY <2>5, <2>6, SuffixNext DEF OrderInv
  <1>4. ASSUME NEW t \in Task, QueuePutBlock(t) \/ QueuePutTimeout(t) PROVE OrderInv'
    <2>1. TypeOK'
      BY <1>4 DEF QueuePutBlock, QueuePutTimeout, OrderInv, TypeOK
    <2>2. UNCHANGED <<queue, accepted, pos, cur>>
      BY <1>4 DEF QueuePutBlock, QueuePutTimeout
    <2> QED BY <2>1, <2>2, SuffixNow, SuffixNext DEF OrderInv
  <1>5. ASSUME NEW d \in Dispatcher, Receive(d) PROVE OrderInv'
    <2>1. /\ queue[d] \in Seq(Msg) /\ accepted[d] \in Seq(Topic) /\ queue[d] # <<>>
          /\ Len(accepted[d]) \in Nat /\ Len(queue[d]) <= Len(accepted[d])
      BY <1>5 DEF Receive, OrderInv, TypeOK, QueueIsSuffix
    <2>2. /\ Tail(queue[d]) \in Seq(Msg) /\ Head(queue[d]) \in Msg
          /\ Len(queue[d]) \in Nat \ {0} /\ Len(Tail(queue[d])) = Len(queue[d]) - 1
      BY <2>1, TailFacts
    <2>3. /\ queue' = [queue EXCEPT ![d] = Tail(@)]
          /\ cur' = [cur EXCEPT ![d] = Head(queue[d])]
          /\ UNCHANGED <<live, out, blocked, accepted>>
          /\ RouteFrom(d, Head(queue[d]), Taken(d) + 1, 1)
      BY <1>5 DEF Receive
    <2>4. /\ queue' \in [Dispatcher -> Seq(Msg)] /\ queue'[d] = Tail(queue[d])
          /\ cur' \in [Dispatcher -> Msg \cup {NoMsg}] /\ cur'[d] = Head(queue[d])
          /\ \A e \in Dispatcher \ {d} : queue'[e] = queue[e] /\ cur'[e] = cur[e]
      <3>1. queue \in [Dispatcher -> Seq(Msg)] /\ cur \in [Dispatcher -> Msg \cup {NoMsg}]
        BY DEF OrderInv, TypeOK
      <3>2. /\ queue' \in [Dispatcher -> Seq(Msg)] /\ queue'[d] = Tail(queue[d])
            /\ \A e \in Dispatcher \ {d} : queue'[e] = queue[e]
        BY <2>2, <2>3, <3>1
      <3>3. /\ cur' \in [Dispatcher -> Msg \cup {NoMsg}] /\ cur'[d] = Head(queue[d])
            /\ \A e \in Dispatcher \ {d} : cur'[e] = cur[e]
        BY <2>2, <2>3, <3>1
      <3> QED BY <3>2, <3>3
    <2>5. Taken(d) + 1 \in Nat /\ 1 \in 1..RouteEnd
      BY <2>1, <2>2 DEF Taken, RouteEnd
    <2>6. /\ pos' \in [Dispatcher -> 0..RouteEnd]
          /\ \A e \in Dispatcher \ {d} : pos'[e] = pos[e]
          /\ todo' \in [Dispatcher -> SUBSET Topic]
          /\ handled' \in [Slot -> Seq(Nat)]
      BY <2>3, <2>5, RouteTypes
    <2>7. \A e \in Dispatcher : Len(queue'[e]) <= QueueLength
      <3>1. Len(queue'[d]) <= QueueLength
        BY <2>2, <2>4 DEF OrderInv, TypeOK
      <3>2. \A e \in Dispatcher : Len(queue[e]) <= QueueLength
        BY DEF OrderInv, TypeOK
      <3> QED BY <2>4, <3>1, <3>2
    <2>8. TypeOK'
      BY <2>3, <2>4, <2>6, <2>7 DEF OrderInv, TypeOK
    <2>9. \A e \in Dispatcher : Suffix(queue'[e], accepted'[e], pos'[e], cur'[e])
      <3>1. \A e \in Dispatcher : Suffix(queue[e], accepted[e], pos[e], cur[e])
        BY SuffixNow DEF OrderInv
      <3>2. Suffix(queue'[d], accepted[d], pos'[d], cur'[d])
        <4>1. Suffix(queue[d], accepted[d], pos[d], cur[d])
          BY <3>1
        <4>2. Suffix(Tail(queue[d]), accepted[d], pos'[d], Head(queue[d]))
          BY <2>1, <4>1, SuffixTake
        <4> QED BY <2>4, <4>2
      <3> QED BY <2>3, <2>4, <2>6, <3>1, <3>2
    <2> QED BY <2>8, <2>9, SuffixNext DEF OrderInv
  <1>6. ASSUME NEW d \in Dispatcher, CallbackReturn(d) PROVE OrderInv'
    <2>1. pos[d] + 1 \in 1..RouteEnd
      BY <1>6 DEF CallbackReturn, RouteEnd
    <2>2. Taken(d) \in Nat
      <3>1. Len(queue[d]) \in Nat /\ Len(accepted[d]) \in Nat /\ Len(queue[d]) <= Len(accepted[d])
        BY DEF OrderInv, TypeOK, QueueIsSuffix
      <3> QED BY <3>1 DEF Taken
    <2>3. /\ UNCHANGED <<queue, live, out, blocked, cur, accepted>>
          /\ pos[d] # 0
          /\ RouteFrom(d, cur[d], Taken(d), pos[d] + 1)
      BY <1>6 DEF CallbackReturn
    <2>4. /\ pos' \in [Dispatcher -> 0..RouteEnd]
          /\ \A e \in Dispatcher \ {d} : pos'[e] = pos[e]
          /\ todo' \in [Dispatcher -> SUBSET Topic]
          /\ handled' \in [Slot -> Seq(Nat)]
      BY <2>1, <2>2, <2>3, RouteTypes
    <2>5. TypeOK'
      BY <2>3, <2>4 DEF OrderInv, TypeOK
    <2>6. \A e \in Dispatcher : Suffix(queue'[e], accepted'[e], pos'[e], cur'[e])
      <3>1. \A e \in Dispatcher : Suffix(queue[e], accepted[e], pos[e], cur[e])
        BY SuffixNow DEF OrderInv
      <3>2. \A e \in Dispatcher : pos'[e] # 0 => pos[e] # 0
        BY <2>3, <2>4
      <3> QED BY <2>3, <3>1, <3>2 DEF Suffix
    <2> QED BY <2>5, <2>6, SuffixNext DEF OrderInv
  <1>7. ASSUME NEW d \in Dispatcher, Release(d) PROVE OrderInv'
    BY <1>7 DEF Release, OrderInv, TypeOK, QueueIsSuffix, Taken, RouteEnd
  <1>8. CASE UNCHANGED vars
    BY <1>8 DEF vars, OrderInv, TypeOK, QueueIsSuffix, Taken
  <1> QED
    BY <1>1, <1>2, <1>3, <1>4, <1>5, <1>6, <1>7, <1>8
       DEF Next, Publish, PutStep, DispatchStep

\* Every variable keeps its type and no queue exceeds max_items; a queue and the
\* message being routed are always the newest part of what was accepted.
THEOREM OrderCorrect == Spec => [](TypeOK /\ QueueIsSuffix)
  <1>1. Init => OrderInv
    BY InitOrder
  <1>2. OrderInv /\ [Next]_vars => OrderInv'
    BY StepOrder
  <1> QED BY <1>1, <1>2, PTL DEF Spec, OrderInv

\* The part of it that the run states alone: no queue of a dispatcher exceeds
\* max_items, and every variable keeps its type.
THEOREM TypeCorrect == Spec => []TypeOK
  BY OrderCorrect, PTL

-----------------------------------------------------------------------------
(* Delivery *)

\* A message is accepted at the dispatcher of its topic only.
OwnTopics ==
  \A d \in Dispatcher : \A n \in 1..Len(accepted[d]) : Owner[accepted[d][n]] = d

HandledInv == OrderInv /\ OwnTopics /\ HandledOnceInOrder

LEMMA AppendAscending ==
  ASSUME NEW h \in Seq(Nat), NEW n \in Nat, Ascending(h), \A v \in Values(h) : v < n
  PROVE  Values(Append(h, n)) = Values(h) \cup {n} /\ Ascending(Append(h, n))
  <1> DEFINE g == Append(h, n)
  <1>1. /\ g \in Seq(Nat) /\ Len(g) = Len(h) + 1 /\ Len(h) \in Nat
        /\ \A i \in 1..Len(h) : g[i] = h[i]
        /\ g[Len(h) + 1] = n
    BY AppendFacts
  <1> HIDE DEF g
  <1>2. \A i \in 1..Len(h) : h[i] < n
    BY DEF Values
  <1>3. Values(g) = Values(h) \cup {n}
    BY <1>1 DEF Values
  <1>4. ASSUME NEW i \in 1..Len(g), NEW j \in 1..Len(g), i < j PROVE g[i] < g[j]
    <2>1. i \in 1..Len(h)
      BY <1>1, <1>4
    <2>2. CASE j = Len(h) + 1
      BY <2>1, <2>2, <1>1, <1>2
    <2>3. CASE j \in 1..Len(h)
      BY <2>1, <2>3, <1>1, <1>4 DEF Ascending
    <2> QED BY <2>2, <2>3, <1>1
  <1> QED BY <1>3, <1>4 DEF Ascending, g

\* The calls due before routing goes on with message n from row `from'.
LEMMA DueBefore ==
  ASSUME NEW d \in Dispatcher, NEW s \in Slot, Owner[SlotTopic[s]] = d,
         NEW n \in Nat, NEW from \in 1..RouteEnd, Taken(d) \in Nat,
         \/ pos[d] = 0 /\ from = 1 /\ n = Taken(d) + 1
         \/ pos[d] \in Slot /\ from = pos[d] + 1 /\ n = Taken(d)
  PROVE  Due(s) = {k \in 1..n : accepted[d][k] = SlotTopic[s] /\ (k < n \/ (k = n /\ s < from))}
  <1>1. Due(s) = {k \in 1..Taken(d) : accepted[d][k] = SlotTopic[s] /\ Reached(d, k, s)}
    BY DispatcherAssumption DEF Due
  <1>2. CASE pos[d] = 0 /\ from = 1 /\ n = Taken(d) + 1
    BY <1>1, <1>2, DispatcherAssumption DEF Reached
  <1>3. CASE pos[d] \in Slot /\ from = pos[d] + 1 /\ n = Taken(d)
    BY <1>1, <1>3, DispatcherAssumption DEF Reached
  <1> QED BY <1>2, <1>3

\* Routing goes on from one row to the next, or from no message to the first
\* row of the next message: exactly the calls that became due are made.
LEMMA RouteCalls ==
  ASSUME HandledInv, NEW d \in Dispatcher, NEW msg, NEW n \in Nat \ {0}, NEW from \in 1..RouteEnd,
         RouteFrom(d, msg, n, from),
         accepted' = accepted,
         n <= Len(accepted[d]), msg.topic = accepted[d][n],
         Taken(d) \in Nat, Taken(d)' = n,
         \/ pos[d] = 0 /\ from = 1 /\ n = Taken(d) + 1
         \/ pos[d] \in Slot /\ from = pos[d] + 1 /\ n = Taken(d),
         \A e \in Dispatcher \ {d} : Taken(e)' = Taken(e)
  PROVE  HandledOnceInOrder'
  <1> USE DispatcherAssumption
  <1>1. PICK p \in from..RouteEnd :
          /\ IsNextStop(msg.topic, from, p)
          /\ pos' = [pos EXCEPT ![d] = p]
          /\ IF p = RouteEnd
             THEN UNCHANGED handled
             ELSE handled' = [handled EXCEPT ![p] = Append(@, n)]
    BY DEF RouteFrom
  <1>2. /\ pos'[d] = p /\ p # 0 /\ p \in 1..RouteEnd
        /\ \A e \in Dispatcher \ {d} : pos'[e] = pos[e]
    BY <1>1 DEF HandledInv, OrderInv, TypeOK, RouteEnd
  <1>3. \A s \in from..(p - 1) : SlotTopic[s] # accepted[d][n]
    BY <1>1 DEF IsNextStop, Wants
  <1>4. p # RouteEnd => p \in Slot /\ SlotTopic[p] = accepted[d][n]
    BY <1>1, <1>2 DEF IsNextStop, Wants, RouteEnd
  <1>5. ASSUME NEW s \in Slot PROVE Values(handled'[s]) = Due(s)' /\ Ascending(handled'[s])
    <2> DEFINE e == Owner[SlotTopic[s]]
    <2>0. /\ handled[s] \in Seq(Nat) /\ Values(handled[s]) = Due(s) /\ Ascending(handled[s])
          /\ s \in 1..NumSlots /\ p \in 1..(NumSlots + 1) /\ handled \in [Slot -> Seq(Nat)]
      BY <1>2 DEF HandledInv, HandledOnceInOrder, OrderInv, TypeOK, RouteEnd
    <2>1. CASE e # d
      <3>1. p # s \/ p = RouteEnd
        BY <2>1, <1>4 DEF HandledInv, OwnTopics
      <3>2. handled'[s] = handled[s]
        BY <3>1, <1>1, <2>0
      <3>3. Due(s)' = Due(s)
        <4>1. CASE e = NULL
          BY <4>1 DEF Due
        <4>2. CASE e \in Dispatcher
          <5>1. Taken(e)' = Taken(e) /\ pos'[e] = pos[e]
            BY <4>2, <2>1, <1>2
          <5> QED BY <5>1 DEF Due, Reached
        <4> QED BY <4>1, <4>2
      <3> QED BY <3>2, <3>3, <2>0
    <2>2. CASE e = d
      <3>2. Due(s)' = {k \in 1..n : accepted[d][k] = SlotTopic[s] /\ (k < n \/ (k = n /\ s <= p))}
        BY <2>2, <1>2 DEF Due, Reached
      <3>3. Due(s) = {k \in 1..n : accepted[d][k] = SlotTopic[s] /\ (k < n \/ (k = n /\ s < from))}
        BY <2>2, DueBefore
      <3>4. CASE p = s
        <4>1. p # RouteEnd /\ SlotTopic[s] = accepted[d][n]
          BY <3>4, <1>4 DEF RouteEnd
        <4>2. handled'[s] = Append(handled[s], n)
          BY <4>1, <3>4, <1>1, <2>0
        <4>3. Due(s)' = Due(s) \cup {n}
          BY <4>1, <3>2, <3>3, <3>4, <2>0
        <4>4. \A v \in Due(s) : v < n
          BY <3>3, <3>4, <1>1
        <4> QED BY <4>2, <4>3, <4>4, <2>0, AppendAscending
      <3>5. CASE p # s
        <4>1. handled'[s] = handled[s]
          BY <3>5, <1>1, <2>0
        <4>2. Due(s)' = Due(s)
          BY <3>2, <3>3, <3>5, <1>3, <2>0, <1>1
        <4> QED BY <4>1, <4>2, <2>0
      <3> QED BY <3>4, <3>5
    <2> QED BY <2>1, <2>2
  <1> QED BY <1>5 DEF HandledOnceInOrder

LEMMA StepOwnTopics ==
  ASSUME OrderInv, OwnTopics, [Next]_vars
  PROVE  OwnTopics'
  <1>1. CASE UNCHANGED accepted
    BY <1>1 DEF OwnTopics
  <1>2. ASSUME NEW t \in Task, QueuePut(t) PROVE OwnTopics'
    <2>1. /\ out[t] \in Msg
          /\ accepted' = [accepted EXCEPT ![Owner[out[t].topic]] = Append(@, out[t].topic)]
      BY <1>2 DEF QueuePut, OrderInv, TypeOK
    <2>2. PICK d \in Dispatcher : d = Owner[out[t].topic] /\ out[t].topic \in Topic
      BY <2>1, DispatcherAssumption DEF Msg
    <2>3. accepted \in [Dispatcher -> Seq(Topic)] /\ accepted[d] \in Seq(Topic)
      BY DEF OrderInv, TypeOK
    <2>4. /\ Len(Append(accepted[d], out[t].topic)) = Len(accepted[d]) + 1
          /\ Len(accepted[d]) \in Nat
          /\ \A i \in 1..Len(accepted[d]) : Append(accepted[d], out[t].topic)[i] = accepted[d][i]
          /\ Append(accepted[d], out[t].topic)[Len(accepted[d]) + 1] = out[t].topic
      BY <2>2, <2>3, AppendFacts
    <2>5. /\ accepted'[d] = Append(accepted[d], out[t].topic)
          /\ \A e \in Dispatcher \ {d} : accepted'[e] = accepted[e]
      BY <2>1, <2>2, <2>3
    <2>6. \A i \in 1..Len(accepted'[d]) : Owner[accepted'[d][i]] = d
      <3>1. PICK n \in Nat : n = Len(accepted[d])
        BY <2>4
      <3>2. \A i \in 1..n : Owner[accepted[d][i]] = d
        BY <2>2, <3>1 DEF OwnTopics
      <3>3. PICK s : s = accepted'[d]
        OBVIOUS
      <3>4. /\ Len(s) = n + 1 /\ s[n + 1] = out[t].topic
            /\ \A i \in 1..n : s[i] = accepted[d][i]
        BY <2>4, <2>5, <3>1, <3>3
      <3>5. \A i \in 1..n + 1 : i = n + 1 \/ i \in 1..n
        OBVIOUS
      <3>6. \A i \in 1..Len(s) : Owner[s[i]] = d
        BY <2>2, <3>2, <3>4, <3>5
      <3> QED
        BY <3>3, <3>6
    <2> QED BY <2>5, <2>6 DEF OwnTopics
  <1>3. [Next]_vars => UNCHANGED accepted \/ \E t \in Task : QueuePut(t)
    BY DEF Next, vars, Publish, PublishRejected, PublishCopy, PutStep, QueuePutBlock,
           QueuePutTimeout, DispatchStep, Receive, CallbackReturn, Release
  <1> QED BY <1>1, <1>2, <1>3

LEMMA TakenFacts ==
  ASSUME HandledInv, NEW d \in Dispatcher
  PROVE  /\ Len(queue[d]) \in Nat /\ Len(accepted[d]) \in Nat
         /\ Taken(d) \in Nat /\ Taken(d) <= Len(accepted[d])
         /\ queue[d] # <<>> => Taken(d) + 1 <= Len(accepted[d])
  <1>1. queue[d] \in Seq(Msg) /\ accepted[d] \in Seq(Topic)
    BY DEF HandledInv, OrderInv, TypeOK
  <1>2. Len(queue[d]) <= Len(accepted[d])
    BY DEF HandledInv, OrderInv, QueueIsSuffix
  <1>3. /\ Len(queue[d]) \in Nat /\ Len(accepted[d]) \in Nat
        /\ queue[d] # <<>> => Len(queue[d]) # 0
    BY <1>1
  <1>4. ASSUME NEW a \in Nat, NEW q \in Nat, q <= a
        PROVE  a - q \in Nat /\ a - q <= a /\ (q # 0 => a - q + 1 <= a)
    BY <1>4
  <1> QED BY <1>2, <1>3, <1>4 DEF Taken

LEMMA StepHandled == HandledInv /\ [Next]_vars => HandledInv'
  <1> SUFFICES ASSUME HandledInv, [Next]_vars PROVE HandledInv'
    OBVIOUS
  <1> USE DispatcherAssumption
  <1>0. OrderInv' /\ OwnTopics'
    BY StepOrder, StepOwnTopics DEF HandledInv
  <1>1. CASE UNCHANGED <<queue, accepted, pos, handled>>
    <2>1. \A s \in Slot : Due(s)' = Due(s)
      BY <1>1 DEF Due, Reached, Taken
    <2>2. HandledOnceInOrder'
      BY <1>1, <2>1 DEF HandledInv, HandledOnceInOrder
    <2> QED BY <1>0, <2>2 DEF HandledInv
  <1>2. ASSUME NEW t \in Task, QueuePut(t) PROVE HandledOnceInOrder'
    <2>1. /\ out[t] \in Msg
          /\ queue' = [queue EXCEPT ![Owner[out[t].topic]] = Append(@, out[t])]
          /\ accepted' = [accepted EXCEPT ![Owner[out[t].topic]] = Append(@, out[t].topic)]
          /\ UNCHANGED <<pos, handled>>
      BY <1>2 DEF QueuePut, HandledInv, OrderInv, TypeOK
    <2>2. PICK d \in Dispatcher : d = Owner[out[t].topic] /\ out[t].topic \in Topic
      BY <2>1 DEF Msg
    <2>3. /\ queue \in [Dispatcher -> Seq(Msg)] /\ queue[d] \in Seq(Msg)
          /\ accepted \in [Dispatcher -> Seq(Topic)] /\ accepted[d] \in Seq(Topic)
      BY DEF HandledInv, OrderInv, TypeOK
    <2>4. /\ Len(Append(accepted[d], out[t].topic)) = Len(accepted[d]) + 1
          /\ \A i \in 1..Len(accepted[d]) : Append(accepted[d], out[t].topic)[i] = accepted[d][i]
      BY <2>2, <2>3, AppendFacts
    <2>5. Len(Append(queue[d], out[t])) = Len(queue[d]) + 1
      BY <2>1, <2>3, AppendFacts
    <2>6. /\ accepted'[d] = Append(accepted[d], out[t].topic)
          /\ \A e \in Dispatcher \ {d} : accepted'[e] = accepted[e]
      BY <2>1, <2>2, <2>3
    <2>7. /\ queue'[d] = Append(queue[d], out[t])
          /\ \A e \in Dispatcher \ {d} : queue'[e] = queue[e]
      BY <2>1, <2>2, <2>3
    <2>8. ASSUME NEW e \in Dispatcher
          PROVE  Taken(e)' = Taken(e) /\ \A i \in 1..Taken(e) : accepted'[e][i] = accepted[e][i]
      <3>1. CASE e = d
        <4>1. Taken(d)' = Len(accepted'[d]) - Len(queue'[d]) /\ Taken(d) = Len(accepted[d]) - Len(queue[d])
          BY DEF Taken
        <4>2. Len(accepted'[d]) = Len(accepted[d]) + 1 /\ Len(queue'[d]) = Len(queue[d]) + 1
          BY <2>4, <2>5, <2>6, <2>7
        <4>3. Taken(d)' = Taken(d)
          BY <4>1, <4>2, TakenFacts
        <4>4. \A i \in 1..Taken(d) : accepted'[d][i] = accepted[d][i]
          BY TakenFacts, <2>4, <2>6
        <4> QED BY <3>1, <4>3, <4>4
      <3>2. CASE e # d
        BY <3>2, <2>6, <2>7 DEF Taken
      <3> QED BY <3>1, <3>2
    <2>9. ASSUME NEW s \in Slot PROVE Due(s)' = Due(s)
      <3>1. CASE Owner[SlotTopic[s]] = NULL
        BY <3>1 DEF Due
      <3>2. CASE Owner[SlotTopic[s]] # NULL
        <4>1. PICK e \in Dispatcher : e = Owner[SlotTopic[s]]
          BY <3>2
        <4>2. Due(s) = {n \in 1..Taken(e) : accepted[e][n] = SlotTopic[s] /\ Reached(e, n, s)}
          BY <3>2, <4>1 DEF Due
        <4>3. Due(s)' = {n \in 1..Taken(e) : accepted'[e][n] = SlotTopic[s] /\ Reached(e, n, s)'}
          BY <3>2, <4>1, <2>8 DEF Due
        <4>4. \A n \in 1..Taken(e) : Reached(e, n, s)' = Reached(e, n, s)
          BY <2>1, <2>8 DEF Reached
        <4> QED BY <4>2, <4>3, <4>4, <2>8
      <3> QED BY <3>1, <3>2
    <2> QED BY <2>1, <2>9 DEF HandledInv, HandledOnceInOrder
  <1>3. ASSUME NEW d \in Dispatcher, Receive(d) PROVE HandledOnceInOrder'
    <2>1. /\ pos[d] = 0 /\ queue[d] # <<>> /\ queue[d] \in Seq(Msg)
          /\ queue' = [queue EXCEPT ![d] = Tail(@)] /\ queue \in [Dispatcher -> Seq(Msg)]
          /\ RouteFrom(d, Head(queue[d]), Taken(d) + 1, 1)
          /\ accepted' = accepted
      BY <1>3 DEF Receive, HandledInv, OrderInv, TypeOK
    <2>2. /\ Len(queue[d]) \in Nat \ {0} /\ Len(Tail(queue[d])) = Len(queue[d]) - 1
          /\ Head(queue[d]) = queue[d][1]
      BY <2>1, TailFacts
    <2>3. queue'[d] = Tail(queue[d]) /\ \A e \in Dispatcher \ {d} : queue'[e] = queue[e]
      BY <2>1
    <2>4. Taken(d)' = Taken(d) + 1 /\ \A e \in Dispatcher \ {d} : Taken(e)' = Taken(e)
      BY <2>1, <2>2, <2>3, TakenFacts DEF Taken
    <2>5. Taken(d) + 1 <= Len(accepted[d])
      BY <2>1, TakenFacts
    <2>6. Head(queue[d]).topic = accepted[d][Taken(d) + 1]
      BY <2>2 DEF HandledInv, OrderInv, QueueIsSuffix
    <2>7. 1 \in 1..RouteEnd /\ Taken(d) + 1 \in Nat \ {0} /\ Taken(d) \in Nat
      BY TakenFacts DEF RouteEnd
    <2> QED BY <2>1, <2>4, <2>5, <2>6, <2>7, RouteCalls
  <1>4. ASSUME NEW d \in Dispatcher, CallbackReturn(d) PROVE HandledOnceInOrder'
    <2>1. /\ pos[d] \in Slot
          /\ RouteFrom(d, cur[d], Taken(d), pos[d] + 1)
          /\ accepted' = accepted /\ queue' = queue
      BY <1>4 DEF CallbackReturn
    <2>2. Taken(d) > 0 /\ cur[d].topic = accepted[d][Taken(d)]
      BY <2>1 DEF HandledInv, OrderInv, QueueIsSuffix
    <2>3. /\ Taken(d) \in Nat \ {0} /\ Taken(d) <= Len(accepted[d]) /\ pos[d] + 1 \in 1..RouteEnd
      BY <2>1, <2>2, TakenFacts DEF RouteEnd
    <2>4. \A e \in Dispatcher : Taken(e)' = Taken(e)
      BY <2>1 DEF Taken
    <2> QED BY <2>1, <2>2, <2>3, <2>4, RouteCalls
  <1>5. ASSUME NEW d \in Dispatcher, Release(d) PROVE HandledOnceInOrder'
    <2>1. /\ pos' = [pos EXCEPT ![d] = 0] /\ pos[d] = RouteEnd
          /\ UNCHANGED <<queue, accepted, handled>>
          /\ pos \in [Dispatcher -> 0..RouteEnd]
      BY <1>5 DEF Release, HandledInv, OrderInv, TypeOK
    <2>2. \A e \in Dispatcher : Taken(e)' = Taken(e)
      BY <2>1 DEF Taken
    <2>3. ASSUME NEW s \in Slot PROVE Due(s)' = Due(s)
      <3>1. \A e \in Dispatcher, n \in Nat : Reached(e, n, s)' = Reached(e, n, s)
        BY <2>1, <2>2 DEF Reached, RouteEnd
      <3>2. CASE Owner[SlotTopic[s]] = NULL
        BY <3>2 DEF Due
      <3>3. CASE Owner[SlotTopic[s]] # NULL
        <4>1. PICK e \in Dispatcher : e = Owner[SlotTopic[s]]
          BY <3>3
        <4>2. Due(s) = {n \in 1..Taken(e) : accepted[e][n] = SlotTopic[s] /\ Reached(e, n, s)}
          BY <3>3, <4>1 DEF Due
        <4>3. Due(s)' = {n \in 1..Taken(e) : accepted[e][n] = SlotTopic[s] /\ Reached(e, n, s)'}
          BY <3>3, <4>1, <2>1, <2>2 DEF Due
        <4> QED BY <4>1, <4>2, <4>3, <3>1
      <3> QED BY <3>2, <3>3
    <2> QED BY <2>1, <2>3 DEF HandledInv, HandledOnceInOrder
  <1>6. [Next]_vars =>
          \/ UNCHANGED <<queue, accepted, pos, handled>>
          \/ \E t \in Task : QueuePut(t)
          \/ \E d \in Dispatcher : DispatchStep(d)
    BY DEF Next, vars, Publish, PublishRejected, PublishCopy, PutStep, QueuePutBlock, QueuePutTimeout
  <1> QED
    BY <1>0, <1>1, <1>2, <1>3, <1>4, <1>5, <1>6 DEF HandledInv, DispatchStep

LEMMA InitHandled == Init => HandledInv
  <1> SUFFICES ASSUME Init PROVE HandledInv
    OBVIOUS
  <1>1. OrderInv
    BY InitOrder
  <1>2. OwnTopics
    BY DEF Init, OwnTopics
  <1>3. ASSUME NEW s \in Slot PROVE Values(handled[s]) = Due(s) /\ Ascending(handled[s])
    BY DispatcherAssumption DEF Init, Values, Due, Ascending, Taken
  <1> QED BY <1>1, <1>2, <1>3 DEF HandledInv, HandledOnceInOrder

\* Whatever publishers, full queues, timeouts and publishing callbacks do in
\* between, each subscriber is called exactly once with every accepted message
\* of its topic that routing has reached, in the order of acceptance.
THEOREM DeliveryCorrect == Spec => []HandledOnceInOrder
  <1>1. Init => HandledInv
    BY InitHandled
  <1>2. HandledInv /\ [Next]_vars => HandledInv'
    BY StepHandled
  <1>3. HandledInv => HandledOnceInOrder
    BY DEF HandledInv
  <1> QED BY <1>1, <1>2, <1>3, PTL DEF Spec

-----------------------------------------------------------------------------
(* The heap *)

\* Between two messages a dispatcher_task holds no descriptor.
IdleHoldsNothing == \A d \in Dispatcher : pos[d] = 0 => cur[d] = NoMsg

HeapInv == OrderInv /\ IdleHoldsNothing /\ BufferOwnership

\* The holders of b stay the same.
SameHolders(b) ==
  Callers(b)' = Callers(b) /\ Entries(b)' = Entries(b) /\ Routers(b)' = Routers(b)

LEMMA SameOwnership ==
  ASSUME NEW b \in Buffer, SameHolders(b), b \in live' <=> b \in live, BufferOwnership
  PROVE  IF b \in live' THEN OneHolder(b)' ELSE NoHolder(b)'
  BY DEF SameHolders, BufferOwnership, OneHolder, NoHolder

\* Who refers to a block is its only holder, and the block is allocated.
LEMMA CallerIsHolder ==
  ASSUME HeapInv, NEW b \in Buffer, NEW t \in Task, out[t].data = b
  PROVE  b \in live /\ Callers(b) = {t} /\ Entries(b) = {} /\ Routers(b) = {}
  BY DEF HeapInv, BufferOwnership, OneHolder, NoHolder, Callers

LEMMA RouterIsHolder ==
  ASSUME HeapInv, NEW b \in Buffer, NEW d \in Dispatcher, cur[d].data = b
  PROVE  b \in live /\ Callers(b) = {} /\ Entries(b) = {} /\ Routers(b) = {d}
  BY DEF HeapInv, BufferOwnership, OneHolder, NoHolder, Routers

LEMMA EntryIsHolder ==
  ASSUME HeapInv, NEW b \in Buffer, NEW e \in Entries(b)
  PROVE  b \in live /\ Callers(b) = {} /\ Entries(b) = {e} /\ Routers(b) = {}
  BY DEF HeapInv, BufferOwnership, OneHolder, NoHolder

LEMMA StepHeap == HeapInv /\ [Next]_vars => HeapInv'
  <1> SUFFICES ASSUME HeapInv, [Next]_vars PROVE HeapInv'
    OBVIOUS
  <1> USE DispatcherAssumption
  <1>0. OrderInv'
    BY StepOrder DEF HeapInv
  <1>1. CASE UNCHANGED <<queue, live, out, cur, pos>>
    <2>1. \A b \in Buffer : SameHolders(b)
      BY <1>1 DEF SameHolders, Callers, Entries, Routers
    <2>2. BufferOwnership'
      BY <1>1, <2>1, SameOwnership DEF HeapInv, BufferOwnership
    <2>3. IdleHoldsNothing'
      BY <1>1 DEF HeapInv, IdleHoldsNothing
    <2> QED BY <1>0, <2>2, <2>3 DEF HeapInv
  <1>2. ASSUME NEW t \in Task, NEW topic \in Topic, NEW data \in Buffer \cup {NULL},
               PublishCopy(t, topic, data)
        PROVE  HeapInv'
    <2>1. /\ out[t] = NoMsg /\ data \notin live /\ live' = live \cup ({data} \ {NULL})
          /\ out' = [out EXCEPT ![t] = [topic |-> topic, data |-> data]]
          /\ out \in [Task -> Msg \cup {NoMsg}]
          /\ UNCHANGED <<queue, cur, pos>>
      BY <1>2 DEF PublishCopy, MayPublish, HeapInv, OrderInv, TypeOK
    <2>2. out'[t].data = data /\ \A u \in Task \ {t} : out'[u] = out[u]
      BY <2>1
    <2>3. ASSUME NEW b \in Buffer PROVE IF b \in live' THEN OneHolder(b)' ELSE NoHolder(b)'
      <3>1. Entries(b)' = Entries(b) /\ Routers(b)' = Routers(b)
        BY <2>1 DEF Entries, Routers
      <3>2. CASE b = data
        <4>1. NoHolder(b)
          BY <2>1, <3>2 DEF HeapInv, BufferOwnership
        <4>2. Callers(b)' = {t}
          BY <4>1, <2>2, <3>2 DEF NoHolder, Callers
        <4>3. b \in live'
          BY <2>1, <3>2
        <4> QED BY <3>1, <4>1, <4>2, <4>3 DEF NoHolder, OneHolder
      <3>3. CASE b # data
        <4>1. out[t].data # b
          BY <2>1 DEF NoMsg
        <4>2. Callers(b)' = Callers(b)
          BY <4>1, <2>2, <3>3 DEF Callers
        <4> QED BY <2>1, <3>1, <3>3, <4>2, SameOwnership DEF SameHolders, HeapInv
      <3> QED BY <3>2, <3>3
    <2>4. IdleHoldsNothing'
      BY <2>1 DEF HeapInv, IdleHoldsNothing
    <2> QED BY <1>0, <2>3, <2>4 DEF HeapInv, BufferOwnership
  <1>3. ASSUME NEW t \in Task, QueuePut(t) PROVE HeapInv'
    <2>1. PICK d \in Dispatcher :
            /\ out[t] \in Msg /\ Len(queue[d]) < QueueLength
            /\ queue' = [queue EXCEPT ![d] = Append(@, out[t])]
            /\ out' = [out EXCEPT ![t] = NoMsg]
            /\ UNCHANGED <<live, cur, pos>>
      <3>1. out[t] \in Msg
        BY <1>3 DEF QueuePut, HeapInv, OrderInv, TypeOK
      <3>2. Owner[out[t].topic] \in Dispatcher
        BY <3>1 DEF Msg
      <3> QED BY <1>3, <3>1, <3>2 DEF QueuePut
    <2>2. /\ queue \in [Dispatcher -> Seq(Msg)] /\ queue[d] \in Seq(Msg)
          /\ out \in [Task -> Msg \cup {NoMsg}]
      BY DEF HeapInv, OrderInv, TypeOK
    <2>3. /\ queue'[d] = Append(queue[d], out[t])
          /\ \A e \in Dispatcher \ {d} : queue'[e] = queue[e]
      BY <2>1, <2>2
    <2>4. out'[t] = NoMsg /\ \A u \in Task \ {t} : out'[u] = out[u]
      BY <2>1, <2>2
    <2>5. out[t] \in Msg
      BY <2>1
    <2>6. /\ Len(queue'[d]) = Len(queue[d]) + 1 /\ Len(queue[d]) \in Nat
          /\ \A i \in 1..Len(queue[d]) : queue'[d][i] = queue[d][i]
          /\ queue'[d][Len(queue[d]) + 1] = out[t]
      BY <2>2, <2>3, <2>5, AppendFacts
    <2>7. <<d, Len(queue[d]) + 1>> \in Dispatcher \X (1..QueueLength)
      BY <2>1, <2>6
    <2>8. ASSUME NEW b \in Buffer PROVE IF b \in live' THEN OneHolder(b)' ELSE NoHolder(b)'
      <3>1. Routers(b)' = Routers(b)
        BY <2>1 DEF Routers
      <3>2. CASE b = out[t].data
        <4>1. b \in live /\ Callers(b) = {t} /\ Entries(b) = {} /\ Routers(b) = {}
          BY <3>2, CallerIsHolder
        <4>2. Callers(b)' = {}
          <5>1. NoMsg.data # b
            BY DEF NoMsg
          <5> QED BY <4>1, <5>1, <2>4 DEF Callers
        <4>3. Entries(b)' = {<<d, Len(queue[d]) + 1>>}
          <5>1. <<d, Len(queue[d]) + 1>> \in Entries(b)'
            BY <2>6, <2>7, <3>2 DEF Entries
          <5>2. ASSUME NEW e \in Entries(b)' PROVE e = <<d, Len(queue[d]) + 1>>
            <6>1. PICK f \in Dispatcher, i \in 1..QueueLength :
                    e = <<f, i>> /\ i <= Len(queue'[f]) /\ queue'[f][i].data = b
              BY DEF Entries
            <6>2. <<f, i>> \notin Entries(b)
              BY <4>1
            <6>3. ~(i <= Len(queue[f]) /\ queue[f][i].data = b)
              BY <6>2 DEF Entries
            <6>4. f = d
              BY <6>1, <6>3, <2>3
            <6>5. ~(i \in 1..Len(queue[d]))
              BY <6>1, <6>3, <6>4, <2>6
            <6>6. i = Len(queue[d]) + 1
              BY <6>1, <6>4, <6>5, <2>6
            <6> QED BY <6>1, <6>4, <6>6
          <5> QED BY <5>1, <5>2
        <4> QED BY <2>1, <3>1, <4>1, <4>2, <4>3 DEF OneHolder
      <3>3. CASE b # out[t].data
        <4>1. Callers(b)' = Callers(b)
          <5>1. NoMsg.data # b
            BY DEF NoMsg
          <5> QED BY <5>1, <3>3, <2>4 DEF Callers
        <4>2. ASSUME NEW f \in Dispatcher, NEW i \in 1..QueueLength
              PROVE  (i <= Len(queue'[f]) /\ queue'[f][i].data = b)
                     <=> (i <= Len(queue[f]) /\ queue[f][i].data = b)
          <5>1. CASE f # d
            BY <5>1, <2>3
          <5>2. CASE f = d /\ i = Len(queue[d]) + 1
            BY <5>2, <2>6, <3>3
          <5>3. CASE f = d /\ i # Len(queue[d]) + 1
            BY <5>3, <2>6
          <5> QED BY <5>1, <5>2, <5>3
        <4>3. Entries(b)' = Entries(b)
          BY <4>2 DEF Entries
        <4> QED BY <2>1, <3>1, <4>1, <4>3, SameOwnership DEF SameHolders, HeapInv
      <3> QED BY <3>2, <3>3
    <2>9. IdleHoldsNothing'
      BY <2>1 DEF HeapInv, IdleHoldsNothing
    <2> QED BY <1>0, <2>8, <2>9 DEF HeapInv, BufferOwnership
  <1>4. ASSUME NEW t \in Task, QueuePutTimeout(t) PROVE HeapInv'
    <2>1. /\ live' = live \ {out[t].data}
          /\ out' = [out EXCEPT ![t] = NoMsg] /\ out \in [Task -> Msg \cup {NoMsg}]
          /\ UNCHANGED <<queue, cur, pos>>
      BY <1>4 DEF QueuePutTimeout, HeapInv, OrderInv, TypeOK
    <2>2. out'[t] = NoMsg /\ \A u \in Task \ {t} : out'[u] = out[u]
      BY <2>1
    <2>3. ASSUME NEW b \in Buffer PROVE IF b \in live' THEN OneHolder(b)' ELSE NoHolder(b)'
      <3>0. NoMsg.data # b
        BY DEF NoMsg
      <3>1. Entries(b)' = Entries(b) /\ Routers(b)' = Routers(b)
        BY <2>1 DEF Entries, Routers
      <3>2. CASE b = out[t].data
        <4>1. Callers(b) = {t} /\ Entries(b) = {} /\ Routers(b) = {}
          BY <3>2, CallerIsHolder
        <4>2. Callers(b)' = {}
          BY <4>1, <3>0, <2>2 DEF Callers
        <4> QED BY <2>1, <3>1, <3>2, <4>1, <4>2 DEF NoHolder
      <3>3. CASE b # out[t].data
        <4>1. Callers(b)' = Callers(b)
          BY <3>0, <3>3, <2>2 DEF Callers
        <4> QED BY <2>1, <3>1, <3>3, <4>1, SameOwnership DEF SameHolders, HeapInv
      <3> QED BY <3>2, <3>3
    <2>4. IdleHoldsNothing'
      BY <2>1 DEF HeapInv, IdleHoldsNothing
    <2> QED BY <1>0, <2>3, <2>4 DEF HeapInv, BufferOwnership
  <1>5. ASSUME NEW d \in Dispatcher, Receive(d) PROVE HeapInv'
    <2>1. /\ pos[d] = 0 /\ queue[d] # <<>>
          /\ queue' = [queue EXCEPT ![d] = Tail(@)]
          /\ cur' = [cur EXCEPT ![d] = Head(queue[d])]
          /\ UNCHANGED <<live, out>>
      BY <1>5 DEF Receive
    <2>2. /\ queue \in [Dispatcher -> Seq(Msg)] /\ queue[d] \in Seq(Msg)
          /\ cur \in [Dispatcher -> Msg \cup {NoMsg}] /\ pos \in [Dispatcher -> 0..RouteEnd]
          /\ \A e \in Dispatcher : Len(queue[e]) <= QueueLength
      BY DEF HeapInv, OrderInv, TypeOK
    <2>3. queue'[d] = Tail(queue[d]) /\ \A e \in Dispatcher \ {d} : queue'[e] = queue[e]
      BY <2>1, <2>2
    <2>4. /\ Len(queue[d]) \in Nat \ {0} /\ Len(queue'[d]) = Len(queue[d]) - 1
          /\ \A i \in 1..Len(queue'[d]) : queue'[d][i] = queue[d][i + 1]
          /\ Head(queue[d]) = queue[d][1]
      BY <2>1, <2>2, <2>3, TailFacts
    <2>5. /\ cur'[d] = Head(queue[d]) /\ cur[d] = NoMsg
          /\ \A e \in Dispatcher \ {d} : cur'[e] = cur[e]
      BY <2>1, <2>2 DEF HeapInv, IdleHoldsNothing
    <2>6. Len(queue[d]) <= QueueLength
      BY <2>2
    <2>7. ASSUME NEW b \in Buffer PROVE IF b \in live' THEN OneHolder(b)' ELSE NoHolder(b)'
      <3>0. NoMsg.data # b
        BY DEF NoMsg
      <3>1. Callers(b)' = Callers(b)
        BY <2>1 DEF Callers
      <3>2. CASE queue[d][1].data = b
        <4>1. <<d, 1>> \in Entries(b)
          BY <2>4, <3>2 DEF Entries
        <4>2. b \in live /\ Callers(b) = {} /\ Entries(b) = {<<d, 1>>} /\ Routers(b) = {}
          BY <4>1, EntryIsHolder
        <4>3. Routers(b)' = {d}
          BY <2>4, <2>5, <3>2, <4>2 DEF Routers
        <4>4. ASSUME NEW e \in Entries(b)' PROVE FALSE
          <5>1. PICK f \in Dispatcher, i \in 1..QueueLength :
                  i <= Len(queue'[f]) /\ queue'[f][i].data = b
            BY DEF Entries
          <5>2. CASE f # d
            <6>1. <<f, i>> \in Entries(b)
              BY <5>1, <5>2, <2>3 DEF Entries
            <6> QED BY <5>2, <6>1, <4>2
          <5>3. CASE f = d
            <6>1. i + 1 \in 1..QueueLength /\ i + 1 <= Len(queue[d]) /\ queue[d][i + 1].data = b
              BY <5>1, <5>3, <2>4, <2>6
            <6>2. <<d, i + 1>> \in Entries(b)
              BY <6>1 DEF Entries
            <6> QED BY <6>2, <4>2
          <5> QED BY <5>2, <5>3
        <4>5. Entries(b)' = {}
          BY <4>4
        <4> QED BY <2>1, <3>1, <4>2, <4>3, <4>5 DEF OneHolder
      <3>3. CASE queue[d][1].data # b
        <4>1. Routers(b)' = Routers(b)
          BY <2>4, <2>5, <3>0, <3>3 DEF Routers
        <4>2. ASSUME NEW f \in Dispatcher, NEW i \in 1..QueueLength,
                     i <= Len(queue'[f]), queue'[f][i].data = b
              PROVE  IF f = d THEN <<d, i + 1>> \in Entries(b) ELSE <<f, i>> \in Entries(b)
          <5>1. CASE f # d
            BY <5>1, <4>2, <2>3 DEF Entries
          <5>2. CASE f = d
            <6>1. i + 1 \in 1..QueueLength /\ i + 1 <= Len(queue[d]) /\ queue[d][i + 1].data = b
              BY <4>2, <5>2, <2>4, <2>6
            <6>2. <<d, i + 1>> \in Entries(b)
              BY <6>1 DEF Entries
            <6> QED BY <5>2, <6>2
          <5> QED BY <5>1, <5>2
        <4>3. CASE Entries(b) = {}
          <5>1. Entries(b)' = {}
            BY <4>2, <4>3 DEF Entries
          <5> QED BY <2>1, <3>1, <4>1, <4>3, <5>1, SameOwnership DEF SameHolders, HeapInv
        <4>4. CASE Entries(b) # {}
          <5>1. PICK f \in Dispatcher, i \in 1..QueueLength :
                  <<f, i>> \in Entries(b) /\ i <= Len(queue[f]) /\ queue[f][i].data = b
            BY <4>4 DEF Entries
          <5>2. b \in live /\ Callers(b) = {} /\ Entries(b) = {<<f, i>>} /\ Routers(b) = {}
            BY <5>1, EntryIsHolder
          <5>3. CASE f # d
            <6>1. <<f, i>> \in Entries(b)'
              BY <5>1, <5>3, <2>3 DEF Entries
            <6>2. ASSUME NEW g \in Dispatcher, NEW j \in 1..QueueLength,
                         j <= Len(queue'[g]), queue'[g][j].data = b
                  PROVE  g = f /\ j = i
              BY <6>2, <4>2, <5>2, <5>3
            <6>3. \A e \in Entries(b)' : e = <<f, i>>
              BY <6>2 DEF Entries
            <6>4. Entries(b)' = {<<f, i>>}
              BY <6>1, <6>3
            <6> QED BY <2>1, <3>1, <4>1, <5>2, <6>4 DEF OneHolder
          <5>4. CASE f = d
            <6>0. i # 1 /\ i - 1 \in 1..QueueLength /\ i - 1 <= Len(queue'[d])
              BY <5>1, <5>4, <3>3, <2>4
            <6>1. <<d, i - 1>> \in Entries(b)'
              <7>1. queue'[d][i - 1].data = b
                BY <6>0, <5>1, <5>4, <2>4
              <7> QED BY <6>0, <7>1 DEF Entries
            <6>2. ASSUME NEW g \in Dispatcher, NEW j \in 1..QueueLength,
                         j <= Len(queue'[g]), queue'[g][j].data = b
                  PROVE  g = d /\ j = i - 1
              <7>1. CASE g # d
                BY <7>1, <6>2, <4>2, <5>2, <5>4
              <7>2. CASE g = d
                <8>1. <<d, j + 1>> = <<f, i>>
                  BY <7>2, <6>2, <4>2, <5>2
                <8> QED BY <7>2, <8>1
              <7> QED BY <7>1, <7>2
            <6>3. \A e \in Entries(b)' : e = <<d, i - 1>>
              BY <6>2 DEF Entries
            <6>4. Entries(b)' = {<<d, i - 1>>}
              BY <6>1, <6>3
            <6> QED BY <2>1, <3>1, <4>1, <5>2, <6>4 DEF OneHolder
          <5> QED BY <5>3, <5>4
        <4> QED BY <4>3, <4>4
      <3> QED BY <3>2, <3>3
    <2>8. IdleHoldsNothing'
      <3>1. RouteFrom(d, Head(queue[d]), Taken(d) + 1, 1)
        BY <1>5 DEF Receive
      <3>2. PICK p \in 1..RouteEnd : pos' = [pos EXCEPT ![d] = p]
        BY <3>1 DEF RouteFrom
      <3>3. pos'[d] # 0 /\ \A e \in Dispatcher \ {d} : pos'[e] = pos[e]
        BY <3>2, <2>2
      <3> QED BY <3>3, <2>5 DEF HeapInv, IdleHoldsNothing
    <2> QED BY <1>0, <2>7, <2>8 DEF HeapInv, BufferOwnership
  <1>6. ASSUME NEW d \in Dispatcher, CallbackReturn(d) PROVE HeapInv'
    <2>1. /\ pos[d] \in Slot /\ UNCHANGED <<queue, live, out, cur>>
          /\ RouteFrom(d, cur[d], Taken(d), pos[d] + 1)
      BY <1>6 DEF CallbackReturn
    <2>2. PICK p \in (pos[d] + 1)..RouteEnd : pos' = [pos EXCEPT ![d] = p]
      BY <2>1 DEF RouteFrom
    <2>3. pos \in [Dispatcher -> 0..RouteEnd]
      BY DEF HeapInv, OrderInv, TypeOK
    <2>4. pos'[d] # 0 /\ \A e \in Dispatcher \ {d} : pos'[e] = pos[e]
      BY <2>1, <2>2, <2>3
    <2>5. IdleHoldsNothing'
      BY <2>1, <2>4 DEF HeapInv, IdleHoldsNothing
    <2>6. \A b \in Buffer : SameHolders(b)
      BY <2>1 DEF SameHolders, Callers, Entries, Routers
    <2> QED BY <1>0, <2>1, <2>5, <2>6, SameOwnership DEF HeapInv, BufferOwnership
  <1>7. ASSUME NEW d \in Dispatcher, Release(d) PROVE HeapInv'
    <2>1. /\ live' = live \ {cur[d].data}
          /\ cur' = [cur EXCEPT ![d] = NoMsg] /\ cur \in [Dispatcher -> Msg \cup {NoMsg}]
          /\ pos' = [pos EXCEPT ![d] = 0] /\ pos \in [Dispatcher -> 0..RouteEnd]
          /\ UNCHANGED <<queue, out>>
      BY <1>7 DEF Release, HeapInv, OrderInv, TypeOK
    <2>2. cur'[d] = NoMsg /\ \A e \in Dispatcher \ {d} : cur'[e] = cur[e] /\ pos'[e] = pos[e]
      BY <2>1
    <2>3. ASSUME NEW b \in Buffer PROVE IF b \in live' THEN OneHolder(b)' ELSE NoHolder(b)'
      <3>0. NoMsg.data # b
        BY DEF NoMsg
      <3>1. Callers(b)' = Callers(b) /\ Entries(b)' = Entries(b)
        BY <2>1 DEF Callers, Entries
      <3>2. CASE b = cur[d].data
        <4>1. Callers(b) = {} /\ Entries(b) = {} /\ Routers(b) = {d}
          BY <3>2, RouterIsHolder
        <4>2. Routers(b)' = {}
          BY <4>1, <3>0, <2>2 DEF Routers
        <4> QED BY <2>1, <3>1, <3>2, <4>1, <4>2 DEF NoHolder
      <3>3. CASE b # cur[d].data
        <4>1. Routers(b)' = Routers(b)
          BY <3>0, <3>3, <2>2 DEF Routers
        <4> QED BY <2>1, <3>1, <3>3, <4>1, SameOwnership DEF SameHolders, HeapInv
      <3> QED BY <3>2, <3>3
    <2>4. IdleHoldsNothing'
      BY <2>1, <2>2 DEF HeapInv, IdleHoldsNothing
    <2> QED BY <1>0, <2>3, <2>4 DEF HeapInv, BufferOwnership
  <1>8. ASSUME NEW t \in Task, QueuePutBlock(t) PROVE HeapInv'
    BY <1>1, <1>8 DEF QueuePutBlock
  <1>9. ASSUME NEW t \in Task, NEW topic \in Topic, PublishRejected(t, topic) PROVE HeapInv'
    BY <1>1, <1>9 DEF PublishRejected
  <1>10. CASE UNCHANGED vars
    BY <1>1, <1>10 DEF vars
  <1> QED
    BY <1>2, <1>3, <1>4, <1>5, <1>6, <1>7, <1>8, <1>9, <1>10
       DEF Next, Publish, PutStep, DispatchStep

LEMMA InitHeap == Init => HeapInv
  <1> SUFFICES ASSUME Init PROVE HeapInv
    OBVIOUS
  <1>1. \A b \in Buffer : NoHolder(b)
    BY DispatcherAssumption DEF Init, NoHolder, Callers, Entries, Routers, NoMsg
  <1>2. BufferOwnership /\ IdleHoldsNothing
    BY <1>1 DEF Init, BufferOwnership, IdleHoldsNothing
  <1> QED BY <1>2, InitOrder DEF HeapInv

\* The copy of a published message is neither leaked nor freed twice nor used
\* after it was freed, for any number of tasks, blocks and subscribers.
THEOREM OwnershipCorrect == Spec => []BufferOwnership
  <1>1. Init => HeapInv
    BY InitHeap
  <1>2. HeapInv /\ [Next]_vars => HeapInv'
    BY StepHeap
  <1>3. HeapInv => BufferOwnership
    BY DEF HeapInv
  <1> QED BY <1>1, <1>2, <1>3, PTL DEF Spec

-----------------------------------------------------------------------------
(* Refinement of the topic bus *)

\* The call that routing makes is the first one the line of d owes.
LEMMA RouteHandles ==
  ASSUME HandledInv, NEW d \in Dispatcher, NEW msg, NEW n \in Nat \ {0}, NEW from \in 1..RouteEnd,
         RouteFrom(d, msg, n, from),
         accepted' = accepted,
         n <= Len(accepted[d]), msg.topic = accepted[d][n],
         Taken(d) \in Nat,
         \/ pos[d] = 0 /\ from = 1 /\ n = Taken(d) + 1
         \/ pos[d] \in Slot /\ from = pos[d] + 1 /\ n = Taken(d)
  PROVE  [Bus!Next]_(Bus!busVars)
  <1> USE DispatcherAssumption
  <1>1. PICK p \in from..RouteEnd :
          /\ IsNextStop(msg.topic, from, p)
          /\ IF p = RouteEnd
             THEN UNCHANGED handled
             ELSE handled' = [handled EXCEPT ![p] = Append(@, n)]
    BY DEF RouteFrom
  <1>2. CASE p = RouteEnd
    BY <1>1, <1>2 DEF Bus!busVars
  <1>3. CASE p # RouteEnd
    <2>1. /\ p \in Slot /\ SlotTopic[p] = accepted[d][n]
          /\ \A s \in from..(p - 1) : SlotTopic[s] # accepted[d][n]
          /\ handled' = [handled EXCEPT ![p] = Append(@, n)]
      BY <1>1, <1>3 DEF IsNextStop, Wants, RouteEnd
    <2>2. n \in 1..Len(accepted[d])
      BY DEF HandledInv, OrderInv, TypeOK
    <2>3. ASSUME NEW r \in Slot, NEW m \in 1..Len(accepted[d]), accepted[d][m] = SlotTopic[r]
          PROVE  m \in Values(handled[r]) <=> m < n \/ (m = n /\ r < from)
      <3>1. Owner[SlotTopic[r]] = d
        <4>1. Owner[accepted[d][m]] = d
          BY DEF HandledInv, OwnTopics
        <4> QED BY <4>1, <2>3
      <3>2. Due(r) = {k \in 1..n : accepted[d][k] = SlotTopic[r] /\ (k < n \/ (k = n /\ r < from))}
        <4>1. n \in Nat /\ r \in Slot
          OBVIOUS
        <4> QED BY <3>1, <4>1, DueBefore
      <3>3. Values(handled[r]) = Due(r)
        BY DEF HandledInv, HandledOnceInOrder
      <3>4. m \in Nat \ {0}
        <4>1. accepted[d] \in Seq(Topic)
          BY DEF HandledInv, OrderInv, TypeOK
        <4> QED BY <4>1
      <3>5. m \in Due(r) <=> m \in 1..n /\ (m < n \/ (m = n /\ r < from))
        BY <2>3, <3>2
      <3> QED BY <3>3, <3>4, <3>5
    <2>4. Bus!Owes(d, n, p)
      <3>1. ~(n \in Values(handled[p]))
        BY <2>1, <2>2, <2>3, <1>1
      <3> QED BY <2>1, <2>2, <3>1 DEF Bus!Owes, Values
    <2>5. ASSUME NEW r \in Bus!BusSlot, NEW m \in 1..Len(accepted[d]), Bus!Owes(d, m, r)
          PROVE  n < m \/ (n = m /\ p <= r)
      <3>1. r \in Slot /\ accepted[d][m] = SlotTopic[r]
        BY <2>5 DEF Bus!Owes, Bus!BusSlot
      <3>2. ~(m \in Values(handled[r]))
        BY <2>5 DEF Bus!Owes, Values
      <3>3. ~(m < n) /\ ~(m = n /\ r < from)
        BY <2>3, <3>1, <3>2
      <3>4. m = n => ~(r \in from..(p - 1))
        BY <2>1, <3>1
      <3> QED BY <3>1, <3>3, <3>4, <1>1
    <2>6. Bus!Handle(d, p)
      BY <2>1, <2>2, <2>4, <2>5 DEF Bus!Handle
    <2> QED BY <2>1, <2>6 DEF Bus!Next, Bus!BusSlot
  <1> QED BY <1>2, <1>3

LEMMA StepBus == HandledInv /\ [Next]_vars => [Bus!Next]_(Bus!busVars)
  <1> SUFFICES ASSUME HandledInv, [Next]_vars PROVE [Bus!Next]_(Bus!busVars)
    OBVIOUS
  <1> USE DispatcherAssumption
  <1>1. CASE UNCHANGED <<accepted, handled>>
    BY <1>1 DEF Bus!busVars
  <1>2. ASSUME NEW t \in Task, QueuePut(t) PROVE [Bus!Next]_(Bus!busVars)
    <2>1. /\ out[t] \in Msg
          /\ accepted' = [accepted EXCEPT ![Owner[out[t].topic]] = Append(@, out[t].topic)]
          /\ UNCHANGED handled
      BY <1>2 DEF QueuePut, HandledInv, OrderInv, TypeOK
    <2>2. out[t].topic \in Topic /\ Owner[out[t].topic] # NULL
      BY <2>1 DEF Msg
    <2>3. Bus!Accept(out[t].topic)
      BY <2>1, <2>2 DEF Bus!Accept
    <2> QED BY <2>2, <2>3 DEF Bus!Next
  <1>3. ASSUME NEW d \in Dispatcher, Receive(d) PROVE [Bus!Next]_(Bus!busVars)
    <2>1. /\ pos[d] = 0 /\ queue[d] # <<>> /\ queue[d] \in Seq(Msg)
          /\ RouteFrom(d, Head(queue[d]), Taken(d) + 1, 1)
          /\ accepted' = accepted
      BY <1>3 DEF Receive, HandledInv, OrderInv, TypeOK
    <2>2. Len(queue[d]) \in Nat \ {0} /\ Head(queue[d]) = queue[d][1]
      BY <2>1, TailFacts
    <2>3. Taken(d) + 1 <= Len(accepted[d])
      BY <2>1, TakenFacts
    <2>4. Head(queue[d]).topic = accepted[d][Taken(d) + 1]
      BY <2>2 DEF HandledInv, OrderInv, QueueIsSuffix
    <2>5. 1 \in 1..RouteEnd /\ Taken(d) + 1 \in Nat \ {0} /\ Taken(d) \in Nat
      BY TakenFacts DEF RouteEnd
    <2> QED BY <2>1, <2>3, <2>4, <2>5, RouteHandles
  <1>4. ASSUME NEW d \in Dispatcher, CallbackReturn(d) PROVE [Bus!Next]_(Bus!busVars)
    <2>1. /\ pos[d] \in Slot
          /\ RouteFrom(d, cur[d], Taken(d), pos[d] + 1)
          /\ accepted' = accepted
      BY <1>4 DEF CallbackReturn
    <2>2. Taken(d) > 0 /\ cur[d].topic = accepted[d][Taken(d)]
      BY <2>1 DEF HandledInv, OrderInv, QueueIsSuffix
    <2>3. Taken(d) <= Len(accepted[d])
      BY TakenFacts
    <2>4. Taken(d) \in Nat \ {0} /\ pos[d] + 1 \in 1..RouteEnd
      BY <2>1, <2>2, TakenFacts DEF RouteEnd
    <2> QED BY <2>1, <2>2, <2>3, <2>4, RouteHandles
  <1>5. [Next]_vars =>
          \/ UNCHANGED <<accepted, handled>>
          \/ \E t \in Task : QueuePut(t)
          \/ \E d \in Dispatcher : Receive(d) \/ CallbackReturn(d)
    BY DEF Next, vars, Publish, PublishRejected, PublishCopy, PutStep, QueuePutBlock,
           QueuePutTimeout, DispatchStep, Release
  <1> QED BY <1>1, <1>2, <1>3, <1>4, <1>5

\* Every step of the dispatcher is a step of the abstract topic bus or leaves
\* it alone: the safety part of RefinesTopicBus.
THEOREM ImplementsTopicBus == Spec => Bus!Safety
  <1>1. Init => Bus!Init
    BY DEF Init, Bus!Init, Bus!BusSlot
  <1>2. Init => HandledInv
    BY InitHandled
  <1>3. HandledInv /\ [Next]_vars => HandledInv'
    BY StepHandled
  <1>4. HandledInv /\ [Next]_vars => [Bus!Next]_(Bus!busVars)
    BY StepBus
  <1> QED BY <1>1, <1>2, <1>3, <1>4, PTL DEF Spec, Bus!Safety

=============================================================================
