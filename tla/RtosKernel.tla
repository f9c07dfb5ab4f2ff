----------------------------- MODULE RtosKernel -----------------------------
(***************************************************************************)
(* The queues and mutexes of FreeRTOS as the framework uses them (queue.c, *)
(* tasks.c): tasks of fixed priorities, timed calls that block on event    *)
(* lists, priority inheritance, and the tick.                              *)
(*                                                                         *)
(* xQueueGenericSend, xQueueReceive and xQueueSemaphoreTake have the same  *)
(* form: a critical section that succeeds if it can, else one with the     *)
(* scheduler suspended that tests the timeout and the queue again before   *)
(* the task blocks, and so on.  Each of the two is a step; in between a    *)
(* tick may come and other tasks may run.  A tick that comes while the     *)
(* scheduler is suspended counts when it is resumed, that is, after the    *)
(* step.  No interrupt but the tick calls the kernel, so that the locks of *)
(* a queue never matter.                                                   *)
(*                                                                         *)
(* Of the tasks ready at one priority any may be selected: the round robin *)
(* of their list is left out.                                              *)
(***************************************************************************)
EXTENDS Naturals, Sequences, FiniteSets, SequencesExt

CONSTANTS
  Task, IDLE,
  Uses,        \* what a task does: "send", "receive", "delay" or a mutex
  Priority,    \* uxBasePriority of the tasks
  QueueLength, \* the queue that is sent to and received from
  Mutex,
  LOG,         \* the mutex of the log, taken last
  MaxTicks,    \* bound: ticks a send, a receive or a delay may take
  FOREVER,     \* portMAX_DELAY
  NONE

ASSUME KernelAssumption ==
  /\ Priority \in [Task -> Nat]
  /\ IsFiniteSet(Task) /\ IDLE \notin Task /\ NONE \notin Task
  /\ {"send", "receive", "delay", NONE} \cap Mutex = {} /\ NONE \notin {"send", "receive", "delay"}
  /\ QueueLength \in Nat \ {0} /\ MaxTicks \in Nat \ {0}
  /\ LOG \in Mutex /\ FOREVER \notin Nat
  /\ Uses \in [Task -> SUBSET ({"send", "receive", "delay"} \cup Mutex)]

VARIABLES
  queue,   \* the messages, each named by its sender
  holder,  \* xMutexHolder of each mutex
  waiting, \* the event lists: xTasksWaitingToSend and -Receive of the queue
           \* and xTasksWaitingToReceive of the mutexes
  prio,    \* uxPriority
  call,    \* the call a task is in: for what, for how long, and where
  running  \* pxCurrentTCB

vars == <<queue, holder, waiting, prio, call, running>>

-----------------------------------------------------------------------------
Object == {"send", "receive"} \cup Mutex
Ticks  == (1..MaxTicks) \cup {FOREVER}

\* `for': what the call waits for.  `left': what the timeout of
\* vTaskInternalSetTimeOutState still allows.  `at': before the critical section
\* (retry; last, if it must not wait again), before the section with the
\* scheduler suspended (check), or blocked.
NoCall == [for |-> NONE, left |-> 0, at |-> "none"]
Calls == {NoCall} \cup
  [for : Object \cup {"delay"}, left : 0..MaxTicks \cup {FOREVER}, at : {"retry", "last", "check", "blocked"}]

Held(t) == {m \in Mutex : holder[m] = t}

Init ==
  /\ queue = <<>>
  /\ holder = [m \in Mutex |-> NONE]
  /\ waiting = [w \in Object |-> <<>>]
  /\ prio = Priority
  /\ call = [t \in Task |-> NoCall]
  /\ running \in {t \in Task : \A u \in Task : Priority[u] <= Priority[t]}

-----------------------------------------------------------------------------
(* tasks.c *)

\* vTaskSwitchContext selects a task of the highest priority that is ready.
Selected(c, p) ==
  LET ready == {t \in Task : c[t].at # "blocked"}
  IN IF ready = {} THEN {IDLE} ELSE {t \in ready : \A u \in ready : p[u] <= p[t]}

Yield(required) ==
  running' \in IF required THEN Selected(call', prio') ELSE {running}

\* vListInsert of task t, by descending priority, behind its equals.
FirstLower(list, t) ==
  CHOOSE k \in 1..Len(list) + 1 : /\ k <= Len(list) => prio[list[k]] < prio[t]
                                 /\ \A j \in 1..k - 1 : prio[list[j]] >= prio[t]
InsertByPriority(list, t) == InsertAt(list, FirstLower(list, t), t)

\* vTaskPlaceOnEventList, and the switch that follows.
PlaceOnEventList(t, w) ==
  /\ waiting' = [waiting EXCEPT ![w] = InsertByPriority(@, t)]
  /\ call' = [call EXCEPT ![t].at = "blocked"]
  /\ Yield(TRUE)

\* A call of t ends.  xTaskRemoveFromEventList: the first task that waits for w
\* becomes ready, and runs at once if its priority is higher.  Without one,
\* t yields if it has lost a priority.
SignalSilently(w, t, disinherited) ==
  LET c == [call EXCEPT ![t] = NoCall]
  IN IF waiting[w] = <<>>
     THEN call' = c /\ UNCHANGED <<waiting, running>>
     ELSE /\ call' = [c EXCEPT ![Head(waiting[w])].at = "retry"]
          /\ waiting' = [waiting EXCEPT ![w] = Tail(@)]
          /\ UNCHANGED running
Signal(w, t, disinherited) ==
  LET c == [call EXCEPT ![t] = NoCall]
      u == Head(waiting[w])
  IN IF waiting[w] = <<>>
     THEN call' = c /\ UNCHANGED waiting /\ Yield(disinherited)
     ELSE /\ call' = [c EXCEPT ![u].at = "retry"]
          /\ waiting' = [waiting EXCEPT ![w] = Tail(@)]
          /\ Yield(prio'[u] > prio'[t])

\* xTaskPriorityInherit, by the task t that is going to wait for mutex m.
NoInherit(t, m) == UNCHANGED prio
Inherit(t, m) ==
  prio' = [prio EXCEPT ![holder[m]] = IF @ < prio[t] THEN prio[t] ELSE @]

\* xTaskPriorityDisinherit, by the task t that gives mutex m: an inherited
\* priority lasts until the last mutex is given.
DisinheritAtOnce(t, m) == prio' = [prio EXCEPT ![t] = Priority[t]]
Disinherit(t, m) ==
  prio' = [prio EXCEPT ![t] = IF Held(t) = {m} THEN Priority[t] ELSE @]

-----------------------------------------------------------------------------
(* queue.c *)

\* uxMessagesWaiting or the room left, as far as it matters to w.
AvailablePast(w) ==
  CASE w = "send"    -> Len(queue) <= QueueLength
    [] w = "receive" -> queue # <<>>
    [] OTHER         -> holder[w] = NONE
Available(w) ==
  CASE w = "send"    -> Len(queue) < QueueLength
    [] w = "receive" -> queue # <<>>
    [] OTHER         -> holder[w] = NONE

\* The critical section of a call of t finds what it needs ...
Succeed(t, w) ==
  /\ Available(w)
  /\ UNCHANGED prio
  /\ CASE w = "send" ->
            queue' = Append(queue, t) /\ UNCHANGED holder /\ Signal("receive", t, FALSE)
       [] w = "receive" ->
            queue' = Tail(queue) /\ UNCHANGED holder /\ Signal("send", t, FALSE)
       [] OTHER ->
            /\ holder' = [holder EXCEPT ![w] = t]
            /\ call' = [call EXCEPT ![t] = NoCall]
            /\ UNCHANGED <<queue, waiting, running>>

\* ... or not.
Fail(t, w, c) ==
  /\ ~Available(w)
  /\ call' = [call EXCEPT ![t] = c]
  /\ UNCHANGED <<queue, holder, waiting, prio, running>>

\* A call begins.  LOG is taken last and a task that has a mutex does nothing
\* else; mutexes are waited for without a timeout.  (A call with the timeout 0
\* that fails changes nothing.)
Begin(t, w, n) ==
  /\ running = t /\ call[t] = NoCall
  /\ w \in Uses[t] \cap Object
  /\ IF w \in Mutex THEN n = FOREVER ELSE Held(t) = {}
  /\ w = LOG => LOG \notin Held(t)
  /\ w \in Mutex \ {LOG} => Held(t) = {}
  /\ w = "send" => n # FOREVER
  /\ \/ Succeed(t, w)
     \/ Fail(t, w, [for |-> w, left |-> n, at |-> "check"])

Retry(t) ==
  /\ running = t /\ call[t].at \in {"retry", "last"}
  /\ \/ Succeed(t, call[t].for)
     \/ Fail(t, call[t].for,
             IF call[t].at = "last" THEN NoCall ELSE [call[t] EXCEPT !.at = "check"])

\* Mutants of Check: the task blocks without a second look; and its timeout
\* starts again.
CheckBlocks(t) ==
  /\ running = t /\ call[t].at = "check"
  /\ IF call[t].for \in Mutex /\ ~Available(call[t].for) THEN Inherit(t, call[t].for) ELSE UNCHANGED prio
  /\ PlaceOnEventList(t, call[t].for)
  /\ UNCHANGED <<queue, holder>>
CheckRestarts(t) ==
  /\ running = t /\ call[t].at = "check"
  /\ call' = [call EXCEPT ![t].left = IF @ = FOREVER THEN @ ELSE MaxTicks, ![t].at = "retry"]
  /\ UNCHANGED <<queue, holder, waiting, prio, running>>

\* With the scheduler suspended: the time is up, the task blocks, or it tries
\* again.  A receive whose time is up tries once more if a message has come.
Check(t) ==
  LET w == call[t].for
  IN /\ running = t /\ call[t].at = "check"
     /\ UNCHANGED <<queue, holder>>
     /\ \/ /\ call[t].left = 0
           /\ call' = [call EXCEPT ![t] = IF w = "receive" /\ queue # <<>>
                                          THEN [@ EXCEPT !.at = "last"] ELSE NoCall]
           /\ UNCHANGED <<waiting, prio, running>>
        \/ /\ call[t].left # 0 /\ ~Available(w)
           /\ IF w \in Mutex THEN Inherit(t, w) ELSE UNCHANGED prio
           /\ PlaceOnEventList(t, w)
        \/ /\ call[t].left # 0 /\ Available(w)
           /\ call' = [call EXCEPT ![t].at = "retry"]
           /\ UNCHANGED <<waiting, prio, running>>

\* xSemaphoreGive, the last mutex first.
Give(t, m) ==
  /\ running = t /\ call[t] = NoCall
  /\ holder[m] = t /\ (m = LOG \/ LOG \notin Held(t))
  /\ holder' = [holder EXCEPT ![m] = NONE]
  /\ Disinherit(t, m)
  /\ Signal(m, t, prio' # prio)
  /\ UNCHANGED queue

\* vTaskDelay.
Delay(t, n) ==
  /\ running = t /\ call[t] = NoCall
  /\ "delay" \in Uses[t] /\ Held(t) = {} /\ n # FOREVER
  /\ call' = [call EXCEPT ![t] = [for |-> "delay", left |-> n, at |-> "blocked"]]
  /\ UNCHANGED <<queue, holder, waiting, prio>>
  /\ Yield(TRUE)

\* uxListRemove of the tasks in due, the others in their order.
Kept(list, due) ==
  LET kept == {i \in DOMAIN list : list[i] \notin due}
  IN [n \in 1..Cardinality(kept) |->
       list[CHOOSE i \in kept : Cardinality({k \in kept : k <= i}) = n]]

\* xTaskIncrementTick: the tasks whose time is up leave the delayed list and
\* their event list; then a task that is not lower, or another of the same
\* priority, takes its turn.
Tick ==
  LET older == [t \in Task |->
        IF call[t].left \in {0, FOREVER} THEN call[t] ELSE [call[t] EXCEPT !.left = @ - 1]]
      due == {t \in Task : older[t].at = "blocked" /\ older[t].left = 0}
      now == [t \in Task |->
        IF t \notin due THEN older[t]
        ELSE IF older[t].for = "delay" THEN NoCall ELSE [older[t] EXCEPT !.at = "retry"]]
      peers == {t \in Task \ due : call[t].at # "blocked"} \ {running}
  IN /\ call' = now
     /\ waiting' = [w \in Object |-> Kept(waiting[w], due)]
     /\ UNCHANGED <<queue, holder, prio>>
     /\ Yield(IF running = IDLE THEN due # {}
              ELSE \/ \E t \in due : prio[t] >= prio[running]
                   \/ \E t \in peers : prio[t] = prio[running])

-----------------------------------------------------------------------------
TaskStep(t) ==
  \/ \E w \in Object, n \in Ticks : Begin(t, w, n)
  \/ Retry(t)
  \/ Check(t)
  \/ \E m \in Mutex : Give(t, m)
  \/ \E n \in Ticks : Delay(t, n)

Next == Tick \/ \E t \in Task : TaskStep(t)

\* Ticks come, a task that is selected again and again goes on, and what it does
\* with a mutex ends.
Fairness ==
  /\ WF_vars(Tick)
  /\ \A t \in Task : SF_vars(TaskStep(t))
  /\ \A t \in Task, m \in Mutex \ {LOG} : SF_vars(Give(t, m))

Spec == Init /\ [][Next]_vars /\ Fairness

-----------------------------------------------------------------------------
(* Properties *)

TypeOK ==
  /\ queue \in Seq(Task) /\ Len(queue) <= QueueLength
  /\ holder \in [Mutex -> Task \cup {NONE}]
  /\ waiting \in [Object -> Seq(Task)]
  /\ prio \in [Task -> Nat]
  /\ call \in [Task -> Calls]
  /\ running \in Task \cup {IDLE}
  /\ \A w \in Object, t \in Task :
       (\E i \in DOMAIN waiting[w] : waiting[w][i] = t)
         <=> call[t].for = w /\ call[t].at = "blocked"

\* No wakeup is lost: whoever still waits does so because what there is is not
\* more than what tasks already awake have come for.
NoLostWakeup ==
  \A w \in Object :
    LET awake == {t \in Task : call[t].for = w /\ call[t].at \in {"retry", "last", "check"}}
        there == CASE w = "send"    -> QueueLength - Len(queue)
                   [] w = "receive" -> Len(queue)
                   [] OTHER         -> IF holder[w] = NONE THEN 1 ELSE 0
    IN waiting[w] # <<>> => there <= Cardinality(awake)

\* Every step yields when it must: no task is ready at a higher priority than
\* the one that runs.
HighestRuns == running \in Selected(call, prio)

\* It takes an assumption.  What the giver of a mutex loses is made up by a yield
\* only if no task waits (tasks.c:4209, queue.c:919); for a task that wakes up the
\* kernel yields by that task alone.  That suffices if a task that takes LOG inside
\* another mutex shares the outer one with tasks above it only, or is itself not
\* below any task that uses mutexes.
MutexUser(t) == Uses[t] \cap Mutex # {}
YieldsSuffice ==
  \A m \in Mutex \ {LOG}, t, u \in Task :
    /\ t # u /\ m \in Uses[t] \cap Uses[u]
    /\ LOG \in Uses[t] /\ Priority[u] <= Priority[t]
    => \A v \in Task : MutexUser(v) => Priority[v] <= Priority[t]

\* A task that holds a mutex has the priority of the tasks that wait for it, and
\* without a mutex nobody keeps a priority that is not its own.
Inherits ==
  /\ \A m \in Mutex, t \in Task :
       call[t].for = m /\ call[t].at = "blocked" /\ holder[m] # NONE
         => prio[holder[m]] >= Priority[t]
  /\ \A t \in Task : Held(t) = {} => prio[t] = Priority[t]

\* The task of the highest priority gets each mutex it waits for, however busy
\* the tasks between it and the holder are, and its timed sends end.  (Only
\* while the holder does not wait in turn for a task below the busy ones: the
\* priority it inherits is not passed on.)
TopIsServed ==
  \A t \in Task : (\A u \in Task \ {t} : Priority[u] < Priority[t]) =>
    \A w \in Mutex \cup {"send"} : call[t].for = w ~> call[t].for # w

\* The queue keeps the promise of TimedQueue.
Pending == [t \in Task |->
  IF call[t].for \in {"send", "receive"} THEN [op |-> call[t].for, left |-> call[t].left]
  ELSE [op |-> NONE, left |-> 0]]
Timed == INSTANCE TimedQueue WITH pend <- Pending
RefinesTimedQueue == Timed!Spec

=============================================================================
