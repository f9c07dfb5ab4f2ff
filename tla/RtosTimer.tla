------------------------------ MODULE RtosTimer ------------------------------
(***************************************************************************)
(* The software timers (timers.c), as the framework uses them through      *)
(* adp_os_timer_start, adp_os_timer_stop and adp_os_timer_delete: tasks    *)
(* send commands to a queue; the timer daemon, the task of the highest     *)
(* priority, keeps the running timers in two lists, one for the expiry     *)
(* times before the tick count overflows and one for those after it, and   *)
(* runs the callbacks.                                                     *)
(*                                                                         *)
(* A step of the daemon ends where the clock or the queue is read and      *)
(* where a callback runs; ticks come between the steps unless the          *)
(* scheduler is suspended.  Other tasks run only while the daemon is       *)
(* blocked: asleep, or inside a callback, which may publish or take a      *)
(* mutex.  As in the agent, a one-shot timer deletes itself in its         *)
(* callback; periodic timers are stopped and deleted by their task.        *)
(***************************************************************************)
EXTENDS Integers, FiniteSets, SequencesExt

CONSTANTS
  Timer,
  Periodic,     \* the timers created with auto_reload
  Period,       \* xTimerPeriodInTicks
  TickLimit,    \* number of values of TickType_t
  QueueLength,  \* configTIMER_QUEUE_LENGTH
  DeleteWait,   \* ticks the delete of a callback may wait for room (100)
  MaxLate,      \* bound: how far the tasks and the daemon may lag behind
  NULL

ASSUME TimerAssumption ==
  /\ Periodic \subseteq Timer /\ NULL \notin Timer
  /\ TickLimit \in Nat \ {0}
  /\ Period \in [Timer -> 1..(TickLimit - 1)]
  /\ QueueLength \in Nat \ {0}
  /\ DeleteWait \in 1..(TickLimit - 1) /\ MaxLate \in Nat \ {0}

VARIABLES
  xTickCount,
  xLastTime,  \* the time of the last sample
  current,    \* *pxCurrentTimerList: entries [timer, value], by value
  overflow,   \* *pxOverflowTimerList
  xTimerQueue,
  memory,     \* where a timer is: no block ("free"), created but its start not
              \* sent yet, in "use", given "back" by a delete, or "lost"
  stamp,      \* the tick count that a task has read for its start command
  active,     \* tmrSTATUS_IS_ACTIVE
  daemon      \* where the timer task is

vars == <<xTickCount, xLastTime, current, overflow, xTimerQueue, memory, stamp, active, daemon>>
taskVars == <<memory, stamp>>
listVars == <<current, overflow, active>>

-----------------------------------------------------------------------------
(* Arithmetic of TickType_t *)

TickType == 0..(TickLimit - 1)
Plus(a, b)  == IF a + b >= TickLimit THEN a + b - TickLimit ELSE a + b
Minus(a, b) == IF a >= b THEN a - b ELSE a - b + TickLimit

\* An endless sleep of the daemon.
Forever == TickLimit

Command(op, t, v) == [op |-> op, timer |-> t, value |-> v]
Commands ==
  {Command("START", t, v) : t \in Timer, v \in TickType} \cup
  {Command(op, t, 0) : op \in {"STOP", "DELETE"}, t \in Periodic} \cup
  {Command("DELETE", t, 0) : t \in Timer}
ASSUME NullIsNoCommand == NULL \notin Commands

\* at: where the daemon is.  now: xTimeNow.  hand: the command it has received.
\* fire, exp: the timer whose callback is due, and its expiry time.  then: what
\* follows.  left: ticks that it sleeps or waits.
Daemon == [at : {"loop", "switch", "fire", "delete", "deleting", "callback", "commands", "apply", "asleep"},
           now : TickType, hand : Commands \cup {NULL}, fire : Timer \cup {NULL},
           exp : TickType, then : {"switch", "commands"}, left : 0..Forever]

Idle == [at |-> "loop", now |-> 0, hand |-> NULL, fire |-> NULL, exp |-> 0,
         then |-> "commands", left |-> 0]

Init ==
  /\ xTickCount = 0 /\ xLastTime = 0
  /\ current = <<>> /\ overflow = <<>>
  /\ xTimerQueue = <<>>
  /\ memory = [t \in Timer |-> "free"]
  /\ stamp = [t \in Timer |-> 0]
  /\ active = {}
  /\ daemon = Idle

\* prvSampleTimeNow is called, and calls back, with the scheduler suspended if it
\* is prvProcessTimerOrBlockTask that has found the overflow.
Suspended ==
  /\ daemon.at \in {"switch", "fire", "delete", "callback"}
  /\ daemon.then = "switch" /\ daemon.hand = NULL

-----------------------------------------------------------------------------
(* The lists of active timers *)

\* vListInsert, behind entries of the same value.
FirstLater(list, v) ==
  CHOOSE k \in 1..(Len(list) + 1) :
    /\ \A i \in 1..(k - 1) : list[i].value <= v
    /\ k <= Len(list) => list[k].value > v
ListInsert(list, t, v) == InsertAt(list, FirstLater(list, v), [timer |-> t, value |-> v])

\* uxListRemove, if the timer is in the list.
ListRemove(list, t) ==
  LET places == {i \in 1..Len(list) : list[i].timer = t}
  IN IF places = {} THEN list ELSE RemoveAt(list, CHOOSE i \in places : TRUE)

Holds(list, t) == \E e \in ToSet(list) : e.timer = t
Value(list, t) == (CHOOSE e \in ToSet(list) : e.timer = t).value
Listed(t) == Holds(current, t) \/ Holds(overflow, t)

\* prvInsertTimerInActiveList: has the expiry time, a period after the time
\* cmd, passed already?
\* Mutant: an overflow since the command was sent is overlooked.
PassedInEpoch(t, next, now, cmd) ==
  next <= now /\ Minus(now, cmd) >= Period[t]
Passed(t, next, now, cmd) ==
  IF next <= now THEN Minus(now, cmd) >= Period[t] ELSE now < cmd /\ next >= cmd

\* prvInsertTimerInActiveList: if not, the timer is inserted in one of the lists.
InsertTimer(t, next, now) ==
  IF next <= now
  THEN overflow' = ListInsert(overflow, t, next) /\ UNCHANGED current
  ELSE current' = ListInsert(current, t, next) /\ UNCHANGED overflow

-----------------------------------------------------------------------------
(* Where a timer stands, in real time *)

\* prvSampleTimeNow: the tick count has overflowed since the last sample.
Overflowed == xTickCount < xLastTime

\* The current list is that of the time before the overflow.
ListsBehind == Overflowed \/ daemon.then = "switch"

\* The callback of t is due, and t in no list until its next period is set.
Firing(t) ==
  /\ daemon.fire = t
  /\ \/ daemon.at = "fire"
     \/ t \in Periodic /\ ~Listed(t)

Armed == {t \in Timer : Listed(t) \/ Firing(t)}

\* Times are counted from the last overflow that the lists know of.
Now == IF ListsBehind THEN xTickCount + TickLimit ELSE xTickCount
Left(t) ==
  IF Firing(t) THEN - Minus(xTickCount, daemon.exp)
  ELSE IF Holds(current, t) THEN Value(current, t) - Now
  ELSE IF Holds(overflow, t) THEN Value(overflow, t) + TickLimit - Now
  ELSE 0

\* The commands that are not carried out: one that stops a timer is as soon as
\* it is received, as it takes the timer from the list.
Outstanding ==
  IF daemon.hand # NULL /\ daemon.hand.op = "START"
  THEN <<daemon.hand>> \o xTimerQueue ELSE xTimerQueue

Age(c) == IF c.op = "START" THEN Minus(xTickCount, c.value) ELSE 0

\* BOUND: a task sends the command within MaxLate ticks from reading the clock, it
\* is carried out within as many again, and so late are callbacks, but for the
\* ticks a delete waits.
Behind ==
  \/ \E t \in Timer : memory[t] = "created" /\ Minus(xTickCount, stamp[t]) >= MaxLate
  \/ \E c \in ToSet(Outstanding) : Age(c) >= 2 * MaxLate
  \/ \E t \in Armed : Left(t) <= - MaxLate

-----------------------------------------------------------------------------
(* prvTimerTask *)

To(at) == [Idle EXCEPT !.at = at]

\* prvProcessTimerOrBlockTask finds that the tick count has overflowed.
FindOverflow ==
  /\ daemon.at = "loop" /\ Overflowed
  /\ daemon' = [To("switch") EXCEPT !.then = "switch", !.now = xTickCount]
  /\ UNCHANGED <<xTickCount, xLastTime, listVars, xTimerQueue, taskVars>>

HeadExpired == current # <<>> /\ Head(current).value <= xTickCount

\* It finds a timer that has expired: prvProcessExpiredTimer.
FindExpired ==
  /\ daemon.at = "loop" /\ ~Overflowed /\ HeadExpired
  /\ xLastTime' = xTickCount
  /\ current' = Tail(current)
  /\ daemon' = [To("fire") EXCEPT !.now = xTickCount, !.fire = Head(current).timer,
                                  !.exp = Head(current).value]
  /\ UNCHANGED <<xTickCount, overflow, active, xTimerQueue, taskVars>>

\* It blocks until the next expiry time, or until the tick count overflows if
\* there is none before; unless there are commands.
TicksToWait ==
  IF current # <<>> THEN Head(current).value - xTickCount
  ELSE IF overflow # <<>> THEN Minus(0, xTickCount) ELSE Forever
BlockTask ==
  /\ daemon.at = "loop" /\ ~Overflowed /\ ~HeadExpired
  /\ xLastTime' = xTickCount
  /\ daemon' = IF xTimerQueue = <<>> THEN [To("asleep") EXCEPT !.left = TicksToWait]
               ELSE To("commands")
  /\ UNCHANGED <<xTickCount, listVars, xTimerQueue, taskVars>>

\* prvSwitchTimerLists: what is left in the current list has expired.
SwitchExpired ==
  /\ daemon.at = "switch" /\ current # <<>>
  /\ current' = Tail(current)
  /\ daemon' = [daemon EXCEPT !.at = "fire", !.fire = Head(current).timer,
                              !.exp = Head(current).value]
  /\ UNCHANGED <<xTickCount, xLastTime, overflow, active, xTimerQueue, taskVars>>

SwitchLists ==
  /\ daemon.at = "switch" /\ current = <<>>
  /\ current' = overflow /\ overflow' = <<>>
  /\ xLastTime' = daemon.now
  /\ daemon' = IF daemon.hand = NULL THEN To("commands")
               ELSE [daemon EXCEPT !.at = "apply", !.then = "commands"]
  /\ UNCHANGED <<xTickCount, active, xTimerQueue, taskVars>>

\* A timer expires.  A periodic one is inserted again (prvReloadTimer), unless
\* its next period has passed as well, and the callback runs.
Fire ==
  LET t    == daemon.fire
      next == Plus(daemon.exp, Period[t])
      now  == IF daemon.then = "switch" THEN TickLimit - 1 ELSE daemon.now
  IN
  /\ daemon.at = "fire"
  /\ daemon' = [daemon EXCEPT !.at = IF t \in Periodic THEN "callback" ELSE "delete", !.exp = next]
  /\ IF t \in Periodic
     THEN /\ IF Passed(t, next, now, daemon.exp) THEN UNCHANGED <<current, overflow>>
             ELSE InsertTimer(t, next, now)
          /\ UNCHANGED active
     ELSE active' = active \ {t} /\ UNCHANGED <<current, overflow>>
  /\ UNCHANGED <<xTickCount, xLastTime, xTimerQueue, taskVars>>

Full == Len(xTimerQueue) = QueueLength

\* do_backoff_tcp_connect: adp_os_timer_delete by the daemon itself.
CallbackDeletes ==
  /\ daemon.at = "delete" /\ ~Full
  /\ xTimerQueue' = Append(xTimerQueue, Command("DELETE", daemon.fire, 0))
  /\ memory' = [memory EXCEPT ![daemon.fire] = "back"]
  /\ daemon' = [daemon EXCEPT !.at = "callback"]
  /\ UNCHANGED <<xTickCount, xLastTime, listVars, stamp>>

\* If the queue is full the delete waits for room, which only the daemon could
\* make; with the scheduler suspended it does not wait.
CallbackDeleteWaits ==
  /\ daemon.at = "delete" /\ Full /\ ~Suspended
  /\ daemon' = [daemon EXCEPT !.at = "deleting", !.left = DeleteWait]
  /\ UNCHANGED <<xTickCount, xLastTime, listVars, xTimerQueue, taskVars>>

CallbackDeleteFails ==
  /\ \/ daemon.at = "delete" /\ Full /\ Suspended
     \/ daemon.at = "deleting" /\ daemon.left = 0
  /\ memory' = [memory EXCEPT ![daemon.fire] = "lost"]
  /\ daemon' = [daemon EXCEPT !.at = "callback"]
  /\ UNCHANGED <<xTickCount, xLastTime, listVars, xTimerQueue, stamp>>

\* The callback is over; it may have been blocked meanwhile.
CallbackReturns ==
  /\ daemon.at = "callback"
  /\ daemon' = IF Firing(daemon.fire) THEN [daemon EXCEPT !.at = "fire"]
               ELSE IF daemon.then = "switch" THEN [daemon EXCEPT !.at = "switch", !.fire = NULL, !.exp = 0]
               ELSE To("commands")
  /\ UNCHANGED <<xTickCount, xLastTime, listVars, xTimerQueue, taskVars>>

\* prvProcessReceivedCommands takes the next command, and the timer from its list.
ReceiveCommand ==
  LET c == Head(xTimerQueue) IN
  /\ daemon.at = "commands" /\ xTimerQueue # <<>>
  /\ xTimerQueue' = Tail(xTimerQueue)
  /\ current' = ListRemove(current, c.timer)
  /\ overflow' = ListRemove(overflow, c.timer)
  /\ IF Overflowed
     THEN /\ daemon' = [To("switch") EXCEPT !.then = "switch", !.now = xTickCount, !.hand = c]
          /\ UNCHANGED xLastTime
     ELSE /\ daemon' = [To("apply") EXCEPT !.now = xTickCount, !.hand = c]
          /\ xLastTime' = xTickCount
  /\ UNCHANGED <<xTickCount, active, taskVars>>

QueueEmptied ==
  /\ daemon.at = "commands" /\ xTimerQueue = <<>>
  /\ daemon' = Idle
  /\ UNCHANGED <<xTickCount, xLastTime, listVars, xTimerQueue, taskVars>>

ApplyStart ==
  LET c == daemon.hand
      next == Plus(c.value, Period[c.timer])
  IN
  /\ daemon.at = "apply" /\ c.op = "START"
  /\ active' = active \cup {c.timer}
  /\ IF Passed(c.timer, next, daemon.now, c.value)
     THEN /\ daemon' = [To("fire") EXCEPT !.now = daemon.now, !.fire = c.timer, !.exp = next]
          /\ UNCHANGED <<current, overflow>>
     ELSE /\ daemon' = To("commands")
          /\ InsertTimer(c.timer, next, daemon.now)
  /\ UNCHANGED <<xTickCount, xLastTime, xTimerQueue, taskVars>>

ApplyStop ==
  /\ daemon.at = "apply" /\ daemon.hand.op \in {"STOP", "DELETE"}
  /\ active' = active \ {daemon.hand.timer}
  /\ memory' = IF daemon.hand.op = "DELETE" THEN [memory EXCEPT ![daemon.hand.timer] = "free"]
               ELSE memory
  /\ daemon' = To("commands")
  /\ UNCHANGED <<xTickCount, xLastTime, current, overflow, xTimerQueue, stamp>>

DaemonStep ==
  \/ FindOverflow \/ FindExpired \/ BlockTask \/ SwitchExpired \/ SwitchLists \/ Fire
  \/ CallbackDeletes \/ CallbackDeleteWaits \/ CallbackDeleteFails \/ CallbackReturns
  \/ ReceiveCommand \/ QueueEmptied \/ ApplyStart \/ ApplyStop

-----------------------------------------------------------------------------
(* The tasks, and the tick *)

TasksRun == daemon.at \in {"asleep", "callback", "deleting"} /\ ~Suspended

\* xQueueSendToBack of a command, which wakes the daemon up.
Send(op, t, v) ==
  /\ ~Full
  /\ xTimerQueue' = Append(xTimerQueue, Command(op, t, v))
  /\ daemon' = IF daemon.at = "asleep" THEN To("commands") ELSE daemon

\* adp_os_timer_start: the timer is created, and the clock read for the command.
TimerCreate(t) ==
  /\ TasksRun /\ memory[t] = "free"
  /\ memory' = [memory EXCEPT ![t] = "created"]
  /\ stamp' = [stamp EXCEPT ![t] = xTickCount]
  /\ UNCHANGED <<xTickCount, xLastTime, listVars, xTimerQueue, daemon>>

\* The command is sent, without waiting for room.
\* Mutant: the queue is not looked at.
TimerStartUnchecked(t) ==
  /\ TasksRun /\ memory[t] = "created"
  /\ stamp' = [stamp EXCEPT ![t] = 0]
  /\ xTimerQueue' = Append(xTimerQueue, Command("START", t, stamp[t]))
  /\ memory' = [memory EXCEPT ![t] = "use"]
  /\ daemon' = IF daemon.at = "asleep" THEN To("commands") ELSE daemon
  /\ UNCHANGED <<xTickCount, xLastTime, listVars>>
TimerStart(t) ==
  /\ TasksRun /\ memory[t] = "created"
  /\ stamp' = [stamp EXCEPT ![t] = 0]
  /\ \/ Send("START", t, stamp[t]) /\ memory' = [memory EXCEPT ![t] = "use"]
     \/ Full /\ memory' = [memory EXCEPT ![t] = "lost"] /\ UNCHANGED <<xTimerQueue, daemon>>
  /\ UNCHANGED <<xTickCount, xLastTime, listVars>>

\* adp_os_timer_stop and adp_os_timer_delete.  They wait for room, and if they
\* give up nothing has changed.
TimerStop(t) ==
  /\ TasksRun /\ t \in Periodic /\ memory[t] = "use"
  /\ Send("STOP", t, 0)
  /\ UNCHANGED <<xTickCount, xLastTime, listVars, taskVars>>

TimerDelete(t) ==
  /\ TasksRun /\ t \in Periodic /\ memory[t] = "use"
  /\ Send("DELETE", t, 0)
  /\ memory' = [memory EXCEPT ![t] = "back"]
  /\ UNCHANGED <<xTickCount, xLastTime, listVars, stamp>>

\* xTaskIncrementTick.  A wait of no tick ends with the next one.
Tick ==
  /\ ~Suspended
  /\ ~Behind \/ (daemon.at = "deleting" /\ daemon.left > 0)
  /\ xTickCount' = Plus(xTickCount, 1)
  /\ daemon' = IF daemon.at = "asleep" /\ daemon.left <= 1 THEN To("commands")
               ELSE IF daemon.at = "asleep" /\ daemon.left = Forever THEN daemon
               ELSE [daemon EXCEPT !.left = IF @ = 0 THEN 0 ELSE @ - 1]
  /\ UNCHANGED <<xLastTime, listVars, xTimerQueue, taskVars>>

Next ==
  \/ DaemonStep
  \/ \E t \in Timer : TimerCreate(t) \/ TimerStart(t) \/ TimerStop(t) \/ TimerDelete(t)
  \/ Tick

Spec == Init /\ [][Next]_vars

-----------------------------------------------------------------------------
(* Properties *)

\* Lists, queue and flags have their types, and the queue is within its bounds.
TypeOK ==
  /\ xTickCount \in TickType /\ xLastTime \in TickType
  /\ \A e \in ToSet(current) \cup ToSet(overflow) : e \in [timer : Timer, value : TickType]
  /\ ToSet(xTimerQueue) \subseteq Commands /\ Len(xTimerQueue) <= QueueLength
  /\ memory \in [Timer -> {"free", "created", "use", "back", "lost"}]
  /\ stamp \in [Timer -> TickType]
  /\ active \subseteq Timer
  /\ daemon \in Daemon

\* The tick count is wide enough for the bounds: no period, with all that a timer
\* may be late, comes up to TickLimit.  A delete that waits for room fails in the
\* end and loses its timer, so that there are no more such waits than timers that
\* delete themselves.
LagIsShort ==
  /\ IsFiniteSet(Timer)
  /\ \A t \in Timer :
       Period[t] + 2 * MaxLate + DeleteWait * Cardinality(Timer \ Periodic) + 1 < TickLimit

\* The timers keep the promises of TimerService although the tick count wraps,
\* commands are carried out later than they were stamped, and the daemon lags.
Service == INSTANCE TimerService WITH
  armed    <- Armed,
  left     <- [t \in Timer |-> Left(t)],
  requests <- [i \in DOMAIN Outstanding |->
                [op |-> Outstanding[i].op, timer |-> Outstanding[i].timer, age |-> Age(Outstanding[i])]],
  running  <- IF daemon.at \in {"delete", "deleting", "callback"} THEN daemon.fire ELSE NULL,
  resting  <- daemon.at = "asleep",
  MaxAge   <- TickLimit - 1
RefinesTimerService == Service!Spec

=============================================================================
