# Formal model of the ADP framework

TLA+ modules, TLC configurations and TLAPS proofs for the ADP framework
(`src/platforms/common/adp_framework`), a publish/subscribe framework over
FreeRTOS, and for the MQTT application built on it
(`src/applications/simple_mqtt_app`). Paths below are relative to the
repository; `adp_x.c` stands for the file of that name in the framework.

1. [The system](#1-the-system)
2. [Modules](#2-modules)
3. [Runs](#3-runs)
4. [Fairness](#4-fairness)
5. [Theorems](#5-theorems)
6. [Findings](#6-findings)
7. [What is not modelled](#7-what-is-not-modelled)
8. [Plan](#8-plan)

## 1. The system

### Tasks

Everything runs in FreeRTOS tasks with fixed priorities on one core. In the
MQTT application (`main.c`, `FreeRTOSConfig.h`):

| task | priority | runs |
|------|---------:|------|
| timer daemon | 6 | `mqtt_timer_cb` (every second), `do_backoff_tcp_connect` (one-shot) |
| IPNET dispatcher | 5 | `ipnet_cmd_handler`, `net_agent_status_handler`, `mqtt_socket_monitor_io` |
| FreeRTOS+TCP IP task | 5 | the stack, `ipnet_client_socket_wakeup_cb` |
| MQTT dispatcher | 4 | `mqtt_cmd_handler`, `mqtt_agent_status_handler` |
| CLI dispatcher | 0 | `console_handler`, and the console commands: `adp_mqtt_agent_start`, `adp_mqtt_agent_stop`, `adp_os_mem_trace_print` |
| APP Console | 0 | `adp_console_task`: reads characters |
| APP Info-print | 0 | `print_info`: once a minute publishes two commands, then fills, empties and destroys a table |

### Components

| component | state | operations | what makes it correct |
|-----------|-------|------------|-----------------------|
| topic dispatcher, `adp_dispatcher.c` | dispatcher and subscriber tables, one queue per dispatcher, heap copies of messages | create, register, subscribe, publish, the loop of `dispatcher_task` | accepted messages reach every subscriber once, in order; each copy is freed once; publish returns |
| OS abstraction, `adp_osal.c` | none (wrappers) but the memory trace | queues, timers, mutexes, tasks, heap | a put is timed; the trace balances |
| TCP/IP service, `adp_tcpip.c` | `s_socket_db` and its mutex | connect, shutdown, wakeup callback, network up/down | a socket that was allocated belongs to one client and is freed |
| MQTT service, `adp_mqtt.c` | `s_session_db` and its mutex | connect, subscribe, disconnect, ping, process loop, socket monitor, ping timer | a session uses the socket of its client; callbacks see complete sessions; the mutex is given back |
| MQTT agent, `adp_mqtt_agent.c` | `s_mqtt_client_db`, `cnt`, backoff timers | status handlers, backoff, start, stop | a client is always being connected by exactly one chain of events until it is stopped, and gone afterwards |
| console, `adp_console.c` | command line buffer and the byte behind it, length, `argc` | read a character, one handler per character | lines are assembled, cut and executed as edited, whatever sources mix |
| memory pool and table, `adp_mem_pool.c`, `adp_mem_table.c` | linked rows, each with its strings | create, push, pop, delete, destroy | whatever allocation fails, every block has one holder |
| memory trace, in `adp_osal.c` | rows of live blocks, current sum | malloc, free, print | rows and sum match the heap; printing does not stop the system |
| logging, `adp_logging.c` | one mutex | print | one line at a time; nobody waits for it where he must not block |
| heap, `heap_4.c` | list of free blocks | malloc, free | blocks do not overlap; a request that fits is served |
| kernel, `queue.c`, `tasks.c` | queues, mutexes, event lists, priorities | timed send and receive, take, give, delay, tick | no lost wakeup; the highest ready task runs; inheritance ends |
| software timers, `timers.c` | two lists of active timers, a queue of commands, the time of the last sample | start, stop, delete, the loop of `prvTimerTask` | each callback runs once per period, never early, whenever the tick count wraps |

FreeRTOS, FreeRTOS+TCP and coreMQTT are vendored. They are modelled as far as
the framework relies on them.

### Interactions

`adp_topic_publish` copies its data to the heap and puts a descriptor into the
queue of the dispatcher at which the topic is registered; the put gives up
after 100 ticks. The task of that dispatcher calls every subscriber and frees
the copy. All other calls between services are such messages:

```
 console --start/stop--> agent ---IPNET_EXECUTE_CMD----> TCP/IP service
                         agent <--IPNET_CMD_STATUS------ TCP/IP service
                         agent ---MQTT_EXECUTE_CMD-----> MQTT service
                         agent <--MQTT_CMD_STATUS------- MQTT service
 IP task --SOCKET_DISCONNECTED, SOCKET_RXTX_ACTIVITY---> MQTT service
 MQTT service (monitor, timer) --MQTT_EXECUTE_CMD------> itself
```

A client therefore goes round in a cycle of messages: TCP connect, MQTT
connect, SUBSCRIBE, and after any failure MQTT disconnect, TCP shutdown,
backoff, TCP connect. No variable says where in the cycle it is: it is the
message, the timer or the session that exists for it. A handler that forgets
to publish, or a publish that fails, stops the cycle for good; a handler that
publishes when it should not starts a second one.

The two services share no variables, but MQTT sessions use the sockets by
handles (pointers), which the stack hands out again after a socket is freed.

### What is hard

- Publishers, timed-out puts and callbacks that publish interleave with the
  routing of a message; a callback can fill the queue it is itself to empty.
- A command, the status of an earlier one, a notice about a socket, a timer and
  a stop can be under way for one client at the same time, in two queues of
  which either can be ahead of the other.
- `s_session_db` is used by three tasks; the timer daemon keeps its mutex while
  it publishes to the queue of a task that may be waiting for the mutex.
- Connections fail or close at any point; the broker refuses; queues overflow;
  timers cannot be started; any allocation may fail.
- The tables of the dispatcher are written without a lock while tasks of higher
  priority read them.
- Whatever the kernel's calls find in one critical section may have changed in
  the next.

The `hazards` of `PROJECT.json` list these by source line with the properties
that cover them.

## 2. Modules

| module | models | extends / uses |
|--------|--------|----------------|
| `TopicBus` | abstract: what the dispatcher promises | - |
| `AdpDispatcher` | `adp_dispatcher.c` over the queues of `adp_osal.c`, in full detail | refines `TopicBus` |
| `AdpDispatcher_proofs` | theorems about `AdpDispatcher` | `AdpDispatcher`, `TLAPS` |
| `MCDispatcher` | TLC instance: two dispatchers | `AdpDispatcher` |
| `AdpTopicTable` | the two tables of `adp_dispatcher.c` and their writers and readers | - |
| `AdpTopicTable_proofs` | theorems about `AdpTopicTable` | `AdpTopicTable`, `TLAPS` |
| `MCTopicTable` | TLC instance: one writer, two readers | `AdpTopicTable` |
| `AdpBus` | the dispatcher as the services use it: two queues, tasks, priorities, messages | - |
| `AdpIpnet` | `adp_tcpip.c`, the sockets of the stack and its task | `AdpBus` |
| `AdpMqtt` | `adp_mqtt.c`, the broker | `AdpIpnet` (sessions use sockets) |
| `AdpMqttAgent` | `adp_mqtt_agent.c` | `AdpBus` |
| `ClientLife` | abstract: the life of a client | - |
| `MqttSystem` | the composition, its fairness and its properties | `AdpMqtt`, `AdpMqttAgent`; refines `ClientLife` |
| `MqttSystem_proofs` | theorems: types, custody of sockets, one cycle per client, sessions on their sockets | `MqttSystem`, `TLAPS` |
| `MqttOrder_proofs` | theorems that rest on the order of messages; the system implements `ClientLife` | `MqttSystem_proofs` |
| `MCMqttSystem` | TLC instance: priorities, symmetry | `MqttSystem` |
| `LineEditor` | abstract: editing and entering lines, and the slips of the code | - |
| `AdpConsole` | `adp_console.c` and the commands of `print_info` | refines `LineEditor` |
| `AdpConsole_proofs` | theorems about `AdpConsole` | `AdpConsole`, `TLAPS` |
| `MCConsole` | TLC instance: two letters, a buffer of four bytes | `AdpConsole` |
| `AdpHeap` | `heap_4.c` | - |
| `AdpMemory` | the trace in `adp_osal.c`, `adp_mem_pool.c`, `adp_mem_table.c`, `print_info`, the mutex of `adp_logging.c` | `AdpHeap` |
| `AdpMemory_proofs` | theorems about `AdpHeap` and `AdpMemory` | `AdpMemory`, `TLAPS` |
| `MCMemory` | TLC instance: sizes | `AdpMemory` |
| `TimedQueue` | abstract: what timed calls of a queue promise | - |
| `RtosKernel` | queues, mutexes and scheduling of FreeRTOS (`queue.c`, `tasks.c`, `list.c`) | refines `TimedQueue` |
| `RtosKernel_proofs` | theorems about `RtosKernel` | `RtosKernel`, `TLAPS` |
| `MCKernel` | TLC instance: four tasks of three priorities | `RtosKernel` |
| `TimerService` | abstract: what timers promise, in real time | - |
| `RtosTimer` | software timers of FreeRTOS (`timers.c`) as `adp_osal.c` uses them | refines `TimerService` |
| `RtosTimer_proofs` | theorems about `RtosTimer` | `RtosTimer`, `TLAPS` |
| `MCTimer` | TLC instance: two one-shot timers, a periodic one | `RtosTimer` |

Operators commented with "Mutant:" are wrong versions of the operator next to
them. Nothing uses them; `PROJECT.json` pairs each with the property that it
breaks, to show that the property can fail.

### AdpDispatcher

| variable | code |
|----------|------|
| `queue` | the FreeRTOS queue of each dispatcher |
| `live` | heap blocks allocated for message copies |
| `out`, `blocked` | a task inside `adp_topic_publish`, in `adp_os_queue_put`; asleep on a full queue |
| `cur`, `pos`, `todo` | `dispatcher_task`: the message it routes, the row of the subscriber table, what the running callback may still publish |
| `accepted`, `handled` | history: what was put, what each row was called with |

`adp_topic_publish` is `PublishRejected` (unknown topic, no memory),
`PublishCopy`, then `QueuePut`, or `QueuePutBlock` followed by `QueuePut` or
`QueuePutTimeout`. The timeout needs no full queue, since the kernel tests it
after leaving the critical section that tests for room. `dispatcher_task` is
`Receive`, `CallbackReturn` per subscriber, `Release`. The routing loop,
`dispatcher_route_to_dest`, runs on between two callbacks in one step: it reads
constant tables only. Callbacks publish any subset of `Emits`, in any order.
Payloads are heap blocks or `NULL` (no data). The two tables are constants;
`AdpTopicTable` shows that their unlocked use gives each call the same view.

### AdpTopicTable

| variable | code |
|----------|------|
| `dispatcher_table`, `subscriber_table` | the tables, without names and ids |
| `created` | queues that exist |
| `write` | a call of `adp_dispatcher_create`, `adp_topic_register` or `adp_topic_subscribe`: the row it has found and the stores it has still to make |
| `read` | a call of `adp_topic_publish` or `dispatcher_route_to_dest`: the row its loop is at |
| `registered`, `subscribed` | history: calls that returned success |

The stores to a row are one step each and come in any order, since the fields
are plain variables. Reading one row is one step: a field is set once and for
all, so that reading its fields one after the other shows nothing that reading
them together, at the last of these reads, would not. The module is for one
task that writes at a time, as in the applications, where `main` fills the
tables; later registrations come from the console task and, at the first
`mstart`, from the CLI dispatcher. With two writers at once `OneRowPerTopic`
fails: each finds the other's row free. The theorems state the condition as
`OneWriter`.

### AdpBus

Abstracts `AdpDispatcher` for the services. Each of their topics has one
subscriber, so routing is one call of a handler (`cur`). A publish call in
progress is `out`; it puts its message (`PutDone`) or gives up on a full queue
(`PutTimeout`). No caller in the services looks at the result, so a message that
is given up is lost; the history variable `lost` notes for which client. A task
runs if no task of higher priority is ready (`MayRun`); with all priorities
equal this is any scheduling. The kernel's priorities are modelled for tasks
that are ready because of their queues; a task that waits for the network, for
the mutex or for time does not keep a lower one from running.

### AdpIpnet, AdpMqtt, AdpMqttAgent

Each handler is one action, or one per outcome, save where it blocks or where
another task can see it half done:

- `ipnet_do_tcp_connect`: `TcpConnect` (socket allocated, `FreeRTOS_connect`
  called), then `TcpConnectReturns` or `TcpConnectFails`. The list is written,
  and the wakeup callback installed, only on return.
- `mqtt_do_broker_connect`: `SessionAlloc` (in the list, keep-alive still 0),
  `SessionSetup`, then `BrokerAccepts` or `BrokerConnectFails`.
- `mqtt_timer_cb`: `Tick` and one `TickContinues` per further session, with the
  mutex held (`Unlocked` is false) until the last publish call returns.
- `adp_mqtt_agent_stop`: per client, `AgentStop` and `AgentStopShutdown`.

A socket is `free`, `open` (connecting), `established`, `dead` (closed by the
peer) or `closing` (the stack has yet to free it). Events of a socket are
flags (`events`, `xEventBits`) until the IP task calls the wakeup callback,
which publishes by the state it then finds. A session is `listed`,
`connecting`, `connected`, `subscribing`, `acked` (SUBACK unread) or
`subscribed`.

A dispatcher publishes to the other or to itself only through `AdpBus`, so that
losses and stalls are those of `AdpDispatcher`.

Clients are objects, compared by address (`user_ctx`); a client object is never
started twice, as `start_mqtt_client` allocates a new one for each start.

### AdpConsole

`queue` is the queue of the CLI dispatcher, `input` the rest of the message
`console_handler` is at, `cmd_line`, `cmd_idx`, `argc` its static variables.
Each round of its loop is one of `HandleEnter`, `HandleBackspace`,
`HandleSkipped`, `HandleSpace` and `HandleLetter`. A put to the full queue may
fail; `console_handler` publishes to the dispatcher that runs it, so for a line
it always does.

`cmd_line` is `&buffer[1]`, so that it has `BufferSize - 1` bytes (`Cell`). That is
also the length at which the code takes a line for full (`Limit`): a full line
fills `cmd_line`, and has no place left for its NUL. `behind` is the byte that
follows; it belongs to whatever object the linker puts there. `Load` and `Store`
go there for an index past the end of `cmd_line`, and so does the NUL of a full
line (`StoreEnd`). The message of a command has a copy of this NUL (`end`), or of
what the owner of the byte has stored there since.

`LineEditor` has no buffer with remains of older lines and no memory around it: a
text that is extended, shortened, cut at its limit, and entered or lost, with
the number of its delimiters. Its `Spec` is what the comments of
`console_handler` promise: nothing else is written to, a space behind a space
is skipped, and the number is right. The code does not keep this (see
[Findings](#6-findings)). The steps in which it does not are actions of their own,
the slips: `SlipInsert`, `SlipErase` and `SlipEnter`. `EditsLines` says that every
other step keeps the promise, and that a slip breaks no more of it than its name
says.

### AdpHeap and AdpMemory

Sizes and addresses are in units; a block is named by the address of its header.
`PortMalloc` and `PortFree` are one step each, since they suspend the scheduler,
and so is the second half of `adp_os_malloc_trace`; between the heap's answer and
the row in the trace (`pending`) any other task may run. `print_info` is a
sequence of steps at the places named by `at`, one for every allocation, release
and log. `row` is the row being built up or taken down, `pool` the rows in the
list, `object` the table, the pool and their mutexes. The other tasks are
workers that allocate and free blocks. The trace is that of the build that
records the framework's own allocations
(`ADP_MEMORY_ALLOC_FREE_TRACE_ENABLED_GLOBALLY` 0); kernel objects come from the
heap without a row. `print_info` and the CLI dispatcher have one priority and
may interrupt each other while they log (`logging`, `locker`). The logs of the
workers are left out: they preempt both and need the mutex only for as long as
inheritance gives them priority, which `RtosKernel` covers. `peak` is what
`adp_osal.c` keeps under this name; `total_peak` is only printed.

### RtosKernel

| variable | code |
|----------|------|
| `queue`, `holder` | the messages of a queue; `xMutexHolder` of each mutex |
| `waiting` | the event lists |
| `prio` | `uxPriority`; `Priority` is `uxBasePriority` |
| `call` | the call a task is in, the rest of its timeout, and where it is |
| `running` | `pxCurrentTCB` |

A blocking call is `Begin` (its first critical section), `Check` (the section
with the scheduler suspended, at the end of which it may block) and `Retry`
(the critical section of a later round). `Give` is `xSemaphoreGive` with
`xTaskPriorityDisinherit`, `Tick` is `xTaskIncrementTick`. Every step sets
`running` as the code yields: if it asks for it, to a task of the highest ready
priority, else not at all; that this is the right task is a property
(`HighestRuns`). Queue locks are left out, since no interrupt but the tick
calls the kernel in this port, and so is the order of the ready list, so that
any of the tasks of one priority may be selected.

Clients use the mutexes as the framework does: the mutex of the log is taken
last, others do not nest, a task that holds one neither sends nor sleeps
(`mqtt_timer_cb`, which does, is in `MqttSystem`).

### RtosTimer

| variable | code |
|----------|------|
| `xTickCount`, `xLastTime` | the tick count, which wraps at `TickLimit`, and its value at the last sample |
| `current`, `overflow` | the lists that `pxCurrentTimerList` and `pxOverflowTimerList` point to |
| `xTimerQueue`, `active` | the commands; the timers with `tmrSTATUS_IS_ACTIVE` |
| `memory`, `stamp` | who has the block of a timer; the tick count that `xTimerStart` has read and will send |
| `daemon` | where `prvTimerTask` is, with the local variables of its functions |

`FindOverflow`, `FindExpired` and `BlockTask` are
`prvProcessTimerOrBlockTask`, `SwitchExpired` and `SwitchLists` are
`prvSwitchTimerLists`, `Fire` is `prvProcessExpiredTimer` or a turn of
`prvReloadTimer`, `ReceiveCommand`, `ApplyStart` and `ApplyStop` are
`prvProcessReceivedCommands`. A step ends where the clock or the queue is read
and where a callback runs, so that ticks come in between and the time that the
daemon has sampled may be old. The daemon has the highest priority: other tasks
run only while it is `asleep` or blocked in a callback. If
`prvProcessTimerOrBlockTask` finds that the tick count has wrapped, it switches
the lists, and calls the callbacks that are due, with the scheduler suspended
(`Suspended`); no tick and no other task comes then, and the delete in such a
callback does not wait.

One-shot timers delete themselves in their callback, as `do_backoff_tcp_connect`
does; if that fails, the block is `lost`. Periodic timers are stopped and deleted
by their task.

The mapping to `TimerService` has to tell how many ticks an entry of a list is
away: `Left` takes into account which list it is in, whether the tick count has
wrapped since the lists were switched (`ListsBehind`), and that a timer which is
firing is in no list.

## 3. Runs

| run | instance | checks |
|-----|----------|--------|
| `dispatcher` | 2 dispatchers with queues of 2, 1 other publisher, 3 subscriber rows, 3 topics, 1 block; callbacks publish to their own dispatcher and to the other | `TypeOK`; `BufferOwnership`; `QueueIsSuffix`; `HandledOnceInOrder`; `PublishReturns`; `EventuallyDelivered`; `RefinesTopicBus`, liveness included |
| `topic_table` | 1 writer, 2 readers, 2 queues, 3 topics, 3 and 2 rows | `TypeOK`; `PutsGoHome`; `RegisteredIsFound`; `OneRowPerTopic`; `RouteServesSubscribers`; `RowsAreFinal` |
| `console` | 2 letters, a buffer of 4, a queue of 2, `argc` modulo 4 | `TypeOK`; `CommandHasName`; `EditsLines` |
| `memory` | a heap of 21 units, 2 workers, 2 rows with a string, a trace of 5 rows | `TypeOK`; `HeapTiled`; `TraceExact`; `BlocksHaveOneHolder`; `FailsOnlyWhenFull` |
| `kernel` | 4 tasks of 3 priorities, a queue of 1, 2 mutexes, timeouts of 1 and 2 ticks | `TypeOK`; `NoLostWakeup`; `HighestRuns`; `Inherits`; `RefinesTimedQueue`; `TopIsServed` |
| `timer` | 2 one-shot timers and a periodic one, periods of 2 and 3, a tick count that wraps at 11, a queue of 1 | `TypeOK`; `RefinesTimerService` |
| `memory_print` | as `memory` | violated, see [Findings](#6-findings) |

Instances of the MQTT system:

| run | clients, sockets | queue | scheduling | faults, noise | stop | checks |
|-----|------|---|---|---|---|--------|
| `mqtt_cycle` | 2, 2 | 3 | any | 1, 1 | no | `TypeOK`; `SocketCustody`; `OneLifeline`; `SessionOnItsSocket`; `NoticesAreCurrent`; `HealthySessionKept`; `RefinesClientLife` |
| `mqtt_stop` | 2, 1 | 2 | application | 0, 0, and 1 timer refused | yes | `SocketCustody`; `StoppedIsGone` |
| `mqtt_live` | 1, 2 | 2 | any, fair | 2, 1 | no | `Reconnects`; `MutexReleased` |
| `mqtt_timer_refused`, `mqtt_keep_alive` | | | | | | violated, see [Findings](#6-findings) |

What the properties say:

- `BufferOwnership`: a copy has exactly one holder while it is allocated and none
  afterwards. `HandledOnceInOrder`: every row was called with exactly the accepted
  messages due, ascending; `QueueIsSuffix` ties the queue to this history.
- `PutsGoHome`, `RegisteredIsFound`, `RouteServesSubscribers`: between any two
  stores of a registration or subscription, a message goes to the queue of its
  topic or nowhere, a topic that was registered is found, and routing calls all
  the rows it has to and no other. They rest on `RowsAreFinal` and
  `OneRowPerTopic`.
- `EditsLines`: the console implements `LineEditor`, except for the three slips;
  `CommandHasName`: what is executed begins with a name. `TypeOK` of the console has
  every line within the bytes of `cmd_line`, and nothing but the NUL of a full line
  behind the buffer.
- `HeapTiled`: free and allocated blocks cover the heap without overlap, in
  order, and free neighbours are merged. `FailsOnlyWhenFull`: a request is only
  refused if no gap is large enough.
- `TraceExact`: the trace has one row for each block in use by the framework,
  save those that found it full, and `peak` is their sum and what was requested
  in vain. `BlocksHaveOneHolder`: no block leaks or is held twice, whichever
  allocations of a table or of a row fail.
- `NoLostWakeup`: a task sleeps only as long as there is not more of what it
  waits for than tasks already woken up will take. `RefinesTimedQueue`: calls
  take effect at once, in time, or time out, and a receive that times out leaves
  no message behind.
- `HighestRuns`, `Inherits`: no step forgets to yield; a holder has at least the
  priority of the tasks that wait, and without a mutex its own. `TopIsServed`:
  the task of the highest priority gets the mutex it waits for. This needs the
  inheritance of priorities, and that the holder does not wait in turn for a task
  which still others outrank: FreeRTOS does not pass an inherited priority on. In
  the instance `r`, the task that could be outranked so, does not log.
- `RefinesTimerService`: requests are served in their order, a callback runs once
  for each period since the start of its timer, never early, and the daemon does
  not sleep past the time at which a timer is due. In the code this is spread over
  comparisons of times from before and after a wrap, and over lists whose meaning
  changes with it.
- `SocketCustody`: every socket the stack has allocated is being connected or is
  listed for exactly one client; nothing else is listed. Several error paths of
  connect have to free the socket, and shutdown has to find it.
- `OneLifeline`: for each registered client there is exactly one message, timer
  or session that will carry it on. None would strand the client; two would run
  two cycles for it, one tearing down what the other sets up. Exempt are clients
  of whose cycle a full queue dropped a message (`lost`): nothing recovers them.
- `SessionOnItsSocket`: a session of a registered client uses the socket listed
  for that client, never one that was freed or handed out again.
- `RefinesClientLife`: seen through `Stage`, each client goes through the stages
  off, dial, login, up, down, wait in the intended order only.
- `NoticesAreCurrent`: a notice "disconnected" that is still under way never
  meets a session on a later, connected socket with the same handle. It holds
  because the notice and the shutdown that frees the handle pass through the
  same queue.
- `HealthySessionKept`: a session that has sent SUBSCRIBE is not ended while its
  connection lives. It does not hold for the phase `connected`: there a
  SUBSCRIBE that was queued for an earlier session may fail and its failure may
  end the new one.
- `StoppedIsGone`: when the commands of a stop have been carried out and nothing
  is under way for the client, it has no session and no socket, although
  DISCONNECT and TCP_SHUTDOWN go to different dispatchers and a connect may be
  half done. This depends on the priorities of the application (`ConsoleBelow`):
  under arbitrary scheduling it is violated, since `do_backoff_tcp_connect` and
  the status handlers look up the registration before they publish, and the stop,
  of priority 0, can then come in between.
- `Reconnects`: once the network stops failing every client ends up subscribed.
- `MutexReleased`: `mqtt_timer_cb` always gives the mutex back, since its put to
  the full queue of a task that waits for the mutex times out.

Bounds, and why they are enough:

- `MaxAccepted` (4): publish calls let into one dispatcher queue; two more than
  the queue holds, so that queues are full, wrap and time out.
- `QueueLength`: 70 in the application. 1, 2 and 3 make full queues frequent. In the
  MQTT runs some behaviours lose a message then, and the properties about the life
  cycle say nothing of a client that lost one (`lost`), as nothing recovers it;
  every other behaviour, and every other client, is still checked.
- `MaxFaults`: refused connections, closing peers, refusing brokers, failing
  sends in one behaviour. One fault leads through the whole cycle of failure;
  two, in `mqtt_live`, let a second one hit the recovery from the first. In
  `mqtt_stop` there is none: one client has the only socket and the other one
  fails for want of it, again and again.
- `MaxNoise`: pings and traffic are only caused while fewer than so many pings,
  reads and events are under way. They are generated again and again, so that
  0 and 1 still mean any number of them one after the other (0: none).
- `MaxTimerFaults`: timers that cannot be started; `StopAllowed`: whether the
  console stops the clients.
- `MaxClients`, `MaxSockets`, `MaxSessions`: the sizes of the three tables, 25 in
  the application.
- `TableSize`, `SubTableSize`: as many rows as registrations, so that the tables
  get full; a third topic competes for the row.
- `BufferSize` (40 in the code) and `ArgcValues` (256): 4 and 4, so that a line
  hits its limit and `argc` wraps.
- `HeapSize`: too small for the table of `print_info` and the blocks of both
  workers, so that each allocation fails in some behaviours; blocks of 2, 3 and 8
  units fragment it. `DbSize`: smaller than the number of blocks, so that the
  trace gets full. `MaxHeld`: blocks of a worker. `MaxLost`: once so many units
  were requested in vain there are no more requests, since `peak` would grow
  without bound.
- `MaxTicks`: timeouts of 1 and 2 ticks, so that one can shrink and run out.
- `TickLimit` (the range of `unsigned long`, so that where this has 64 bits no
  system will live to see the wrap): 11 values, so that the tick count wraps again
  and again at every phase of every timer. They are just enough for `LagIsShort`,
  which `TimersKeepPromises` assumes: a period of 3, 2 * `MaxLate`, a tick for each of
  the two timers that may wait in vain, and 1. `MCTimer` has TLC evaluate it.
  `DeleteWait` (100): 1 tick.
  `configTIMER_QUEUE_LENGTH` (20): 1, so that the queue is often full, also with the
  scheduler suspended.
- `MaxLate` (2): how many ticks a task may let pass between reading the clock and
  sending the command, the daemon until it carries it out, and a callback beyond
  its time. 2 is the period of two of the timers, so that a period has passed
  before the command comes and a periodic timer fires twice in a row. `Behind`
  stops the clock there; the code has no such bound, but the timers could not
  tell lags of a whole wrap from none.

Deadlock is checked in all runs but the two of `AdpMemory`, where the system may
really stop (a failed assertion, the bound `MaxLost`, and the defect that
`memory_print` shows). In the dispatcher runs a publisher can always
try again (`PublishRejected`). In the MQTT system `Ended` allows a final state
only if nothing is under way and every registered client is subscribed or lost,
or if the process has died; in any other state something must be able to happen.

Symmetry (clients and sockets; readers, queues and topics) is used in runs
without liveness only.

## 4. Fairness

`AdpDispatcher`: weak fairness of each task's put and of each dispatcher's
steps. The tasks of the applications sleep or block in every cycle, so lower
priorities get to run; a timed sleep ends. Nothing makes a task publish.

`MqttSystem`, `FairSpec`:

- `TaskFairness`: tasks that can run do. Handlers that take the mutex get it
  although a tick may take it first again and again (strong fairness): the
  kernel hands a mutex to a waiting task.
- `NetworkFairness`: a connect attempt ends, closed sockets are freed, events
  reported, a SUBSCRIBE is acknowledged, although other events come in between.
  That the broker answers SUBSCRIBE is an assumption; the code has no timer for
  it (`adp_mqtt.c:446`). That a CONNACK comes or fails is not: `MQTT_Connect`
  is timed.
- `BackoffFairness`: a started timer fires.

`RtosKernel`: the tick comes (weak fairness); a task that is selected again and
again makes a step (strong fairness: a tick may take the processor from it before
it does, but not for ever, as a tick lasts much longer than a step); and a task
that holds a list mutex gives it after finitely many steps, as the framework's
critical sections do.

`mqtt_live` also sets `SlowBackoff`: a backoff (at least a second) does not end
before the queues are empty, except for a dispatcher that waits for the network.
Without it `Reconnects` fails: if the MQTT dispatcher lags behind by more than a
backoff, the SUBSCRIBE of one session is handled when there is none, and the
DISCONNECT which that failure causes ends the next session, for ever.

## 5. Theorems

Each theorem is for all values of the constants that satisfy the assumption of its
module (`DispatcherAssumption`, `TopicTableAssumption` and so on); the bounds of the runs
(`MaxAccepted`, `MaxFaults`, `MaxTicks` and so on) are constants like any other. A
hypothesis beyond that stands in the statement. Where an invariant of the runs is
not inductive, the strengthening that is (`Inv`, or a conjunction of named parts)
was given to TLC first.

### Dispatcher

In `AdpDispatcher_proofs`, for any number of dispatchers, tasks, topics, rows and
blocks and any lengths:

| theorem | statement |
|---------|-----------|
| `OrderCorrect` | `Spec => [](TypeOK /\ QueueIsSuffix)` |
| `TypeCorrect` | `Spec => []TypeOK` |
| `DeliveryCorrect` | `Spec => []HandledOnceInOrder` |
| `OwnershipCorrect` | `Spec => []BufferOwnership` |
| `ImplementsTopicBus` | `Spec => Bus!Safety` |

- `OrderInv` is `TypeOK` and `QueueIsSuffix`; together they are inductive. The
  lemmas `SuffixPut` and `SuffixTake` say that a put extends queue and history
  alike and that a receive moves the head of the queue into `cur`.
- `HandledInv` adds `OwnTopics` (a message is accepted at the dispatcher of its
  topic only) to `HandledOnceInOrder`: without it a row could owe a call to a
  queue that another dispatcher empties. `RouteCalls` is the core: one step of
  the routing loop calls the one row that has become due, if any, with a number
  greater than all it was called with.
- `HeapInv` adds `IdleHoldsNothing` (a dispatcher that waits for a message refers
  to no block) to `BufferOwnership`: otherwise `Receive` could overwrite the last
  reference to a block. The step lemma goes through the hand-overs: publish call
  to queue, queue to dispatcher, dispatcher to heap.
- `StepBus` maps `QueuePut` to `Accept`, `Receive` and `CallbackReturn` to
  `Handle` or a stutter, and everything else to a stutter; that the row called
  is the first one the line owes follows from `HandledInv`.

### Tables of the dispatcher

In `AdpTopicTable_proofs`, for any number of readers, queues, topics and rows:

| theorem | statement |
|---------|-----------|
| `TypeCorrect` | `Spec => []TypeOK` |
| `TopicHasOneRow` | `OneWriter`: `Spec => []OneRowPerTopic` |
| `PublishGoesHome` | `OneWriter`: `Spec => []PutsGoHome` |
| `RegisteredTopicIsFound` | `OneWriter`: `Spec => []RegisteredIsFound` |
| `RouteCallsSubscribers` | `OneWriter`: `Spec => []RouteServesSubscribers` |
| `RowsStay` | `OneWriter`: `Spec => RowsAreFinal` |

`OneWriter` is what the applications do instead of locking: no two tasks register or
subscribe at once. Without it the properties fail, as said under `AdpTopicTable`.

The invariants of the run speak of complete rows and finished calls. The inductive
one, `TableInv`, also says what a row is in between: `WriteInv` (it has what was
stored to it and is otherwise blank), `HalfRows` (half a row belongs to a call in
progress, so that no reader can make use of it) and `TableIsRegistered`. `ReadInv`
is the promise a reader relies on while its loop goes on: what was registered when
it began is in its row or behind it. `Grows` says how the tables change in any step;
that it keeps the promise is one lemma, whoever makes the step.

### MQTT application

In `MqttSystem_proofs` and `MqttOrder_proofs`, for any number of clients, sockets,
sessions and faults, queues of any length and any scheduling (but for `StoppedClientsAreGone`):

| theorem | statement |
|---------|-----------|
| `TypeCorrect` | `Spec => []TypeOK` |
| `SocketsInCustody` | `Spec => []SocketCustody` |
| `NeverTwoCycles` | `Spec => [](\A c \in registered : Lifelines(c) <= 1)` |
| `OneCycleAlways` | `MaxTimerFaults = 0`: `Spec => []OneLifeline` |
| `SessionHasItsSocket` | `Spec => []SessionOnItsSocket` |
| `NoStaleNotice` | `Spec => []NoticesAreCurrent` |
| `StoppedClientsAreGone` | `ConsoleBelow`: `Spec => []StoppedIsGone` |
| `HealthySessionsStay` | `Spec => HealthySessionKept` |
| `ClientsLiveInStages` | `Spec => RefinesClientLife` |

`OneCycleAlways` needs that no start of a timer is refused; that it fails otherwise is
the finding `mqtt_timer_refused`. `NeverTwoCycles`, its other half, holds in any case.

- Messages are counted by their `Places`: place 0 of a dispatcher is the message it
  handles, 1 to `QueueLength` are those of its queue, and the last is the publish call
  of a task. A receive moves every message by one place (`Moved`), and any other step
  makes at most one message (`StepsMakeOne`), so that an invariant about messages
  is proved once for the bus and not for each handler.
- `SocketInv` describes the custody of each socket by itself and is inductive.
- `OneInv` says that what carries a client is one message (`AtMostOne`, in one place),
  or its timer, or its session. For a handler to keep it, it must be known that the
  message it handles is about a client whose session is not already up
  (`ConnectInv`) and that nothing is under way for one that was never started
  (`StartedInv`).
- `OnSocketInv` follows the socket from the status of the connect to the session
  that is set up with it (`HandedOver`). It needs `OneInv`: a second message could
  name the socket of a connection that is gone.
- `NoticeInv`: while the socket of a client is up, a notice with its handle is about an
  earlier socket, and whatever is to set up a session comes behind it in the same
  queue. This is the argument from the order of the messages: the notice is put
  before the shutdown that frees the handle. `WhereInv` says which task publishes
  what, and so which queue it can be in.
- `LineInv`: all that can start, use or end a session of a client stands on one line,
  from the handler of the MQTT dispatcher through its queue to its publish call.
  `LineOrder` excludes pairs on this line (a second SUBSCRIBE, a request for a session
  ahead of a SUBSCRIBE of an earlier one), `LineState` and `QuitIsRight` say what is on
  it for each phase of the session. `HealthySessionKept` follows, as a request to end
  a session never meets one that is subscribed and whose socket lives.
- `ConsoleBelow`: the console's dispatcher has a lower priority than the IPNET
  dispatcher and the timer daemon, the two tasks that look up the registration before
  they publish. No other order of the tasks matters, and neither half can be left out:
  TLC finds `StoppedIsGone` violated with either task at the console's priority.
  `MCMqttSystem` has TLC evaluate it for the priorities of the application.
- `StopInv`: for each of the two services, whatever a stopped client still has (`Uses`)
  is ended by a command that is under way, and whatever would begin a use (a request
  for a session, a dial) has such a command behind it (`HandledAfter`): later in the
  queue, or still in the publish call of the console, which runs when the task that
  publishes the other one cannot. For the socket this begins when the stop requests
  the shutdown, its second command. `OthersStay`, `ReceiveKeepsBehind` and
  `PutKeepsBehind` show that no step changes the order; `PutKeepsBehind` is where
  the priorities are used.
- `StageInv`: the stage of a client is that of its one lifeline. Each step then maps to
  `Advance`, `Stop`, `Lose` or to a stutter of `ClientLife`.

### Memory

In `AdpMemory_proofs`, for a heap, a header, a trace, requests and rows of any size, any
number of rows and of strings in a row, and any number of other tasks:

| theorem | statement |
|---------|-----------|
| `TypeCorrect` | `Spec => []TypeOK` |
| `HeapStaysTiled` | `Spec => []HeapTiled` |
| `TraceStaysExact` | `Spec => []TraceExact` |
| `BlocksStayHeld` | `Spec => []BlocksHaveOneHolder` |
| `RefusedOnlyWhenFull` | `Spec => FailsOnlyWhenFull` |

`MemInv` is the inductive invariant of all five. It has a part for the heap, one for
the hands, one that ties the two, and two for `print_info`.

- `HeapInv` (`Tiles`): the free list is sorted with a gap between any two blocks, and
  the units of the free and of the allocated blocks are disjoint and all of the heap.
  `HeapTiled` says so of the sizes, which does not say that each unit is in a block;
  as sets of units (`Covered`) it does, and that is what `FailsOnlyWhenFull` needs:
  units in a row that no allocated block covers are in free blocks, and in one of
  them, since two would touch (`GapIsFree`). `InsertBlockGrows` goes through the four
  outcomes of `prvInsertBlockIntoFreeList` (`Glue` merges with the block behind): what
  is covered grows by the block, and no two blocks touch afterwards.
- Sums over a set of blocks (`SumFacts`, `SumAdded`) are derived from the definition of
  `MapThenSumSet`: a function that adds up each subset exists and is unique,
  both by the least cardinality of a counterexample.
- `Holders`: no pointer is in two variables, be it two columns of a row, two rows, the
  two halves of the table or the hands of two tasks, and who is between the two halves
  of `adp_os_malloc_trace` holds the block already. `RowOnce` and `ListOnce` say so of
  the row and of the pool; the lemmas from `RowBegun` to `ObjectCleared` say what each
  step of `print_info` does to the set of its pointers.
- `BooksRight`: the allocated blocks are exactly the pointers in hand, mutexes
  included, and a set `X` of leaked blocks; what is in hand, traced by no pending call
  and no mutex, has one row or found the trace full, and `peak` is the sum of rows and
  of requests in vain. `X` is empty until `print_info` gives up: `CreateFails` frees the
  table and forgets its mutex. `BooksMalloc`, `BooksInsert`, `BooksFree`, `BooksMutex` and
  `BooksMutexFree` prove that the five operations keep the books, whoever calls them.
- `Stage` and `Counts`: what `print_info` has at each point of its cycle. Without
  `Counts` (the pool is empty after as many pops as there were pushes) `Destroy` would
  free the pool and leak the rows that are left in it.
- `RefsAre`, `RefPtrs` and `RefOnce` translate this into `Refs`, the references that the
  invariants of the run count.

### Console

In `AdpConsole_proofs`, for any letters, strings and sizes:

| theorem | statement |
|---------|-----------|
| `TypeCorrect` | `Spec => []TypeOK` |
| `CommandsHaveNames` | `Spec => []CommandHasName` |
| `ConsoleEditsLines` | `Spec => EditsLines` |

`TypeInv` with `NameInv` is inductive: a line does not begin with a delimiter, although a
backspace can bring the length back to 0 at any point, and what waits was such a
line; its symbols are in `cmd_line` (`BytesFacts`, `CellFacts`: a full line has as many
symbols as `cmd_line` has bytes), and only its NUL may come from behind the buffer.
`ConsoleEditsLines` proves the refinement step by step and decides for each whether it
is a step of the promise or a slip. For the refinement, the commands in the queue are a sequence of their own
(`CommandsOf`): `GoesToNth` and the lemmas after it say that the message at the k-th
place with a command is the k-th command, whatever stands between, so that a put
at the end appends to it and a receive takes its head or leaves it alone.

### Kernel

In `RtosKernel_proofs`, for any tasks, priorities, mutexes, timeouts and any length of
the queue:

| theorem | statement |
|---------|-----------|
| `TypeCorrect` | `Spec => []TypeOK` |
| `WakeupsArrive` | `Spec => []NoLostWakeup` |
| `HighestAlwaysRuns` | `YieldsSuffice`: `Spec => []HighestRuns` |
| `HoldersInherit` | `YieldsSuffice`: `Spec => []Inherits` |
| `QueueIsTimed` | `Spec => RefinesTimedQueue` |

- `ListInv`: the event list of an object holds the tasks that sleep for it, each once.
  The lists are sequences sorted by priority; `FirstLowerFound`, `InsertFacts` and
  `KeptFacts` say what `vListInsert` and `uxListRemove` do to them.
- `NoLostWakeup` counts all tasks that are awake and want the object. It is not
  inductive: a task about to look once more (`check`) may find nothing and go to
  sleep. `WakeInv` counts only those that return to the critical section.
- `HighestRuns` needs to know who may run next when priorities change. `BoostInv`: a
  priority above a task's own is inherited through a mutex it still has. `Sorted`:
  the lists are in the order of the priorities the tasks have had. `Boosted`: a mutex
  that somebody sleeps for is held at his priority or about to be taken at it.
  `HeadInv`: who has one mutex has inherited from the first of its list, so that
  giving it back makes that task run. `NestInv` is the discipline of the framework:
  the mutex of the log is taken last.
- `YieldsSuffice` is the condition on the tasks without which `HighestRuns` is false,
  see [Findings](#6-findings). `MCKernel` has TLC evaluate it for the instance.
- `QueueIsTimed` maps a critical section that serves a call to `Put` or `Get` of
  `TimedQueue`, one that finds nothing to `Wait`, the end of a call without success to
  `GiveUp`, the tick to `Elapse`, and all else to a stutter. `LastInv` (a last try is
  made by a receive whose time is up) is what `GiveUp` needs.

### Timers

In `RtosTimer_proofs`, for any timers, any periods, any width of the tick count and any
length of the queue:

| theorem | statement |
|---------|-----------|
| `PassedCorrect` | whatever the command time and the age of the command, `Passed` holds if and only if the age is at least the period |
| `InsertionCorrect` | if it does not, the list and the value with which the timer is inserted are those of the time `Period - age` ticks from now |
| `TypeCorrect` | `Spec => []TypeOK` |
| `TimersKeepPromises` | `LagIsShort`: `Spec => RefinesTimerService` |

- The first two are about the code's comparison of three times that may lie on either
  side of an overflow. `TickArithmetic` is the lemma about sums and differences modulo
  `TickLimit`.
- `LagIsShort`: no period, with all that a timer may be late, comes up to the width of
  the tick count. The code needs it too: from three wrapped times
  `prvInsertTimerInActiveList` cannot tell a lag of a whole wrap from none. A timer is
  late by the lags of task and daemon (2 * `MaxLate`, see the bounds) and by the ticks
  that callbacks spend waiting for room in the queue. Such a wait ends with the block
  `lost`, hence at most once for each timer that deletes itself: `Lag` counts them.
- `TypeInv`: besides the types, each list is sorted (`Good`) and holds a timer at most
  once, and none is in both. `FirstLaterFound`, `InsertGood`, `RemoveGood` and `TailGood`
  say what `vListInsert`, `uxListRemove` and taking the head do to that.
- `PhaseInv` says what the daemon carries at each point of its loop.
- `Custody` (`QueueInv`, `CommandInv`, `MemoryInv`) is the discipline that makes the
  daemon's lists sound: a timer whose START is still to be carried out is in no list
  and its callback is not under way, no command follows a DELETE, and a timer that is armed has its block.
  With the first two it is inductive without `LagIsShort`, and all that `TypeCorrect`
  needs.
- `Numbers` is about time. `DueAt(t, d)` counts the time at which a timer is due from
  the last overflow that the lists know of (`Now` is the present on that scale), so
  that switching the lists shifts all times by `TickLimit` and changes none of the
  differences. `TimeInv`: no timer in a list is overdue by more than `Lag`. `AgeInv`,
  `HandInv` and `FireInv` say so of commands in the queue, of the command in hand and of
  the timer that fires, and that no overflow since the last sample is overlooked.
  `SwitchInv`: switching the lists ends in the epoch that follows. `SleepInv`: the
  daemon never sleeps past the next time.
- The refinement: `TimerStart`, `TimerStop`, `TimerDelete` and `CallbackDeletes` are a
  `Request` if the queue has room. A start is served (`ServeStart`) by `ApplyStart`, a
  stop or delete (`ServeStop`) already by `ReceiveCommand`, which takes the timer from
  its list. `Fire` is `Expire`, `CallbackReturns` is `Return` (also if
  the next period has passed too and `Fire` follows), `BlockTask` is `Rest` if the daemon
  goes to sleep, and `Tick` is `Elapse`. All else, the switch of the lists and the waits
  included, is a stutter: `DueFacts` and the lemmas `View...` show that what is left of
  each armed timer does not change.

### What is only model-checked

Every safety property that a passing run checks is stated by a theorem. What is not:

- Liveness: `PublishReturns`, `EventuallyDelivered`, `Reconnects`, `MutexReleased`,
  `TopIsServed`, and the liveness of `TopicBus`. It is out of reach of the prover, as
  is `ENABLED`.

## 6. Findings

- `mqtt_timer_refused`: if the backoff timer cannot be started,
  `do_backoff_raise_timer` logs "Unable to raise backoff timer, so start the
  action right away" and calls `do_backoff_tcp_connect(user_ctx)`
  (`adp_mqtt_agent.c:111-112`). That function expects a timer. It reads the
  `user_ctx` of a timer from the client, finds no registered client and
  publishes nothing: the client is never connected again (`NeverStranded`).
- `mqtt_keep_alive`: coreMQTT documents a keep-alive interval of 0 as "disabled"
  (`core_mqtt.c:1005`). `mqtt_timer_cb` divides by the interval of every listed
  session (`adp_mqtt.c:512`), and a session is listed before its interval is set
  (lines 262 and 297). A tick in between divides by zero (`NeverCrashes`); the
  timer daemon has a higher priority than the MQTT dispatcher, so no priority
  prevents it.
- `memory_print`: `xQueueSemaphoreTake` demands "Cannot block if the scheduler is
  suspended." (`queue.c:1513`; the assertion that follows is compiled out, as the
  applications do not define `configASSERT`). `adp_os_mem_trace_print` suspends the
  scheduler and logs each row (`adp_osal.c:145-153`), and a log takes a mutex
  without a timeout. If the time slice of `print_info` ended while it was writing
  a log, the take waits for a task that cannot run, and since the scheduler stays
  suspended the whole system stops (`NeverBlocksSuspended`). `print_info` itself
  publishes `mem` every minute, just before it logs.

Certain from the code and so without a run: `adp_mqtt_agent_start` refuses a client
when `cnt` has reached the size of the table and logs "Max number of MQTT clients
reached" (`adp_mqtt_agent.c:219`). `cnt` is never decreased, so after a stop, which
empties the table, clients are refused although none is registered. `AgentStart`
does so too (`started`).

Two limits of the vendored kernel show when the instance of `kernel` is changed;
the framework does not depend on them. The first is what `YieldsSuffice` excludes: if a task of the priority the giver now
has waits for the outer of two nested mutexes, `HighestRuns` fails: the yield
that `xTaskPriorityDisinherit` asks for ("a context switch should occur when the
last mutex is returned whether a task is waiting on it or not", `tasks.c:4209`)
is made only if no task was waiting (`queue.c:919`). And if `r` logs too,
`TopIsServed` fails, because inheritance is not transitive.

Three comments of `console_handler` (`adp_console.c`) are not true of it. The run
`console` passes, as `EditsLines` admits these steps by name, and them only. The
promise itself is stated by three invariants of `AdpConsole`, which TLC finds
violated under `MCConsolePromise.cfg`
(`tlc -continue -config MCConsolePromise.cfg MCConsole` shows all of them):

- "Prevent overflow" (line 72): a line may grow to `ADP_CONSOLE_MAX_CMD_SIZE - 1`
  symbols, which fill `cmd_line`. Enter then stores its 0x00 one byte behind
  `buffer` (line 51), and publishes `ADP_CONSOLE_MAX_CMD_SIZE + 1` bytes of it (line
  53): with 40 bytes, 39 symbols and enter write `buffer[40]` and copy 41 bytes.
  (`NeverOverruns`; `SlipEnter`.) The limit would have to be one less.
- "Skip multiple delimiters between words" (line 88): line 87 looks for 0x20 at the
  place that is to be written next, but spaces are stored as 0x00, and before it.
  No space is ever skipped there: `d␣␣b` has three arguments, the second of them
  empty. (`DelimitersOnce`; `SlipInsert`.)
- "Start of new argument detected" (line 91): `argc` is incremented, but a delimiter
  that a backspace takes away again, or that is the last symbol of a full line and
  is replaced (lines 64 and 74), stays counted. `mstart`, space, backspace, enter
  gives a command without an argument and `argc` 1; `START_MQTT` then looks for
  its argument behind the end of the message (`app_console.c:69`). (`ArgcCounts`;
  `SlipErase`, `SlipInsert`.)

The other properties hold in spite of the interleavings they are about, and most of
them are proved.

## 7. What is not modelled

- Two tasks that register or subscribe at the same moment (see `AdpTopicTable`):
  no application does that.
- Incoming PUBLISH packets, QoS and the payload of messages: no property of the
  life cycle depends on them.
- The keep-alive of coreMQTT and half-open connections, where nothing is ever
  received: `MQTT_ProcessLoop` and `MQTT_Ping` return an error that the service
  ignores, so that nothing happens to model.
- `do_broker_connect` without a client id: no caller does that.
- The lookups of the wakeup callback in the socket list: their result is only
  logged.
- Pointers that are used after their block was freed (`adp_mem_table_row_pop`
  hands out strings of a row it deletes): the model knows who holds a block, not
  who reads it.
- Of `timers.c` what the framework does not call: reset, change of period, pended
  functions, calls from interrupts, static timers. What callbacks do besides
  deleting their timer: one that takes a mutex with the scheduler suspended, as
  `mqtt_timer_cb` may when the tick count wraps (`timers.c:919`), would block for
  ever if the mutex is taken, for the same reason as in `memory_print`.
- Tasks that are created or deleted at run time; interrupts.
- The protocols of FreeRTOS+TCP (IP, TCP windows, DHCP, DNS) and the packets of
  coreMQTT. They are most of the repository's lines, vendored, and the framework
  sees of them only the events and results that `AdpIpnet` and `AdpMqtt` have.
- UART, printing console commands, the other example applications: I/O.

## 8. Plan

Done: all modules above, and the theorems of section 5.

Modelling to come: `AdpBus` against `AdpDispatcher`, the bus as an instance of the
dispatcher with one subscriber per topic.
