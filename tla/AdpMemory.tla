----------------------------- MODULE AdpMemory -----------------------------
(***************************************************************************)
(* The memory of the framework: the trace of adp_os_malloc and adp_os_free *)
(* (adp_osal.c) over the heap, and its clients:                            *)
(*   INFO    print_info (main.c), which once a cycle creates a table       *)
(*           (adp_mem_table.c over adp_mem_pool.c), pushes rows with       *)
(*           strings, pops them and destroys the table;                    *)
(*   CLI     the dispatcher that executes the command `mem' and prints the *)
(*           trace with the scheduler suspended;                           *)
(*   Worker  the other tasks, which allocate and free messages.            *)
(* Kernel objects (here the mutexes) come from the heap without a trace.   *)
(* INFO and CLI have the lowest priority and share the processor in time   *)
(* slices, so that either may be interrupted while it writes a log; the    *)
(* workers preempt them and their logs are left out.                       *)
(***************************************************************************)
EXTENDS AdpHeap

CONSTANTS
  INFO, CLI, NONE,
  Worker,     \* other tasks
  WorkerSize, \* sizes a worker asks for
  MaxHeld,    \* bound: blocks a worker holds at a time
  SizeOf,     \* sizes of a table, mutex, pool, row, string and node
  Rows,       \* rows that print_info pushes
  Strings,    \* columns of the table that are strings
  DbSize,     \* ADP_MEMORY_ALLOC_FREE_TRACE_DB_SIZE
  MaxLost     \* bound: after as many units in vain there are no more requests

Kind == {"table", "mutex", "pool", "row", "string", "node"}

ASSUME MemoryAssumption ==
  /\ WorkerSize \subseteq Nat \ {0}
  /\ MaxHeld \in Nat
  /\ SizeOf \in [Kind -> Nat \ {0}]
  /\ Rows \in Nat /\ Strings \in Nat \ {0}
  /\ DbSize \in Nat \ {0}
  /\ MaxLost \in Nat
  /\ INFO # CLI /\ NONE \notin {INFO, CLI}
  /\ {INFO, CLI, NONE} \cap Worker = {}

VARIABLES
  mem_db, peak, \* the trace: rows in use, and units requested
  pending,   \* per task, a block it has got from the heap but not yet traced
  held,      \* per worker, its blocks
  at,        \* where print_info is
  object,    \* the table of print_info, its pool and their mutexes
  row,       \* the row that is built up or taken down
  pool,      \* the rows in the pool
  count,     \* rows pushed or popped so far
  logging,   \* INFO and CLI: inside adp_log, before or with the mutex
  locker,    \* the holder of the mutex of adp_log_output
  cli,       \* where adp_os_mem_trace_print is
  untraced,  \* history: blocks that found the trace full
  lost       \* history: units in peak that no free takes off

traceVars == <<mem_db, peak, untraced, lost>>
infoVars  == <<at, object, row, pool, count>>
logVars   == <<logging, locker, cli>>
vars == <<heapVars, traceVars, infoVars, logVars, pending, held>>

-----------------------------------------------------------------------------
Ptr   == Unit \cup {NULL}
RowType == [row : Ptr, str : Seq(Ptr), node : Ptr]
NoRow == [row |-> NULL, str |-> <<>>, node |-> NULL]
NoCall == [ptr |-> NULL, size |-> 0]
NoObjects == [o \in {"table", "table_lock", "pool", "pool_lock"} |-> NULL]

Traced(ptr) == \E r \in mem_db : r.ptr = ptr

\* A task runs unless the scheduler is suspended, by CLI or for good; INFO and
\* CLI wait until a worker has left adp_os_malloc.
Runs(t) ==
  /\ at # "stopped"
  /\ cli = "print" => t = CLI
  /\ t \in {INFO, CLI} => \A w \in Worker : pending[w] = NoCall
  /\ t # CLI => pending[t] = NoCall

InfoRuns == Runs(INFO) /\ ~logging[INFO]

Init ==
  /\ HeapInit
  /\ mem_db = {} /\ peak = 0
  /\ pending = [t \in Worker \cup {INFO} |-> NoCall]
  /\ held = [w \in Worker |-> {}]
  /\ at = "sleep" /\ object = NoObjects /\ row = NoRow /\ pool = <<>> /\ count = 0
  /\ logging = [t \in {INFO, CLI} |-> FALSE] /\ locker = NONE /\ cli = "idle"
  /\ untraced = {} /\ lost = 0

-----------------------------------------------------------------------------
(* adp_os_malloc_trace and adp_os_free_trace *)

\* The first half of adp_os_malloc_trace: the heap has answered.
TraceMalloc(t, size) ==
  /\ lost < MaxLost
  /\ PortMalloc(size)
  /\ pending' = [pending EXCEPT ![t] = [ptr |-> MallocResult(size), size |-> size]]
  /\ UNCHANGED traceVars

\* The second half, with the scheduler suspended: the block is entered in the
\* first row that is free.  A NULL leaves that row free, but counts in peak.
InsertInto(db, t) ==
  LET ptr  == pending[t].ptr
      size == pending[t].size
      full == Cardinality(mem_db) = db
  IN /\ cli # "print"
     /\ pending[t] # NoCall
     /\ t = INFO => \A w \in Worker : pending[w] = NoCall
     /\ peak' = peak + size
     /\ mem_db' = IF full \/ ptr = NULL THEN mem_db ELSE mem_db \cup {pending[t]}
     /\ untraced' = IF full /\ ptr # NULL THEN untraced \cup {ptr} ELSE untraced
     /\ lost' = IF full \/ ptr = NULL THEN lost + size ELSE lost
     /\ logging' = IF full /\ t = INFO THEN [logging EXCEPT ![t] = TRUE] ELSE logging
     /\ pending' = [pending EXCEPT ![t] = NoCall]
     /\ UNCHANGED <<heapVars, infoVars, locker, cli, held>>

\* A mutant: one row too many.
TraceInsertPast(t) == InsertInto(DbSize + 1, t)
TraceInsert(t) == InsertInto(DbSize, t)

\* A mutant: the row is not given back.
TraceFreeKeepsRow(ptr) ==
  IF ptr = NULL THEN UNCHANGED <<heapVars, traceVars>>
  ELSE PortFree(ptr) /\ UNCHANGED traceVars

\* adp_os_free_trace, all of it with the scheduler suspended.  (total_peak, the
\* largest peak that a free has seen, is only printed.)
TraceFree(ptr) ==
  IF ptr = NULL
  THEN UNCHANGED <<heapVars, traceVars>>
  ELSE /\ PortFree(ptr)
       /\ IF Traced(ptr)
          THEN \E r \in mem_db :
                 /\ r.ptr = ptr
                 /\ mem_db' = mem_db \ {r}
                 /\ peak' = peak - r.size
                 /\ UNCHANGED <<untraced, lost>>
          ELSE /\ untraced' = untraced \ {ptr}
               /\ UNCHANGED <<mem_db, peak, lost>>

-----------------------------------------------------------------------------
(* adp_log_output by INFO and CLI: the mutex is taken, and given later. *)

LogTake(t) ==
  /\ Runs(t) /\ logging[t] /\ locker = NONE
  /\ locker' = t
  /\ UNCHANGED <<heapVars, traceVars, infoVars, pending, held, logging, cli>>

LogGive(t) ==
  /\ Runs(t) /\ locker = t
  /\ locker' = NONE
  /\ logging' = [logging EXCEPT ![t] = FALSE]
  /\ UNCHANGED <<heapVars, traceVars, infoVars, pending, held, cli>>

-----------------------------------------------------------------------------
(* print_info *)

\* adp_os_malloc by INFO for what `kind' names; it goes on at `next'.
InfoAlloc(here, kind) ==
  /\ InfoRuns /\ at = here
  /\ TraceMalloc(INFO, SizeOf[kind])
  /\ UNCHANGED <<held, locker, cli>>

\* xSemaphoreCreateMutex by INFO: no trace.
InfoMutex(here) ==
  /\ InfoRuns /\ at = here
  /\ PortMalloc(SizeOf["mutex"])
  /\ UNCHANGED <<traceVars, pending, held, locker, cli>>

\* adp_os_free and vSemaphoreDelete by INFO.
InfoFree(here, ptr) ==
  /\ InfoRuns /\ at = here
  /\ TraceFree(ptr)
  /\ UNCHANGED <<pending, held, locker, cli>>
InfoMutexDel(here, ptr) ==
  /\ InfoRuns /\ at = here
  /\ PortFree(ptr)
  /\ UNCHANGED <<traceVars, pending, held, locker, cli>>

\* A log by INFO follows the step, or none.
Logs(b) == logging' = [logging EXCEPT ![INFO] = b]

\* The task wakes up and logs.
Wake ==
  /\ InfoRuns /\ at = "sleep"
  /\ at' = "create"
  /\ Logs(TRUE)
  /\ UNCHANGED <<heapVars, traceVars, object, row, pool, count, pending, held, locker, cli>>

\* adp_mem_table_create and adp_mem_pool_create.  adp_os_mutex_create does not
\* return without a mutex; without memory for the pool the table is freed, and
\* with it the pointer to its mutex.
CreateTable == LET ptr == MallocResult(SizeOf["table"]) IN
  /\ InfoAlloc("create", "table")
  /\ object' = [object EXCEPT !["table"] = ptr]
  /\ at' = IF ptr = NULL THEN "assert" ELSE "table_lock"
  /\ Logs(ptr = NULL)
  /\ UNCHANGED <<row, pool, count>>

CreateLock(here, next) == LET ptr == MallocResult(SizeOf["mutex"]) IN
  /\ InfoMutex(here)
  /\ object' = [object EXCEPT ![here] = ptr]
  /\ at' = IF ptr = NULL THEN "assert" ELSE next
  /\ Logs(ptr = NULL)
  /\ UNCHANGED <<row, pool, count>>

CreatePool == LET ptr == MallocResult(SizeOf["pool"]) IN
  /\ InfoAlloc("pool", "pool")
  /\ object' = [object EXCEPT !["pool"] = ptr]
  /\ at' = IF ptr = NULL THEN "free_table" ELSE "pool_lock"
  /\ Logs(ptr = NULL)
  /\ UNCHANGED <<row, pool, count>>

CreateFails ==
  /\ InfoFree("free_table", object["table"])
  /\ object' = NoObjects
  /\ at' = "assert"
  /\ Logs(TRUE)
  /\ UNCHANGED <<row, pool, count>>

\* ADP_ASSERT fails: adp_os_abnormal_stop suspends the scheduler for ever.
AbnormalStop ==
  /\ InfoRuns /\ at = "assert"
  /\ at' = "stopped"
  /\ UNCHANGED <<heapVars, traceVars, object, row, pool, count, pending, held, logVars>>

\* adp_mem_table_row_push.
PushRow == LET ptr == MallocResult(SizeOf["row"]) IN
  /\ count < Rows
  /\ InfoAlloc("push", "row")
  /\ row' = [row EXCEPT !.row = ptr]
  /\ IF ptr = NULL THEN count' = count + 1 /\ at' = "push" ELSE at' = "cells" /\ UNCHANGED count
  /\ Logs(ptr = NULL)
  /\ UNCHANGED <<object, pool>>

PushString == LET ptr == MallocResult(SizeOf["string"]) IN
  /\ Len(row.str) < Strings
  /\ InfoAlloc("cells", "string")
  /\ row' = [row EXCEPT !.str = Append(@, ptr)]
  /\ Logs(ptr = NULL)
  /\ UNCHANGED <<at, object, pool, count>>

\* A mutant of PushNode: the row that cannot be listed is forgotten.
PushNodeLeaks == LET ptr == MallocResult(SizeOf["node"]) IN
  /\ Len(row.str) = Strings
  /\ InfoAlloc("cells", "node")
  /\ pool' = IF ptr # NULL THEN Append(pool, [row EXCEPT !.node = ptr]) ELSE pool
  /\ row' = NoRow
  /\ at' = "push" /\ count' = count + 1
  /\ Logs(FALSE)
  /\ UNCHANGED object

PushNode == LET ptr == MallocResult(SizeOf["node"]) IN
  /\ Len(row.str) = Strings
  /\ InfoAlloc("cells", "node")
  /\ IF ptr # NULL
     THEN /\ pool' = Append(pool, [row EXCEPT !.node = ptr])
          /\ row' = NoRow
          /\ at' = "push" /\ count' = count + 1
     ELSE at' = "del_row" /\ UNCHANGED <<row, pool, count>>
  /\ Logs(ptr # NULL /\ count + 1 = Rows)
  /\ UNCHANGED object

\* adp_mem_table_row_del: the strings, then the row.  It follows a push that
\* has failed or a pop; print_info logs before the first pop and after each.
DelString ==
  /\ row.str # <<>>
  /\ InfoFree("del_row", Head(row.str))
  /\ row' = [row EXCEPT !.str = Tail(@)]
  /\ Logs(FALSE)
  /\ UNCHANGED <<at, object, pool, count>>

DelRow ==
  /\ row.str = <<>>
  /\ InfoFree("del_row", row.row)
  /\ row' = NoRow
  /\ count' = count + 1
  /\ at' = "push"
  /\ Logs(count + 1 >= Rows)
  /\ UNCHANGED <<object, pool>>

\* adp_mem_table_row_pop, once more often than rows were pushed; a pool without
\* a row changes nothing and the last pop is not logged.
PopRow ==
  /\ count \in Rows..(2 * Rows)
  /\ IF pool = <<>>
     THEN /\ InfoRuns /\ at = "push"
          /\ count' = count + 1
          /\ Logs(count < 2 * Rows)
          /\ UNCHANGED <<heapVars, traceVars, pending, held, locker, cli, at, row, pool>>
     ELSE /\ InfoFree("push", Head(pool).node)
          /\ row' = [Head(pool) EXCEPT !.node = NULL]
          /\ pool' = Tail(pool)
          /\ at' = "del_row"
          /\ Logs(FALSE)
          /\ UNCHANGED count
  /\ UNCHANGED object

\* adp_mem_table_destroy and adp_mem_pool_destroy.
DestroyLock(here, o, next) ==
  /\ InfoMutexDel(here, object[o])
  /\ object' = [object EXCEPT ![o] = NULL]
  /\ at' = next
  /\ Logs(FALSE)
  /\ UNCHANGED <<row, pool, count>>

DestroyObject(here, o, next) ==
  /\ InfoFree(here, object[o])
  /\ object' = [object EXCEPT ![o] = NULL]
  /\ at' = next
  /\ count' = IF next = "sleep" THEN 0 ELSE count
  /\ Logs(FALSE)
  /\ UNCHANGED <<row, pool>>

Destroy ==
  /\ count > 2 * Rows
  /\ DestroyLock("push", "pool_lock", "del_pool")

PrintInfo ==
  \/ Wake
  \/ CreateTable
  \/ CreateLock("table_lock", "pool")
  \/ CreatePool
  \/ CreateLock("pool_lock", "push")
  \/ CreateFails
  \/ AbnormalStop
  \/ PushRow
  \/ PushString
  \/ PushNode
  \/ PopRow
  \/ DelString
  \/ DelRow
  \/ Destroy
  \/ DestroyObject("del_pool", "pool", "del_lock")
  \/ DestroyLock("del_lock", "table_lock", "del_table")
  \/ DestroyObject("del_table", "table", "sleep")

-----------------------------------------------------------------------------
(* adp_os_mem_trace_print *)

\* The command `mem': the head line is logged ...
PrintHead ==
  /\ Runs(CLI) /\ cli = "idle"
  /\ cli' = "head"
  /\ logging' = [logging EXCEPT ![CLI] = TRUE]
  /\ UNCHANGED <<heapVars, traceVars, infoVars, pending, held, locker>>

\* ... the scheduler is suspended ...
PrintSuspend ==
  /\ Runs(CLI) /\ cli = "head" /\ ~logging[CLI]
  /\ cli' = "print"
  /\ UNCHANGED <<heapVars, traceVars, infoVars, pending, held, logging, locker>>

\* ... and each row and the sum are logged: the mutex is free for all of them,
\* or it is held by a task that cannot run to give it back.
PrintRows ==
  /\ cli = "print" /\ locker = NONE
  /\ cli' = "idle"
  /\ UNCHANGED <<heapVars, traceVars, infoVars, pending, held, logging, locker>>

-----------------------------------------------------------------------------
WorkerMalloc(w) == \E size \in WorkerSize : LET ptr == MallocResult(size) IN
  /\ Runs(w) /\ Cardinality(held[w]) < MaxHeld
  /\ TraceMalloc(w, size)
  /\ held' = IF ptr = NULL THEN held ELSE [held EXCEPT ![w] = @ \cup {ptr}]
  /\ UNCHANGED <<infoVars, logVars>>

WorkerFree(w) == \E ptr \in held[w] :
  /\ Runs(w)
  /\ TraceFree(ptr)
  /\ held' = [held EXCEPT ![w] = @ \ {ptr}]
  /\ UNCHANGED <<infoVars, logVars, pending>>

Next ==
  \/ PrintInfo
  \/ PrintHead \/ PrintSuspend \/ PrintRows
  \/ \E t \in {INFO, CLI} : LogTake(t) \/ LogGive(t)
  \/ \E t \in Worker \cup {INFO} : TraceInsert(t)
  \/ \E w \in Worker : WorkerMalloc(w) \/ WorkerFree(w)

Spec == Init /\ [][Next]_vars
-----------------------------------------------------------------------------
(* Properties *)

\* The pointers that tasks hold, each with the variable it is in.
Cells(r) == {<<0, r.row>>, <<Strings + 1, r.node>>} \cup {<<i, r.str[i]>> : i \in DOMAIN r.str}
Refs ==
  {r \in {<<"object", o, object[o]>> : o \in DOMAIN object}
           \cup {<<"row", c[1], c[2]>> : c \in Cells(row)}
           \cup (UNION {{<<"pool", <<i, c[1]>>, c[2]>> : c \in Cells(pool[i])} : i \in DOMAIN pool})
           \cup (UNION {{<<"worker", w, ptr>> : ptr \in held[w]} : w \in Worker})
     : r[3] # NULL}

Mutexes == {object["table_lock"], object["pool_lock"]} \ {NULL}
Pending == {pending[t].ptr : t \in DOMAIN pending} \ {NULL}

TypeOK ==
  /\ HeapTypeOK
  /\ mem_db \subseteq [ptr : Unit, size : 1..HeapSize] /\ Cardinality(mem_db) <= DbSize
  /\ peak \in Nat /\ lost \in Nat
  /\ \A t \in DOMAIN pending : pending[t].ptr \in Ptr /\ pending[t].size \in Nat
  /\ DOMAIN pending = Worker \cup {INFO}
  /\ held \in [Worker -> SUBSET Unit]
  /\ at \in {"sleep", "create", "table_lock", "pool", "pool_lock", "free_table", "assert", "stopped",
            "push", "cells", "del_row",
            "del_pool", "del_lock", "del_table"}
  /\ object \in [DOMAIN NoObjects -> Ptr]
  /\ row \in RowType /\ pool \in Seq(RowType) /\ Len(pool) <= Rows
  /\ count \in 0..(2 * Rows + 1)
  /\ logging \in [{INFO, CLI} -> BOOLEAN] /\ locker \in {NONE, INFO, CLI}
  /\ cli \in {"idle", "head", "print"}
  /\ untraced \subseteq Unit

\* Memory neither leaks nor is freed while it is in use: as long as print_info
\* has not given up, each allocated block is held once, by one variable of one
\* task, whichever allocations of a row or of a table have failed.
BlocksHaveOneHolder ==
  at \notin {"assert", "stopped"} =>
    LET refs == Refs
    IN /\ {b.addr : b \in used} = {r[3] : r \in refs}
       /\ Cardinality(used) = Cardinality(refs)

\* The trace tells what the modules hold: each block got by adp_os_malloc and
\* not yet freed has one row, of a size it has room for, unless the trace was
\* full; and peak is the sum of the rows and of what was requested in vain.
TraceExact ==
  /\ {r.ptr : r \in mem_db} \cup untraced = ({r[3] : r \in Refs} \ Mutexes) \ Pending
  /\ {r.ptr : r \in mem_db} \cap untraced = {}
  /\ \A r, s \in mem_db : r.ptr = s.ptr => r = s
  /\ \A r \in mem_db : \E b \in used : b.addr = r.ptr /\ b.size >= r.size + HeaderSize
  /\ peak = MapThenSumSet(LAMBDA r : r.size, mem_db) + lost

\* adp_os_malloc returns NULL only if the heap has no gap of that size: merging
\* leaves no request refused that fits.
FailsOnlyWhenFull ==
  [][\A t \in DOMAIN pending :
       pending'[t] # pending[t] /\ pending'[t] # NoCall /\ pending'[t].ptr = NULL
         => ~Gap(pending'[t].size + HeaderSize)]_vars

\* The queue functions (queue.c) assert that no task blocks on a mutex while
\* the scheduler is suspended: nobody could ever give it.
NeverBlocksSuspended == cli = "print" => locker = NONE

=============================================================================
