---------------------------- MODULE TimerService ----------------------------
(***************************************************************************)
(* What the software timers promise, in real time and without a counter    *)
(* that wraps: requests are served in the order in which they were made, a *)
(* timer runs its callback once for each period that has passed since it   *)
(* was started, never before the period is over, and while the service     *)
(* rests no time passes that a timer or a request waits for.               *)
(***************************************************************************)
EXTENDS Integers, Sequences

CONSTANTS
  Timer,
  Periodic,  \* the timers that start again by themselves
  Period,
  MaxAge,    \* bound: how old a request is when it is made known
  NULL

VARIABLES
  armed,     \* the timers that run
  left,      \* the ticks until an armed timer is due; below 0 it is late
  requests,  \* what was asked for and is not done yet
  running,   \* the timer whose callback runs
  resting    \* the service waits for a request or for the time

serviceVars == <<armed, left, requests, running, resting>>

Due == {t \in armed : left[t] <= 0}

Init ==
  /\ armed = {}
  /\ left = [t \in Timer |-> 0]
  /\ requests = <<>>
  /\ running = NULL
  /\ resting = FALSE

\* The age of a start counts from the moment at which the caller read the clock.
Request(t, op, age) ==
  /\ requests' = Append(requests, [op |-> op, timer |-> t, age |-> age])
  /\ resting' = FALSE
  /\ UNCHANGED <<armed, left, running>>

ServeStart ==
  LET r == Head(requests) IN
  /\ requests # <<>> /\ running = NULL /\ r.op = "START"
  /\ armed' = armed \cup {r.timer}
  /\ left' = [left EXCEPT ![r.timer] = Period[r.timer] - r.age]
  /\ requests' = Tail(requests)
  /\ UNCHANGED <<running, resting>>

ServeStop ==
  LET r == Head(requests) IN
  /\ requests # <<>> /\ running = NULL /\ r.op \in {"STOP", "DELETE"}
  /\ armed' = armed \ {r.timer}
  /\ left' = [left EXCEPT ![r.timer] = 0]
  /\ requests' = Tail(requests)
  /\ UNCHANGED <<running, resting>>

Expire(t) ==
  /\ t \in Due /\ running = NULL
  /\ running' = t
  /\ armed' = IF t \in Periodic THEN armed ELSE armed \ {t}
  /\ left' = [left EXCEPT ![t] = IF t \in Periodic THEN @ + Period[t] ELSE 0]
  /\ UNCHANGED <<requests, resting>>

Return ==
  /\ running # NULL /\ running' = NULL
  /\ UNCHANGED <<armed, left, requests, resting>>

Rest ==
  /\ requests = <<>> /\ Due = {} /\ running = NULL
  /\ resting' = TRUE
  /\ UNCHANGED <<armed, left, requests, running>>

Elapse ==
  /\ resting => Due = {}
  /\ left' = [t \in Timer |-> IF t \in armed THEN left[t] - 1 ELSE 0]
  /\ requests' = [i \in DOMAIN requests |->
       [requests[i] EXCEPT !.age = IF requests[i].op = "START" THEN @ + 1 ELSE 0]]
  /\ resting' \in {resting, FALSE}
  /\ UNCHANGED <<armed, running>>

Next ==
  \/ \E t \in Timer, age \in 0..MaxAge : Request(t, "START", age)
  \/ \E t \in Timer, op \in {"STOP", "DELETE"} : Request(t, op, 0)
  \/ ServeStart \/ ServeStop
  \/ \E t \in Timer : Expire(t)
  \/ Return \/ Rest \/ Elapse

Spec == Init /\ [][Next]_serviceVars

=============================================================================
