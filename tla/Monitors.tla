------------------------------ MODULE Monitors ------------------------------
(***************************************************************************)
(* The monitor controller (monitoring.py, make_monitor_controller): an     *)
(* event loop with a task per monitor that has the monitor checked on a    *)
(* thread of the default executor and then sleeps, a task that looks for   *)
(* monitors whose task has failed and recovers them, and a main coroutine  *)
(* that waits to be stopped.  What runs between two awaits is one step.    *)
(***************************************************************************)
EXTENDS MonitorState, SequencesExt

vars == <<task, checks, busy, outcome, stopNow, paused, main>>

(* "start": at the top of run_monitor; "done": ended by an exception;      *)
(* "recovering": replaced by recover_a_monitor, which sleeps.              *)
TaskStates == {"start", "checking", "sleeping", "done", "recovering", "cancelled"}

TypeOK ==
  /\ task \in [Monitors -> TaskStates]
  /\ checks \in Seq(Monitors) /\ Len(checks) <= Cardinality(Monitors)
  /\ busy \in [Executor -> Monitors \cup {NoMonitor}]
  /\ outcome \in [Monitors -> {"none", "state", "error"}]
  /\ stopNow \in BOOLEAN /\ paused \in BOOLEAN
  /\ main \in {"waiting", "closing", "returned"}

(* start_monitors, up to the first await of wait_for_termination.          *)
Init ==
  /\ task = [m \in Monitors |-> "start"]
  /\ checks = <<>> /\ busy = [w \in Executor |-> NoMonitor]
  /\ outcome = [m \in Monitors |-> "none"]
  /\ stopNow = FALSE /\ paused = FALSE
  /\ main = "waiting"

(* A task moves on, unless it has been cancelled. *)
Moves(m, from, to) ==
  /\ main = "waiting" /\ task[m] = from
  /\ task' = [task EXCEPT ![m] = to]

(* run_monitor, at first and after its sleep: the check is submitted.      *)
Submit(m) ==
  /\ \E from \in {"start", "sleeping"} : Moves(m, from, "checking")
  /\ checks' = Append(checks, m)
  /\ UNCHANGED <<busy, outcome, stopNow, paused, main>>

(* recover_a_monitor after its sleep: a new task for the monitor.          *)
RecoverAMonitor(m) ==
  /\ Moves(m, "recovering", "start")
  /\ UNCHANGED <<checks, busy, outcome, stopNow, paused, main>>

(* A free thread of the executor takes the oldest check. *)
TakeCheck(w) ==
  /\ checks # <<>> /\ busy[w] = NoMonitor
  /\ busy' = [busy EXCEPT ![w] = Head(checks)]
  /\ checks' = Tail(checks)
  /\ UNCHANGED <<task, outcome, stopNow, paused, main>>

(* check_state returns or raises; nobody asks any more once the task is    *)
(* cancelled.                                                              *)
CheckEnds(w) ==
  LET m == busy[w]
  IN /\ m # NoMonitor /\ busy' = [busy EXCEPT ![w] = NoMonitor]
     /\ IF task[m] = "checking"
        THEN \E o \in {"state", "error"} : outcome' = [outcome EXCEPT ![m] = o]
        ELSE UNCHANGED outcome
     /\ UNCHANGED <<task, checks, stopNow, paused, main>>

(* run_monitor goes on: a state goes to the data logger, which may raise;  *)
(* an exception ends the task.                                             *)
Report(m) ==
  /\ outcome[m] # "none"
  /\ \/ outcome[m] = "state" /\ Moves(m, "checking", "sleeping")
     \/ Moves(m, "checking", "done")
  /\ outcome' = [outcome EXCEPT ![m] = "none"]
  /\ UNCHANGED <<checks, busy, stopNow, paused, main>>

(* Mutants: the sweep replaces every task that is not asleep; it finds no  *)
(* fault with any.                                                         *)
MonitorMonitorsTooKeen ==
  /\ main = "waiting"
  /\ task' = [m \in Monitors |->
                IF task[m] \in {"checking", "done"} THEN "recovering" ELSE task[m]]
  /\ UNCHANGED <<checks, busy, outcome, stopNow, paused, main>>

MonitorMonitorsIdly ==
  /\ main = "waiting" /\ stopNow' = (stopNow \/ Monitors = {})
  /\ UNCHANGED <<task, checks, busy, outcome, paused, main>>

(* One sweep of monitor_monitors over the tasks; without any it gives up.  *)
MonitorMonitors ==
  /\ main = "waiting"
  /\ task' = [m \in Monitors |-> IF task[m] = "done" THEN "recovering" ELSE task[m]]
  /\ stopNow' = (stopNow \/ Monitors = {})
  /\ UNCHANGED <<checks, busy, outcome, paused, main>>

RequestStop ==
  /\ main = "waiting" /\ stopNow' = TRUE
  /\ UNCHANGED <<task, checks, busy, outcome, paused, main>>

(* The scheduler wants the experiment out of the way, or no longer does.   *)
Scheduler ==
  /\ main = "waiting" /\ paused' = ~paused
  /\ UNCHANGED <<task, checks, busy, outcome, stopNow, main>>

(* A mutant: only the scheduler is asked. *)
StopWhenPaused ==
  /\ main = "waiting" /\ paused
  /\ main' = "closing"
  /\ UNCHANGED <<task, checks, busy, outcome, stopNow, paused>>

(* wait_for_termination returns, and main cancels every task ...           *)
Stop ==
  /\ main = "waiting" /\ (paused \/ stopNow)
  /\ main' = "closing"
  /\ UNCHANGED <<task, checks, busy, outcome, stopNow, paused>>

(* ... each of which ends when the event loop gets to it: with it goes its *)
(* check, if no thread has taken that yet.                                 *)
Cancelled(m) ==
  /\ main = "closing" /\ task[m] # "cancelled"
  /\ task' = [task EXCEPT ![m] = "cancelled"]
  /\ \/ \E i \in 1..Len(checks) : checks[i] = m /\ checks' = RemoveAt(checks, i)
     \/ (\A i \in 1..Len(checks) : checks[i] # m) /\ UNCHANGED checks
  /\ outcome' = [outcome EXCEPT ![m] = "none"]
  /\ UNCHANGED <<busy, stopNow, paused, main>>

(* asyncio.run returns when the tasks have ended and the threads are idle. *)
Return ==
  /\ main = "closing"
  /\ \A m \in Monitors : task[m] = "cancelled"
  /\ \A w \in Executor : busy[w] = NoMonitor
  /\ main' = "returned"
  /\ UNCHANGED <<task, checks, busy, outcome, stopNow, paused>>

Next ==
  \/ \E m \in Monitors : Submit(m) \/ RecoverAMonitor(m) \/ Report(m) \/ Cancelled(m)
  \/ \E w \in Executor : TakeCheck(w) \/ CheckEnds(w)
  \/ MonitorMonitors \/ RequestStop \/ Scheduler \/ Stop \/ Return

Spec == Init /\ [][Next]_vars

(* The event loop runs every task that is ready, sleeps and checks end,    *)
(* those of hung monitors excepted, and idle threads take what is queued.  *)
Fairness ==
  /\ \A m \in Monitors :
       /\ WF_vars(Submit(m)) /\ WF_vars(RecoverAMonitor(m))
       /\ WF_vars(Report(m)) /\ WF_vars(Cancelled(m))
  /\ \A w \in Executor : WF_vars(TakeCheck(w)) /\ WF_vars(busy[w] \notin Hung /\ CheckEnds(w))
  /\ WF_vars(MonitorMonitors) /\ WF_vars(Stop) /\ WF_vars(Return)

FairSpec == Spec /\ Fairness

-------------------------------------------------------------------------------

(* "All monitors get probed regardless of the state of an individual one"  *)
(* (monitoring.py 13), as long as a thread is left that is not hung.       *)
EveryMonitorProbed ==
  \A m \in Monitors : []<>(main # "waiting" \/ \E w \in Executor : busy[w] = m)

(* After request_stop run_once returns (168-181, 243-245), unless a check  *)
(* hangs for ever: asyncio.run waits for the threads.                      *)
StopReturns ==
  \/ stopNow ~> main = "returned"
  \/ <>[](\E w \in Executor : busy[w] \in Hung)
==============================================================================
