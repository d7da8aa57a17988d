---------------------------- MODULE MonitorState ----------------------------
(***************************************************************************)
(* What the monitor controller (monitoring.py) and the executor its event  *)
(* loop uses keep, and what holds of the checks they have under way.       *)
(* Monitors is how they come about.                                        *)
(***************************************************************************)
EXTENDS Sequences, FiniteSets, Naturals

CONSTANTS
  Monitors,  \* the enabled monitors
  Executor,  \* the threads of the executor
  Hung,      \* the monitors whose check may never return
  NoMonitor

ASSUME MonitorsAssumption ==
  /\ IsFiniteSet(Monitors) /\ Hung \subseteq Monitors /\ NoMonitor \notin Monitors
  /\ IsFiniteSet(Executor) /\ Executor # {}

VARIABLES
  task,     \* what each monitor's task is doing
  checks,   \* the checks submitted to the executor, oldest first
  busy,     \* the monitor each thread checks
  outcome,  \* of a check that the event loop has not seen yet
  stopNow,  \* _stop_now
  paused,   \* the scheduler wants the experiment to pause or to end
  main      \* where run_once is

-------------------------------------------------------------------------------

(* A monitor is never checked by two threads at once, nor queued to be     *)
(* while it is, for all that failed ones are recovered (monitoring.py    *)
(* 189-213, 228-234).                                                      *)
OneCheckAtATime ==
  /\ \A v, w \in Executor : busy[v] # NoMonitor /\ busy[v] = busy[w] => v = w
  /\ \A i, j \in 1..Len(checks) : checks[i] = checks[j] => i = j
  /\ \A i \in 1..Len(checks) :
       outcome[checks[i]] = "none" /\ \A w \in Executor : busy[w] # checks[i]
  /\ \A w \in Executor : busy[w] # NoMonitor => outcome[busy[w]] = "none"
==============================================================================
