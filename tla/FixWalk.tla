------------------------------- MODULE FixWalk -------------------------------
(***************************************************************************)
(* The fix walk of qbutler (calibration.py: _drive_dag_to_ok,              *)
(* _attempt_one_fix, entered by fix_state and fix_targets), run over and   *)
(* over by one worker process, across restarts of that process.            *)
(*                                                                         *)
(* Every pass scans the DAG furthest-dependency-first and acts on the      *)
(* first node that is not good; after one fix attempt the scan starts      *)
(* again from the beginning.  What a measurement finds, whether a fix      *)
(* helps, when timeouts lapse, and when the run is terminated or killed    *)
(* are all left open.                                                      *)
(***************************************************************************)
EXTENDS NodeState, Sequences

CONSTANTS
  Order,      \* the scan order: what get_nodes() returns
  FixState,   \* TRUE: walks are entered by fix_state; FALSE: by fix_targets
  Target,     \* the calibration whose fix_state is called
  Budget,     \* Budget[n]: n's max_fix_attempts, 0 standing for None
  LossyTable, \* TRUE when a write of the status dataset may be lost
  Others      \* TRUE when other workers write the status dataset too

ASSUME OrderAssumption ==
  /\ Order \in Seq(Nodes)
  /\ \A n \in Nodes : \E i \in 1..Len(Order) : Order[i] = n
  /\ \A i, j \in 1..Len(Order) : Order[i] = Order[j] => i = j
  /\ \A i \in 1..Len(Order) : Deps[Order[i]] \subseteq {Order[j] : j \in 1..(i-1)}

ASSUME WalkAssumption ==
  /\ Target \in Nodes
  /\ Budget \in [Nodes -> Nat]
  /\ FixState \in BOOLEAN
  /\ LossyTable \in BOOLEAN
  /\ Others \in BOOLEAN

VARIABLES
  mem,       \* the calibrations' own attributes: lost with the process
  table,     \* the status dataset: survives the process
  pc,        \* where the walk is
  pos,       \* position in Order of the node being looked at
  attempts,  \* fix attempts of each node with a budget, in this walk
  blamed,    \* nodes that have used their one chance to blame, in this walk
  owed,      \* history: nodes ordered to be re-fixed by a forced walk and
             \* not successfully fixed since
  forced     \* history: the part of owed that a forced walk of this process
             \* ordered when it had a check of the node in memory

vars == <<mem, table, pc, pos, attempts, blamed, owed, forced>>

Walking == {"scan", "check", "fix", "recheck", "stamp"}
Stopped == {"idle", "done", "failed", "aborted", "terminated"}

TypeOK ==
  /\ mem \in [Nodes -> Entry]
  /\ table \in [Nodes -> Row]
  /\ pc \in Walking \cup Stopped
  /\ pos \in 1..(Len(Order) + 1)
  /\ pc \in Walking \ {"scan"} => pos <= Len(Order)
  /\ attempts \in [Nodes -> Nat]
  /\ blamed \subseteq Nodes
  /\ owed \subseteq Nodes
  /\ forced \subseteq owed

cur == Order[pos]

Init ==
  /\ mem = [n \in Nodes |-> Blank]
  /\ table = [n \in Nodes |-> Absent]
  /\ pc = "idle"
  /\ pos = 1
  /\ attempts = [n \in Nodes |-> 0]
  /\ blamed = {}
  /\ owed = {}
  /\ forced = {}

(* Every publication of status is best-effort. *)
WriteTable(new) == table' = new \/ (LossyTable /\ table' = table)

(* Mutants: the scan starts at index 0; the node is tried again where it    *)
(* stands, with a scan of what comes after it; or with no scan at all.     *)
RestartedAtZero == pc' = "scan" /\ pos' = 0
RetriedInPlace == pc' = "scan" /\ pos' = pos
RetriedAtOnce == pc' = "fix" /\ pos' = pos

(* The walk re-plans: it scans again from the most basic node. *)
Restarted == pc' = "scan" /\ pos' = 1

(* fix_state / fix_targets entering _drive_dag_to_ok.  A forced walk marks *)
(* every fixable node in memory and publishes the marks in one write.      *)
StartWalk(force) ==
  /\ pc \in Stopped \ {"terminated"}
  /\ Restarted
  /\ attempts' = [n \in Nodes |-> 0]
  /\ blamed' = {}
  /\ IF force
     THEN /\ mem' = Marked(mem)
          /\ WriteTable(MarkedRows(table))
          /\ owed' = owed \cup Fixable
          /\ forced' = forced \cup {n \in Fixable : mem[n].res # "NONE"}
     ELSE UNCHANGED <<mem, table, owed, forced>>

(* One iteration of the scan, up to the decision: the node is due a        *)
(* re-optimisation, or looks bad (fix it), or looks expired (measure it),  *)
(* or looks good (go on to the next).                                      *)
ScanNode ==
  /\ pc = "scan" /\ pos <= Len(Order)
  /\ LET e == Hydrated(mem[cur], table[cur])
         aged == Aged(e)
     IN IF NeedsReoptimise(cur, e)
        THEN /\ mem' = [mem EXCEPT ![cur] = e]
             /\ pc' = "fix" /\ pos' = pos
        ELSE /\ mem' = [mem EXCEPT ![cur] = aged]
             /\ \/ Guess(aged) = "OK" /\ pc' = "scan" /\ pos' = pos + 1
                \/ Guess(aged) = "EXPIRED" /\ pc' = "check" /\ pos' = pos
                \/ Guess(aged) = "BAD" /\ pc' = "fix" /\ pos' = pos
  /\ UNCHANGED <<table, attempts, blamed, owed, forced>>

(* The scan found nothing to do: the walk returns. *)
Finish ==
  /\ pc = "scan" /\ pos > Len(Order)
  /\ pc' = "done"
  /\ UNCHANGED <<mem, table, pos, attempts, blamed, owed, forced>>

(* _record_own_check: update memory, then publish. *)
RecordCheck(n, r, trial) ==
  /\ mem' = Recorded(mem, n, r, trial)
  /\ WriteTable(Published(table, mem', {n}))

(* The re-measurement of a node that looked expired. *)
CheckPasses ==
  /\ pc = "check"
  /\ RecordCheck(cur, "OK", FALSE)
  /\ pc' = "scan" /\ pos' = pos + 1
  /\ UNCHANGED <<attempts, blamed, owed, forced>>

CheckFails ==
  /\ pc = "check"
  /\ RecordCheck(cur, "BAD", FALSE)
  /\ pc' = "fix"
  /\ UNCHANGED <<pos, attempts, blamed, owed, forced>>

(* Every attempt counts, whatever came of it.  The count is only ever      *)
(* compared with the budget, so it saturates one past it, and is not kept  *)
(* for a node without one.                                                 *)
CountAttempt(n) ==
  attempts' = [attempts EXCEPT ![n] = IF @ > Budget[n] \/ Budget[n] = 0
                                      THEN @ ELSE @ + 1]

(* fix_own_state of the default optimizer on the host: each trial point is *)
(* measured, and recorded, as a check of the node.                         *)
SweepPoint ==
  /\ pc = "fix" /\ cur \in Fixable
  /\ \E r \in {"OK", "BAD"} : RecordCheck(cur, r, TRUE)
  /\ UNCHANGED <<pc, pos, attempts, blamed, owed, forced>>

(* The default optimizer measures its best point once more, and records    *)
(* that too, before it returns; a custom fix_own_state just returns.       *)
FixReturns ==
  /\ pc = "fix" /\ cur \in Fixable
  /\ RecordCheck(cur, "OK", FALSE) \/ UNCHANGED <<mem, table>>
  /\ pc' = "recheck"
  /\ UNCHANGED <<pos, attempts, blamed, owed, forced>>

RecheckPasses ==
  /\ pc = "recheck"
  /\ RecordCheck(cur, "OK", FALSE)
  /\ pc' = "stamp"
  /\ CountAttempt(cur)
  /\ UNCHANGED <<pos, blamed, owed, forced>>

(* A mutant: the fix is stamped, but the mark is left behind. *)
StampFixKeepsMark ==
  /\ pc = "stamp"
  /\ mem' = [mem EXCEPT ![cur].opt = "fresh"]
  /\ WriteTable(Published(table, mem', {cur}))
  /\ owed' = owed \ {cur}
  /\ forced' = forced \ {cur}
  /\ Restarted
  /\ UNCHANGED <<attempts, blamed>>

(* _record_own_fix: stamp, clear the mark, publish; the walk re-plans. *)
StampFix ==
  /\ pc = "stamp"
  /\ mem' = [mem EXCEPT ![cur].opt = "fresh", ![cur].mark = FALSE]
  /\ WriteTable(Published(table, mem', {cur}))
  /\ owed' = owed \ {cur}
  /\ forced' = forced \ {cur}
  /\ Restarted
  /\ UNCHANGED <<attempts, blamed>>

(* A walk that gives up: fix_state also records its own node as broken by  *)
(* a dependency, in memory only; fix_targets records nothing.              *)
GiveUp(m) ==
  /\ pc' = "failed" /\ pos' = pos
  /\ mem' = IF FixState
            THEN [m EXCEPT ![Target].res = "BAD", ![Target].stale = FALSE,
                           ![Target].trial = FALSE]
            ELSE m
  /\ UNCHANGED blamed

(* The failure half of _attempt_one_fix: record the node bad, suspect its  *)
(* dependencies that still look good, and then either spare the node       *)
(* because it blamed someone for the first time, or give up because its    *)
(* budget is spent, or leave it to be tried again.                         *)
FailedAttempt(n) ==
  LET m1    == Recorded(mem, n, "BAD", FALSE)
      m2    == Reviewed(m1, table, n)
      newly == NewlySuspect(m2, n)
      m3    == Suspected(m2, n)
      spent == Budget[n] # 0 /\ attempts[n] + 1 >= Budget[n]
  IN /\ WriteTable(Published(Published(table, m1, {n}), m3, newly))
     /\ CountAttempt(n)
     /\ UNCHANGED <<owed, forced>>
     /\ IF newly # {} /\ n \notin blamed
        THEN blamed' = blamed \cup {n} /\ mem' = m3 /\ Restarted
        ELSE IF spent
        THEN GiveUp(m3)
        ELSE mem' = m3 /\ Restarted /\ UNCHANGED blamed

(* CalibrationError from fix_own_state. *)
FixGivesUp == pc = "fix" /\ cur \in Fixable /\ FailedAttempt(cur)

RecheckFails == pc = "recheck" /\ FailedAttempt(cur)

(* ValueError from the default fix_own_state of a node with nothing to     *)
(* optimise: not a failed attempt, the exception ends the walk.            *)
CannotFix ==
  /\ pc = "fix" /\ cur \notin Fixable
  /\ pc' = "aborted"
  /\ UNCHANGED <<mem, table, pos, attempts, blamed, owed, forced>>

(* So does any other exception: a transitory error beyond its retries, a   *)
(* bug in a calibration.                                                   *)
Raise ==
  /\ \/ pc \in {"check", "recheck"}
     \/ pc = "fix" /\ cur \in Fixable
  /\ pc' = "aborted"
  /\ UNCHANGED <<mem, table, pos, attempts, blamed, owed, forced>>

(* TerminationRequested out of a pause: before each candidate, after a     *)
(* failed attempt (which leaves the walk there too), between sweep points. *)
Terminate ==
  /\ \/ pc = "scan" /\ pos <= Len(Order)
     \/ pc = "fix" /\ cur \in Fixable
  /\ pc' = "terminated"
  /\ UNCHANGED <<mem, table, pos, attempts, blamed, owed, forced>>

(* The worker process goes away, whatever it was doing, and a new one      *)
(* builds its calibrations afresh.                                         *)
Restart ==
  /\ mem' = [n \in Nodes |-> Blank]
  /\ pc' = "idle" /\ pos' = 1
  /\ attempts' = [n \in Nodes |-> 0]
  /\ blamed' = {}
  /\ forced' = {}
  /\ UNCHANGED <<table, owed>>

(* Time passes: a check timeout lapses, or a re-optimise timeout does.     *)
Lapse(n) ==
  /\ LET Old(e) == IF e.res \in {"NONE", "ABSENT"} THEN e
                   ELSE [e EXCEPT !.stale = TRUE]
     IN /\ mem' = [mem EXCEPT ![n] = Old(@)]
        /\ table' = [table EXCEPT ![n] = Old(@)]
  /\ UNCHANGED <<pc, pos, attempts, blamed, owed, forced>>

FallDue(n) ==
  /\ n \in Reopt
  /\ LET Old(e) == IF e.opt = "fresh" THEN [e EXCEPT !.opt = "due"] ELSE e
     IN /\ mem' = [mem EXCEPT ![n] = Old(@)]
        /\ table' = [table EXCEPT ![n] = Old(@)]
  /\ UNCHANGED <<pc, pos, attempts, blamed, owed, forced>>

(* Others write the dataset: pipelines that run the same calibrations,     *)
(* monitors, a second instance of a class.  Each reads the whole table,    *)
(* changes rows or sets marks, and writes the whole table back, with no    *)
(* lock, so that besides the rows it means to publish any row may fall     *)
(* back to what it was, or vanish.  Rewriting one row at a time to any it  *)
(* may hold covers that: a whole table is several such steps on end.  So   *)
(* is a write of theirs that one of this process's undoes.                 *)
OthersWrite(n) ==
  /\ Others
  /\ \E row \in RowsOf(n) : table' = [table EXCEPT ![n] = row]
  /\ UNCHANGED <<mem, pc, pos, attempts, blamed, owed, forced>>

(* The walk's own steps, when nothing interrupts it. *)
WalkStep ==
  \/ ScanNode \/ Finish
  \/ CheckPasses \/ CheckFails
  \/ SweepPoint \/ FixReturns \/ FixGivesUp \/ CannotFix
  \/ RecheckPasses \/ RecheckFails \/ StampFix

Next ==
  \/ WalkStep
  \/ \E force \in BOOLEAN : StartWalk(force)
  \/ Raise \/ Terminate \/ Restart
  \/ \E n \in Nodes : Lapse(n) \/ FallDue(n) \/ OthersWrite(n)

Spec == Init /\ [][Next]_vars

(* The walk's thread runs, and a sweep over finitely many points is over   *)
(* some time.  A calibration may nevertheless fail for ever.               *)
FairSpec == Spec /\ WF_vars(WalkStep) /\ WF_vars(FixReturns \/ FixGivesUp)

-------------------------------------------------------------------------------
(* Safety. *)

(* A node whose record says it needs nothing: measured OK, under no        *)
(* suspicion, not ordered to be re-fixed, and, where it has a re-optimise  *)
(* timeout, fixed at least once.                                           *)
Settled(n) ==
  /\ mem[n].res = "OK" /\ mem[n].susp = {}
  /\ n \in Fixable => ~mem[n].mark
  /\ n \in Reopt => mem[n].opt # "never"

(* Most basic first (calibration.py 198-203): whenever a node is measured  *)
(* or fixed, every node before it in the scan order is settled, although   *)
(* earlier attempts of this very walk may have cast suspicion on any of    *)
(* them.  So nothing is ever calibrated on top of a dependency known to be *)
(* bad or under suspicion.                                                 *)
MostBasicFirst ==
  pc \in Walking => \A i \in 1..(pos - 1) : Settled(Order[i])

(* "Nothing in the DAG is left needing work, so this node is good"         *)
(* (calibration.py 1174): a walk that returns leaves every node settled.   *)
DoneMeansSettled == pc = "done" => \A n \in Nodes : Settled(n)

(* A forced walk re-fixes every fixable node, and "the marks survive       *)
(* interruption" (calibration.py 229-232): whenever any walk returns, in   *)
(* whatever process, every node a forced walk ordered to be re-fixed has   *)
(* been fixed successfully since.  It needs a dataset that nobody else     *)
(* writes.                                                                 *)
ForceHonoured == pc = "done" => owed = {}

(* Suspicion has a cause and travels one hop (calibration.py 440-456): a   *)
(* node is only suspected by a direct dependent, and only while the        *)
(* suspector's own record is not OK.                                       *)
SuspicionHasCause ==
  \A n, m \in Nodes :
    /\ n \in mem[m].susp => m \in Deps[n] /\ mem[n].res # "OK"
    /\ n \in table[m].susp => m \in Deps[n] /\ table[n].res # "OK"

(* Only a successful fix clears an UNCALIBRATED mark or renews the stamp   *)
(* ("This is the ONLY way either is cleared", calibration.py 1485-1488),   *)
(* in the dataset, whatever the walk measures, recalls and overwrites.     *)
OnlyFixClears ==
  [][\A n \in Nodes :
       \/ table[n].mark /\ ~table'[n].mark
       \/ table[n].opt # table'[n].opt /\ table'[n].opt # "due"
       => pc = "stamp" /\ cur = n]_vars

(* "The in-memory marks are what the walk itself consumes" (calibration.py *)
(* 430): whatever others write into the dataset meanwhile, a walk that     *)
(* returns has re-fixed all that forced walks of its process ordered, and  *)
(* of which the process had a check in memory.  A node it had no check of  *)
(* is read from the dataset once more when it is scanned, mark included.   *)
ForcedWalkRefixes == pc = "done" => forced = {}

(* "Even a fail-fast calibration gets its one chance to blame a dependency *)
(* before it gives up" (calibration.py 280-282).                           *)
BlamesBeforeGivingUp ==
  pc = "failed" /\ Deps[cur] # {} => cur \in blamed

(* After blaming, the walk "retries this node with a fresh budget"         *)
(* (calibration.py 995-999): one attempt to blame, then Budget more.       *)
FreshBudgetAfterBlame ==
  pc = "failed" /\ cur \in blamed => attempts[cur] > Budget[cur]

(* A trial measurement's "result describes the point being tried, not the  *)
(* state the calibration was left in" (calibration.py 85-87), so a walk    *)
(* that returns must not rest on one.                                      *)
NoTrialTrusted == pc = "done" => \A n \in Nodes : ~mem[n].trial

(* Liveness. *)

(* "Terminating the run still stops it promptly" (calibration.py 986): a   *)
(* walk, however stubborn its calibrations, keeps coming to a point where  *)
(* it asks the scheduler whether to pause, or ends.                        *)
KeepsYielding == []<>(pc \in {"scan"} \cup Stopped)

(* From some point on no timeout lapses under the walk, nothing raises,    *)
(* terminates or kills it, nobody starts another.                          *)
LeftAlone == <>[][WalkStep]_vars

(* No calibration is hopeless: one that is fixed again and again has a fix *)
(* that returns, and passes its re-check, at last ("a drifting physics     *)
(* system usually needs another attempt", calibration.py 66-70).           *)
On(n, A) == pc \in {"fix", "recheck"} /\ cur = n /\ A
NoneHopeless ==
  \A n \in Nodes : SF_vars(On(n, FixReturns)) /\ SF_vars(On(n, RecheckPasses))

(* A walk that is left alone ends, whatever suspicions its failures cast   *)
(* on the way (calibration.py 205-212: it may change its mind without      *)
(* limit, and still gets there).                                           *)
WalkEnds == LeftAlone /\ NoneHopeless => <>[](pc \in Stopped)
==============================================================================
