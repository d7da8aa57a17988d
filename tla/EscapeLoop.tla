----------------------------- MODULE EscapeLoop -----------------------------
(***************************************************************************)
(* A calibrated experiment (client.py, patch_ndscan.py): the science       *)
(* kernel asks between points whether the calibration DAG still looks      *)
(* healthy; if not it escapes to the host, which walks the DAG and enters  *)
(* the kernel again, up to max_recalibrations times.                       *)
(*                                                                         *)
(* Of a fix walk only its promise is kept: when it returns every node is   *)
(* good, either because its cached check was good enough or because the    *)
(* walk measured it (see FixWalk, DoneMeansSettled).                       *)
(***************************************************************************)
EXTENDS Sequences, Naturals

CONSTANTS
  Nodes,    \* the calibrations of the union of the targets' DAGs
  Order,    \* their walk order
  Fixable,  \* those a forced recalibration marks
  Zero,     \* those that may have a zero check timeout
  MaxRecalibrations

ASSUME EscapeAssumption ==
  /\ Order \in Seq(Nodes) /\ \A n \in Nodes : \E i \in 1..Len(Order) : Order[i] = n
  /\ Fixable \subseteq Nodes /\ Zero \subseteq Nodes
  /\ MaxRecalibrations \in Nat

VARIABLES
  cal,       \* what the process knows of each calibration
  trusting,  \* _trusted_since is set
  consumed,  \* _force_consumed
  pc,        \* where the experiment is
  escapes,   \* escapes so far: the loop's own counter
  args,      \* what was submitted: a scan or not, forced or not, and which
             \* calibrations have a zero timeout: they are stale once checked
  fixes,     \* history: fix walks that have returned, up to one past the bound
  settled,   \* history: the kernel has found the DAG healthy at least once
  pristine,  \* history: it has not, since the last walk
  quiet      \* history: no timeout has lapsed since the last walk

vars == <<cal, trusting, consumed, pc, escapes, args, fixes, settled, pristine, quiet>>
history == <<args, fixes, settled, pristine, quiet>>

Cal == [ok    : BOOLEAN,   \* the cached result is OK
        stale : BOOLEAN,   \* its check timeout has lapsed
        since : BOOLEAN,   \* checked at or after the start of the last walk
        due   : BOOLEAN]   \* _needs_reoptimise

Running == {"enter", "kernel", "point", "escaped", "fixing"}
Over == {"done", "gaveup", "failed"}

TypeOK ==
  /\ cal \in [Nodes -> Cal]
  /\ trusting \in BOOLEAN /\ consumed \in BOOLEAN
  /\ args \in [scanned : BOOLEAN, force : BOOLEAN, zero : SUBSET Zero]
  /\ settled \in BOOLEAN /\ pristine \in BOOLEAN /\ quiet \in BOOLEAN
  /\ pc \in Running \cup Over
  /\ escapes \in 0..(MaxRecalibrations + 1)
  /\ fixes \in 0..(MaxRecalibrations + 1)

(* The status dataset an experiment starts from may say anything.          *)
Init ==
  /\ args \in [scanned : BOOLEAN, force : BOOLEAN, zero : SUBSET Zero]
  /\ cal \in [Nodes -> [ok : BOOLEAN, stale : BOOLEAN, since : {FALSE}, due : BOOLEAN]]
  /\ \A n \in Nodes : n \in args.zero => cal[n].stale
  /\ \A n \in Nodes : n \notin Fixable => ~cal[n].due
  /\ trusting = FALSE /\ consumed = FALSE
  /\ pc = "enter" /\ escapes = 0
  /\ fixes = 0 /\ settled = FALSE /\ pristine = FALSE /\ quiet = FALSE

Enter ==
  /\ pc = "enter" /\ pc' = "kernel"
  /\ UNCHANGED <<cal, trusting, consumed, escapes, history>>

(* _guess_own_state(trusted_since): a node that was checked during the     *)
(* last walk does not expire while that walk is trusted.                   *)
Expired(n) == cal[n].stale /\ ~(trusting /\ cal[n].since)
Unhealthy(n) == ~cal[n].ok \/ Expired(n) \/ cal[n].due

(* A mutant: the order to force is used up, and nothing comes of it. *)
ConsultSwallowsForce ==
  /\ pc = "kernel" /\ args.force /\ ~consumed
  /\ consumed' = TRUE
  /\ UNCHANGED <<cal, trusting, pc, escapes, history>>

(* _needs_recalibration: a forced one marks every fixable node, once.      *)
ConsultForced ==
  /\ pc = "kernel" /\ args.force /\ ~consumed
  /\ consumed' = TRUE
  /\ cal' = [n \in Nodes |-> [cal[n] EXCEPT !.due = @ \/ n \in Fixable]]
  /\ pc' = "escaped"
  /\ UNCHANGED <<trusting, escapes, history>>

(* Any other looks at the nodes in walk order, up to the first that is not *)
(* healthy; guessing turns an expired one into not-OK.                     *)
ConsultUnhealthy ==
  /\ pc = "kernel" /\ (args.force => consumed)
  /\ \E i \in 1..Len(Order) :
       /\ Unhealthy(Order[i]) /\ \A j \in 1..(i - 1) : ~Unhealthy(Order[j])
       /\ cal' = [cal EXCEPT ![Order[i]].ok = @ /\ ~Expired(Order[i])]
  /\ pc' = "escaped"
  /\ UNCHANGED <<trusting, consumed, escapes, history>>

(* A mutant: the walk is trusted for good. *)
ConsultStillTrusting ==
  /\ pc = "kernel" /\ (args.force => consumed)
  /\ \A n \in Nodes : ~Unhealthy(n)
  /\ settled' = TRUE /\ pristine' = FALSE
  /\ pc' = "point"
  /\ UNCHANGED <<cal, trusting, consumed, escapes, args, fixes, quiet>>

(* If all are healthy, what the last walk measured is no longer trusted    *)
(* beyond its timeout.                                                     *)
ConsultHealthy ==
  /\ pc = "kernel" /\ (args.force => consumed)
  /\ \A n \in Nodes : ~Unhealthy(n)
  /\ trusting' = FALSE
  /\ settled' = TRUE /\ pristine' = FALSE
  /\ pc' = "point"
  /\ UNCHANGED <<cal, consumed, escapes, args, fixes, quiet>>

(* One point is taken: the kernel goes on to the next, or is done, or      *)
(* returns to the host for a scheduler pause, after which it is entered    *)
(* again without an escape.                                                *)
Point ==
  /\ pc = "point"
  /\ pc' \in {"kernel", "done", "enter"}
  /\ UNCHANGED <<cal, trusting, consumed, escapes, history>>

(* A mutant: the count starts over with every escape. *)
EscapeUncounted ==
  /\ pc = "escaped" /\ args.scanned
  /\ escapes' = 0
  /\ pc' = "fixing"
  /\ UNCHANGED <<cal, trusting, consumed, history>>

(* A scan gives up before the fix that would be one too many.              *)
EscapeScan ==
  /\ pc = "escaped" /\ args.scanned
  /\ escapes' = escapes + 1
  /\ pc' = IF escapes' > MaxRecalibrations THEN "gaveup" ELSE "fixing"
  /\ UNCHANGED <<cal, trusting, consumed, history>>

(* drive_with_recalibration fixes after every escape, the last included.   *)
EscapeContinuous ==
  /\ pc = "escaped" /\ ~args.scanned
  /\ escapes' = escapes + 1
  /\ pc' = "fixing"
  /\ UNCHANGED <<cal, trusting, consumed, history>>

GoOn ==
  pc' = IF ~args.scanned /\ escapes > MaxRecalibrations THEN "gaveup" ELSE "enter"

(* What a returning walk leaves of a node: measured during it, or not      *)
(* measured because its cached check was good enough at that time.         *)
Measured(n) == {[ok |-> TRUE, stale |-> n \in args.zero, since |-> TRUE, due |-> FALSE]}
Untouched(n) ==
  IF cal[n].ok /\ ~cal[n].stale /\ ~cal[n].due THEN {[cal[n] EXCEPT !.since = FALSE]} ELSE {}

CountFix == fixes' = IF fixes > MaxRecalibrations THEN fixes ELSE fixes + 1

(* A mutant: the start of the walk is not kept. *)
RecalibrateUntrusted ==
  /\ pc = "fixing"
  /\ cal' \in [Nodes -> Cal]
  /\ \A n \in Nodes : cal'[n] \in Measured(n) \cup Untouched(n)
  /\ trusting' = FALSE
  /\ CountFix /\ pristine' = TRUE /\ quiet' = TRUE
  /\ GoOn
  /\ UNCHANGED <<consumed, escapes, args, settled>>

(* _recalibrate: walk, then trust what was checked since the walk began.   *)
Recalibrate ==
  /\ pc = "fixing"
  /\ cal' \in [Nodes -> Cal]
  /\ \A n \in Nodes : cal'[n] \in Measured(n) \cup Untouched(n)
  /\ trusting' = TRUE
  /\ CountFix /\ pristine' = TRUE /\ quiet' = TRUE
  /\ GoOn
  /\ UNCHANGED <<consumed, escapes, args, settled>>

(* A walk that raises (CalibrationError, TerminationRequested) ends the    *)
(* experiment.                                                             *)
RecalibrateFails ==
  /\ pc = "fixing"
  /\ pc' = "failed"
  /\ UNCHANGED <<cal, trusting, consumed, escapes, history>>

(* A check timeout lapses, or a re-optimise timeout. *)
Lapse(n) ==
  /\ pc \in Running
  /\ \/ cal' = [cal EXCEPT ![n].stale = TRUE]
     \/ n \in Fixable /\ cal' = [cal EXCEPT ![n].due = TRUE]
  /\ quiet' = FALSE
  /\ UNCHANGED <<trusting, consumed, pc, escapes, args, fixes, settled, pristine>>

Step ==
  \/ Enter \/ ConsultForced \/ ConsultUnhealthy \/ ConsultHealthy \/ Point
  \/ EscapeScan \/ EscapeContinuous \/ Recalibrate \/ RecalibrateFails

Next == Step \/ \E n \in Nodes : Lapse(n)

Spec == Init /\ [][Next]_vars

(* The kernel runs, and a fix walk ends. *)
FairSpec == Spec /\ WF_vars(Step)

-------------------------------------------------------------------------------

(* After a walk, with no timeout lapsed since, the kernel settles: even a  *)
(* node with a zero check timeout does not make it escape again before it  *)
(* has run (client.py 170-174, 262-265).                                   *)
SettlesAfterFix == pc = "escaped" => ~(pristine /\ quiet)

(* Every point is taken with all calibrations good and in time, except     *)
(* that the first point after a walk may rest on what the walk measured.   *)
NoStaleScience ==
  [][pc = "kernel" /\ pc' = "point"
       => \A n \in Nodes : /\ cal[n].ok /\ ~cal[n].due
                           /\ cal[n].stale => pristine /\ cal[n].since]_vars

(* No science before a forced recalibration (client.py 217-222). *)
ForcedBeforeScience == args.force /\ settled => fixes > 0

(* "The fix is bounded so a non-converging calibration cannot loop         *)
(* forever" (client.py 72-73): between points, escapes come to an end.     *)
NoEscapeLoop == []<>(pc \in {"point"} \cup Over)

(* max_recalibrations is "max escape-fix cycles before giving up"          *)
(* (client.py 80).                                                         *)
FixesWithinBound == fixes <= MaxRecalibrations

(* It gives up on "escaped for recalibration more than N times without     *)
(* settling" (client.py 93-95, patch_ndscan.py 126-129).                   *)
GivesUpUnsettled == pc = "gaveup" => ~settled
==============================================================================
