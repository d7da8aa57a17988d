----------------------------- MODULE WalkContract -----------------------------
(***************************************************************************)
(* What a fix walk promises (calibration.py: fix_targets and what its      *)
(* documentation says of it), with no scan, no memory, no dataset: which   *)
(* calibrations need work, and which of them somebody has ordered to be    *)
(* re-fixed.  FixWalk implements it (WalkRefinement); a caller need know   *)
(* no more.                                                                *)
(***************************************************************************)
EXTENDS Naturals

CONSTANTS
  Nodes, Deps, Below,  \* the calibrations; direct, and all, dependencies
  Fixable,  \* what a forced walk orders to be re-fixed
  Held      \* the part of it whose orders nobody else can undo

VARIABLES
  phase,  \* "walking", "returned", "stopped"
  work,   \* the calibrations that need work
  due     \* those ordered to be re-fixed, and not re-fixed since

Init == phase = "stopped" /\ work = Nodes /\ due = {}

(* A walk begins; a forced one orders everything fixable to be re-fixed.   *)
Call(force) ==
  /\ phase # "walking" /\ phase' = "walking"
  /\ IF force
     THEN work' = work \cup Fixable /\ due' = due \cup Held
     ELSE UNCHANGED <<work, due>>

(* The walk turns to one calibration, below which nothing needs work.  It  *)
(* may come good, or turn out bad, and cast doubt on its direct            *)
(* dependencies; nothing else changes.  An order is only carried out by    *)
(* leaving the calibration good.                                           *)
Touch(n) ==
  /\ phase = "walking"
  /\ Below[n] \cap work = {}
  /\ work \ {n} \subseteq work'
  /\ work' \subseteq work \cup {n} \cup Deps[n]
  /\ due' = due \/ (due' = due \ {n} /\ n \notin work')

Tend(n) == Touch(n) /\ phase' = "walking"
GiveUp(n) == Touch(n) /\ n \in work' /\ phase' = "stopped"

(* A walk returns when there is nothing left to do, ordered or not.        *)
Return ==
  /\ phase = "walking" /\ work = {} /\ due = {}
  /\ phase' = "returned" /\ UNCHANGED <<work, due>>

(* A walk that is terminated, or ended by an exception, undoes nothing; a  *)
(* process that dies takes what it knew with it, but no order.             *)
Stop == phase = "walking" /\ phase' = "stopped" /\ UNCHANGED <<work, due>>
Die == phase' = "stopped" /\ work' = Nodes /\ due' = due

Next ==
  \/ \E force \in BOOLEAN : Call(force)
  \/ \E n \in Nodes : Tend(n) \/ GiveUp(n)
  \/ Return \/ Stop \/ Die

Spec == Init /\ [][Next]_<<phase, work, due>>
==============================================================================
